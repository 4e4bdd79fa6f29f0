------------------------------- MODULE DirReader -------------------------------
(***************************************************************************)
(* The directory reader of logd -r (cmd/logd/watcher.go), with the two     *)
(* things it talks to: the Linux directory and its inotify queue           *)
(* (external) and the goroutine readEvents of the vendored fsnotify.       *)
(*                                                                         *)
(* One directory of regular files is modelled.  Data is counted: size[i]   *)
(* is the amount written to inode i since the reader started, a descriptor *)
(* is an inode and an offset, and handed[i] is the amount of inode i that  *)
(* Read has given to the pipeline.                                         *)
(*                                                                         *)
(* Other programs create and append to every name; the names in Rotated    *)
(* they also rename, unlink and truncate, as far as Moves says.  The       *)
(* system may refuse to open or to watch a file that is there (no          *)
(* permission, no descriptor or watch left), which ends the reader.        *)
(* Assumed restricts the other programs further:                           *)
(*   "settled"  a name is written only when no event about its creation or *)
(*              renaming is on its way to the reader;                      *)
(*   "paced"    a file never holds more unread data than one buffer.       *)
(* Directories inside the directory, chmod events and IN_DELETE_SELF (which *)
(* follows the close of the last descriptor of an unlinked file, when      *)
(* watcher.Remove has failed already) are left out.                        *)
(***************************************************************************)
EXTENDS Integers, Sequences, FiniteSets

CONSTANTS
    Names,      \* the paths in the watched directory
    Existing,   \* the names that exist when the reader starts
    Rotated,    \* the names other programs may rename, unlink and truncate
    Moves,      \* which of these they do
    MaxInodes,  \* how many files are created in all
    MaxMoves,   \* how many renamings, removals and truncations happen
    MaxSize,    \* how much is written to one file
    BufSize,    \* what one Read takes at most
    MaxQueue,   \* the kernel's limit on queued events
    Assumed,    \* what is assumed of the other programs
    absent,     \* no entry in DirReader.files
    nil,        \* a nil entry
    overflow,   \* the event that the queue overflowed
    nameless,   \* a removal or renaming that fsnotify sends with the name ""
    None

Inodes == 1 .. MaxInodes
Conditions == {"settled", "paced"}
AllMoves == {"rename", "unlink", "truncate"}

ASSUME DirAssumption ==
    /\ IsFiniteSet(Names) /\ Existing \subseteq Names /\ Rotated \subseteq Names
    /\ Moves \subseteq AllMoves
    /\ MaxInodes \in Nat /\ Cardinality(Existing) <= MaxInodes
    /\ MaxMoves \in Nat /\ MaxSize \in Nat /\ BufSize \in Nat \ {0} /\ MaxQueue \in Nat \ {0}
    /\ Assumed \subseteq Conditions
    /\ None \notin Names \cup Inodes /\ Names \cap Inodes = {}

VARIABLES
    ino,      \* the directory: the inode a name is linked to, or None
    made,     \* how many inodes exist
    size,     \* what was written to each inode
    queue,    \* the inotify queue, with what readEvents has read of it
    watches,  \* Watcher.watches: the inode a file of its own watch has, or None
    paths,    \* Watcher.paths: the path recorded for the watch of an inode
    watched,  \* the inodes the kernel watches
    sending,  \* the event readEvents offers on Watcher.Events, or None
    files,    \* DirReader.files: absent, nil, or a descriptor
    pc,       \* where Read is
    event,    \* the event Read handles
    handed,   \* what Read returned of each inode
    moves     \* how many renamings, removals and truncations happened

disk == <<ino, made, size, moves>>
watcher == <<watches, paths, watched>>
reader == <<files, pc, event, handed>>
vars == <<ino, made, size, moves, queue, watches, paths, watched, sending,
          files, pc, event, handed>>

watchFile == [ino : Inodes, off : 0 .. MaxSize]
Ops == {"Create", "Write", "Remove", "Rename"}
Event == [op : Ops, name : Names]
RawEvent == [op : Ops, on : Names \cup Inodes] \cup {overflow}

ASSUME MarkAssumption ==
    /\ absent # nil /\ absent \notin watchFile /\ nil \notin watchFile
    /\ None \notin Event \cup {overflow, nameless}
    /\ nameless \notin Event \cup {overflow}
    /\ overflow \notin Event \cup [op : Ops, on : Names \cup Inodes]

running == pc \in {"waiting", "have"}
Open(n) == files[n] \notin {absent, nil}

\* One type invariant for the module.
TypeOK ==
    /\ ino \in [Names -> Inodes \cup {None}]
    /\ made \in 0 .. MaxInodes
    /\ size \in [Inodes -> 0 .. MaxSize]
    /\ queue \in Seq(RawEvent) /\ Len(queue) <= MaxQueue + 1
    /\ watches \in [Names -> Inodes \cup {None}]
    /\ paths \in [Inodes -> Names \cup {None}]
    /\ watched \subseteq Inodes
    /\ sending \in Event \cup {None, overflow, nameless}
    /\ files \in [Names -> watchFile \cup {absent, nil}]
    /\ pc \in {"waiting", "have", "failed", "refused", "overflowed", "panicked", "closed"}
    /\ event \in Event \cup {None}
    /\ handed \in [Inodes -> Nat]
    /\ moves \in 0 .. MaxMoves

\* scanFiles of the directory opens every file that exists and seeks to its end
\* (d.tail).
scanFiles(f) ==
    [n \in Names |-> IF n \in Existing THEN [ino |-> f[n], off |-> 0] ELSE absent]

\* NewReader, and the Watch of the directory that getReader calls.
Init ==
    \E f \in [Existing -> 1 .. Cardinality(Existing)] :
        /\ \A m, n \in Existing : f[m] = f[n] => m = n
        /\ ino = [n \in Names |-> IF n \in Existing THEN f[n] ELSE None]
        /\ made = Cardinality(Existing)
        /\ size = [i \in Inodes |-> 0]
        /\ queue = <<>> /\ sending = None
        /\ watches = [n \in Names |-> None]
        /\ paths = [i \in Inodes |-> None]
        /\ watched = {}
        /\ files = scanFiles(f)
        /\ pc = "waiting" /\ event = None
        /\ handed = [i \in Inodes |-> 0]
        /\ moves = 0

----------------------------------------------------------------------------
(* The directory, as the kernel and the other programs change it *)

\* The kernel may merge an event with an equal one at the end of its queue.
\* When the queue is full one overflow event replaces whatever comes.
Queued(q, e) ==
    IF Len(q) >= MaxQueue
    THEN {IF q[Len(q)] = overflow THEN q ELSE Append(q, overflow)}
    ELSE {Append(q, e)} \cup {p \in {q} : p # <<>> /\ p[Len(p)] = e}

\* The events of an inode that has a watch of its own come twice: once from
\* the directory and once from the inode.
Notify(q, op, n, i) ==
    UNION {IF i \in watched THEN Queued(p, [op |-> op, on |-> i]) ELSE {p} :
              p \in Queued(q, [op |-> op, on |-> n])}

Create(n) ==
    /\ running /\ ino[n] = None /\ made < MaxInodes
    /\ made' = made + 1
    /\ ino' = [ino EXCEPT ![n] = made + 1]
    /\ queue' \in Queued(queue, [op |-> "Create", on |-> n])
    /\ UNCHANGED <<size, moves, watcher, sending, reader>>

\* Events about the coming of name n that the reader has not finished with.
Coming(n) ==
    \/ \E k \in 1 .. Len(queue) :
          /\ queue[k] # overflow
          /\ queue[k].on = n /\ queue[k].op # "Write"
    \/ \E e \in {sending, event} \cap Event : e.name = n /\ e.op # "Write"

Write(n) ==
    /\ running /\ ino[n] # None /\ size[ino[n]] < MaxSize
    /\ "settled" \in Assumed => ~Coming(n)
    /\ "paced" \in Assumed => size[ino[n]] - handed[ino[n]] < BufSize
    /\ size' = [size EXCEPT ![ino[n]] = @ + 1]
    /\ queue' \in Notify(queue, "Write", n, ino[n])
    /\ UNCHANGED <<ino, made, moves, watcher, sending, reader>>

Unlink(n) ==
    /\ running /\ "unlink" \in Moves /\ n \in Rotated /\ ino[n] # None
    /\ ino' = [ino EXCEPT ![n] = None]
    /\ moves < MaxMoves /\ moves' = moves + 1
    /\ queue' \in Queued(queue, [op |-> "Remove", on |-> n])
    /\ UNCHANGED <<made, size, watcher, sending, reader>>

Rename(n, m) ==
    /\ running /\ "rename" \in Moves /\ n \in Rotated /\ m \in Rotated
    /\ ino[n] # None /\ ino[m] = None
    /\ ino' = [ino EXCEPT ![n] = None, ![m] = ino[n]]
    /\ moves < MaxMoves /\ moves' = moves + 1
    /\ \E q \in Queued(queue, [op |-> "Rename", on |-> n]) :
          \E p \in Queued(q, [op |-> "Create", on |-> m]) :
             queue' \in IF ino[n] \in watched
                        THEN Queued(p, [op |-> "Rename", on |-> ino[n]])
                        ELSE {p}
    /\ UNCHANGED <<made, size, watcher, sending, reader>>

Truncate(n) ==
    /\ running /\ "truncate" \in Moves /\ n \in Rotated /\ ino[n] # None /\ size[ino[n]] > 0
    /\ size' = [size EXCEPT ![ino[n]] = 0]
    /\ moves < MaxMoves /\ moves' = moves + 1
    /\ handed' = [handed EXCEPT ![ino[n]] = 0]
    /\ queue' \in Notify(queue, "Write", n, ino[n])
    /\ UNCHANGED <<ino, made, watcher, sending, files, pc, event>>

----------------------------------------------------------------------------
(* fsnotify *)

\* readEvents takes the next event, names it and drops it if it is about a
\* file that is gone, unless it says that the file is gone.  The name of an inode
\* whose path the watcher has forgotten is "".
readEvents ==
    /\ running /\ sending = None /\ queue # <<>>
    /\ queue' = Tail(queue)
    /\ LET raw == Head(queue)
           name == IF raw.on \in Names THEN raw.on ELSE paths[raw.on]
           leaves == raw.op \in {"Remove", "Rename"}
       IN  sending' = IF raw = overflow THEN raw
                      ELSE IF name = None THEN (IF leaves THEN nameless ELSE None)
                           ELSE IF leaves \/ ino[name] # None
                                THEN [op |-> raw.op, name |-> name]
                                ELSE None
    /\ UNCHANGED <<disk, watcher, reader>>

----------------------------------------------------------------------------
(* DirReader *)

\* Mutant: the file is opened again, at its end, at every event.
addFileAgain(n) ==
    IF ino[n] = None THEN files
    ELSE [files EXCEPT ![n] = [ino |-> ino[n], off |-> size[ino[n]]]]

\* addFile with the path open: nothing when the map knows the name, even as
\* nil; otherwise open it and seek to the end.
addFile(n) ==
    IF files[n] = absent
    THEN [files EXCEPT ![n] = [ino |-> ino[n], off |-> size[ino[n]]]]
    ELSE files

\* Read receives an event and looks its file up: getFileInfo adds the file if
\* need be.  An open that fails ends the read, as it does for a name that is gone,
\* for the name "" and when the system refuses it; a nil entry stays nil and its
\* info is read through a nil pointer.
getFileInfo ==
    /\ pc = "waiting" /\ sending # None
    /\ sending' = None
    /\ IF sending = overflow
       THEN pc' = "overflowed" /\ UNCHANGED <<files, event>>
       ELSE IF sending = nameless
       THEN pc' = "failed" /\ UNCHANGED <<files, event>>
       ELSE LET n == sending.name IN
            IF files[n] = absent /\ ino[n] = None
            THEN pc' = "failed" /\ UNCHANGED <<files, event>>
            ELSE \/ /\ files' = addFile(n)
                    /\ pc' = IF files[n] = nil THEN "panicked" ELSE "have"
                    /\ event' = IF files[n] = nil THEN None ELSE sending
                 \/ /\ files[n] = absent
                    /\ pc' = "refused" /\ UNCHANGED <<files, event>>
    /\ UNCHANGED <<disk, queue, watcher, handed>>

Smaller(a, b) == IF a < b THEN a ELSE b

\* Mutant: a read that does not fill the buffer returns nothing.
readFileFullOnly ==
    /\ pc = "have" /\ event.op = "Write"
    /\ LET fd == files[event.name]
           n == IF size[fd.ino] - fd.off > BufSize THEN BufSize ELSE 0
       IN  /\ files' = [files EXCEPT ![event.name].off = @ + n]
           /\ handed' = [handed EXCEPT ![fd.ino] = @ + n]
    /\ pc' = "waiting" /\ event' = None
    /\ UNCHANGED <<disk, queue, watcher, sending>>

\* A write: Read returns what one read of the descriptor gives; at or past the
\* end of the file that is nothing, and no error.
readFile ==
    /\ pc = "have" /\ event.op = "Write"
    /\ LET fd == files[event.name]
           unread == size[fd.ino] - fd.off
           n == IF unread > 0 THEN Smaller(unread, BufSize) ELSE 0
       IN  /\ files' = [files EXCEPT ![event.name].off = @ + n]
           /\ handed' = [handed EXCEPT ![fd.ino] = @ + n]
    /\ pc' = "waiting" /\ event' = None
    /\ UNCHANGED <<disk, queue, watcher, sending>>

removeFile(n) == [files EXCEPT ![n] = nil]

\* A removal: close the descriptor, leave nil in the map and remove the file's
\* own watch.  The watch is gone from the kernel, which is an error, unless the
\* inode is still linked, open here under another name, or open elsewhere.
Remove ==
    /\ pc = "have" /\ event.op = "Remove"
    /\ LET n == event.name
           i == watches[n]
       IN  \E elsewhere \in BOOLEAN :
           LET alive == \/ elsewhere
                        \/ \E m \in Names : ino[m] = i
                        \/ \E m \in Names \ {n} : Open(m) /\ files[m].ino = i
               found == i # None /\ i \in watched /\ alive
           IN  /\ files' = removeFile(n)
               /\ watches' = [watches EXCEPT ![n] = None]
               /\ paths' = IF i = None THEN paths ELSE [paths EXCEPT ![i] = None]
               /\ watched' = watched \ {i}
               /\ pc' = IF found THEN "waiting" ELSE "failed"
    /\ event' = None
    /\ UNCHANGED <<disk, queue, sending, handed>>

\* Mutant: adding a file twice panics.
WatchTwicePanics ==
    /\ pc = "have" /\ event.op = "Create"
    /\ pc' = IF files[event.name] = absent THEN "waiting" ELSE "panicked"
    /\ event' = None
    /\ UNCHANGED <<disk, queue, watcher, sending, files, handed>>

\* A creation: Watch gives the file a watch of its own and scans it, which adds
\* it to the map if it is not there.  A path known to the watcher gets the new
\* descriptor but the descriptor does not get the path.  The system may refuse
\* the watch.
Watch ==
    /\ pc = "have" /\ event.op = "Create"
    /\ LET n == event.name IN
       IF ino[n] = None
       THEN pc' = "failed" /\ UNCHANGED <<watcher, files>>
       ELSE \/ /\ watched' = watched \cup {ino[n]}
               /\ watches' = [watches EXCEPT ![n] = ino[n]]
               /\ paths' = IF watches[n] = None THEN [paths EXCEPT ![ino[n]] = n] ELSE paths
               /\ files' = addFile(n)
               /\ pc' = "waiting"
            \/ pc' = "refused" /\ UNCHANGED <<watcher, files>>
    /\ event' = None
    /\ UNCHANGED <<disk, queue, sending, handed>>

\* A renaming is no case of the switch: Read waits for the next event.
Skip ==
    /\ pc = "have" /\ event.op = "Rename"
    /\ pc' = "waiting" /\ event' = None
    /\ UNCHANGED <<disk, queue, watcher, sending, files, handed>>

\* Close closes the descriptor of every entry, a nil one too.
Close ==
    /\ pc = "waiting"
    /\ pc' = IF \E n \in Names : files[n] = nil THEN "panicked" ELSE "closed"
    /\ UNCHANGED <<disk, queue, watcher, sending, files, event, handed>>

Read == getFileInfo \/ readFile \/ Remove \/ Watch \/ Skip

Next ==
    \/ \E n \in Names : Create(n) \/ Write(n) \/ Unlink(n) \/ Truncate(n)
    \/ \E n, m \in Names : Rename(n, m)
    \/ readEvents
    \/ Read
    \/ Close

Spec == Init /\ [][Next]_vars /\ WF_vars(readEvents) /\ WF_vars(Read)

----------------------------------------------------------------------------
(* Properties *)

Ingested(n) == ino[n] # None => handed[ino[n]] = size[ino[n]]

quiet == pc = "waiting" /\ queue = <<>> /\ sending = None

\* Whenever no event is left, everything written to the files that are only
\* created and appended to has been handed to the pipeline: merged events, the
\* double events of a file with its own watch and what happens to other names
\* lose nothing of them.
CaughtUp == quiet => \A n \in Names \ Rotated : Ingested(n)

\* The promise of the flag -r: all the new data written to files is ingested.
IngestsAllNewData == quiet => \A n \in Names : Ingested(n)

\* However other programs create and append to files, and however the events
\* about them overtake one another, the reader does not stumble by itself: it meets
\* a name that is gone, a nil entry or a missing watch only after a name was
\* renamed, unlinked or truncated.  What else ends it is the system, which refuses
\* an open or a watch, and an overflow of the queue.
FailsOnlyAfterMove == pc \in {"failed", "panicked"} => moves > 0

\* What is written to a file that is only appended to reaches the pipeline,
\* unless the reader ends.
EventuallyIngested ==
    \A n \in Names \ Rotated : (running /\ ~Ingested(n)) ~> (Ingested(n) \/ ~running)
================================================================================
