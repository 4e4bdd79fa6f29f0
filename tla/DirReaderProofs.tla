-------------------------- MODULE DirReaderProofs --------------------------
(***************************************************************************)
(* Proofs about DirReader, for any names, files, limits of the queue and   *)
(* buffers.  What the kernel does to its queue is told by Grown: nothing   *)
(* is taken away, and what must be added is there unless the queue has     *)
(* overflowed.  FailsOnlyAfterMove follows from Untouched: as long as      *)
(* nothing was moved every event is about a file that is there.  CaughtUp  *)
(* follows from Following: a file that is only created and appended to is  *)
(* open at the place the pipeline has reached, or still empty and coming,  *)
(* and what is unread is announced.                                        *)
(***************************************************************************)
EXTENDS DirReader, FiniteSetTheorems, SequenceTheorems, TLAPS

-----------------------------------------------------------------------------
(* The queue of inotify *)

\* The events that are not the overflow.
Known == [op : Ops, on : Names \cup Inodes]

\* Event e is in queue q.
Has(q, e) == \E k \in 1 .. Len(q) : q[k] = e

\* The limit of the queue leaves room for one more event, the overflow.
Fits(q) ==
    /\ Len(q) <= MaxQueue + 1
    /\ Len(q) > MaxQueue => q[Len(q)] = overflow

\* The kernel made p of q by adding events of all, those of must among them
\* unless the queue has overflowed.
Grown(q, p, must, all) ==
    /\ p \in Seq(RawEvent)
    /\ \A x \in RawEvent : Has(q, x) => Has(p, x)
    /\ \A x \in RawEvent : Has(p, x) => Has(q, x) \/ x \in all \cup {overflow}
    /\ \A x \in must : Has(p, x) \/ Has(p, overflow)
    /\ Fits(q) => Fits(p)

\* What is in a queue after an event was added ...
LEMMA HasAppend ==
    ASSUME NEW q \in Seq(RawEvent), NEW e \in RawEvent, NEW x
    PROVE  Has(Append(q, e), x) <=> Has(q, x) \/ x = e
<1>1. /\ Len(q) \in Nat /\ Len(Append(q, e)) = Len(q) + 1
      /\ \A k \in 1 .. Len(q) : Append(q, e)[k] = q[k]
      /\ Append(q, e)[Len(q) + 1] = e
  BY AppendProperties
<1> QED BY <1>1 DEF Has

\* ... and after the first one was taken.
LEMMA HasTail ==
    ASSUME NEW q \in Seq(RawEvent), q # <<>>, NEW x
    PROVE  Has(q, x) <=> x = Head(q) \/ Has(Tail(q), x)
<1>1. /\ Len(q) \in Nat \ {0} /\ Len(Tail(q)) = Len(q) - 1
      /\ \A k \in 1 .. Len(Tail(q)) : Tail(q)[k] = q[k + 1]
      /\ Head(q) = q[1]
  OBVIOUS
<1>2. ASSUME NEW k \in 1 .. Len(q), k # 1
      PROVE  k - 1 \in 1 .. Len(Tail(q)) /\ Tail(q)[k - 1] = q[k]
  <2>1. k - 1 \in 1 .. Len(Tail(q))
    BY <1>1, <1>2
  <2> QED BY <1>1, <2>1
<1>3. Has(q, x) => x = Head(q) \/ Has(Tail(q), x)
  BY <1>1, <1>2 DEF Has
<1>4. x = Head(q) => Has(q, x)
  BY <1>1 DEF Has
<1>5. Has(Tail(q), x) => Has(q, x)
  <2>1. \A k \in 1 .. Len(Tail(q)) : k + 1 \in 1 .. Len(q)
    BY <1>1
  <2> QED BY <1>1, <2>1 DEF Has
<1> QED BY <1>3, <1>4, <1>5

\* The queue stays within its limit when an event is taken.
LEMMA FitsTail ==
    ASSUME NEW q \in Seq(RawEvent), q # <<>>, Fits(q)
    PROVE  Tail(q) \in Seq(RawEvent) /\ Fits(Tail(q))
<1>1. /\ Len(q) \in Nat \ {0} /\ Len(Tail(q)) = Len(q) - 1 /\ Tail(q) \in Seq(RawEvent)
  OBVIOUS
<1>2. MaxQueue \in Nat
  BY DirAssumption
<1> QED BY <1>1, <1>2 DEF Fits

\* An event is added, merged with an equal one at the end, or lost to an overflow.
LEMMA QueuedGrows ==
    ASSUME NEW q \in Seq(RawEvent), NEW e \in Known, NEW p \in Queued(q, e)
    PROVE  Grown(q, p, {e}, {e})
<1>1. e \in RawEvent /\ overflow \in RawEvent /\ MaxQueue \in Nat \ {0} /\ Len(q) \in Nat
  BY DirAssumption DEF Known, RawEvent
<1>2. CASE p = q /\ q # <<>> /\ q[Len(q)] \in {e, overflow}
  <2>1. Len(q) \in 1 .. Len(q)
    BY <1>1, <1>2
  <2> QED BY <1>2, <2>1 DEF Grown, Has
<1>3. CASE Len(q) >= MaxQueue /\ q[Len(q)] # overflow /\ p = Append(q, overflow)
  <2>1. p \in Seq(RawEvent) /\ Len(p) = Len(q) + 1 /\ p[Len(q) + 1] = overflow
    BY <1>1, <1>3, AppendProperties
  <2>2. Fits(q) => Fits(p)
    BY <1>1, <1>3, <2>1 DEF Fits
  <2> QED BY <1>1, <1>3, <2>1, <2>2, HasAppend DEF Grown
<1>4. CASE Len(q) < MaxQueue /\ p = Append(q, e)
  <2>1. p \in Seq(RawEvent) /\ Len(p) = Len(q) + 1
    BY <1>1, <1>4, AppendProperties
  <2>2. Fits(q) => Fits(p)
    BY <1>1, <1>4, <2>1 DEF Fits
  <2> QED BY <1>1, <1>4, <2>1, <2>2, HasAppend DEF Grown
<1>5. q = <<>> => Len(q) < MaxQueue
  BY <1>1
<1> QED BY <1>1, <1>2, <1>3, <1>4, <1>5 DEF Queued

\* One event after another.
LEMMA GrownTwice ==
    ASSUME NEW q, NEW p, NEW r, NEW must, NEW all, NEW must2, NEW all2,
           Grown(q, p, must, all), Grown(p, r, must2, all2), must \subseteq RawEvent
    PROVE  Grown(q, r, must \cup must2, all \cup all2)
<1>1. overflow \in RawEvent
  BY DEF RawEvent
<1> QED BY <1>1 DEF Grown

\* The two events of a file that has a watch of its own.
LEMMA NotifyGrows ==
    ASSUME NEW q \in Seq(RawEvent), NEW o \in Ops, NEW n \in Names, NEW i \in Inodes,
           NEW p \in Notify(q, o, n, i)
    PROVE  Grown(q, p, {[op |-> o, on |-> n]}, {[op |-> o, on |-> n], [op |-> o, on |-> i]})
<1> DEFINE a == [op |-> o, on |-> n]
           b == [op |-> o, on |-> i]
<1>1. a \in Known /\ b \in Known /\ a \in RawEvent
  BY DEF Known, RawEvent
<1>2. PICK r \in Queued(q, a) : p \in IF i \in watched THEN Queued(r, b) ELSE {r}
  BY DEF Notify
<1>3. Grown(q, r, {a}, {a})
  BY <1>1, <1>2, QueuedGrows
<1>4. CASE p = r
  BY <1>3, <1>4 DEF Grown
<1>5. CASE p \in Queued(r, b)
  <2>1. Grown(r, p, {b}, {b})
    BY <1>1, <1>3, <1>5, QueuedGrows DEF Grown
  <2> HIDE DEF a, b
  <2>2. Grown(q, p, {a} \cup {b}, {a} \cup {b})
    BY <1>1, <1>3, <2>1, GrownTwice
  <2>3. Grown(q, p, {a}, {a, b})
    BY <2>2 DEF Grown
  <2> QED BY <2>3 DEF a, b
<1> QED BY <1>2, <1>4, <1>5
-----------------------------------------------------------------------------
(* Types *)

\* Read has an event in hand exactly when it has looked its file up, and the
\* file is open.
Handling ==
    /\ pc = "have" <=> event # None
    /\ pc = "have" => Open(event.name)

TypeInv == TypeOK /\ Fits(queue) /\ Handling

\* How the steps of other programs make the queue grow.
LEMMA DiskGrows ==
    ASSUME TypeOK, NEW n \in Names
    PROVE  /\ Create(n) => Grown(queue, queue', {[op |-> "Create", on |-> n]}, {[op |-> "Create", on |-> n]})
           /\ Write(n) \/ Truncate(n) =>
                 /\ ino[n] \in Inodes
                 /\ Grown(queue, queue', {[op |-> "Write", on |-> n]},
                          {[op |-> "Write", on |-> n], [op |-> "Write", on |-> ino[n]]})
           /\ Unlink(n) => Grown(queue, queue', {[op |-> "Remove", on |-> n]}, {[op |-> "Remove", on |-> n]})
           /\ \A m \in Names : Rename(n, m) =>
                 /\ ino[n] \in Inodes
                 /\ Grown(queue, queue', {}, {[op |-> "Rename", on |-> n], [op |-> "Create", on |-> m],
                                              [op |-> "Rename", on |-> ino[n]]})
<1>1. queue \in Seq(RawEvent) /\ ino[n] \in Inodes \cup {None}
  BY DEF TypeOK
<1>2. \A o \in Ops, x \in Names \cup Inodes : [op |-> o, on |-> x] \in Known /\ [op |-> o, on |-> x] \in RawEvent
  BY DEF Known, RawEvent
<1>3. "Create" \in Ops /\ "Write" \in Ops /\ "Remove" \in Ops /\ "Rename" \in Ops
  BY DEF Ops
<1>4. ASSUME Create(n)
      PROVE  Grown(queue, queue', {[op |-> "Create", on |-> n]}, {[op |-> "Create", on |-> n]})
  BY <1>1, <1>2, <1>3, <1>4, QueuedGrows DEF Create
<1>5. ASSUME Unlink(n)
      PROVE  Grown(queue, queue', {[op |-> "Remove", on |-> n]}, {[op |-> "Remove", on |-> n]})
  BY <1>1, <1>2, <1>3, <1>5, QueuedGrows DEF Unlink
<1>6. ASSUME Write(n) \/ Truncate(n)
      PROVE  /\ ino[n] \in Inodes
             /\ Grown(queue, queue', {[op |-> "Write", on |-> n]},
                      {[op |-> "Write", on |-> n], [op |-> "Write", on |-> ino[n]]})
  <2>1. ino[n] \in Inodes /\ queue' \in Notify(queue, "Write", n, ino[n])
    BY <1>1, <1>6 DEF Write, Truncate
  <2> QED BY <1>1, <1>3, <2>1, NotifyGrows
<1>7. ASSUME NEW m \in Names, Rename(n, m)
      PROVE  /\ ino[n] \in Inodes
             /\ Grown(queue, queue', {}, {[op |-> "Rename", on |-> n], [op |-> "Create", on |-> m],
                                          [op |-> "Rename", on |-> ino[n]]})
  <2> DEFINE a == [op |-> "Rename", on |-> n]
             b == [op |-> "Create", on |-> m]
             c == [op |-> "Rename", on |-> ino[n]]
  <2>1. ino[n] \in Inodes
    BY <1>1, <1>7 DEF Rename
  <2>2. PICK q \in Queued(queue, a) : \E p \in Queued(q, b) :
            queue' \in IF ino[n] \in watched THEN Queued(p, c) ELSE {p}
    BY <1>7 DEF Rename
  <2>3. PICK p \in Queued(q, b) : queue' \in IF ino[n] \in watched THEN Queued(p, c) ELSE {p}
    BY <2>2
  <2>4. a \in Known /\ b \in Known /\ c \in Known /\ a \in RawEvent /\ b \in RawEvent
    BY <1>2, <1>3, <2>1
  <2> HIDE DEF a, b, c
  <2>5. Grown(queue, q, {a}, {a})
    BY <1>1, <2>2, <2>4, QueuedGrows
  <2>6. Grown(q, p, {b}, {b})
    BY <2>3, <2>4, <2>5, QueuedGrows DEF Grown
  <2>7. Grown(queue, p, {a} \cup {b}, {a} \cup {b})
    BY <2>4, <2>5, <2>6, GrownTwice
  <2>8. CASE queue' = p
    <3>1. Grown(queue, queue', {}, {a, b, c})
      BY <2>7, <2>8 DEF Grown
    <3> QED BY <2>1, <3>1 DEF a, b, c
  <2>9. CASE queue' \in Queued(p, c)
    <3>1. Grown(p, queue', {c}, {c})
      BY <2>4, <2>7, <2>9, QueuedGrows DEF Grown
    <3>2. Grown(queue, queue', ({a} \cup {b}) \cup {c}, ({a} \cup {b}) \cup {c})
      BY <2>4, <2>7, <3>1, GrownTwice
    <3>3. Grown(queue, queue', {}, {a, b, c})
      BY <3>2 DEF Grown
    <3> QED BY <2>1, <3>3 DEF a, b, c
  <2> QED BY <2>3, <2>8, <2>9
<1> QED BY <1>4, <1>5, <1>6, <1>7

\* What the steps of other programs leave alone keeps its type.
LEMMA DiskTypes ==
    ASSUME TypeInv, NEW n \in Names, NEW m \in Names,
           Create(n) \/ Write(n) \/ Unlink(n) \/ Truncate(n) \/ Rename(n, m)
    PROVE  TypeInv'
<1>1. queue' \in Seq(RawEvent) /\ Fits(queue')
  BY DiskGrows DEF TypeInv, Grown
<1>2. MaxInodes \in Nat /\ MaxMoves \in Nat /\ MaxSize \in Nat /\ 0 \in Nat
  BY DirAssumption
<1>3. ino' \in [Names -> Inodes \cup {None}] /\ made' \in 0 .. MaxInodes
  <2>1. ino \in [Names -> Inodes \cup {None}] /\ made \in 0 .. MaxInodes
    BY DEF TypeInv, TypeOK
  <2>2. CASE Create(n)
    <3>1. made + 1 \in Inodes /\ made + 1 \in 0 .. MaxInodes
      BY <1>2, <2>1, <2>2 DEF Create, Inodes
    <3> QED BY <2>1, <2>2, <3>1 DEF Create
  <2>3. CASE ~Create(n)
    <3>1. made' = made
      BY <2>3 DEF Write, Unlink, Truncate, Rename
    <3>2. ino' \in [Names -> Inodes \cup {None}]
      BY <2>1, <2>3 DEF Write, Unlink, Truncate, Rename
    <3> QED BY <2>1, <3>1, <3>2
  <2> QED BY <2>2, <2>3
<1>4. size' \in [Inodes -> 0 .. MaxSize] /\ moves' \in 0 .. MaxMoves
  <2>1. size \in [Inodes -> 0 .. MaxSize] /\ moves \in 0 .. MaxMoves /\ ino[n] \in Inodes \cup {None}
    BY DEF TypeInv, TypeOK
  <2>2. moves' \in 0 .. MaxMoves
    BY <1>2, <2>1 DEF Create, Write, Unlink, Truncate, Rename
  <2>3. CASE Write(n)
    <3>1. ino[n] \in Inodes /\ size[ino[n]] + 1 \in 0 .. MaxSize
      BY <1>2, <2>1, <2>3 DEF Write
    <3> QED BY <2>1, <2>2, <2>3, <3>1 DEF Write
  <2>4. CASE Truncate(n)
    <3>1. 0 \in 0 .. MaxSize
      BY <1>2
    <3> QED BY <2>1, <2>2, <2>4, <3>1 DEF Truncate
  <2>5. CASE ~Write(n) /\ ~Truncate(n)
    <3>1. size' = size
      BY <2>5 DEF Create, Unlink, Rename
    <3> QED BY <2>1, <2>2, <3>1
  <2> QED BY <2>3, <2>4, <2>5
<1>5. handed' \in [Inodes -> Nat]
  BY <1>2 DEF TypeInv, TypeOK, Create, Write, Unlink, Truncate, Rename, reader
<1>6. UNCHANGED <<watches, paths, watched, sending, files, pc, event>>
  BY DEF Create, Write, Unlink, Truncate, Rename, reader, watcher
<1>7. Len(queue') <= MaxQueue + 1
  BY <1>1 DEF Fits
<1>8. TypeOK'
  BY <1>1, <1>3, <1>4, <1>5, <1>6, <1>7 DEF TypeInv, TypeOK
<1>9. Handling'
  BY <1>6 DEF TypeInv, Handling, Open
<1> QED BY <1>1, <1>8, <1>9 DEF TypeInv, Fits

\* What readEvents offers: the overflow, a removal or renaming without a name, or an
\* event named after the file, which exists unless the event says that it is gone.
LEMMA Offered ==
    ASSUME TypeOK, readEvents
    PROVE  /\ queue \in Seq(RawEvent) /\ queue # <<>> /\ queue' = Tail(queue) /\ sending = None
           /\ Head(queue) = overflow => sending' = overflow
           /\ Head(queue) # overflow =>
                 /\ Head(queue) \in Known
                 /\ \/ sending' = None
                    \/ sending' = nameless /\ Head(queue).op \in {"Remove", "Rename"}
                    \/ /\ sending' \in Event /\ sending'.op = Head(queue).op
                       /\ ino[sending'.name] # None \/ sending'.op \in {"Remove", "Rename"}
                       /\ Head(queue).on \in Names => sending'.name = Head(queue).on
                 /\ Head(queue).on \in Names /\ ino[Head(queue).on] # None =>
                       sending' = [op |-> Head(queue).op, name |-> Head(queue).on]
<1> DEFINE raw == Head(queue)
           name == IF raw.on \in Names THEN raw.on ELSE paths[raw.on]
<1>1. queue \in Seq(RawEvent) /\ queue # <<>> /\ queue' = Tail(queue) /\ sending = None
  BY DEF TypeOK, readEvents
<1>2. raw \in RawEvent
  BY <1>1
<1>3. raw = overflow => sending' = overflow
  BY DEF readEvents
<1>4. ASSUME raw # overflow
      PROVE  /\ raw \in Known
             /\ \/ sending' = None
                \/ sending' = nameless /\ raw.op \in {"Remove", "Rename"}
                \/ /\ sending' \in Event /\ sending'.op = raw.op
                   /\ ino[sending'.name] # None \/ sending'.op \in {"Remove", "Rename"}
                   /\ raw.on \in Names => sending'.name = raw.on
             /\ raw.on \in Names /\ ino[raw.on] # None => sending' = [op |-> raw.op, name |-> raw.on]
  <2>1. raw \in Known /\ raw.op \in Ops /\ raw.on \in Names \cup Inodes
    BY <1>2, <1>4 DEF RawEvent, Known
  <2>2. name \in Names \cup {None}
    BY <2>1 DEF TypeOK
  <2>3. name # None => [op |-> raw.op, name |-> name] \in Event
    BY <2>1, <2>2 DEF Event
  <2>4. sending' = IF name = None
                   THEN (IF raw.op \in {"Remove", "Rename"} THEN nameless ELSE None)
                   ELSE IF raw.op \in {"Remove", "Rename"} \/ ino[name] # None
                        THEN [op |-> raw.op, name |-> name]
                        ELSE None
    BY <1>4 DEF readEvents
  <2>5. raw.on \in Names => name = raw.on /\ name # None
    BY DirAssumption
  <2> HIDE DEF raw, name
  <2> QED BY <2>1, <2>2, <2>3, <2>4, <2>5
<1> QED BY <1>1, <1>3, <1>4

\* readEvents and Read keep the types.
LEMMA ReadTypes ==
    ASSUME TypeInv, readEvents \/ Read \/ Close
    PROVE  TypeInv'
<1>0. None \notin Event /\ overflow \notin Event /\ overflow # None /\ nameless # None
  BY MarkAssumption
<1>00. absent # nil /\ absent \notin watchFile /\ nil \notin watchFile
  BY MarkAssumption
<1>1. CASE readEvents
  <2>1. queue' \in Seq(RawEvent) /\ Fits(queue')
    BY <1>1, Offered, FitsTail DEF TypeInv
  <2>2. sending' \in Event \cup {None, overflow, nameless}
    BY <1>1, Offered DEF TypeInv
  <2>3. UNCHANGED <<disk, watcher, reader>>
    BY <1>1 DEF readEvents
  <2>4. Len(queue') <= MaxQueue + 1
    BY <2>1 DEF Fits
  <2> QED BY <2>1, <2>2, <2>3, <2>4 DEF TypeInv, TypeOK, Fits, Handling, Open, disk, watcher, reader
<1>2. CASE getFileInfo
  <2>1. /\ sending' = None /\ UNCHANGED <<disk, queue, watcher, handed>>
        /\ pc = "waiting" /\ sending # None /\ event = None
    BY <1>2 DEF getFileInfo, TypeInv, Handling
  <2>2. CASE sending \in {overflow, nameless}
    <3>1. pc' \in {"overflowed", "failed"} /\ UNCHANGED <<files, event>>
      BY <1>2, <2>2 DEF getFileInfo
    <3> QED BY <2>1, <3>1 DEF TypeInv, TypeOK, Fits, Handling, disk, watcher
  <2>3. CASE sending \notin {overflow, nameless}
    <3>1. sending \in Event /\ sending.name \in Names
      BY <2>1, <2>3 DEF TypeInv, TypeOK, Event
    <3>2. CASE files[sending.name] = absent /\ ino[sending.name] = None
      <4>1. pc' = "failed" /\ UNCHANGED <<files, event>>
        BY <1>2, <2>3, <3>2 DEF getFileInfo
      <4> QED BY <2>1, <4>1 DEF TypeInv, TypeOK, Fits, Handling, disk, watcher
    <3>3. CASE pc' = "refused" /\ UNCHANGED <<files, event>>
      BY <2>1, <3>3 DEF TypeInv, TypeOK, Fits, Handling, disk, watcher
    <3>4. CASE ~(files[sending.name] = absent /\ ino[sending.name] = None) /\ pc' # "refused"
      <4>1. /\ files' = addFile(sending.name)
            /\ pc' = IF files[sending.name] = nil THEN "panicked" ELSE "have"
            /\ event' = IF files[sending.name] = nil THEN None ELSE sending
        BY <1>2, <2>3, <3>4 DEF getFileInfo
      <4>2. files[sending.name] = absent =>
               [ino |-> ino[sending.name], off |-> size[ino[sending.name]]] \in watchFile
        BY <3>1, <3>4 DEF TypeInv, TypeOK, watchFile
      <4>3. files' \in [Names -> watchFile \cup {absent, nil}]
        BY <4>1, <4>2 DEF addFile, TypeInv, TypeOK
      <4>4. files[sending.name] # nil => files'[sending.name] \notin {absent, nil}
        BY <1>00, <3>1, <4>1, <4>2 DEF addFile, TypeInv, TypeOK
      <4>5. TypeOK'
        BY <2>1, <3>1, <4>1, <4>3 DEF TypeInv, TypeOK, disk, watcher
      <4>6. Handling'
        BY <1>0, <3>1, <4>1, <4>4 DEF Handling, Open
      <4> QED BY <2>1, <4>5, <4>6 DEF TypeInv, Fits
    <3>5. pc' = "refused" /\ ~(files[sending.name] = absent /\ ino[sending.name] = None) =>
             UNCHANGED <<files, event>>
      BY <1>2, <2>3 DEF getFileInfo
    <3> QED BY <3>2, <3>3, <3>4, <3>5
  <2> QED BY <2>2, <2>3
<1>3. CASE readFile
  <2> DEFINE n == event.name
             unread == size[files[n].ino] - files[n].off
             k == IF unread > 0 THEN Smaller(unread, BufSize) ELSE 0
  <2>1. event \in Event /\ n \in Names /\ files[n] \in watchFile
    BY <1>3 DEF TypeInv, TypeOK, Handling, Open, readFile, Event
  <2>2. files[n].ino \in Inodes /\ files[n].off \in 0 .. MaxSize /\ size[files[n].ino] \in 0 .. MaxSize
    BY <2>1 DEF watchFile, TypeInv, TypeOK
  <2>3. k \in Nat /\ files[n].off + k \in 0 .. MaxSize
    BY <2>2, DirAssumption DEF Smaller
  <2>4. /\ files' = [files EXCEPT ![n].off = @ + k]
        /\ handed' = [handed EXCEPT ![files[n].ino] = @ + k]
        /\ pc' = "waiting" /\ event' = None /\ UNCHANGED <<disk, queue, watcher, sending>>
    BY <1>3 DEF readFile
  <2> HIDE DEF k
  <2>5. [files[n] EXCEPT !.off = @ + k] \in watchFile
    BY <2>1, <2>2, <2>3 DEF watchFile
  <2>6. files' \in [Names -> watchFile \cup {absent, nil}]
    BY <2>4, <2>5 DEF TypeInv, TypeOK
  <2>7. handed' \in [Inodes -> Nat]
    BY <2>2, <2>3, <2>4 DEF TypeInv, TypeOK
  <2> QED BY <2>4, <2>6, <2>7 DEF TypeInv, TypeOK, Fits, Handling, disk, watcher
<1>4. CASE Remove
  <2>1. event \in Event /\ event.name \in Names
    BY <1>4 DEF TypeInv, TypeOK, Handling, Remove, Event
  <2>2. /\ files' = [files EXCEPT ![event.name] = nil]
        /\ watches' = [watches EXCEPT ![event.name] = None]
        /\ paths' = IF watches[event.name] = None THEN paths ELSE [paths EXCEPT ![watches[event.name]] = None]
        /\ watched' = watched \ {watches[event.name]}
        /\ pc' \in {"waiting", "failed"} /\ event' = None /\ UNCHANGED <<disk, queue, sending, handed>>
    BY <1>4 DEF Remove, removeFile
  <2> QED BY <2>1, <2>2 DEF TypeInv, TypeOK, Fits, Handling, disk
<1>5. CASE Watch
  <2>1. event \in Event /\ event.name \in Names
    BY <1>5 DEF TypeInv, TypeOK, Handling, Watch, Event
  <2>2. event' = None /\ UNCHANGED <<disk, queue, sending, handed>>
    BY <1>5 DEF Watch
  <2>3. CASE pc' \in {"failed", "refused"}
    <3>1. UNCHANGED <<watcher, files>>
      BY <1>5, <2>3 DEF Watch
    <3> QED BY <2>2, <2>3, <3>1 DEF TypeInv, TypeOK, Fits, Handling, disk, watcher
  <2>4. CASE pc' \notin {"failed", "refused"}
    <3>0. ino[event.name] # None
      BY <1>5, <2>4 DEF Watch
    <3>1. /\ watched' = watched \cup {ino[event.name]}
          /\ watches' = [watches EXCEPT ![event.name] = ino[event.name]]
          /\ paths' = IF watches[event.name] = None THEN [paths EXCEPT ![ino[event.name]] = event.name] ELSE paths
          /\ files' = addFile(event.name)
          /\ pc' = "waiting"
      BY <1>5, <2>4 DEF Watch
    <3>2. ino[event.name] \in Inodes /\ [ino |-> ino[event.name], off |-> size[ino[event.name]]] \in watchFile
      BY <2>1, <3>0 DEF TypeInv, TypeOK, watchFile
    <3>3. files' \in [Names -> watchFile \cup {absent, nil}]
      BY <3>1, <3>2 DEF addFile, TypeInv, TypeOK
    <3> QED BY <2>1, <2>2, <3>1, <3>2, <3>3 DEF TypeInv, TypeOK, Fits, Handling, disk
  <2> QED BY <2>3, <2>4
<1>6. CASE Skip
  BY <1>6 DEF Skip, TypeInv, TypeOK, Fits, Handling, disk, watcher
<1>7. CASE Close
  BY <1>7 DEF Close, TypeInv, TypeOK, Fits, Handling, disk, watcher
<1> QED BY <1>1, <1>2, <1>3, <1>4, <1>5, <1>6, <1>7 DEF Read

\* The state in which the reader starts has the types.
LEMMA TypesInit ==
    ASSUME Init
    PROVE  TypeInv
<1>1. PICK f \in [Existing -> 1 .. Cardinality(Existing)] :
         /\ ino = [n \in Names |-> IF n \in Existing THEN f[n] ELSE None]
         /\ files = scanFiles(f)
  BY DEF Init
<1>2. Cardinality(Existing) \in Nat /\ Cardinality(Existing) <= MaxInodes
  <2>1. IsFiniteSet(Existing)
    BY DirAssumption, FS_Subset
  <2> QED BY <2>1, FS_CardinalityType, DirAssumption
<1>3. \A n \in Existing : f[n] \in Inodes
  BY <1>1, <1>2, DirAssumption DEF Inodes
<1>4. 0 \in 0 .. MaxSize /\ 0 \in 0 .. MaxMoves
  BY DirAssumption
<1>5. ino \in [Names -> Inodes \cup {None}] /\ made \in 0 .. MaxInodes
  BY <1>1, <1>2, <1>3, DirAssumption DEF Init
<1>6. files \in [Names -> watchFile \cup {absent, nil}]
  BY <1>1, <1>3, <1>4 DEF scanFiles, watchFile
<1>7. queue \in Seq(RawEvent) /\ Len(queue) = 0
  BY DEF Init
<1>8. Fits(queue) /\ Len(queue) <= MaxQueue + 1
  BY <1>7, DirAssumption DEF Fits
<1> QED BY <1>4, <1>5, <1>6, <1>7, <1>8 DEF Init, TypeInv, TypeOK, Handling

\* Every step keeps the types.
LEMMA TypesNext == TypeInv /\ [Next]_vars => TypeInv'
<1> SUFFICES ASSUME TypeInv, [Next]_vars PROVE TypeInv'
  OBVIOUS
<1>1. CASE UNCHANGED vars
  BY <1>1 DEF vars, TypeInv, TypeOK, Fits, Handling, Open
<1> QED BY <1>1, DiskTypes, ReadTypes DEF Next

\* The maps of the reader and of fsnotify keep their types, and the queue of the
\* kernel its limit, whatever other programs do to the files
\* (watcher.go:19-29, fsnotify).
THEOREM TypeCorrect == Spec => []TypeOK
<1>1. TypeInv => TypeOK
  BY DEF TypeInv
<1> QED BY <1>1, TypesInit, TypesNext, PTL DEF Spec
-----------------------------------------------------------------------------
(* Creating and appending do not end the reader *)

\* How much of the file of its event Read returns.
Amount ==
    LET fd == files[event.name]
        unread == size[fd.ino] - fd.off
    IN  IF unread > 0 THEN Smaller(unread, BufSize) ELSE 0

\* Read of a file moves one descriptor forward.
LEMMA ReadMoves ==
    ASSUME TypeInv, readFile
    PROVE  /\ event \in Event /\ event.name \in Names /\ files[event.name] \in watchFile /\ Amount \in Nat
           /\ files'[event.name] \in watchFile
           /\ files'[event.name].ino = files[event.name].ino
           /\ files'[event.name].off = files[event.name].off + Amount
           /\ \A m \in Names : m # event.name => files'[m] = files[m]
           /\ handed' = [handed EXCEPT ![files[event.name].ino] = @ + Amount]
           /\ event.op = "Write" /\ pc = "have" /\ pc' = "waiting" /\ event' = None
           /\ UNCHANGED <<disk, queue, watcher, sending>>
<1>1. event \in Event /\ event.name \in Names /\ files[event.name] \in watchFile
  BY DEF TypeInv, TypeOK, Handling, Open, readFile, Event
<1>2. /\ files[event.name].ino \in Inodes /\ files[event.name].off \in 0 .. MaxSize
      /\ size[files[event.name].ino] \in 0 .. MaxSize
  BY <1>1 DEF watchFile, TypeInv, TypeOK
<1>3. Amount \in Nat /\ files[event.name].off + Amount \in 0 .. MaxSize
  BY <1>2, DirAssumption DEF Smaller, Amount
<1>4. /\ files' = [files EXCEPT ![event.name].off = @ + Amount]
      /\ handed' = [handed EXCEPT ![files[event.name].ino] = @ + Amount]
      /\ event.op = "Write" /\ pc = "have" /\ pc' = "waiting" /\ event' = None
      /\ UNCHANGED <<disk, queue, watcher, sending>>
  BY DEF readFile, Amount
<1>5. files'[event.name] = [files[event.name] EXCEPT !.off = @ + Amount]
  BY <1>1, <1>4 DEF TypeInv, TypeOK
<1>6. /\ files'[event.name] \in watchFile
      /\ files'[event.name].ino = files[event.name].ino
      /\ files'[event.name].off = files[event.name].off + Amount
  BY <1>1, <1>3, <1>5 DEF watchFile
<1>7. \A m \in Names : m # event.name => files'[m] = files[m]
  BY <1>4 DEF TypeInv, TypeOK
<1> QED BY <1>1, <1>3, <1>4, <1>6, <1>7

\* Until a file is renamed, unlinked or truncated, every event is about the
\* creation of, or a write to, a file that is there, and no entry is nil.
UntouchedQueue ==
    moves = 0 => \A e \in Known : Has(queue, e) =>
        e.op \in {"Create", "Write"} /\ (e.on \in Names => ino[e.on] # None)
UntouchedEvents ==
    moves = 0 => /\ sending # nameless
                 /\ \A e \in {sending, event} \cap Event :
                       e.op \in {"Create", "Write"} /\ ino[e.name] # None
UntouchedFiles ==
    moves = 0 => pc \notin {"failed", "panicked"} /\ \A n \in Names : files[n] # nil

Untouched == UntouchedQueue /\ UntouchedEvents /\ UntouchedFiles

\* Other programs that create and append.
LEMMA DiskUntouched ==
    ASSUME TypeInv, Untouched, NEW n \in Names, Create(n) \/ Write(n)
    PROVE  Untouched'
<1>0. None \notin Names \cup Inodes /\ Names \cap Inodes = {} /\ overflow \notin Known
  BY DirAssumption, MarkAssumption DEF Known
<1>1. UNCHANGED <<moves, sending, event, files, pc>>
  BY DEF Create, Write, reader
<1>2. \A m \in Names : ino[m] # None => ino'[m] # None
  BY <1>0 DEF TypeInv, TypeOK, Create, Write
<1>3. ino'[n] # None
  <2>1. CASE Create(n)
    <3>1. made + 1 \in Inodes
      BY <2>1, DirAssumption DEF TypeInv, TypeOK, Create, Inodes
    <3> QED BY <1>0, <2>1, <3>1 DEF TypeInv, TypeOK, Create
  <2>2. CASE Write(n)
    BY <2>2 DEF Write
  <2> QED BY <2>1, <2>2
<1>4. \A e \in Known : Has(queue', e) =>
         Has(queue, e) \/ (e.op \in {"Create", "Write"} /\ (e.on \in Names => e.on = n))
  <2> SUFFICES ASSUME NEW e \in Known, Has(queue', e), ~Has(queue, e)
               PROVE  e.op \in {"Create", "Write"} /\ (e.on \in Names => e.on = n)
    OBVIOUS
  <2>1. e \in RawEvent /\ e # overflow
    BY <1>0 DEF RawEvent, Known
  <2>2. CASE Create(n)
    <3>1. e = [op |-> "Create", on |-> n]
      BY <2>1, <2>2, DiskGrows DEF TypeInv, Grown
    <3> QED BY <3>1
  <2>3. CASE Write(n)
    <3>1. ino[n] \in Inodes /\ e \in {[op |-> "Write", on |-> n], [op |-> "Write", on |-> ino[n]]}
      BY <2>1, <2>3, DiskGrows DEF TypeInv, Grown
    <3> QED BY <1>0, <3>1
  <2> QED BY <2>2, <2>3
<1>5. UntouchedQueue'
  BY <1>1, <1>2, <1>3, <1>4 DEF Untouched, UntouchedQueue
<1>6. UntouchedEvents' /\ UntouchedFiles'
  BY <1>1, <1>2 DEF Untouched, UntouchedEvents, UntouchedFiles, Event
<1> QED BY <1>5, <1>6 DEF Untouched

\* Every step.
LEMMA UntouchedNext ==
    ASSUME TypeInv, Untouched, Next
    PROVE  Untouched'
<1>0. /\ None \notin Event /\ overflow \notin Event /\ overflow # None /\ overflow \notin Known
      /\ nameless \notin Event \cup {None, overflow} /\ absent # nil /\ nil \notin watchFile
  BY MarkAssumption DEF Known
<1>1. ASSUME NEW n \in Names, NEW m \in Names, Unlink(n) \/ Truncate(n) \/ Rename(n, m)
      PROVE  Untouched'
  <2>1. moves' = moves + 1 /\ moves \in Nat
    BY <1>1 DEF Unlink, Truncate, Rename, TypeInv, TypeOK
  <2>2. moves' # 0
    BY <2>1
  <2> QED BY <2>2 DEF Untouched, UntouchedQueue, UntouchedEvents, UntouchedFiles
<1>2. CASE readEvents
  <2>1. UNCHANGED <<disk, watcher, reader>>
    BY <1>2 DEF readEvents
  <2>2. \A e \in Known : Has(queue', e) => Has(queue, e)
    BY <1>2, Offered, HasTail DEF TypeInv
  <2>3. Has(queue, Head(queue))
    BY <1>2, Offered, HasTail DEF TypeInv
  <2>4. UntouchedEvents'
    BY <1>0, <1>2, <2>1, <2>3, Offered DEF TypeInv, Untouched, UntouchedQueue, UntouchedEvents, disk, reader
  <2> QED BY <2>1, <2>2, <2>4 DEF Untouched, UntouchedQueue, UntouchedFiles, disk, reader
<1>3. CASE getFileInfo
  <2>1. sending' = None /\ UNCHANGED <<disk, queue, watcher, handed>> /\ sending # None /\ event = None
    BY <1>3 DEF getFileInfo, TypeInv, Handling
  <2>2. CASE sending = overflow
    BY <1>0, <1>3, <2>1, <2>2 DEF getFileInfo, Untouched, UntouchedQueue, UntouchedEvents, UntouchedFiles, disk
  <2>3. ASSUME sending # overflow, moves = 0
        PROVE  Untouched'
    <3>1. sending # nameless /\ sending \in Event /\ sending.name \in Names
      BY <2>1, <2>3 DEF TypeInv, TypeOK, Event, Untouched, UntouchedEvents
    <3>2. sending.op \in {"Create", "Write"} /\ ino[sending.name] # None /\ files[sending.name] # nil
      BY <2>3, <3>1 DEF Untouched, UntouchedEvents, UntouchedFiles
    <3>3. \/ files' = addFile(sending.name) /\ pc' = "have" /\ event' = sending
          \/ UNCHANGED <<files, event>> /\ pc' = "refused"
      BY <1>3, <2>3, <3>1, <3>2 DEF getFileInfo
    <3>4. [ino |-> ino[sending.name], off |-> size[ino[sending.name]]] \in watchFile
      BY <3>1, <3>2 DEF TypeInv, TypeOK, watchFile
    <3>5. \A n \in Names : files'[n] # nil
      BY <1>0, <2>3, <3>3, <3>4 DEF addFile, TypeInv, TypeOK, Untouched, UntouchedFiles
    <3>6. UntouchedEvents'
      BY <1>0, <2>1, <3>1, <3>2, <3>3 DEF UntouchedEvents, disk
    <3> QED BY <2>1, <3>3, <3>5, <3>6 DEF Untouched, UntouchedQueue, UntouchedFiles, disk
  <2>4. CASE moves # 0
    BY <2>1, <2>4 DEF disk, Untouched, UntouchedQueue, UntouchedEvents, UntouchedFiles
  <2> QED BY <2>2, <2>3, <2>4
<1>4. CASE readFile
  <2>1. \A n \in Names : files[n] # nil => files'[n] # nil
    BY <1>0, <1>4, ReadMoves
  <2> QED BY <1>0, <1>4, <2>1, ReadMoves DEF Untouched, UntouchedQueue, UntouchedEvents, UntouchedFiles, disk
<1>5. ASSUME Remove \/ Skip
      PROVE  Untouched'
  <2>1. event \in Event /\ event.op \notin {"Create", "Write"}
    BY <1>5 DEF Remove, Skip, TypeInv, TypeOK, Handling
  <2>2. moves # 0
    BY <2>1 DEF Untouched, UntouchedEvents
  <2>3. moves' = moves
    BY <1>5 DEF Remove, Skip, disk
  <2> QED BY <2>2, <2>3 DEF Untouched, UntouchedQueue, UntouchedEvents, UntouchedFiles
<1>6. CASE Watch
  <2>1. event \in Event /\ event.name \in Names /\ event' = None /\ UNCHANGED <<disk, queue, sending, handed>>
    BY <1>6 DEF Watch, TypeInv, TypeOK, Handling, Event
  <2>2. ASSUME moves = 0
        PROVE  pc' \in {"waiting", "refused"} /\ \A n \in Names : files'[n] # nil
    <3>1. ino[event.name] # None
      BY <2>1, <2>2 DEF Untouched, UntouchedEvents
    <3>2. files' \in {addFile(event.name), files} /\ pc' \in {"waiting", "refused"}
      BY <1>6, <3>1 DEF Watch
    <3>3. [ino |-> ino[event.name], off |-> size[ino[event.name]]] \in watchFile
      BY <2>1, <3>1 DEF TypeInv, TypeOK, watchFile
    <3> QED BY <1>0, <2>2, <3>2, <3>3 DEF addFile, TypeInv, TypeOK, Untouched, UntouchedFiles
  <2> QED BY <1>0, <2>1, <2>2 DEF Untouched, UntouchedQueue, UntouchedEvents, UntouchedFiles, disk
<1>7. CASE Close
  BY <1>7 DEF Close, Untouched, UntouchedQueue, UntouchedEvents, UntouchedFiles, disk
<1> QED BY <1>1, <1>2, <1>3, <1>4, <1>5, <1>6, <1>7, DiskUntouched DEF Next, Read

\* The reader never meets a name that is gone, a nil entry or a missing watch before
\* a file was renamed, unlinked or truncated, however events are merged, doubled and
\* delayed; a refusal of the system (no permission, no descriptor, no watch left) and
\* an overflow of the queue end it whenever they come (watcher.go:31-190).
THEOREM NoFailureBeforeMove == Spec => []FailsOnlyAfterMove
<1> DEFINE I == TypeInv /\ Untouched
<1>1. Init => I
  <2> SUFFICES ASSUME Init PROVE Untouched
    BY TypesInit
  <2>1. \A e : ~Has(queue, e)
    BY DEF Init, Has
  <2>2. None \notin Event /\ nameless # None /\ absent # nil /\ nil \notin watchFile
    BY MarkAssumption
  <2>3. PICK f \in [Existing -> 1 .. Cardinality(Existing)] : files = scanFiles(f)
    BY DEF Init
  <2>4. \A n \in Names : files[n] # nil
    <3>1. \A n \in Names : files[n] = IF n \in Existing THEN [ino |-> f[n], off |-> 0] ELSE absent
      BY <2>3 DEF scanFiles
    <3>2. \A n \in Existing : f[n] \in Inodes
      <4>1. IsFiniteSet(Existing)
        BY DirAssumption, FS_Subset
      <4>2. Cardinality(Existing) \in Nat /\ Cardinality(Existing) <= MaxInodes /\ MaxInodes \in Nat
        BY <4>1, FS_CardinalityType, DirAssumption
      <4> QED BY <2>3, <4>2 DEF Inodes
    <3>3. \A n \in Existing : [ino |-> f[n], off |-> 0] \in watchFile
      BY <3>2, DirAssumption DEF watchFile
    <3> QED BY <2>2, <3>1, <3>3
  <2> QED BY <2>1, <2>2, <2>4 DEF Init, Untouched, UntouchedQueue, UntouchedEvents, UntouchedFiles
<1>2. I /\ [Next]_vars => I'
  <2>1. ASSUME Untouched, UNCHANGED vars PROVE Untouched'
    BY <2>1 DEF vars, Untouched, UntouchedQueue, UntouchedEvents, UntouchedFiles
  <2> QED BY <2>1, TypesNext, UntouchedNext
<1>3. I => FailsOnlyAfterMove
  BY DEF Untouched, UntouchedFiles, FailsOnlyAfterMove, TypeInv, TypeOK
<1> QED BY <1>1, <1>2, <1>3, PTL DEF Spec
-----------------------------------------------------------------------------
(* Files that are only created and appended to are followed *)

\* An inode has one name, and the inodes that are not made yet hold nothing.
Links ==
    /\ \A n \in Names : ino[n] # None => ino[n] <= made
    /\ \A m, n \in Names : ino[n] # None /\ ino[m] = ino[n] => m = n
    /\ \A n \in Names : Open(n) => files[n].ino <= made
    /\ \A i \in Inodes : i > made => size[i] = 0 /\ handed[i] = 0

\* Only a rotated name is ever reported as removed.
Removals ==
    /\ \A e \in Known : Has(queue, e) /\ e.op = "Remove" => e.on \in Rotated
    /\ \A e \in {sending, event} \cap Event : e.op = "Remove" => e.name \in Rotated

\* The reader has ended, or will once it meets the overflow.
Doomed == Has(queue, overflow) \/ sending = overflow \/ ~running

\* A write to name n is on its way to the reader.
Announced(n) ==
    \/ Has(queue, [op |-> "Write", on |-> n])
    \/ [op |-> "Write", name |-> n] \in {sending, event}

\* The descriptor of name n is of its inode, which no other name has open, and is
\* where the pipeline is; a file that is not open yet is empty and comes, and
\* what is not read yet fits one buffer and is announced.
Follows(n) ==
    LET i == ino[n] IN
    /\ i = None => files[n] = absent
    /\ i # None =>
         /\ files[n] # nil
         /\ \A m \in Names : Open(m) /\ files[m].ino = i => m = n
         /\ Open(n) => files[n].ino = i
         /\ ~Doomed =>
              /\ files[n] = absent => size[i] = 0 /\ handed[i] = 0 /\ Coming(n)
              /\ handed[i] <= size[i] /\ size[i] - handed[i] <= BufSize
              /\ Open(n) => files[n].off = handed[i]
              /\ handed[i] < size[i] => Announced(n)

Following == \A n \in Names \ Rotated : Follows(n)
DirInv == TypeInv /\ Links /\ Removals /\ Following

\* The coming of a name, by the events that are in the queue.
Arrives(q, n) == \E e \in Known : Has(q, e) /\ e.on = n /\ e.op # "Write"

LEMMA ArrivesIn ==
    ASSUME NEW q \in Seq(RawEvent), NEW n \in Names
    PROVE  (\E k \in 1 .. Len(q) : q[k] # overflow /\ q[k].on = n /\ q[k].op # "Write") <=> Arrives(q, n)
<1>1. \A k \in 1 .. Len(q) : q[k] \in RawEvent
  OBVIOUS
<1>2. overflow \notin Known /\ RawEvent = Known \cup {overflow}
  BY MarkAssumption DEF RawEvent, Known
<1> QED BY <1>1, <1>2 DEF Arrives, Has

LEMMA ComingArrives ==
    ASSUME TypeOK, TypeOK', NEW n \in Names
    PROVE  /\ Coming(n) <=> \/ Arrives(queue, n)
                            \/ \E e \in {sending, event} \cap Event : e.name = n /\ e.op # "Write"
           /\ Coming(n)' <=> \/ Arrives(queue', n)
                             \/ \E e \in {sending', event'} \cap Event : e.name = n /\ e.op # "Write"
<1>1. queue \in Seq(RawEvent) /\ queue' \in Seq(RawEvent)
  BY DEF TypeOK
<1> QED BY <1>1, ArrivesIn DEF Coming

\* What a step that does not serve name n has to leave as it is.
Aside(n) ==
    /\ ino'[n] = ino[n] /\ files'[n] = files[n]
    /\ Doomed => Doomed'
    /\ ino[n] # None =>
         /\ size'[ino[n]] = size[ino[n]] /\ handed'[ino[n]] = handed[ino[n]]
         /\ \A m \in Names : files'[m] \notin {absent, nil} /\ files'[m].ino = ino[n] => m = n
         /\ files[n] = absent /\ Coming(n) => Coming(n)' \/ Doomed'
         /\ Announced(n) => Announced(n)' \/ Doomed'

LEMMA FollowsAside ==
    ASSUME NEW n \in Names, Follows(n), Aside(n)
    PROVE  Follows(n)'
BY DEF Follows, Aside, Open

\* The steps of other programs take nothing away from the reader.
LEMMA DiskKeeps ==
    ASSUME TypeInv, TypeInv', NEW n \in Names, NEW m \in Names,
           Create(n) \/ Write(n) \/ Unlink(n) \/ Truncate(n) \/ Rename(n, m)
    PROVE  /\ UNCHANGED <<files, sending, event, pc>>
           /\ running /\ (Doomed => Doomed')
           /\ \A x \in Names : (Coming(x) => Coming(x)') /\ (Announced(x) => Announced(x)')
<1>1. UNCHANGED <<files, sending, event, pc>> /\ running
  BY DEF Create, Write, Unlink, Truncate, Rename, reader
<1>2. \A x \in RawEvent : Has(queue, x) => Has(queue', x)
  BY DiskGrows DEF TypeInv, Grown
<1>3. overflow \in RawEvent /\ Known \subseteq RawEvent
  BY DEF RawEvent, Known
<1>4. Doomed => Doomed'
  BY <1>1, <1>2, <1>3 DEF Doomed, running
<1>5. ASSUME NEW x \in Names PROVE Coming(x) => Coming(x)'
  <2>1. Arrives(queue, x) => Arrives(queue', x)
    BY <1>2, <1>3 DEF Arrives
  <2> QED BY <1>1, <2>1, ComingArrives DEF TypeInv
<1>6. ASSUME NEW x \in Names PROVE Announced(x) => Announced(x)'
  <2>1. [op |-> "Write", on |-> x] \in RawEvent
    BY DEF RawEvent, Ops
  <2> QED BY <1>1, <1>2, <2>1 DEF Announced
<1> QED BY <1>1, <1>4, <1>5, <1>6

\* Which events the steps of other programs add.
LEMMA DiskRemovals ==
    ASSUME TypeInv, Removals, NEW n \in Names, NEW m \in Names,
           Create(n) \/ Write(n) \/ Unlink(n) \/ Truncate(n) \/ Rename(n, m)
    PROVE  Removals'
<1>1. UNCHANGED <<sending, event>>
  BY DEF Create, Write, Unlink, Truncate, Rename, reader
<1>2. ASSUME NEW e \in Known, Has(queue', e), e.op = "Remove"
      PROVE  e.on \in Rotated
  <2>1. e \in RawEvent /\ e # overflow
    BY MarkAssumption DEF RawEvent, Known
  <2>2. CASE Has(queue, e)
    BY <1>2, <2>2 DEF Removals
  <2>3. CASE Unlink(n) /\ ~Has(queue, e)
    <3>1. e = [op |-> "Remove", on |-> n]
      BY <1>2, <2>1, <2>3, DiskGrows DEF TypeInv, Grown
    <3> QED BY <2>3, <3>1 DEF Unlink
  <2>4. CASE Create(n) /\ ~Has(queue, e)
    <3>1. e = [op |-> "Create", on |-> n]
      BY <1>2, <2>1, <2>4, DiskGrows DEF TypeInv, Grown
    <3> QED BY <1>2, <3>1
  <2>5. CASE (Write(n) \/ Truncate(n)) /\ ~Has(queue, e)
    <3>1. e \in {[op |-> "Write", on |-> n], [op |-> "Write", on |-> ino[n]]}
      BY <1>2, <2>1, <2>5, DiskGrows DEF TypeInv, Grown
    <3> QED BY <1>2, <3>1
  <2>6. CASE Rename(n, m) /\ ~Has(queue, e)
    <3>1. Grown(queue, queue', {}, {[op |-> "Rename", on |-> n], [op |-> "Create", on |-> m],
                                    [op |-> "Rename", on |-> ino[n]]})
      BY <2>6, DiskGrows DEF TypeInv
    <3>2. e \in {[op |-> "Rename", on |-> n], [op |-> "Create", on |-> m], [op |-> "Rename", on |-> ino[n]]}
      BY <1>2, <2>1, <2>6, <3>1 DEF Grown
    <3> QED BY <1>2, <3>2
  <2> QED BY <2>2, <2>3, <2>4, <2>5, <2>6
<1> QED BY <1>1, <1>2 DEF Removals

\* A created file gets an inode of its own.
LEMMA CreateLinks ==
    ASSUME TypeInv, Links, NEW n \in Names, Create(n)
    PROVE  /\ Links' /\ made + 1 \in Inodes
           /\ ino'[n] = made + 1
           /\ \A x \in Names : x # n => ino'[x] = ino[x]
<1>1. /\ made \in Nat /\ made' = made + 1 /\ made + 1 \in Inodes
      /\ ino[n] = None /\ UNCHANGED <<files, size, handed>>
  BY DirAssumption DEF TypeInv, TypeOK, Create, Inodes, reader
<1>2. ino'[n] = made + 1 /\ \A x \in Names : x # n => ino'[x] = ino[x]
  BY DEF TypeInv, TypeOK, Create
<1>3. \A x \in Names : ino[x] # None => ino[x] \in Nat
  BY DirAssumption DEF TypeInv, TypeOK, Inodes
<1>4. \A x \in Names : Open(x) => files[x].ino \in Nat
  BY DirAssumption DEF TypeInv, TypeOK, Inodes, Open, watchFile
<1>5. \A x \in Names : x # n => ino'[x] # made + 1
  BY <1>1, <1>2, <1>3, DirAssumption DEF Links
<1>6. \A x \in Names : ino'[x] # None => ino'[x] <= made'
  BY <1>1, <1>2, <1>3 DEF Links
<1>7. \A x, y \in Names : ino'[y] # None /\ ino'[x] = ino'[y] => x = y
  BY <1>2, <1>5 DEF Links
<1>8. \A x \in Names : Open(x)' => files'[x].ino <= made'
  BY <1>1, <1>4 DEF Links, Open
<1>9. \A i \in Inodes : i > made' => size'[i] = 0 /\ handed'[i] = 0
  BY <1>1 DEF Links, Inodes
<1> QED BY <1>1, <1>2, <1>6, <1>7, <1>8, <1>9 DEF Links

\* A created file comes, or the queue overflows.
LEMMA CreateFollows ==
    ASSUME DirInv, TypeInv', NEW n \in Names, Create(n)
    PROVE  Links' /\ Following'
<1>0. Links' /\ made + 1 \in Inodes /\ ino'[n] = made + 1 /\ \A x \in Names : x # n => ino'[x] = ino[x]
  BY CreateLinks DEF DirInv
<1>1. /\ UNCHANGED <<files, size, handed>> /\ UNCHANGED <<sending, event, pc>> /\ (Doomed => Doomed')
      /\ \A x \in Names : (Coming(x) => Coming(x)') /\ (Announced(x) => Announced(x)')
  BY DiskKeeps DEF DirInv, Create, reader
<1>2. ASSUME NEW x \in Names \ Rotated, x # n
      PROVE  Follows(x)'
  <2>1. Aside(x)
    BY <1>0, <1>1, <1>2 DEF Aside, DirInv, Following, Follows, Open
  <2> QED BY <2>1, FollowsAside DEF DirInv, Following
<1>3. ASSUME n \notin Rotated
      PROVE  Follows(n)'
  <2>1. ino[n] = None /\ files[n] = absent /\ absent # nil
    BY <1>3, MarkAssumption DEF Create, DirInv, Following, Follows
  <2>2. made \in Nat /\ size[made + 1] = 0 /\ handed[made + 1] = 0 /\ made + 1 > made
    BY <1>0 DEF DirInv, Links, TypeInv, TypeOK
  <2>3. \A m \in Names : files[m] \notin {absent, nil} => files[m].ino # made + 1
    <3>1. \A m \in Names : files[m] \notin {absent, nil} => files[m].ino \in Nat /\ files[m].ino <= made
      BY DEF DirInv, Links, Open, TypeInv, TypeOK, watchFile, Inodes
    <3> QED BY <2>2, <3>1
  <2>4. Coming(n)' \/ Doomed'
    <3> DEFINE c == [op |-> "Create", on |-> n]
    <3>1. c \in Known /\ c.on = n /\ c.op # "Write"
      BY DEF Known, Ops
    <3>2. Has(queue', c) \/ Has(queue', overflow)
      BY DiskGrows DEF DirInv, TypeInv, Grown
    <3> HIDE DEF c
    <3>3. CASE Has(queue', c)
      <4>1. Arrives(queue', n)
        BY <3>1, <3>3 DEF Arrives
      <4> QED BY <4>1, ComingArrives DEF DirInv, TypeInv
    <3>4. CASE Has(queue', overflow)
      BY <3>4 DEF Doomed
    <3> QED BY <3>2, <3>3, <3>4
  <2>5. made + 1 # None /\ BufSize \in Nat
    BY <1>0, DirAssumption
  <2> QED BY <1>0, <1>1, <2>1, <2>2, <2>3, <2>4, <2>5 DEF Follows, Open
<1> QED BY <1>0, <1>2, <1>3 DEF Following

\* What is appended is announced, or the queue overflows.
LEMMA WriteFollows ==
    ASSUME DirInv, TypeInv', {"settled", "paced"} \subseteq Assumed, NEW n \in Names, Write(n)
    PROVE  Links' /\ Following'
<1>0. /\ ino[n] \in Inodes /\ ino[n] # None /\ ~Coming(n) /\ size[ino[n]] - handed[ino[n]] < BufSize
      /\ UNCHANGED <<ino, made, handed>>
  BY DiskGrows DEF DirInv, TypeInv, Write, reader
<1>1. /\ size'[ino[n]] = size[ino[n]] + 1
      /\ \A i \in Inodes : i # ino[n] => size'[i] = size[i]
  BY <1>0 DEF Write, DirInv, TypeInv, TypeOK
<1>2. /\ UNCHANGED <<files, sending, event, pc>> /\ (Doomed => Doomed')
      /\ \A x \in Names : (Coming(x) => Coming(x)') /\ (Announced(x) => Announced(x)')
  BY DiskKeeps DEF DirInv
<1>3. Links'
  <2>1. ino[n] <= made /\ made \in Nat /\ Inodes \subseteq Nat
    BY <1>0 DEF DirInv, Links, TypeInv, TypeOK, Inodes
  <2>2. \A i \in Inodes : i > made => i # ino[n]
    BY <1>0, <2>1
  <2> QED BY <1>0, <1>1, <1>2, <2>2 DEF DirInv, Links, Open
<1>4. ASSUME NEW x \in Names \ Rotated, x # n
      PROVE  Follows(x)'
  <2>1. ino[x] # None => ino[x] \in Inodes /\ ino[x] # ino[n]
    BY <1>0, <1>4 DEF DirInv, Links, TypeInv, TypeOK
  <2>2. Aside(x)
    BY <1>0, <1>1, <1>2, <2>1 DEF Aside, DirInv, Following, Follows, Open
  <2> QED BY <2>2, FollowsAside DEF DirInv, Following
<1>5. ASSUME n \notin Rotated
      PROVE  Follows(n)'
  <2>1. Follows(n)
    BY <1>5 DEF DirInv, Following
  <2>2. Announced(n)' \/ Doomed'
    <3>1. Has(queue', [op |-> "Write", on |-> n]) \/ Has(queue', overflow)
      BY DiskGrows DEF DirInv, TypeInv, Grown
    <3> QED BY <3>1 DEF Announced, Doomed
  <2>3. size[ino[n]] \in Nat /\ handed[ino[n]] \in Nat /\ BufSize \in Nat
    BY <1>0, DirAssumption DEF DirInv, TypeInv, TypeOK
  <2>4. files[n] = absent => Doomed
    BY <1>0, <2>1 DEF Follows
  <2> QED BY <1>0, <1>1, <1>2, <2>1, <2>2, <2>3, <2>4 DEF Follows, Open
<1> QED BY <1>3, <1>4, <1>5 DEF Following

\* Rotation happens to other names.
LEMMA RotationFollows ==
    ASSUME DirInv, TypeInv', NEW n \in Names, NEW m \in Names,
           Unlink(n) \/ Truncate(n) \/ Rename(n, m)
    PROVE  Links' /\ Following'
<1>0. ino[n] \in Inodes /\ ino[n] # None /\ n \in Rotated /\ made' = made
  BY DEF DirInv, TypeInv, TypeOK, Unlink, Truncate, Rename
<1>1. /\ UNCHANGED <<files, sending, event, pc>> /\ (Doomed => Doomed')
      /\ \A x \in Names : (Coming(x) => Coming(x)') /\ (Announced(x) => Announced(x)')
  BY DiskKeeps DEF DirInv
<1>2. \A x \in Names \ Rotated : ino'[x] = ino[x]
  BY DEF DirInv, TypeInv, TypeOK, Unlink, Truncate, Rename
<1>3. /\ \A i \in Inodes : i # ino[n] => size'[i] = size[i] /\ handed'[i] = handed[i]
      /\ size'[ino[n]] \in {0, size[ino[n]]} /\ handed'[ino[n]] \in {0, handed[ino[n]]}
  BY <1>0 DEF DirInv, TypeInv, TypeOK, Unlink, Truncate, Rename, reader
<1>4. \A x \in Names : ino'[x] # None =>
         \/ ino'[x] = ino[x] /\ (Rename(n, m) => x # n)
         \/ Rename(n, m) /\ x = m /\ ino'[x] = ino[n]
  BY <1>0 DEF DirInv, TypeInv, TypeOK, Unlink, Truncate, Rename
<1>5. Links'
  <2>1. \A x \in Names : ino'[x] # None => ino'[x] <= made'
    BY <1>0, <1>4 DEF DirInv, Links
  <2>2. \A x, y \in Names : ino'[y] # None /\ ino'[x] = ino'[y] => x = y
    BY <1>0, <1>4 DEF DirInv, Links
  <2>3. \A x \in Names : Open(x)' => files'[x].ino <= made'
    BY <1>0, <1>1 DEF DirInv, Links, Open
  <2>4. \A i \in Inodes : i > made' => size'[i] = 0 /\ handed'[i] = 0
    BY <1>0, <1>3 DEF DirInv, Links
  <2> QED BY <2>1, <2>2, <2>3, <2>4 DEF Links
<1>6. ASSUME NEW x \in Names \ Rotated
      PROVE  Follows(x)'
  <2>1. ino[x] # None => ino[x] \in Inodes /\ ino[x] # ino[n]
    BY <1>0 DEF DirInv, Links, TypeInv, TypeOK
  <2>2. Aside(x)
    BY <1>1, <1>2, <1>3, <2>1 DEF Aside, DirInv, Following, Follows, Open
  <2> QED BY <2>2, FollowsAside DEF DirInv, Following
<1> QED BY <1>5, <1>6 DEF Following

\* readEvents forwards whatever is about a name that is there.
LEMMA readEventsFollows ==
    ASSUME DirInv, TypeInv', readEvents
    PROVE  Links' /\ Removals' /\ Following'
<1>0. /\ UNCHANGED <<ino, made, size, files, pc, event, handed>>
      /\ None \notin Event /\ overflow \notin Event /\ overflow \notin Known /\ overflow # None
      /\ nameless \notin Event
      /\ queue \in Seq(RawEvent) /\ queue # <<>> /\ queue' = Tail(queue) /\ sending = None
  BY Offered, MarkAssumption DEF DirInv, TypeInv, readEvents, disk, reader, Known
<1>1. Links'
  BY <1>0 DEF DirInv, Links, Open
<1>2. \A e : Has(queue, e) <=> e = Head(queue) \/ Has(queue', e)
  BY <1>0, HasTail
<1>3. Removals'
  <2>1. \A e \in Known : Has(queue', e) /\ e.op = "Remove" => e.on \in Rotated
    BY <1>2 DEF DirInv, Removals
  <2>2. ASSUME sending' \in Event, sending'.op = "Remove"
        PROVE  sending'.name \in Rotated
    <3>1. /\ Head(queue) \in Known /\ Head(queue).op = "Remove"
          /\ Head(queue).on \in Names => sending'.name = Head(queue).on
      BY <1>0, <2>2, Offered DEF DirInv, TypeInv
    <3>2. Head(queue).on \in Rotated
      BY <1>2, <3>1 DEF DirInv, Removals
    <3> QED BY <3>1, <3>2, DirAssumption
  <2> QED BY <1>0, <2>1, <2>2 DEF DirInv, Removals
<1>4. Doomed => Doomed'
  <2>1. Head(queue) = overflow => sending' = overflow
    BY Offered DEF DirInv, TypeInv
  <2> QED BY <1>0, <1>2, <2>1 DEF Doomed, running
<1>5. ASSUME NEW n \in Names, ino[n] # None, Head(queue) \in Known, Head(queue).on = n
      PROVE  sending' = [op |-> Head(queue).op, name |-> n] /\ sending' \in Event
  <2>1. sending' = [op |-> Head(queue).op, name |-> n]
    BY <1>0, <1>5, Offered DEF DirInv, TypeInv
  <2>2. sending' \in Event
    BY <1>5, <2>1 DEF Event, Known
  <2> QED BY <2>1, <2>2
<1>6. ASSUME NEW n \in Names, ino[n] # None, Coming(n)
      PROVE  Coming(n)'
  <2>1. CASE Arrives(queue, n)
    <3>1. PICK e \in Known : Has(queue, e) /\ e.on = n /\ e.op # "Write"
      BY <2>1 DEF Arrives
    <3>2. CASE e = Head(queue)
      <4>1. sending'.name = n /\ sending'.op # "Write" /\ sending' \in Event
        BY <1>5, <1>6, <3>1, <3>2
      <4> QED BY <4>1, ComingArrives DEF DirInv, TypeInv
    <3>3. CASE Has(queue', e)
      <4>1. Arrives(queue', n)
        BY <3>1, <3>3 DEF Arrives
      <4> QED BY <4>1, ComingArrives DEF DirInv, TypeInv
    <3> QED BY <1>2, <3>1, <3>2, <3>3
  <2>2. CASE ~Arrives(queue, n)
    <3>1. event \in Event /\ event.name = n /\ event.op # "Write"
      BY <1>0, <1>6, <2>2, ComingArrives DEF DirInv, TypeInv
    <3> QED BY <1>0, <3>1, ComingArrives DEF DirInv, TypeInv
  <2> QED BY <2>1, <2>2
<1>7. ASSUME NEW n \in Names, ino[n] # None, Announced(n)
      PROVE  Announced(n)'
  <2>1. CASE Has(queue, [op |-> "Write", on |-> n])
    <3>1. CASE Head(queue) = [op |-> "Write", on |-> n]
      <4>1. Head(queue) \in Known /\ Head(queue).on = n /\ Head(queue).op = "Write"
        BY <3>1 DEF Known, Ops
      <4> QED BY <1>5, <1>7, <4>1 DEF Announced
    <3> QED BY <1>2, <2>1, <3>1 DEF Announced
  <2>2. CASE [op |-> "Write", name |-> n] \in {sending, event}
    <3>1. [op |-> "Write", name |-> n] # None
      BY <1>0 DEF Event, Ops
    <3> QED BY <1>0, <2>2, <3>1 DEF Announced
  <2> QED BY <1>7, <2>1, <2>2 DEF Announced
<1>8. ASSUME NEW n \in Names \ Rotated
      PROVE  Follows(n)'
  <2>1. Aside(n)
    BY <1>0, <1>4, <1>6, <1>7 DEF Aside, DirInv, Following, Follows, Open
  <2> QED BY <2>1, FollowsAside DEF DirInv, Following
<1> QED BY <1>1, <1>3, <1>8 DEF Following

\* A step that only ends the reader.
LEMMA EndFollows ==
    ASSUME DirInv, UNCHANGED <<ino, made, size, files, queue, handed>>,
           sending' \in {None, sending}, event' \in {None, event}, ~running'
    PROVE  Links' /\ Removals' /\ Following'
<1>0. None \notin Event
  BY MarkAssumption
<1>1. Doomed'
  BY DEF Doomed
<1>2. Links' /\ Removals'
  BY <1>0 DEF DirInv, Links, Removals, Open
<1>3. ASSUME NEW n \in Names \ Rotated
      PROVE  Follows(n)'
  <2>1. Aside(n)
    BY <1>1 DEF Aside, DirInv, Following, Follows, Open
  <2> QED BY <2>1, FollowsAside DEF DirInv, Following
<1> QED BY <1>2, <1>3 DEF Following

\* A file that is opened is still empty.
LEMMA getFileInfoFollows ==
    ASSUME DirInv, TypeInv', getFileInfo
    PROVE  Links' /\ Removals' /\ Following'
<1>0. /\ UNCHANGED <<ino, made, size, queue, handed>> /\ sending' = None /\ sending # None
      /\ event = None /\ pc = "waiting"
  BY DEF getFileInfo, DirInv, TypeInv, Handling, disk
<1>00. None \notin Event /\ overflow \notin Event /\ overflow # None /\ absent # nil
  BY MarkAssumption
<1>1. CASE sending \in {overflow, nameless} \/ pc' = "refused"
  <2>1. ~running' /\ UNCHANGED <<files, event>>
    BY <1>1 DEF getFileInfo, running
  <2> QED BY <1>0, <2>1, EndFollows
<1>2. ASSUME sending \notin {overflow, nameless}, pc' # "refused"
      PROVE  Links' /\ Removals' /\ Following'
  <2>0. sending \in Event /\ sending.name \in Names
    BY <1>0, <1>2 DEF DirInv, TypeInv, TypeOK, Event
  <2>1. PICK n \in Names : n = sending.name
    BY <2>0
  <2>2. CASE files[n] = absent /\ ino[n] = None
    <3>1. ~running' /\ UNCHANGED <<files, event>>
      BY <1>2, <2>1, <2>2 DEF getFileInfo, running
    <3> QED BY <1>0, <3>1, EndFollows
  <2>3. CASE files[n] = nil
    <3>1. ~running' /\ files' = files /\ event' = None
      BY <1>2, <1>00, <2>1, <2>3 DEF getFileInfo, running, addFile
    <3> QED BY <1>0, <3>1, EndFollows
  <2>4. ASSUME files[n] # nil, ~(files[n] = absent /\ ino[n] = None)
        PROVE  Links' /\ Removals' /\ Following'
    <3>1. files' = addFile(n) /\ pc' = "have" /\ event' = sending
      BY <1>2, <2>1, <2>4 DEF getFileInfo
    <3>2. /\ \A x \in Names : x # n => files'[x] = files[x]
          /\ files[n] # absent => files'[n] = files[n]
          /\ files[n] = absent => ino[n] \in Inodes /\ ino[n] # None /\ files'[n] = [ino |-> ino[n], off |-> size[ino[n]]]
      BY <2>1, <2>4, <3>1 DEF addFile, DirInv, TypeInv, TypeOK
    <3>3. Links'
      <4>1. \A x \in Names : Open(x)' => files'[x].ino <= made'
        BY <1>0, <2>1, <3>2 DEF DirInv, Links, Open
      <4> QED BY <1>0, <4>1 DEF DirInv, Links
    <3>4. Removals'
      BY <1>0, <1>00, <3>1 DEF DirInv, Removals
    <3>5. Doomed => Doomed'
      BY <1>0, <1>2, <3>1 DEF Doomed, running
    <3>6. \A x \in Names : (Coming(x) => Coming(x)') /\ (Announced(x) => Announced(x)')
      <4>1. \A x \in Names : Coming(x) => Coming(x)'
        BY <1>0, <3>1, ComingArrives DEF DirInv, TypeInv
      <4>2. ASSUME NEW x \in Names PROVE Announced(x) => Announced(x)'
        <5>1. [op |-> "Write", name |-> x] # None
          BY <1>00 DEF Event, Ops
        <5> QED BY <1>0, <3>1, <5>1 DEF Announced
      <4> QED BY <4>1, <4>2
    <3>7. ASSUME NEW x \in Names \ Rotated, x # n \/ files[n] # absent
          PROVE  Follows(x)'
      <4>1. files'[x] = files[x] /\ Follows(x)
        BY <3>2, <3>7 DEF DirInv, Following
      <4>2. ino[x] # None => \A m \in Names : files'[m] \notin {absent, nil} /\ files'[m].ino = ino[x] => m = x
        BY <3>2, <3>7, <4>1 DEF Follows, Open, DirInv, Links
      <4>3. Aside(x)
        BY <1>0, <3>5, <3>6, <4>1, <4>2 DEF Aside
      <4> QED BY <4>1, <4>3, FollowsAside
    <3>8. ASSUME n \notin Rotated, files[n] = absent
          PROVE  Follows(n)'
      <4>1. Follows(n)
        BY <2>1, <3>8 DEF DirInv, Following
      <4>2. /\ files'[n] # nil /\ files'[n] # absent
            /\ files'[n].ino = ino[n] /\ files'[n].off = size[ino[n]] /\ ino[n] # None
        <5>1. [ino |-> ino[n], off |-> size[ino[n]]] \in watchFile
          BY <3>2, <3>8 DEF watchFile, DirInv, TypeInv, TypeOK
        <5> QED BY <3>2, <3>8, <5>1, MarkAssumption
      <4>3. BufSize \in Nat
        BY DirAssumption
      <4> QED BY <1>0, <2>1, <3>2, <3>5, <3>8, <4>1, <4>2, <4>3 DEF Follows, Open
    <3> QED BY <2>1, <3>3, <3>4, <3>7, <3>8 DEF Following
  <2> QED BY <2>2, <2>3, <2>4
<1> QED BY <1>1, <1>2

\* One buffer holds all that is unread.
LEMMA readFileFollows ==
    ASSUME DirInv, TypeInv', readFile
    PROVE  Links' /\ Removals' /\ Following'
<1>0. /\ event \in Event /\ files[event.name] \in watchFile /\ Amount \in Nat
      /\ event.op = "Write" /\ pc = "have" /\ pc' = "waiting" /\ event' = None
      /\ UNCHANGED <<ino, made, size, queue, sending>>
  BY ReadMoves DEF DirInv, disk
<1>1. PICK n \in Names : n = event.name
  BY ReadMoves DEF DirInv
<1>2. PICK i \in Inodes : i = files[n].ino
  BY <1>0, <1>1 DEF watchFile
<1>3. /\ files'[n] \in watchFile /\ files'[n].ino = i /\ files'[n].off = files[n].off + Amount
      /\ \A m \in Names : m # n => files'[m] = files[m]
      /\ handed' = [handed EXCEPT ![i] = @ + Amount]
  BY <1>1, <1>2, ReadMoves DEF DirInv
<1>00. None \notin Event /\ absent \notin watchFile /\ nil \notin watchFile
  BY MarkAssumption
<1>4. files[n] \notin {absent, nil} /\ files'[n] \notin {absent, nil}
  BY <1>0, <1>00, <1>1, <1>3
<1>5. handed'[i] = handed[i] + Amount /\ \A j \in Inodes : j # i => handed'[j] = handed[j]
  BY <1>3 DEF DirInv, TypeInv, TypeOK
<1>6. Links'
  <2>1. i <= made /\ made \in Nat
    BY <1>2, <1>4 DEF DirInv, Links, Open, TypeInv, TypeOK
  <2>2. \A j \in Inodes : j > made => j # i
    BY <2>1 DEF Inodes
  <2>3. \A m \in Names : Open(m)' => files'[m].ino <= made'
    BY <1>0, <1>2, <1>3, <2>1 DEF DirInv, Links, Open
  <2> QED BY <1>0, <1>5, <2>2, <2>3 DEF DirInv, Links
<1>7. Removals'
  BY <1>0, <1>00 DEF DirInv, Removals
<1>8. Doomed <=> Doomed'
  BY <1>0 DEF Doomed, running
<1>9. ASSUME NEW x \in Names \ Rotated, x # n
      PROVE  Follows(x)'
  <2>1. Follows(x) /\ (ino[x] # None => ino[x] \in Inodes)
    BY DEF DirInv, Following, TypeInv, TypeOK
  <2>2. ino[x] # None => ino[x] # i
    BY <1>2, <1>4, <1>9, <2>1 DEF Follows, Open
  <2>3. ino[x] # None => \A m \in Names : files'[m] \notin {absent, nil} /\ files'[m].ino = ino[x] => m = x
    BY <1>3, <2>1, <2>2 DEF Follows, Open
  <2>4. Coming(x) => Coming(x)'
    BY <1>0, <1>1, <1>9, ComingArrives DEF DirInv, TypeInv
  <2>5. Announced(x) => Announced(x)'
    <3>1. event # [op |-> "Write", name |-> x]
      BY <1>1, <1>9
    <3> QED BY <1>0, <3>1 DEF Announced
  <2>6. Aside(x)
    BY <1>0, <1>3, <1>5, <1>8, <1>9, <2>1, <2>2, <2>3, <2>4, <2>5 DEF Aside
  <2> QED BY <2>1, <2>6, FollowsAside
<1>10. ASSUME n \notin Rotated
       PROVE  Follows(n)'
  <2>1. Follows(n)
    BY <1>10 DEF DirInv, Following
  <2>2. ino[n] # None /\ ino[n] = i
    BY <1>2, <1>4, <2>1 DEF Follows, Open
  <2>3. \A m \in Names : files'[m] \notin {absent, nil} /\ files'[m].ino = i => m = n
    BY <1>3, <2>1, <2>2 DEF Follows, Open
  <2>4. ~Doomed => handed'[i] = size[i] /\ files'[n].off = size[i]
    <3>1. size[i] \in Nat /\ handed[i] \in Nat /\ BufSize \in Nat
      BY DirAssumption DEF DirInv, TypeInv, TypeOK
    <3>2. ~Doomed => handed[i] <= size[i] /\ size[i] - handed[i] <= BufSize /\ files[n].off = handed[i]
      BY <1>4, <2>1, <2>2 DEF Follows, Open
    <3>3. ~Doomed => Amount = size[i] - handed[i]
      BY <1>1, <1>2, <3>1, <3>2 DEF Amount, Smaller
    <3> QED BY <1>3, <1>5, <3>1, <3>2, <3>3
  <2>5. size[i] \in Nat /\ BufSize \in Nat
    BY DirAssumption DEF DirInv, TypeInv, TypeOK
  <2> QED BY <1>0, <1>3, <1>4, <1>8, <2>2, <2>3, <2>4, <2>5 DEF Follows, Open
<1> QED BY <1>6, <1>7, <1>9, <1>10 DEF Following

\* Only the entry of a rotated name becomes nil.
LEMMA RemoveFollows ==
    ASSUME DirInv, TypeInv', Remove
    PROVE  Links' /\ Removals' /\ Following'
<1>0. /\ event \in Event /\ event.name \in Names /\ pc = "have" /\ event.op = "Remove"
      /\ files' = [files EXCEPT ![event.name] = nil]
      /\ pc' \in {"waiting", "failed"} /\ event' = None /\ UNCHANGED <<ino, made, size, queue, sending, handed>>
  BY DEF Remove, removeFile, DirInv, TypeInv, TypeOK, Handling, Event, disk
<1>1. PICK n \in Names : n = event.name
  BY <1>0
<1>2. n \in Rotated /\ None \notin Event
  BY <1>0, <1>1, MarkAssumption DEF DirInv, Removals
<1>3. files'[n] = nil /\ \A m \in Names : m # n => files'[m] = files[m]
  BY <1>0, <1>1 DEF DirInv, TypeInv, TypeOK
<1>4. Links'
  <2>1. \A m \in Names : Open(m)' => files'[m].ino <= made'
    BY <1>0, <1>3 DEF DirInv, Links, Open
  <2> QED BY <1>0, <2>1 DEF DirInv, Links
<1>5. Removals'
  BY <1>0, <1>2 DEF DirInv, Removals
<1>6. Doomed => Doomed'
  BY <1>0 DEF Doomed, running
<1>7. ASSUME NEW x \in Names \ Rotated
      PROVE  Follows(x)'
  <2>1. Follows(x) /\ x # n
    BY <1>2 DEF DirInv, Following
  <2>2. ino[x] # None => \A m \in Names : files'[m] \notin {absent, nil} /\ files'[m].ino = ino[x] => m = x
    BY <1>3, <2>1 DEF Follows, Open
  <2>3. Coming(x) => Coming(x)'
    BY <1>0, <1>1, <2>1, ComingArrives DEF DirInv, TypeInv
  <2>4. Announced(x) => Announced(x)'
    <3>1. event # [op |-> "Write", name |-> x]
      BY <1>1, <2>1
    <3> QED BY <1>0, <3>1 DEF Announced
  <2>5. Aside(x)
    BY <1>0, <1>3, <1>6, <2>1, <2>2, <2>3, <2>4 DEF Aside
  <2> QED BY <2>1, <2>5, FollowsAside
<1> QED BY <1>4, <1>5, <1>7 DEF Following

\* Watch and Skip drop the coming of a file that is open already.
LEMMA DropFollows ==
    ASSUME DirInv, TypeInv', Watch \/ Skip
    PROVE  Links' /\ Removals' /\ Following'
<1>0. /\ event \in Event /\ event.name \in Names /\ pc = "have" /\ event.op # "Write"
      /\ event' = None /\ UNCHANGED <<ino, made, size, queue, sending, handed>>
      /\ files[event.name] \notin {absent, nil} /\ pc' \in {"waiting", "failed", "refused"}
  BY DEF Watch, Skip, DirInv, TypeInv, TypeOK, Handling, Open, Event, disk
<1>1. files' = files /\ None \notin Event
  BY <1>0, MarkAssumption DEF Watch, Skip, addFile
<1>2. PICK n \in Names : n = event.name
  BY <1>0
<1>3. Links' /\ Removals'
  BY <1>0, <1>1 DEF DirInv, Links, Removals, Open
<1>4. Doomed => Doomed'
  BY <1>0 DEF Doomed, running
<1>5. ASSUME NEW x \in Names \ Rotated
      PROVE  Follows(x)'
  <2>1. Follows(x)
    BY DEF DirInv, Following
  <2>2. files[x] = absent /\ Coming(x) => Coming(x)'
    <3>1. files[x] = absent => x # n
      BY <1>0, <1>2
    <3> QED BY <1>0, <1>2, <3>1, ComingArrives DEF DirInv, TypeInv
  <2>3. Announced(x) => Announced(x)'
    <3>1. event # [op |-> "Write", name |-> x]
      BY <1>0
    <3> QED BY <1>0, <3>1 DEF Announced
  <2>4. Aside(x)
    BY <1>0, <1>1, <1>4, <2>1, <2>2, <2>3 DEF Aside, Follows, Open
  <2> QED BY <2>1, <2>4, FollowsAside
<1> QED BY <1>3, <1>5 DEF Following

\* The reader starts at the end of every file that is there.
LEMMA DirInit ==
    ASSUME Init
    PROVE  DirInv
<1>1. PICK f \in [Existing -> 1 .. Cardinality(Existing)] :
         /\ \A m, n \in Existing : f[m] = f[n] => m = n
         /\ ino = [n \in Names |-> IF n \in Existing THEN f[n] ELSE None]
         /\ files = scanFiles(f)
  BY DEF Init
<1>2. Cardinality(Existing) \in Nat /\ Cardinality(Existing) <= MaxInodes
  <2>1. IsFiniteSet(Existing)
    BY DirAssumption, FS_Subset
  <2> QED BY <2>1, FS_CardinalityType, DirAssumption
<1>3. \A n \in Existing : f[n] \in Inodes /\ f[n] # None /\ f[n] <= made
  <2>1. \A n \in Existing : f[n] \in Inodes /\ f[n] <= Cardinality(Existing)
    BY <1>1, <1>2, DirAssumption DEF Inodes
  <2> QED BY <2>1, DirAssumption DEF Init
<1>4. /\ \A n \in Existing : ino[n] = f[n] /\ files[n] = [ino |-> f[n], off |-> 0]
      /\ \A n \in Names \ Existing : ino[n] = None /\ files[n] = absent
  BY <1>1, DirAssumption DEF scanFiles
<1>5. \A n \in Existing : files[n] \notin {absent, nil}
  <2>1. \A n \in Existing : [ino |-> f[n], off |-> 0] \in watchFile
    BY <1>3, DirAssumption DEF watchFile
  <2> QED BY <1>4, <2>1, MarkAssumption
<1>6. \A i \in Inodes : size[i] = 0 /\ handed[i] = 0
  BY DEF Init
<1>7. \A n \in Names :
          /\ ino[n] # None => n \in Existing /\ ino[n] = f[n]
          /\ Open(n) => n \in Existing /\ files[n].ino = f[n] /\ files[n].off = 0
  <2>1. ASSUME NEW n \in Existing
        PROVE  files[n].ino = f[n] /\ files[n].off = 0
    <3>1. files[n] = [ino |-> f[n], off |-> 0]
      BY <1>4
    <3> QED BY <3>1
  <2> QED BY <1>4, <2>1 DEF Open
<1>8. Links
  <2>1. \A m, n \in Names : ino[n] # None /\ ino[m] = ino[n] => m = n
    BY <1>1, <1>7
  <2> QED BY <1>3, <1>6, <1>7, <2>1 DEF Links
<1>9. Removals
  <2>1. \A e : ~Has(queue, e)
    BY DEF Init, Has
  <2> QED BY <2>1, MarkAssumption DEF Init, Removals
<1>10. ASSUME NEW n \in Names PROVE Follows(n)
  <2>1. CASE n \in Existing
    <3>1. \A m \in Names : Open(m) /\ files[m].ino = f[n] => m = n
      BY <1>1, <1>7, <2>1
    <3>2. BufSize \in Nat
      BY DirAssumption
    <3>3. ino[n] = f[n] /\ ino[n] \in Inodes /\ files[n] \notin {absent, nil}
      BY <1>3, <1>4, <1>5, <2>1
    <3>4. files[n].ino = ino[n] /\ files[n].off = 0 /\ size[ino[n]] = 0 /\ handed[ino[n]] = 0
      BY <1>6, <1>7, <3>3 DEF Open
    <3> QED BY <1>3, <2>1, <3>1, <3>2, <3>3, <3>4 DEF Follows, Open
  <2>2. CASE n \notin Existing
    BY <1>4, <2>2 DEF Follows
  <2> QED BY <2>1, <2>2
<1> QED BY <1>8, <1>9, <1>10, TypesInit DEF DirInv, Following

\* Every step keeps the invariant.
LEMMA DirNext ==
    ASSUME {"settled", "paced"} \subseteq Assumed, DirInv, [Next]_vars
    PROVE  DirInv'
<1>1. TypeInv'
  BY TypesNext DEF DirInv
<1>2. ASSUME NEW n \in Names, NEW m \in Names,
             Create(n) \/ Write(n) \/ Unlink(n) \/ Truncate(n) \/ Rename(n, m)
      PROVE  Links' /\ Removals' /\ Following'
  <2>1. Removals'
    BY <1>2, DiskRemovals DEF DirInv
  <2> QED BY <1>1, <1>2, <2>1, CreateFollows, WriteFollows, RotationFollows
<1>3. CASE Close
  <2>1. UNCHANGED <<ino, made, size, files, queue, handed, sending, event>> /\ ~running'
    BY <1>3 DEF Close, running, disk
  <2> QED BY <1>1, <2>1, EndFollows DEF DirInv
<1>4. CASE Read
  BY <1>1, <1>4, getFileInfoFollows, readFileFollows, RemoveFollows, DropFollows DEF Read, DirInv
<1>5. CASE readEvents
  BY <1>1, <1>5, readEventsFollows DEF DirInv
<1>6. CASE UNCHANGED vars
  <2>1. Links' /\ Removals'
    BY <1>6 DEF vars, DirInv, Links, Removals, Open
  <2>2. Following'
    BY <1>6 DEF vars, DirInv, Following, Follows, Open, Doomed, running, Announced, Has, Coming
  <2> QED BY <1>1, <2>1, <2>2 DEF DirInv
<1> QED BY <1>1, <1>2, <1>3, <1>4, <1>5, <1>6 DEF Next, DirInv

\* When other programs write to a name only after its creation has been handled, and
\* never more ahead of the reader than one buffer, then whenever no event is left all
\* that was written to the names that are only created and appended to has been
\* handed on: no merging of events, no second watch of a file and nothing that
\* happens to the rotated names loses any of it (watcher.go:60-190).
THEOREM NothingLost ==
    ASSUME {"settled", "paced"} \subseteq Assumed
    PROVE  Spec => []CaughtUp
<1>1. Init => DirInv
  BY DirInit
<1>2. DirInv /\ [Next]_vars => DirInv'
  BY DirNext
<1>3. DirInv => CaughtUp
  <2> SUFFICES ASSUME DirInv, quiet, NEW n \in Names \ Rotated, ino[n] # None
               PROVE  handed[ino[n]] = size[ino[n]]
    BY DEF CaughtUp, Ingested
  <2>1. sending = None /\ event = None /\ running /\ \A e : ~Has(queue, e)
    BY DEF quiet, running, Has, DirInv, TypeInv, Handling
  <2>2. None # overflow /\ [op |-> "Write", name |-> n] # None
    BY MarkAssumption DEF Event, Ops
  <2>3. ~Doomed /\ ~Announced(n)
    BY <2>1, <2>2 DEF Doomed, Announced
  <2>4. size[ino[n]] \in Nat /\ handed[ino[n]] \in Nat
    BY DEF DirInv, TypeInv, TypeOK
  <2> QED BY <2>3, <2>4 DEF DirInv, Following, Follows
<1> QED BY <1>1, <1>2, <1>3, PTL DEF Spec
=============================================================================
