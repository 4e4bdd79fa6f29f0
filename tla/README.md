# A TLA+ model of logd

logd is a log collector: it reads logs from a file, a pipe or a directory, parses
them into structured logs, and hands each one to a Lua script that may change it,
post it over HTTP, produce it to Kafka or write it out. This directory holds TLA+
modules that model its parts, TLC configurations that check them on small
instances, and TLAPS proofs of what matters most for every size.

Paths below are relative to the repository; `http.go:217` is line 217 of
`http/http.go`.

## 1. Inventory

| Component | State | Operations | Interacts through |
| --- | --- | --- | --- |
| Asynchronous HTTP client (`http/http.go`) | configuration, request channels, quit channel, lock, posters | `Post`, `Flush`, `Init`, `Close` | called by the sandbox; posters report failures on the sandbox's error channel |
| Log parser (`logging/parse.go`) | `raw`, `state`, `start`, `end`, `current` | `Parse(chunk)`, once per read | fed by `runPipeline`, emits logs |
| Structured log (`logging/logging.go`) | header fields, message, properties | `Get`, `Set`, `Remove`, `Reset`, `WriteTo`, `WriteJSONTo` | filled by the parser, changed by the script through `log_*` |
| Sandbox (`lua/lua.go`, `lua/config.go`) | Lua state, `luaLock`, `quitticker`, configuration | `Init`, `Close`, `setTick`, `CallOnLog`, `callOnTick`, `CallOnSignal` | called by the pipeline, its tickers, the signal handler and `main` |
| HTTP builtins (`lua/http.go`) | the client, `httpErrors` | `http_post`, `http_get`, `config_set("http.*")`, `pollHTTPErrors` | release `luaLock` around `Post` |
| Kafka builtins (`lua/kafka.go`) | the producer | `kafka_produce`, reports, `flushKafka` | release `luaLock` around the send |
| Program (`cmd/logd/main.go`) | `exit` and `signals` channels | `runPipeline`, `sigHandler`, `handleSignal`, `main` | starts everything else |
| Directory watcher (`cmd/logd/watcher.go`) | table of files, fsnotify watcher | `Read`, `Watch`, `Remove`, `Close` | a reader for `runPipeline` |

What is hard to get right, and so what the properties are about:

* The HTTP client: callers race posters; `Post` holds the lock while it waits for
  room; `Flush` replaces the channels under the callers' feet; `Init` and `Close`
  take no lock; an invalid configuration is stored before it is refused. It must
  lose no accepted request, attempt each once, keep the order of an affinity, never
  touch a channel that is closed or nil, and always return.
* The parser: the reader cuts the text anywhere, bytes are scanned again after a
  cut, runes are counted and bytes are sliced. It must never slice out of range,
  and its logs must not depend on the cuts.
* The structured log: any sequence of `log_set`, `log_remove` and `log_reset` must
  leave a map with its order, scripts must be told what is there, and what `log_string`
  writes must parse again.
* The sandbox: four kinds of goroutine want the Lua state and two of them restart
  the ticker. Only one may run Lua code, one ticker may run, it must not be lost,
  and restarts must end.
* The HTTP and Kafka builtins: a hook gives `luaLock` up in the middle, so that
  other hooks run inside it; queues and channels fill up while the goroutine that
  would empty them waits for `luaLock`; `Close` takes down what they use. Hooks must
  return, frames of the Lua stack must nest, and nothing accepted may be lost.
* The directory watcher: the kernel merges, doubles and drops events, and the
  directory has changed when an event is handled. What is appended must be read,
  once, and appending must never end the program.
* The program: two channels that main closes while others may still send, a mode
  read once, a slice that is reused, a Lua stack that protected calls do not leave as
  they found it. Every log must be handled once and in order, an exit status of 0 must
  mean that it was, and what is sent too late must cost no log.

`PROJECT.json` lists the components, the hazards line by line, the findings and the
source lines of every definition.

## 2. Modules

| Module | Models | Checked by |
| --- | --- | --- |
| `FireAndForget` | what the HTTP client promises: abstract specification | property of `client_safety` |
| `AsyncClient` | `http/http.go`, and the consumer of its error channel | `MCAsyncClient`, proofs in `AsyncClientProofs` |
| `Parser` | `logging/parse.go` as `runPipeline` feeds it | `MCParser`, in `parser_wellformed` and `parser_any`, proofs in `ParserProofs` |
| `LogFormat` | the format of the logs in README.md and `parse_test.go`: specification | `MCParser` (its well-formed inputs are `Written`), proofs in `ParserProofs` |
| `LogMap` | what a structured log promises to a script: abstract specification | property of `log_record` |
| `LogRecord` | `logging/logging.go` under the `log_*` builtins | `MCLogRecord`, in `log_record`, proofs in `LogRecordProofs` |
| `LogString` | `WriteTo`, composed with `Parser` that reads its output back | `MCParser`, in `parser_wellformed`, proofs in `ParserProofs` |
| `Ticker` | life cycle, ticker and hooks of the sandbox, with the goroutines of `main` | `ticker`, `ticker_overlap`, proofs in `TickerProofs` |
| `HttpHooks` | `lua/http.go` and `Sandbox.Close`; extends `AsyncClient` | `MCHttpHooks`, in `hooks`, proofs in `HttpHooksProofs` |
| `KafkaHooks` | `lua/kafka.go` and `Sandbox.Close`, with the goroutines of the vendored client | `kafka`, proofs in `KafkaHooksProofs` |
| `DirReader` | `cmd/logd/watcher.go`, with the vendored `fsnotify` and the kernel's queue | `dir_reader`, `dir_rotation`, proofs in `DirReaderProofs` |
| `Program` | `cmd/logd/main.go` and `bench.go`, with the protected calls of `lua.go` | `program`, proofs in `ProgramProofs` |

**AsyncClient.** One action per step between two points where another goroutine
can be seen: taking the lock, each round of the loop over the channels, each send,
each receive. A send on the unbuffered `quitchan` or error channel is one step of
both sides. `fate`, `lane`, `stamp` and `clock` are history variables. A Go panic
ends the process, so no action models it; `PanicNext` describes the states that
would panic next and `NoPanic` forbids them. Callers keep the contract of the
comments in `http.go`: `Post` and `Flush` run concurrently on an initialised client,
`Init` and `Close` run alone. `HttpHooks` shows when the sandbox keeps it.

**Parser.** The text is a sequence of classes of bytes, as far as the handlers, and the
escapes of `WriteTo`, tell them apart; a letter of two bytes is the pair `wide`, `wide2`,
`ctl` a control character that is escaped and is neither a tab nor a newline. `Feed` is one read of
any length, `ScanRune` and `ScanNewline` one round of the loop of `Parse`, `EndParse`
the carry-over. `errorState` is never entered by the code and is left out.
`Scan(s)[k]` is the parser and its logs past the first `k` bytes of `s` in one chunk,
`WholeParse`, its last value, is what the package's function `Parse` returns, and serves
as the reference for every other way to cut a text. A text is `Plain` when its runes have
one byte and each, in the state that `EndParse` scans it again from, does what it did.

**LogFormat** says which logs a text stands for without the parser: what lies between
two offsets is a date, a word, a thread, a key and its value, and these make up a header, a
body (a message, a call type with a word or with properties, or properties) and a line.
`Written(x)` says that `x.text` is that of `x.logs`; TLC confirms it of the inputs of
`parser_wellformed` (`WellFormedWritten`).

**LogRecord.** A string is the sequence of its words, so that formatting a timestamp
(`"%s %s"`) is concatenation and `strings.Split(value, " ")` is the value itself; the
empty string is `<<"">>`. The fields differ from the properties as in the code: an
empty field is absent, an empty property is not. An action is a builtin of `lua/builtin.go`
with the method it calls; `call` is what the script called and `answer` what the builtin
pushed: a boolean, a string, or nothing when `Set` panics. `Lookup` is `Get` of the log,
whose `ok` the builtin does not hand on.

**LogString** extends `Parser`: for every log the parser emits, it writes the line
`WriteTo` writes, with every escape, and parses it with `WholeParse`. The parser undoes no
escape: `StringReadBack` says that keys and values come back escaped, and nothing else has
changed.

**Ticker.** A ticker goroutine and the channel made for it share a number. `select`
evaluates `l.quitticker` on each round, as the code does, so a ticker may listen to
another one's channel. The code relies on four conditions it does not enforce, named
in `Conditions`; the constant `Assumed` says which of them a run takes for granted.
A run without one of them shows what happens when it fails. Accesses to `quitticker`
are not synchronised in the code; the model takes each of them as atomic.

**HttpHooks** follows one life of the sandbox, from a loaded script to the exit. Its
goroutines (the pipeline, the ticker, `pollHTTPErrors` and main) are the callers of
`AsyncClient`, which the module extends: every call is an action of that module, so that
`KeepsClientContract`, which is the specification of `AsyncClient`, says that the sandbox
is a caller of the kind `AsyncClientProofs` is about. The names `Sandbox...` are those of the
sandbox; `Init`, `Next`, `vars`, `TypeOK` and `NoPanic` are the client's. `frames` is the Lua stack, one entry
for each hook that has not returned. `where` is the place of each goroutine: wanting
`luaLock`, running Lua code, inside `Init` or `Post` of the client, or raising an error.
`httpErrors` is unbuffered, so a report is one step of the poster and of the poller.

**KafkaHooks** follows a message through the places it can be in: `ProduceChannel`, the
hand of `channelProducer`, librdkafka, the hand of a goroutine in `eventPoll` (the client's
poller, or main inside `Flush`), `Events`, and the hand of `pollKafkaEvents`. `Custody` names
them. librdkafka is external: it holds a bounded set of messages and reports each of
them once. A report of a failure and one of a delivery take the same way. `kafka.go` panics
on purpose when the producer cannot be made (`InitFails`) and when `Flush` runs out of time
(`FlushTimesOut`); both end the process.

**DirReader.** The directory maps names to inodes; a descriptor is an inode and an offset;
data is counted. The environment creates and appends to files and, for the names in
`Rotated`, renames, unlinks and truncates them, as far as `Moves` says. `Queued` is the kernel's queue with merging
and overflow, `Notify` the two events of a file that has a watch of its own. `readEvents` is
the goroutine of `fsnotify`, which drops an event whose file is gone, unless it is about
that, and sends the name `""` (`nameless`) for a watch whose path it has forgotten;
`getFileInfo` to `Skip` are the iterations of `Read`. `pc` says why the reader has ended:
`refused` when the system does not let it open or watch a file that is there (permissions,
descriptors, inotify watches), `failed` when what it looks for is gone.

**Program.** A log is its position in the input. The pipeline, the signal handler, the
profile server, the ticker and main meet at `exit`, at `signals` and at the Lua stack; `died`
records what panicked. Hooks may fail, switch protected mode and be reloaded at any time, and
signals and errors come at any time: nothing is assumed. `slots` counts what the protected
calls of `on_log` and `on_tick` leave on the Lua stack: the error handler that is pushed
and not popped (`lua.go:237`, `lua.go:305`) and, after an error, the module as well, since what
is popped is the error. `calls` counts these calls. What a call needs while it runs goes on
top: from `MaxSlots` on a call may find the stack `full`. The two benchmarks are modes of the same
pipeline, which read everything at once (an input that ends in a newline) and run it
`Iterations` times.

The code relies on conditions it does not enforce. As in `Ticker`, each module names them
in `Conditions`, and the constant `Assumed` says which ones a run takes for granted. Each
is necessary:

| Module | Condition | What TLC finds without it |
| --- | --- | --- |
| `Ticker` | `noOverlap` | two tickers (run `ticker_overlap`) |
| `Ticker` | `lateTicks` | `Init` holds `luaLock` and waits for a ticker that waits for it (deadlock) |
| `Ticker` | `quietReload` | a log between `Close` and `Init` of a reload meets a nil Lua state (`NoPanic`) |
| `Ticker` | `loneSignal` | `on_signal` runs beside another hook (`OneGoroutineInLua`) |
| `HttpHooks` | `calmConfig` | `config_set("http.*")` waits, with `luaLock`, for a poster that waits to report an error (deadlock) |
| `HttpHooks` | `validConfig` | a refused value leaves a closed client in use (`SandboxNoPanic`) |
| `HttpHooks` | `lateTicks` | a protected `on_tick` inside `http_post` finds something else at index 1 of the stack (`SandboxNoPanic`) |
| `HttpHooks` | `handled` | an error of `http_post` ends the process (`SandboxNoPanic`) |
| `HttpHooks` | `quietExit` | the last `on_http_error` is called on a nil Lua state (`SandboxNoPanic`) |
| `KafkaHooks` | `settled` | `Flush` overlooks a message in the hand of a goroutine, and `Close` drops its report (`ReportedOnce`) |
| `KafkaHooks` | `quietExit` | the last `on_kafka_report` is called on a nil Lua state (`NoRuntimePanic`) |
| `DirReader` | `settled` | a file is written before it is opened, and opened at its end (`CaughtUp`) |
| `DirReader` | `paced` | what does not fit the buffer stays unread until the next write (`CaughtUp`) |

`Posting`, `Configuring` and `Producing` say which hooks use the builtins; the runs take
`on_log`, as the examples do. A script whose `on_tick` produces sends on the channel that
`Close` has closed before it stops the ticker (`lua.go:430-436`), one with two hooks that
post breaks `FramesNest` (the first is back from `http_post` while the frame of the second,
inside its own, is on top), one whose `on_http_error` posts may be in the client while
`Close` runs (`KeepsClientContract`), and one whose `on_tick` posts breaks `SandboxNoPanic`.

## 3. Runs that pass

| Run | Question | Instance |
| --- | --- | --- |
| `client_safety` | Is a request lost, duplicated or reordered, or does the client panic? | 2 callers, 3 requests, affinities -1 to 2, two workers, one worker, and a refused configuration; queues of one place |
| `client_liveness` | Does every request end and every call return? | 2 callers, 3 requests, one worker with a queue of one place |
| `parser_wellformed` | Do the logs depend on how the input is cut? Are they the ones written? Does the parser read what `log_string` writes for them, escapes included? | both header formats of README and tests, 33 bodies, each alone and after another line, all cuts |
| `parser_any` | Does the token in hand stay within the scanned text? Are chunks of whole lines safe? Do the chunks of a plain text matter? | all bodies of up to 3 bytes after a header, all headers of up to 4 bytes, all cuts |
| `log_record` | Do the builtins change the order? Is a log a map, and are scripts told the truth about it? | 3 keys, the message and the timestamp, 3 values, empty and parsed logs |
| `ticker` | Is there one ticker, does it go on, and does `luaLock` keep hooks apart? | 3 `config_set` calls, 2 signals, all four conditions |
| `hooks` | Do hooks that post return, keep the client's contract and leave nothing behind? | 4 requests, one worker with a queue of one place, a valid and an invalid configuration, protected mode on and off |
| `kafka` | Is every message reported once, with every queue full, and at the exit? Does anything but `kafka.go` itself panic? | 4 messages, a place each in `ProduceChannel`, librdkafka and `Events` |
| `dir_reader` | Is everything appended read, whatever happens to other files? What ends the reader? | 3 names, 3 inodes, one renaming, removal or truncation, 2 writes per file, a buffer of 2, a queue of 3 events |
| `program` | Is every log handled once and in order, does the exit status tell, does what comes too late cost a log, and how long does the Lua stack last? | 3 logs, reads of up to 2, 2 signals, 2 ticks, 2 iterations, 5 slots, all three modes |

The bounds make the interesting cases happen. Three requests are one in flight, one
queued in a one-place queue and one whose `Post` waits for room with the lock held;
two workers tell a scan from an affinity. One header and one line before a line show
what the parser carries over, and three bytes reach every transition between key,
value and multi-key with a cut before, between and after them. Three properties are
the first number for which an order can change when one is removed. Three restarts
and two reloads let one be inside `stopTicker`, one wait and one follow. `Touched`
limits the fields a script names: the code treats all of them alike. Four requests, or
messages, fill every place between a hook and the goroutine that waits for `luaLock`: one
in the hand of the consumer, one with the poster or librdkafka, one queued and one whose
sender waits. A name that is only appended to, a rotated one that exists and a rotated one
that does not meet every case of `Read`; two writes of a file that is only appended to may be
merged into one event, which the buffer of two then reads at once; a queue of three events
overflows. `nameless` takes three moves and is covered by the proofs alone. Five protected
calls, three of `on_log` and two of `on_tick`, leave up to ten slots: the stack of five may be
full for the fourth one, and with one slot more left behind by each failing call for the third,
which violates `StackLasts`. go-lua has a million slots. `SYMMETRY` is
used in `client_safety` only, where no liveness is checked and callers and requests
are interchangeable.

`CHECK_DEADLOCK FALSE` appears where the system may stop: a parser whose input is
over, the program and the reader when they have ended, and the ticker when a condition
is not assumed. No run lists a type invariant: those of `AsyncClient`, `Parser`,
`LogRecord`, `Ticker`, `KafkaHooks`, `DirReader` and `Program` are proved.

### Fairness

Goroutines run until they block, so each has weak fairness. A Go mutex hands itself
to a waiter that starves and a blocked channel operation is served in FIFO order,
hence strong fairness for taking a lock and for a send that several goroutines
compete for. `select` picks at random among ready cases. Every HTTP request carries a
deadline (`http.go:178`), so `postRequest` returns. Hooks are taken to return. Nobody
is obliged to call the client, to send a signal or to write a log. In `KafkaHooks`
librdkafka reports every message (`message.timeout.ms`); the panics of `kafka.go` may come and
need not. In `DirReader` only the reader and
`readEvents` are fair. In `Program` the goroutines are, and a finite input is read to its end.

## 4. Runs that find a violation

Each states what a comment, a test or the documentation says, and TLC finds a
behaviour of the code that contradicts it.

| Run | What happens |
| --- | --- |
| `ticker_overlap` | `config_set("tick")` while loading overlaps the restart of `Init`: two tickers (`lua.go:99`). |
| `dir_rotation` | A file is written and renamed before the event of the write is handled: `fsnotify` drops the event, since the name is gone, the event of the renaming is skipped, and the new name is opened at its end (`watcher.go:50`). The flag `-r` promises "ingesting all the new data written to files" (`main.go:310`). |

Other limits were met while modelling and have no run; the properties that hold
presuppose inputs that stay clear of them (`Distinct`, `Writable` and the well-formed
inputs of `MCParser`):

* The table of conditions in section 2 lists what happens when one of them fails.
* The body `k: a b: c: d` cut right after its last colon makes the next `Parse` panic
  (`parse.go:61`): the space inside `a b` was not counted, so that the text carried over begins
  with a space, which in the state of a multi-key is taken to follow a colon, and the slice is
  `raw[0:-1]`. Such a text is not `Plain`.
* Protected mode that is switched on once the pipeline runs is ignored (`main.go:106`), and an
  error of `on_log` ends the process, although the mode "is toggled by calling
  logd.config_set" (`lua.go:411`).
* `log_get` pushes `""` for a property the log does not have (`builtin.go:148`), where its
  comment says "or nil" (`builtin.go:137`). `Get("timestamp")` is ok also when neither date nor time
  is set, as the timestamp is then a space (`logging.go:148`). `LogMap` states both as they are.
* A space inside a message after a call type is not counted (`parse.go:36`), so the
  message loses its last byte; a last line without a newline is not emitted.
* The files of a directory share one parser: a line that a read cuts is continued with
  the bytes of the next file (`main.go:112`).
* A renamed or truncated file is read twice or not at all, depending on when its events
  come. Removing a file ends the program when its watch was never there or is gone with
  it (`watcher.go:159`); so do an overflow of the queue and a file that cannot be opened or
  watched (`watcher.go:40`, `watcher.go:148`).
* `os.Exit(1)` skips the flush of the deferred `Close` (`main.go:356`), also when a heap
  profile cannot be created (`main.go:206`). A signal or an error that comes while main runs its
  deferred calls is sent on a closed channel and panics (`main.go:327`, `main.go:344`):
  `ClosedAfterDone` says that the work is done by then, but the deferred `Close` may be cut short.
* A script that does not load again ends the process (`main.go:247`).
* The switch of `pollKafkaEvents` has no case for `*kafka.Stats`, which the client sends when
  `statistics.interval.ms` is set, and the default case panics (`kafka.go:188-191`). `TrimLeft(key, "kafka.")` cuts a set of
  characters, so `kafka.acks` sets `cks` (`kafka.go:142`).
* `http.timeout` set after the client exists is not read until the client is set up again.
* A value that begins with a colon and is cut right after it is scanned again in the
  state it had reached and taken for another key (`parse.go:260`).
* `end` counts runes and slices take bytes (`parse.go:246`): a letter of two bytes
  shifts the tokens after it. `parser_any` shows that they stay in range.
* `Remove` stops at the first property of a key (`logging.go:76`), and the parser may
  have read two.
* `log_string` escapes and the parser does not undo it (`logging.go:186`): a value with a quote
  or a backslash gains a backslash each time it is written and read.
* A message is written as `msg: text` (`logging.go:240`), which the parser reads as a
  call type when the log has no properties; a log of a header alone loses its class.

## 5. Proofs

Every theorem holds for all values of the constants under the assumptions named in
the modules (`ClientAssumption`, `InputsAssumption`, `LogAssumption`, `TickerAssumption`,
`HooksAssumption`, `KafkaAssumption`, `DirAssumption`, `MarkAssumption`, `ProgramAssumption`):
sizes are natural numbers, finite sets are finite, and markers such as `None` differ from
what they mark. A theorem that needs a condition of section 2 says so in its `ASSUME`; the
others hold for every value of `Assumed`. Whatever is not named there is not needed, which
TLC cannot tell: `calmConfig`, for instance, serves liveness only.

* `AsyncClientProofs`. Type correctness, `OneCustodian`, `NothingLost`, `NoPanic`,
  `DrainedWhenStopped`, and that `AsyncClient` implements `FireAndForget`. None of them is
  inductive. The invariant adds *Control* (the lock is held exactly by whoever is in
  its critical section, and a caller of `Init` or `Close` is alone), *Offers* (a caller
  in `Post` carries an offered request whose affinity exists), *Crew* (which channels are open
  and which posters run at each point of `stopWorkers`: as many posters have quit as
  channels were closed, whichever said so) and *Order* (a queue is sorted by
  acceptance and serves one affinity). The order gives the refinement: what a poster
  takes is the oldest of its lane, and its predecessor is over because the same poster
  held it. One lemma per action, one step per conjunct the action can disturb.
* `ParserProofs`. Type correctness, `SlicesInBounds` and `AlignedChunksAreSafe`. The
  invariant adds *Carry*: what `raw`, `start` and the state are between two calls. The main
  lemma, `NextMoves`, says what one rune does to `start`, `end` and the properties in any
  state.
  * `PlainChunks`: the chunks of a plain text do not matter, whatever the text is. *Tracks*
    compares the parser with `Scan` of the whole input: `raw` is the input from the last
    carry-over to `fed`, the logs are the same, and the parser is where the scan was at
    that byte (*Located*), or waits where `EndParse` left it. *Kept* says that the first byte of
    the token in hand was taken from the state `EndParse` goes back to. `NextAlike` says that
    `next` does the same to a parser whose offsets are shifted.
  * `FormatParsed` (`ParsedAsWritten`), if all inputs are `Written`. Such a text is plain, hence
    one scan remains: `Reach` says what it has come to after `k` bytes, with one lemma per part
    of the format and an induction over the properties of a line and one over the lines.
  * `StringSafe` (`StringReadBack`), if all inputs are `Written`. What `WriteTo` writes for a
    log that was read is in the format again (`Chain` and `Pieces` say where each property is, `Runs...`
    and `Escape...` that an escaped key is a key and an escaped value a value: an escape has neither a
    separator in it nor begins with one), so that the lemma behind `FormatParsed`, `WrittenParsed`,
    says what the parser reads back.
  * Induction over a text is a least-number principle: the set of positions where a fact fails has
    a least element (`LeastNumber`), and the fact holds one before it. That `Scan` and the text of
    `WriteTo` are functions that satisfy their equations is shown first (`ScanExists`, `FlatExists`).
* `LogRecordProofs`, for logs whose keys are distinct when they are handed over. Type
  correctness, `KeysStayDistinct`, `KeepsOrder`, and that `LogRecord` implements `LogMap`, with
  what the builtins push. Distinctness makes the property that `Set`, `Remove` and `Get` find the
  only one of its key. `LogMap` refuses a timestamp only if it has other than two words, so the
  refinement also says that nothing else makes `Set` panic.
* `ProgramProofs`. The type invariant, `HandledInOrder`, `ZeroMeansDone`, `ClosedAfterDone` and
  `StackLasts`, none of which needs a condition. The invariant is *Account* (what was handled plus
  what is in hand is what was read, position by position), *Reasons* (which error ends the
  pipeline when, and that the end of the input is only seen with nothing in hand), *Leaves* (main
  runs its deferred calls, and so closes channels, only after a report without error, and a
  process that died on a closed channel had such a report) and *Leaks* (no protected call leaves
  more than two slots, and the stack was full only when that many calls had been made).
* `TickerProofs`. Type correctness; `OneGoroutineInLua` if `on_signal` runs alone, from who
  holds `luaLock` in which role; `OneTicker` if restarts do not overlap; `NoPanic` if in
  addition ticks do not fire during `Init` and nothing comes during a reload. The invariant
  for `OneTicker` (*TickInv*) ties `quitticker`, the place of the one goroutine in
  `stopTicker`, the channel each ticker listens to and the one that is closed; the one for
  `NoPanic` adds when ticks and logs can come and when the Lua state is gone.
* `KafkaHooksProofs`. Type correctness and, without any condition, that a message is never
  in two places and never reported twice. If `Flush` sees what its goroutines have in hand
  and only `on_log` produces, `ReportedOnce`; with a quiet exit also `NoRuntimePanic` and
  `FlushedAtExit`, the panics of `kafka.go` itself being steps of the model. *Once* makes the places of `Custody` disjoint; *Kept* says that what was
  produced is in one of them; *Drained* that all of them but the last are empty from the
  end of `Flush` on, so that `Close` finds nothing to drop.
* `HttpHooksProofs`. `FramesNest` if one hook posts; `KeepsClientContract`, that is the
  refinement of `AsyncClient`, if `on_http_error` does not post, a hook that configures is the
  only one that posts and values are valid (`OwnClient`, `validConfig`); with a quiet exit
  also `FlushedAtExit`; and `SandboxNoPanic` if in addition only `on_log` posts, errors are
  raised in protected mode only and ticks keep out of `http_post`. `FramesNest` needs *LockInv*
  (a hook runs Lua code exactly when it holds `luaLock`) and *Stack* (below the frame of the
  hook that holds the lock there is only that of the hook inside `http_post`). The contract
  needs the whole invariant of `AsyncClientProofs`, and in addition *Duties* (which call of the client
  each place of the sandbox stands for), *Presence* (`l.http` is not nil where it is
  used, and initialised unless `config_set` or `Close` is at work on it) and *Ending* (what is over at each step of `Close`). Theorems cannot be cited through
  `INSTANCE`, hence `HttpHooks` extends `AsyncClient`; `SandboxKeepsPromises` then carries
  what is proved of the client over to the sandbox.
* `DirReaderProofs`. Type correctness and `FailsOnlyAfterMove` without any condition (what the
  system refuses and an overflow apart, which are ends of their own), and
  `CaughtUp` if names are written only once they are open (`settled`) and not further ahead
  than a buffer (`paced`). *Grown* says what the kernel may do to its queue, once for all
  operations: nothing is taken away, and the new event is there unless the queue has
  overflowed. *Untouched*: as long as nothing was moved, events are about files that are
  there and no entry is nil. *Following*: a file that is not rotated is open, under its own
  name alone, at the place the pipeline has reached, or is empty with its creation on the
  way; and what is unread fits the buffer and is announced, unless the reader has met or will
  meet an overflow. *Links* (an inode has one name; inodes not made yet are empty) and *Removals*
  (only rotated names are reported removed) keep what happens to other names away from it.

Only model-checked: liveness, as TLAPS does not treat fairness here. Every invariant and action
property of a passing run is stated by a theorem. What the parser makes of a text that is
neither `Plain` nor `Written` is covered by `SlicesInBounds` and `AlignedChunksAreSafe` alone: its
chunks can matter and make `Parse` panic (section 4).

## 6. Not modelled, and why

* Bodies, headers and responses of HTTP requests: a post succeeds or fails. `http_get`
  blocks its hook and shares nothing.
* `log_json`, `debug`, fetching arguments from the Lua stack, the construction of Kafka
  messages and offsets, the values of `kafka.*` settings, flags and the figures of the
  benchmarks: no state another part depends on.
* Directories inside a watched directory: `watcher.go` scans them when it starts and
  watches the top one only.
* Scripts that fail to load the first time, or set no tick.
* A reload of a script that uses HTTP or Kafka: `Ticker` has the reload, `HttpHooks` and
  `KafkaHooks` have the `Close` it begins with, at the exit, and their product is out of TLC's reach.
* Weak memory effects of the unsynchronised accesses in `lua.go`.

## 7. Plan

1. `DirReader`: directories inside the watched directory, and a parser fed by several files.
2. `Ticker` with `HttpHooks`: a reload of a script that posts, as a composition of the two
   proofs where TLC cannot reach the product.
3. `Parser`: the forms of a line that `LogFormat` leaves out (two-byte runes, a value with a
   comma), with what the parser makes of them.
