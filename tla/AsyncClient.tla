---------------------------- MODULE AsyncClient ----------------------------
(***************************************************************************)
(* http/http.go: the AsyncClient, its poster goroutines, and the goroutine *)
(* of the Lua sandbox that drains its error channel.                       *)
(*                                                                         *)
(* Every goroutine that calls Post, Flush, Init or Close is a member of    *)
(* Callers; a poster is known by the index of its request channel.  A send *)
(* on an unbuffered channel is one step of sender and receiver together.   *)
(* A Go panic ends the process: the states whose next step would panic are *)
(* described by PanicNext below, and no action models what follows.        *)
(***************************************************************************)
EXTENDS Integers, Sequences

CONSTANTS Callers,          \* goroutines using the client
          Requests,         \* identities of the requests they post
          Affinities,       \* affinities they ask for; a negative one means any worker
          Configs,          \* configurations given to Init, invalid ones included
          MaxConcurrency,   \* bound on the number of workers
          None

Workers == 0 .. (MaxConcurrency - 1)

Lanes == Affinities \cup {-1}

ConfigType == [concurrency : 0 .. MaxConcurrency, chanBuffer : Nat, errorchan : BOOLEAN]

ASSUME ClientAssumption ==
    /\ MaxConcurrency \in Nat
    /\ Affinities \subseteq Int
    /\ Configs \subseteq ConfigType
    /\ None \notin Requests
    /\ None \notin Callers

VARIABLES
    cfg,        \* a.cfg (with the fact that a.errorchan is not nil)
    ready,      \* a.reqchan # nil
    open,       \* [Workers -> BOOLEAN]  a.reqchan[w] exists and is not closed
    buf,        \* [Workers -> Seq(Requests)]  contents of a.reqchan[w]
    poster,     \* [Workers -> STRING]  where poster w is; "none" when it does not run
    held,       \* [Workers -> Requests \cup {None}]  its variable req
    quitchan,   \* a.quitchan: nil, open or closed
    lock,       \* holder of a.lock, or None
    pc,         \* [Callers -> STRING]  where each caller is
    op,         \* [Callers -> STRING]  the call that stopWorkers is part of
    req,        \* [Callers -> Requests \cup {None}]  request of the Post in progress
    idx,        \* [Callers -> Nat]  loop variable i of Post and stopWorkers; 0 outside of them
    want,       \* [Callers -> ConfigType]  the cfg argument of Init
    consumer,   \* TRUE while the reader of the error channel handles an error
    fate,       \* [Requests -> Fates]  history: what became of each request
    lane,       \* [Requests -> Lanes]  history: affinity it was posted with
    stamp,      \* [Requests -> Nat]    history: position in the order of acceptance
    clock       \* history: number of requests accepted

client   == <<cfg, ready, open, buf, quitchan, lock>>
workers  == <<poster, held, consumer>>
callers  == <<pc, op, req, idx, want>>
history  == <<fate, lane, stamp, clock>>
vars     == <<client, workers, callers, history>>

Fates   == {"unsent", "rejected", "offered", "queued", "inflight", "failing", "ok", "failed"}
Pending == {"queued", "inflight", "failing"}
ZeroConfig == [concurrency |-> 0, chanBuffer |-> 0, errorchan |-> FALSE]

validateConfiguration(k) == k.concurrency >= 1 /\ k.chanBuffer >= 1

Init ==
    /\ cfg = ZeroConfig
    /\ ready = FALSE
    /\ open = [w \in Workers |-> FALSE]
    /\ buf = [w \in Workers |-> <<>>]
    /\ poster = [w \in Workers |-> "none"]
    /\ held = [w \in Workers |-> None]
    /\ quitchan = "nil"
    /\ lock = None
    /\ pc = [c \in Callers |-> "idle"]
    /\ op = [c \in Callers |-> "none"]
    /\ req = [c \in Callers |-> None]
    /\ idx = [c \in Callers |-> 0]
    /\ want = [c \in Callers |-> ZeroConfig]
    /\ consumer = FALSE
    /\ fate = [r \in Requests |-> "unsent"]
    /\ lane = [r \in Requests |-> -1]
    /\ stamp = [r \in Requests |-> 0]
    /\ clock = 0
-----------------------------------------------------------------------------
(* Post *)

\* Post returns an error before it locks: the affinity is checked against a.cfg,
\* and building the request fails on a malformed URL.
RejectPost(c, r, l, wellFormed) ==
    /\ pc[c] = "idle"
    /\ fate[r] = "unsent"
    /\ l > cfg.concurrency - 1 \/ ~wellFormed
    /\ fate' = [fate EXCEPT ![r] = "rejected"]
    /\ UNCHANGED <<client, workers, callers, lane, stamp, clock>>

\* Otherwise the caller goes for a.lock.
BeginPost(c, r, l) ==
    /\ pc[c] = "idle"
    /\ fate[r] = "unsent"
    /\ l <= cfg.concurrency - 1
    /\ fate' = [fate EXCEPT ![r] = "offered"]
    /\ lane' = [lane EXCEPT ![r] = l]
    /\ req' = [req EXCEPT ![c] = r]
    /\ pc' = [pc EXCEPT ![c] = "postLock"]
    /\ UNCHANGED <<client, workers, op, idx, want, stamp, clock>>

\* Mutant: affinity 0 is taken for no affinity.
PostLockAnyForZero(c) ==
    /\ pc[c] = "postLock"
    /\ lock = None
    /\ lock' = c
    /\ pc' = [pc EXCEPT ![c] = IF lane[req[c]] > 0 THEN "send" ELSE "scan"]
    /\ UNCHANGED <<cfg, ready, open, buf, quitchan, workers, op, req, idx, want, history>>

PostLock(c) ==
    /\ pc[c] = "postLock"
    /\ lock = None
    /\ lock' = c
    /\ pc' = [pc EXCEPT ![c] = IF lane[req[c]] >= 0 THEN "send" ELSE "scan"]
    /\ UNCHANGED <<cfg, ready, open, buf, quitchan, workers, op, req, idx, want, history>>

HasRoom(w) == Len(buf[w]) < cfg.chanBuffer

\* The request of c enters channel w; Post returns and its deferred Unlock runs.
Enqueue(c, w) ==
    /\ buf' = [buf EXCEPT ![w] = Append(@, req[c])]
    /\ fate' = [fate EXCEPT ![req[c]] = "queued"]
    /\ stamp' = [stamp EXCEPT ![req[c]] = clock + 1]
    /\ clock' = clock + 1
    /\ lock' = None
    /\ req' = [req EXCEPT ![c] = None]
    /\ idx' = [idx EXCEPT ![c] = 0]
    /\ pc' = [pc EXCEPT ![c] = "idle"]
    /\ UNCHANGED <<cfg, ready, open, quitchan, workers, op, want, lane>>

\* Channel of a blocking send: the affinity, or channel 0 when none had room.
Target(c) == IF lane[req[c]] >= 0 THEN lane[req[c]] ELSE 0

PostSend(c) ==
    /\ pc[c] = "send"
    /\ open[Target(c)]
    /\ HasRoom(Target(c))
    /\ Enqueue(c, Target(c))

\* Mutant: the loop goes on after the send.
PostScanSendNoReturn(c) ==
    /\ pc[c] = "scan"
    /\ idx[c] < cfg.concurrency
    /\ open[idx[c]]
    /\ HasRoom(idx[c])
    /\ buf' = [buf EXCEPT ![idx[c]] = Append(@, req[c])]
    /\ fate' = [fate EXCEPT ![req[c]] = "queued"]
    /\ stamp' = [stamp EXCEPT ![req[c]] = clock + 1]
    /\ clock' = clock + 1
    /\ idx' = [idx EXCEPT ![c] = @ + 1]
    /\ UNCHANGED <<cfg, ready, open, quitchan, lock, workers, pc, op, req, want, lane>>

\* The loop that looks for a channel with room: channel i takes the request ...
PostScanSend(c) ==
    /\ pc[c] = "scan"
    /\ idx[c] < cfg.concurrency
    /\ open[idx[c]]
    /\ HasRoom(idx[c])
    /\ Enqueue(c, idx[c])

\* ... or is full and the loop goes on, to the blocking send when it is over.
PostScanNext(c) ==
    /\ pc[c] = "scan"
    /\ idx[c] < cfg.concurrency => ~HasRoom(idx[c])
    /\ idx' = [idx EXCEPT ![c] = @ + 1]
    /\ pc' = [pc EXCEPT ![c] = IF idx[c] < cfg.concurrency THEN "scan" ELSE "send"]
    /\ UNCHANGED <<client, workers, op, req, want, history>>
-----------------------------------------------------------------------------
(* poster *)

PosterTake(w) ==
    /\ poster[w] = "idle"
    /\ buf[w] # <<>>
    /\ held' = [held EXCEPT ![w] = Head(buf[w])]
    /\ buf' = [buf EXCEPT ![w] = Tail(@)]
    /\ fate' = [fate EXCEPT ![Head(buf[w])] = "inflight"]
    /\ poster' = [poster EXCEPT ![w] = "posting"]
    /\ UNCHANGED <<cfg, ready, open, quitchan, lock, consumer, callers, lane, stamp, clock>>

\* postRequest returned: a 2xx response, or an error (transport, timeout, other
\* status) that nobody wants to hear about.
PosterDone(w, success) ==
    /\ poster[w] = "posting"
    /\ success \/ ~cfg.errorchan
    /\ fate' = [fate EXCEPT ![held[w]] = IF success THEN "ok" ELSE "failed"]
    /\ poster' = [poster EXCEPT ![w] = "idle"]
    /\ held' = [held EXCEPT ![w] = None]
    /\ UNCHANGED <<client, consumer, callers, lane, stamp, clock>>

\* Mutant: the error is dropped when nobody waits for it.
PosterFailDropped(w) ==
    /\ poster[w] = "posting"
    /\ cfg.errorchan
    /\ fate' = [fate EXCEPT ![held[w]] = "failing"]
    /\ poster' = [poster EXCEPT ![w] = "idle"]
    /\ held' = [held EXCEPT ![w] = None]
    /\ UNCHANGED <<client, consumer, callers, lane, stamp, clock>>

\* postRequest returned an error and there is an error channel.
PosterFail(w) ==
    /\ poster[w] = "posting"
    /\ cfg.errorchan
    /\ fate' = [fate EXCEPT ![held[w]] = "failing"]
    /\ poster' = [poster EXCEPT ![w] = "reporting"]
    /\ UNCHANGED <<client, held, consumer, callers, lane, stamp, clock>>

\* Mutant: a request that failed is tried again.
PosterReportRetries(w) ==
    /\ poster[w] = "reporting"
    /\ ~consumer
    /\ consumer' = TRUE
    /\ fate' = [fate EXCEPT ![held[w]] = "inflight"]
    /\ poster' = [poster EXCEPT ![w] = "posting"]
    /\ UNCHANGED <<client, held, callers, lane, stamp, clock>>

\* errorchan <- Error{req, err}, received by pollHTTPErrors.
PosterReport(w) ==
    /\ poster[w] = "reporting"
    /\ ~consumer
    /\ consumer' = TRUE
    /\ fate' = [fate EXCEPT ![held[w]] = "failed"]
    /\ poster' = [poster EXCEPT ![w] = "idle"]
    /\ held' = [held EXCEPT ![w] = None]
    /\ UNCHANGED <<client, callers, lane, stamp, clock>>

\* The range loop ends: the channel is closed and drained.
PosterExit(w) ==
    /\ poster[w] = "idle"
    /\ buf[w] = <<>>
    /\ ~open[w]
    /\ poster' = [poster EXCEPT ![w] = "quitting"]
    /\ UNCHANGED <<client, held, consumer, callers, history>>

\* callOnHTTPError returns and pollHTTPErrors goes back to the channel.
ConsumerDone ==
    /\ consumer
    /\ consumer' = FALSE
    /\ UNCHANGED <<client, poster, held, callers, history>>
-----------------------------------------------------------------------------
(* Flush, Close, Init *)

BeginFlush(c) ==
    /\ pc[c] = "idle"
    /\ op' = [op EXCEPT ![c] = "flush"]
    /\ pc' = [pc EXCEPT ![c] = "flushLock"]
    /\ UNCHANGED <<client, workers, req, idx, want, history>>

\* Mutant: Flush does not wait for a.lock.
FlushLockNoWait(c) ==
    /\ pc[c] = "flushLock"
    /\ lock' = c
    /\ pc' = [pc EXCEPT ![c] = "stop"]
    /\ UNCHANGED <<cfg, ready, open, buf, quitchan, workers, op, req, idx, want, history>>

FlushLock(c) ==
    /\ pc[c] = "flushLock"
    /\ lock = None
    /\ lock' = c
    /\ pc' = [pc EXCEPT ![c] = "stop"]
    /\ UNCHANGED <<cfg, ready, open, buf, quitchan, workers, op, req, idx, want, history>>

\* Close does not take a.lock.
BeginClose(c) ==
    /\ pc[c] = "idle"
    /\ op' = [op EXCEPT ![c] = "close"]
    /\ pc' = [pc EXCEPT ![c] = "stop"]
    /\ UNCHANGED <<client, workers, req, idx, want, history>>

\* Init first closes a client that is initialised.
BeginInit(c, k) ==
    /\ pc[c] = "idle"
    /\ op' = [op EXCEPT ![c] = "init"]
    /\ want' = [want EXCEPT ![c] = k]
    /\ pc' = [pc EXCEPT ![c] = IF ready THEN "stop" ELSE "setup"]
    /\ UNCHANGED <<client, workers, req, idx, history>>

\* Mutant: stopWorkers does not wait for the posters.
StopCloseNoWait(c) ==
    /\ pc[c] = "stop"
    /\ idx[c] < cfg.concurrency
    /\ open[idx[c]]
    /\ open' = [open EXCEPT ![idx[c]] = FALSE]
    /\ idx' = [idx EXCEPT ![c] = @ + 1]
    /\ UNCHANGED <<cfg, ready, buf, quitchan, lock, workers, pc, op, req, want, history>>

\* stopWorkers closes one channel ...
StopClose(c) ==
    /\ pc[c] = "stop"
    /\ idx[c] < cfg.concurrency
    /\ open[idx[c]]
    /\ open' = [open EXCEPT ![idx[c]] = FALSE]
    /\ pc' = [pc EXCEPT ![c] = "await"]
    /\ UNCHANGED <<cfg, ready, buf, quitchan, lock, workers, op, req, idx, want, history>>

\* ... and waits for some poster to say it quits.
StopAwait(c, w) ==
    /\ pc[c] = "await"
    /\ poster[w] = "quitting"
    /\ poster' = [poster EXCEPT ![w] = "none"]
    /\ idx' = [idx EXCEPT ![c] = @ + 1]
    /\ pc' = [pc EXCEPT ![c] = "stop"]
    /\ UNCHANGED <<client, held, consumer, op, req, want, history>>

\* initWorkers: fresh channels and one poster on each.
initWorkers(k) ==
    /\ open' = [w \in Workers |-> w < k.concurrency]
    /\ buf' = [w \in Workers |-> <<>>]
    /\ poster' = [w \in Workers |-> IF w < k.concurrency THEN "idle" ELSE "none"]
    /\ held' = [w \in Workers |-> None]

FlushRestart(c) ==
    /\ pc[c] = "stop"
    /\ op[c] = "flush"
    /\ idx[c] >= cfg.concurrency
    /\ initWorkers(cfg)
    /\ lock' = None
    /\ idx' = [idx EXCEPT ![c] = 0]
    /\ op' = [op EXCEPT ![c] = "none"]
    /\ pc' = [pc EXCEPT ![c] = "idle"]
    /\ UNCHANGED <<cfg, ready, quitchan, consumer, req, want, history>>

\* The rest of Close; Init goes on from there.
CloseDone(c) ==
    /\ pc[c] = "stop"
    /\ op[c] \in {"close", "init"}
    /\ idx[c] >= cfg.concurrency
    /\ quitchan' = "closed"
    /\ ready' = FALSE
    /\ idx' = [idx EXCEPT ![c] = 0]
    /\ pc' = [pc EXCEPT ![c] = IF op[c] = "close" THEN "idle" ELSE "setup"]
    /\ op' = [op EXCEPT ![c] = IF @ = "close" THEN "none" ELSE @]
    /\ UNCHANGED <<cfg, open, buf, lock, workers, req, want, history>>

\* The rest of Init with a valid configuration.
InitSetup(c) ==
    /\ pc[c] = "setup"
    /\ validateConfiguration(want[c])
    /\ cfg' = want[c]
    /\ quitchan' = "open"
    /\ ready' = TRUE
    /\ initWorkers(want[c])
    /\ want' = [want EXCEPT ![c] = ZeroConfig]
    /\ op' = [op EXCEPT ![c] = "none"]
    /\ pc' = [pc EXCEPT ![c] = "idle"]
    /\ UNCHANGED <<lock, consumer, req, idx, history>>

\* An invalid one is stored in a.cfg all the same, and the client stays closed.
InitRefused(c) ==
    /\ pc[c] = "setup"
    /\ ~validateConfiguration(want[c])
    /\ cfg' = [want[c] EXCEPT !.errorchan = cfg.errorchan]
    /\ want' = [want EXCEPT ![c] = ZeroConfig]
    /\ op' = [op EXCEPT ![c] = "none"]
    /\ pc' = [pc EXCEPT ![c] = "idle"]
    /\ UNCHANGED <<ready, open, buf, quitchan, lock, workers, req, idx, history>>
-----------------------------------------------------------------------------
(***************************************************************************)
(* The client on its own.  Callers keep to what http.go asks of them: Post *)
(* and Flush, which a.lock synchronises, run concurrently on an initialised*)
(* client; Init and Close, which take no lock, run alone.                  *)
(***************************************************************************)
Quiet == \A c \in Callers : pc[c] = "idle"
InLifecycle(c) == op[c] \in {"close", "init"}
Usable == ready /\ \A c \in Callers : ~InLifecycle(c)

CallerStep(c) ==
    \/ PostLock(c)
    \/ PostSend(c)
    \/ PostScanSend(c)
    \/ PostScanNext(c)
    \/ FlushLock(c)
    \/ StopClose(c)
    \/ \E w \in Workers : StopAwait(c, w)
    \/ FlushRestart(c)
    \/ CloseDone(c)
    \/ InitSetup(c)
    \/ InitRefused(c)

PosterStep(w) ==
    \/ PosterTake(w)
    \/ \E success \in BOOLEAN : PosterDone(w, success)
    \/ PosterFail(w)
    \/ PosterReport(w)
    \/ PosterExit(w)

Call(c) ==
    \/ /\ Usable
       /\ \E r \in Requests, l \in Affinities :
             \/ BeginPost(c, r, l)
             \/ \E wellFormed \in BOOLEAN : RejectPost(c, r, l, wellFormed)
    \/ /\ Usable
       /\ BeginFlush(c)
    \/ /\ Quiet /\ ready
       /\ BeginClose(c)
    \/ /\ Quiet
       /\ \E k \in Configs : BeginInit(c, k)

Next ==
    \/ \E c \in Callers : Call(c) \/ CallerStep(c)
    \/ \E w \in Workers : PosterStep(w)
    \/ ConsumerDone

Spec == Init /\ [][Next]_vars

(***************************************************************************)
(* Goroutines run until they block.  Go's mutex hands itself to a waiter   *)
(* that starves, and a blocked channel send is served in FIFO order, hence *)
(* the strong fairness of the steps that several goroutines compete for.   *)
(* Every request has a deadline, so postRequest returns.  Nobody is bound  *)
(* to call the client.                                                     *)
(***************************************************************************)
Fairness ==
    /\ \A c \in Callers : WF_vars(CallerStep(c)) /\ SF_vars(PostLock(c)) /\ SF_vars(FlushLock(c))
    /\ \A w \in Workers : WF_vars(PosterStep(w)) /\ SF_vars(PosterReport(w))
    /\ WF_vars(ConsumerDone)

FairSpec == Spec /\ Fairness
-----------------------------------------------------------------------------
(* Properties *)

PosterStates == {"none", "idle", "posting", "reporting", "quitting"}
CallerStates == {"idle", "postLock", "scan", "send", "flushLock", "stop", "await", "setup"}

\* Type invariant of the AsyncClient struct, its posters and its callers.
TypeOK ==
    /\ cfg \in ConfigType
    /\ ready \in BOOLEAN
    /\ open \in [Workers -> BOOLEAN]
    /\ buf \in [Workers -> Seq(Requests)]
    /\ poster \in [Workers -> PosterStates]
    /\ held \in [Workers -> Requests \cup {None}]
    /\ quitchan \in {"nil", "open", "closed"}
    /\ lock \in Callers \cup {None}
    /\ pc \in [Callers -> CallerStates]
    /\ op \in [Callers -> {"none", "flush", "close", "init"}]
    /\ req \in [Callers -> Requests \cup {None}]
    /\ idx \in [Callers -> Nat]
    /\ want \in [Callers -> ConfigType]
    /\ consumer \in BOOLEAN
    /\ fate \in [Requests -> Fates]
    /\ lane \in [Requests -> Lanes]
    /\ stamp \in [Requests -> Nat]
    /\ clock \in Nat

\* What a channel holds is queued, what a poster holds is being posted or
\* reported, and no request is in two places (channels of http.go:137-141,
\* variable req of poster).
OneCustodian ==
    /\ \A w \in Workers : \A i \in 1 .. Len(buf[w]) :
          /\ fate[buf[w][i]] = "queued"
          /\ \A v \in Workers : \A j \in 1 .. Len(buf[v]) :
                buf[v][j] = buf[w][i] => v = w /\ j = i
    /\ \A w \in Workers :
          /\ poster[w] = "posting"   => held[w] \in Requests /\ fate[held[w]] = "inflight"
          /\ poster[w] = "reporting" => held[w] \in Requests /\ fate[held[w]] = "failing"
          /\ poster[w] \notin {"posting", "reporting"} => held[w] = None
          /\ \A v \in Workers : held[w] # None /\ held[v] = held[w] => v = w

\* No request that Post accepted is lost: until it is over it is in a channel
\* or in the hands of a poster, across every Flush, Init and Close.
NothingLost ==
    \A r \in Requests :
        /\ fate[r] = "queued" => \E w \in Workers : \E i \in 1 .. Len(buf[w]) : buf[w][i] = r
        /\ fate[r] \in {"inflight", "failing"} => \E w \in Workers : held[w] = r

\* The next step of c panics: a send on, or a close of, a channel that is
\* closed or nil, or an index past the channels that exist.
PanicNext(c) ==
    \/ pc[c] = "send" /\ ~(ready /\ Target(c) \in Workers /\ open[Target(c)])
    \/ pc[c] = "scan" /\ idx[c] < cfg.concurrency /\ ~(ready /\ open[idx[c]])
    \/ pc[c] = "stop" /\ idx[c] < cfg.concurrency /\ ~(ready /\ open[idx[c]])
    \/ pc[c] = "stop" /\ InLifecycle(c) /\ idx[c] >= cfg.concurrency /\ quitchan # "open"

\* Callers that keep to the contract never make the client panic, whatever the
\* interleaving of Post and Flush with the posters.
NoPanic == \A c \in Callers : ~PanicNext(c)

\* Flush starts new workers, and Close and Init give the client up, only when
\* every accepted request is over: "Close will block until all data has been
\* written" (http.go:254).
DrainedWhenStopped ==
    [][ (ready /\ ~ready') \/ (\E w \in Workers : poster[w] = "none" /\ poster'[w] = "idle")
        => \A r \in Requests : fate[r] \notin Pending ]_vars

\* The client implements FireAndForget; reporting an error is part of the attempt.
Abstract == INSTANCE FireAndForget
                WITH fate <- [r \in Requests |-> IF fate[r] = "failing" THEN "inflight" ELSE fate[r]]

\* Each request is attempted at most once, and requests of one affinity are
\* attempted one at a time in the order Post accepted them (README: "affinity
\* defines an HTTP queue affinity to synchronize HTTP requests").
ImplementsFireAndForget == Abstract!Spec

\* Every accepted request is eventually posted or reported.
EveryRequestEnds ==
    \A r \in Requests : fate[r] \in Pending ~> fate[r] \in {"ok", "failed"}

\* Every call returns: Post although it holds a.lock while it waits for room,
\* Flush, Close and Init although they wait for every poster in turn.
EveryCallReturns ==
    \A c \in Callers : pc[c] # "idle" ~> pc[c] = "idle"
=============================================================================
