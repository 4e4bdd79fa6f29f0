------------------------- MODULE AsyncClientProofs -------------------------
(***************************************************************************)
(* Proofs about AsyncClient, for any number of callers, requests, workers  *)
(* and configurations.  The invariants of AsyncClient are not inductive:   *)
(* they follow from who may be where (Control), from which posters run     *)
(* while stopWorkers is under way (Crew) and from the order of the queues  *)
(* (Order), which Inv adds to them.                                        *)
(***************************************************************************)
EXTENDS AsyncClient, TLAPS

InPost    == {"postLock", "scan", "send"}
Locked    == {"scan", "send"}
Stopping  == {"stop", "await"}
Alive     == {"idle", "posting", "reporting"}

\* A caller inside Init or Close is alone, the holder of a.lock is in the
\* critical section of Post or Flush, and a Post has a request of its own.
Control ==
    /\ \A c \in Callers :
          /\ pc[c] \in InPost \cup {"idle"} <=> op[c] = "none"
          /\ pc[c] = "flushLock" => op[c] = "flush"
          /\ pc[c] = "setup" => op[c] = "init"
          /\ pc[c] \in Locked => lock = c
          /\ pc[c] \in Stopping /\ op[c] = "flush" => lock = c
          /\ InLifecycle(c) => \A d \in Callers : d # c => pc[d] = "idle"
          /\ pc[c] # "idle" => (ready <=> pc[c] # "setup")
          /\ pc[c] \in InPost <=> req[c] \in Requests
    /\ \A c \in Callers : lock = c =>
          pc[c] \in Locked \/ (pc[c] \in Stopping /\ op[c] = "flush")
    /\ ready => quitchan = "open" /\ validateConfiguration(cfg)

\* The request of a Post in progress is nobody else's and fits the client.
Offers ==
    \A c \in Callers : pc[c] \in InPost =>
        /\ fate[req[c]] = "offered"
        /\ lane[req[c]] < cfg.concurrency
        /\ pc[c] = "scan" => lane[req[c]] < 0
        /\ \A d \in Callers : pc[d] \in InPost /\ req[d] = req[c] => d = c

\* stopWorkers goes through the channels in order: those below its index are
\* closed and their posters gone, those above are open, and the one it waits
\* for is closed.  Otherwise all channels of an initialised client are open.
CrewOpen     == \A w \in Workers : open[w] =>
                    ready /\ w < cfg.concurrency /\ poster[w] \in Alive
CrewDrained  == \A w \in Workers : poster[w] \in {"none", "quitting"} => buf[w] = <<>>
CrewAwaited  == \A w \in Workers : poster[w] # "none" /\ ~open[w] =>
                    \E c \in Callers : pc[c] = "await" /\ idx[c] = w
CrewProgress == \A c \in Callers : pc[c] \in Stopping =>
                    /\ idx[c] <= cfg.concurrency
                    /\ \A w \in Workers : w < idx[c] => ~open[w]
                    /\ \A w \in Workers : idx[c] < w /\ w < cfg.concurrency => open[w]
                    /\ pc[c] = "stop" /\ idx[c] < cfg.concurrency => open[idx[c]]
                    /\ pc[c] = "await" => idx[c] < cfg.concurrency /\ ~open[idx[c]]
CrewIndex    == \A c \in Callers : pc[c] \notin Stopping \cup Locked => idx[c] = 0
CrewComplete == ready /\ (\A c \in Callers : pc[c] \notin Stopping) =>
                    \A w \in Workers : w < cfg.concurrency => open[w]

Crew == CrewOpen /\ CrewDrained /\ CrewAwaited /\ CrewProgress /\ CrewIndex /\ CrewComplete

\* A queue holds its requests in the order they were accepted, all of them after
\* the one its poster holds, and none of them belongs to another lane.
Order ==
    /\ \A r \in Requests : stamp[r] <= clock
    /\ \A w \in Workers : \A j \in 1 .. Len(buf[w]) :
          /\ lane[buf[w][j]] < 0 \/ lane[buf[w][j]] = w
          /\ \A k \in 1 .. Len(buf[w]) : j < k => stamp[buf[w][j]] < stamp[buf[w][k]]
    /\ \A w \in Workers : held[w] # None => lane[held[w]] < 0 \/ lane[held[w]] = w

Inv == TypeOK /\ Control /\ Offers /\ Crew /\ OneCustodian /\ NothingLost /\ Order

\* The index of an existing channel is a worker.
LEMMA WorkerIndex ==
    ASSUME TypeOK
    PROVE  /\ cfg.concurrency \in Nat
           /\ \A w \in Workers : w \in Nat
           /\ \A n \in Nat : n < cfg.concurrency => n \in Workers
  BY ClientAssumption DEF TypeOK, ConfigType, Workers

\* What a queue holds is a queued request, what a poster holds one in flight.
LEMMA QueueFacts ==
    ASSUME Inv, NEW v \in Workers
    PROVE  /\ buf[v] \in Seq(Requests) /\ Len(buf[v]) \in Nat
           /\ \A j \in 1 .. Len(buf[v]) : buf[v][j] \in Requests /\ fate[buf[v][j]] = "queued"
           /\ held[v] # None => held[v] \in Requests /\ fate[held[v]] \in {"inflight", "failing"}
<1>1. buf[v] \in Seq(Requests)
  BY DEF Inv, TypeOK
<1>2. \A j \in 1 .. Len(buf[v]) : fate[buf[v][j]] = "queued"
  BY DEF Inv, OneCustodian
<1>3. held[v] # None => held[v] \in Requests /\ fate[held[v]] \in {"inflight", "failing"}
  BY DEF Inv, OneCustodian
<1> QED BY <1>1, <1>2, <1>3

\* An affinity is an integer.
LEMMA LaneType ==
    ASSUME Inv, NEW r \in Requests
    PROVE  lane[r] \in Int
<1>1. lane[r] \in Lanes
  BY DEF Inv, TypeOK
<1>2. -1 \in Int
  OBVIOUS
<1> QED BY <1>1, <1>2, ClientAssumption DEF Lanes

\* Only one caller is inside stopWorkers or the critical section of Post.
LEMMA OneStopper ==
    ASSUME Inv, NEW c \in Callers, NEW d \in Callers,
           pc[c] \in Stopping \cup Locked, pc[d] \in Stopping \cup Locked
    PROVE  c = d
<1>1. \A e \in {c, d} : lock = e \/ InLifecycle(e)
  BY DEF Inv, TypeOK, Control, Stopping, Locked, InPost, InLifecycle
<1>2. \A e \in {c, d} : InLifecycle(e) => c = d
  BY DEF Inv, Control, Stopping, Locked
<1> QED BY <1>1, <1>2

\* No poster runs and nothing is pending when the client is not initialised ...
LEMMA NobodyRuns ==
    ASSUME Inv, ~ready
    PROVE  /\ \A w \in Workers : ~open[w] /\ poster[w] = "none" /\ buf[w] = <<>>
           /\ \A r \in Requests : fate[r] \notin Pending
<1>1. \A w \in Workers : ~open[w]
  BY DEF Inv, Crew, CrewOpen
<1>2. \A w \in Workers : poster[w] = "none"
  BY <1>1 DEF Inv, Control, Crew, CrewAwaited
<1>3. \A w \in Workers : buf[w] = <<>> /\ held[w] = None
  BY <1>2 DEF Inv, Crew, CrewDrained, OneCustodian
<1>4. \A r \in Requests : fate[r] \notin Pending
  BY <1>3, ClientAssumption DEF Inv, NothingLost, Pending
<1> QED BY <1>1, <1>2, <1>3, <1>4

\* ... and when stopWorkers has gone through all the channels.
LEMMA AllStopped ==
    ASSUME Inv, NEW c \in Callers, pc[c] = "stop", idx[c] >= cfg.concurrency
    PROVE  /\ \A w \in Workers : ~open[w] /\ poster[w] = "none" /\ buf[w] = <<>>
           /\ \A r \in Requests : fate[r] \notin Pending
<1>1. \A w \in Workers : ~open[w]
  BY WorkerIndex DEF Inv, TypeOK, Crew, CrewOpen, CrewProgress, Stopping
<1>2. \A w \in Workers : poster[w] = "none"
  BY <1>1, OneStopper DEF Inv, Crew, CrewAwaited, Stopping
<1>3. \A w \in Workers : buf[w] = <<>> /\ held[w] = None
  BY <1>2 DEF Inv, Crew, CrewDrained, OneCustodian
<1>4. \A r \in Requests : fate[r] \notin Pending
  BY <1>3, ClientAssumption DEF Inv, NothingLost, Pending
<1> QED BY <1>1, <1>2, <1>3, <1>4

\* What Enqueue does to the queues: one request, found nowhere else, is added at
\* the end of one of them.
Appended(c, w) ==
    /\ req[c] \in Requests /\ fate[req[c]] = "offered"
    /\ \A v \in Workers : \A j \in 1 .. Len(buf[v]) : buf[v][j] \in Requests /\ buf[v][j] # req[c]
    /\ \A v \in Workers : held[v] # req[c]
    /\ \A v \in Workers : v # w => buf'[v] = buf[v]
    /\ buf'[w] \in Seq(Requests)
    /\ Len(buf'[w]) = Len(buf[w]) + 1
    /\ \A j \in 1 .. Len(buf[w]) : buf'[w][j] = buf[w][j]
    /\ buf'[w][Len(buf[w]) + 1] = req[c]
    /\ \A q \in Requests : q # req[c] => fate'[q] = fate[q] /\ stamp'[q] = stamp[q]
    /\ fate'[req[c]] = "queued" /\ stamp'[req[c]] = clock + 1

\* What Enqueue does to the queues: one request more, at the end of one of them.
LEMMA EnqueueFacts ==
    ASSUME Inv, NEW c \in Callers, NEW w \in Workers, pc[c] \in Locked, Enqueue(c, w)
    PROVE  Appended(c, w)
<1>1. req[c] \in Requests /\ fate[req[c]] = "offered"
  BY DEF Inv, Control, Offers, Locked, InPost
<1>2. \A v \in Workers : \A j \in 1 .. Len(buf[v]) : buf[v][j] \in Requests /\ buf[v][j] # req[c]
  BY <1>1, QueueFacts
<1>3. \A v \in Workers : held[v] # req[c]
  BY <1>1, QueueFacts, ClientAssumption
<1>4. /\ \A v \in Workers : v # w => buf'[v] = buf[v]
      /\ buf'[w] = Append(buf[w], req[c]) /\ buf[w] \in Seq(Requests)
  BY DEF Inv, TypeOK, Enqueue
<1>5. /\ buf'[w] \in Seq(Requests)
      /\ Len(buf'[w]) = Len(buf[w]) + 1
      /\ \A j \in 1 .. Len(buf[w]) : buf'[w][j] = buf[w][j]
      /\ buf'[w][Len(buf[w]) + 1] = req[c]
  BY <1>1, <1>4
<1>6. /\ \A q \in Requests : q # req[c] => fate'[q] = fate[q] /\ stamp'[q] = stamp[q]
      /\ fate'[req[c]] = "queued" /\ stamp'[req[c]] = clock + 1
  BY <1>1 DEF Inv, TypeOK, Enqueue
<1> QED BY <1>1, <1>2, <1>3, <1>4, <1>5, <1>6 DEF Appended

\* Post puts its request in an open channel, its own if it has an affinity.
LEMMA EnqueueInv ==
    ASSUME Inv, NEW c \in Callers, NEW w \in Workers, pc[c] \in Locked, open[w],
           lane[req[c]] < 0 \/ lane[req[c]] = w, Enqueue(c, w)
    PROVE  Inv'
<1>0. Appended(c, w)
  BY EnqueueFacts
<1>1. TypeOK'
  <2>1. buf' \in [Workers -> Seq(Requests)]
    BY <1>0 DEF Appended, Inv, TypeOK, Enqueue
  <2>2. fate' \in [Requests -> Fates] /\ stamp' \in [Requests -> Nat] /\ clock' \in Nat
    BY <1>0 DEF Inv, TypeOK, Fates, Appended, Enqueue
  <2> QED BY <2>1, <2>2 DEF Inv, TypeOK, CallerStates, Enqueue, workers
<1>2. Control'
  BY ClientAssumption DEF Inv, TypeOK, Control, InLifecycle, InPost, Locked, Stopping, Enqueue, validateConfiguration
<1>3. Offers'
  BY <1>0 DEF Appended, Inv, TypeOK, Control, Offers, InPost, Locked, Enqueue
<1>4. CrewOpen' /\ CrewDrained'
  BY <1>0 DEF Appended, Inv, Crew, CrewOpen, CrewDrained, Alive, Enqueue, workers
<1>5. CrewAwaited' /\ CrewProgress' /\ CrewIndex'
  BY DEF Inv, TypeOK, Crew, CrewAwaited, CrewProgress, CrewIndex, Stopping, Locked, Enqueue, workers
<1>6. CrewComplete'
  BY DEF Inv, TypeOK, Crew, CrewComplete, Stopping, Locked, Enqueue
<1>7. OneCustodian'
  <2>1. ASSUME NEW v \in Workers, NEW j \in 1 .. Len(buf'[v])
        PROVE  /\ fate'[buf'[v][j]] = "queued"
               /\ \A u \in Workers : \A k \in 1 .. Len(buf'[u]) :
                     buf'[u][k] = buf'[v][j] => u = v /\ k = j
    <3>1. \A u \in Workers : \A k \in 1 .. Len(buf'[u]) :
             \/ k \in 1 .. Len(buf[u]) /\ buf'[u][k] = buf[u][k]
             \/ u = w /\ k = Len(buf[w]) + 1 /\ buf'[u][k] = req[c]
      BY <1>0, QueueFacts DEF Appended
    <3> QED BY <3>1, <1>0 DEF Appended, Inv, OneCustodian
  <2>2. \A v \in Workers : held[v] # None => fate'[held[v]] = fate[held[v]]
    BY <1>0, QueueFacts DEF Appended
  <2>3. \A v \in Workers :
           /\ poster[v] = "posting"   => held[v] \in Requests /\ fate'[held[v]] = "inflight"
           /\ poster[v] = "reporting" => held[v] \in Requests /\ fate'[held[v]] = "failing"
    BY <2>2, ClientAssumption DEF Inv, OneCustodian
  <2> QED BY <2>1, <2>3 DEF Inv, OneCustodian, Enqueue, workers
<1>8. NothingLost'
  <2>1. SUFFICES ASSUME NEW q \in Requests
                 PROVE  /\ fate'[q] = "queued" =>
                              \E v \in Workers : \E j \in 1 .. Len(buf'[v]) : buf'[v][j] = q
                        /\ fate'[q] \in {"inflight", "failing"} => \E v \in Workers : held'[v] = q
    BY DEF NothingLost
  <2>2. CASE q = req[c]
    <3>1. Len(buf[w]) + 1 \in 1 .. Len(buf'[w])
      BY <1>0, QueueFacts DEF Appended
    <3> QED BY <2>2, <3>1, <1>0 DEF Appended
  <2>3. CASE q # req[c]
    <3>1. fate'[q] = fate[q] /\ held' = held
      BY <2>3, <1>0 DEF Appended, Enqueue, workers
    <3>2. \A v \in Workers : \A j \in 1 .. Len(buf[v]) : j \in 1 .. Len(buf'[v]) /\ buf'[v][j] = buf[v][j]
      BY <1>0, QueueFacts DEF Appended
    <3> QED BY <3>1, <3>2 DEF Inv, NothingLost
  <2> QED BY <2>2, <2>3
<1>9. Order'
  <2>1. \A q \in Requests : stamp'[q] <= clock'
    BY <1>0 DEF Appended, Inv, TypeOK, Order, Enqueue
  <2>2. ASSUME NEW v \in Workers, NEW j \in 1 .. Len(buf'[v])
        PROVE  /\ lane[buf'[v][j]] < 0 \/ lane[buf'[v][j]] = v
               /\ \A k \in 1 .. Len(buf'[v]) : j < k => stamp'[buf'[v][j]] < stamp'[buf'[v][k]]
    <3>1. \A k \in 1 .. Len(buf'[v]) :
             \/ /\ k \in 1 .. Len(buf[v]) /\ buf'[v][k] = buf[v][k] /\ buf[v][k] \in Requests
                /\ stamp'[buf'[v][k]] = stamp[buf[v][k]]
             \/ v = w /\ k = Len(buf[w]) + 1 /\ buf'[v][k] = req[c]
      <4>1. ASSUME NEW k \in 1 .. Len(buf[v])
            PROVE  buf[v][k] \in Requests /\ stamp'[buf[v][k]] = stamp[buf[v][k]]
        BY <1>0 DEF Appended
      <4>2. CASE v # w
        <5>1. buf'[v] = buf[v]
          BY <1>0, <4>2 DEF Appended
        <5> QED BY <4>1, <5>1
      <4>3. CASE v = w
        <5>1. /\ Len(buf'[v]) = Len(buf[v]) + 1 /\ buf'[v][Len(buf[v]) + 1] = req[c]
              /\ \A k \in 1 .. Len(buf[v]) : buf'[v][k] = buf[v][k]
          BY <1>0, <4>3 DEF Appended
        <5>2. Len(buf[v]) \in Nat
          BY QueueFacts
        <5> QED BY <4>1, <4>3, <5>1, <5>2
      <4> QED BY <4>2, <4>3
    <3>2. \A q \in Requests : stamp[q] < clock + 1
      BY DEF Inv, TypeOK, Order
    <3>3. lane[buf'[v][j]] < 0 \/ lane[buf'[v][j]] = v
      BY <3>1 DEF Inv, Order
    <3>4. ASSUME NEW k \in 1 .. Len(buf'[v]), j < k
          PROVE  stamp'[buf'[v][j]] < stamp'[buf'[v][k]]
      <4>1. j \in 1 .. Len(buf[v]) /\ buf'[v][j] = buf[v][j] /\ stamp'[buf'[v][j]] = stamp[buf[v][j]]
        <5>1. Len(buf[v]) \in Nat
          BY QueueFacts
        <5>2. Len(buf'[v]) = Len(buf[v]) \/ Len(buf'[v]) = Len(buf[v]) + 1
          BY <1>0 DEF Appended
        <5>3. j # Len(buf[v]) + 1
          BY <3>4, <5>1, <5>2
        <5> QED BY <3>1, <5>3
      <4>2. CASE k \in 1 .. Len(buf[v])
        <5>1. buf'[v][k] = buf[v][k] /\ stamp'[buf'[v][k]] = stamp[buf[v][k]]
          BY <3>1, <4>2, QueueFacts
        <5>2. stamp[buf[v][j]] < stamp[buf[v][k]]
          BY <3>4, <4>1, <4>2 DEF Inv, Order
        <5> QED BY <4>1, <5>1, <5>2
      <4>3. CASE v = w /\ k = Len(buf[w]) + 1 /\ buf'[v][k] = req[c]
        BY <3>2, <4>1, <4>3, QueueFacts, <1>0 DEF Appended
      <4> QED BY <3>1, <4>2, <4>3
    <3> QED BY <3>3, <3>4
  <2> QED BY <2>1, <2>2 DEF Inv, Order, Enqueue, workers
<1> QED BY <1>1, <1>2, <1>3, <1>4, <1>5, <1>6, <1>7, <1>8, <1>9 DEF Inv, Crew

\* A blocking send goes to a channel that exists.
LEMMA TargetType ==
    ASSUME Inv, NEW c \in Callers, pc[c] = "send"
    PROVE  /\ Target(c) \in Workers /\ Target(c) < cfg.concurrency
           /\ lane[req[c]] < 0 \/ lane[req[c]] = Target(c)
<1>1. req[c] \in Requests /\ lane[req[c]] < cfg.concurrency /\ ready
  BY DEF Inv, Control, Offers, InPost
<1>2. lane[req[c]] \in Int
  BY <1>1, LaneType
<1>3. 0 < cfg.concurrency /\ cfg.concurrency \in Nat
  BY <1>1, WorkerIndex DEF Inv, Control, validateConfiguration
<1> QED BY <1>1, <1>2, <1>3, WorkerIndex DEF Inv, Target

\* Post: the blocking send of a request with an affinity, or of one that found no room.
LEMMA PostSendInv ==
    ASSUME Inv, NEW c \in Callers, PostSend(c)
    PROVE  Inv'
  BY TargetType, EnqueueInv DEF PostSend, Locked

\* Post: the request enters the first channel that has room.
LEMMA PostScanSendInv ==
    ASSUME Inv, NEW c \in Callers, PostScanSend(c)
    PROVE  Inv'
<1>1. idx[c] \in Workers
  BY WorkerIndex DEF Inv, TypeOK, PostScanSend
<1>2. lane[req[c]] < 0
  BY DEF Inv, Offers, InPost, PostScanSend
<1> QED BY <1>1, <1>2, EnqueueInv DEF PostScanSend, Locked

\* Where the request at place j of channel v was before poster w took one.
Shift(w, v, j) == IF v = w THEN j + 1 ELSE j

\* What PosterTake does: the first request of a queue moves into the hands of
\* its poster, and the others move up.
Taken(w) ==
    /\ 1 \in 1 .. Len(buf[w]) /\ buf[w][1] \in Requests /\ fate[buf[w][1]] = "queued"
    /\ \A v \in Workers : v # w => buf'[v] = buf[v] /\ held'[v] = held[v]
    /\ Len(buf'[w]) = Len(buf[w]) - 1 /\ Len(buf[w]) \in Nat
    /\ \A v \in Workers : \A j \in 1 .. Len(buf'[v]) :
          /\ Shift(w, v, j) \in 1 .. Len(buf[v])
          /\ buf'[v][j] = buf[v][Shift(w, v, j)]
          /\ buf[v][Shift(w, v, j)] # buf[w][1]
    /\ held[w] = None /\ held'[w] = buf[w][1]
    /\ \A v \in Workers : held[v] # buf[w][1]
    /\ \A q \in Requests : q # buf[w][1] => fate'[q] = fate[q]
    /\ fate'[buf[w][1]] = "inflight"

\* What a poster takes is the oldest request of its queue.
LEMMA TakeFacts ==
    ASSUME Inv, NEW w \in Workers, PosterTake(w)
    PROVE  Taken(w)
<1>1. /\ 1 \in 1 .. Len(buf[w]) /\ buf[w][1] \in Requests /\ Len(buf[w]) \in Nat
      /\ Head(buf[w]) = buf[w][1]
  BY DEF Inv, TypeOK, PosterTake
<1>2. fate[buf[w][1]] = "queued"
  BY <1>1 DEF Inv, OneCustodian
<1>3. /\ \A v \in Workers : v # w => buf'[v] = buf[v] /\ held'[v] = held[v]
      /\ buf'[w] = Tail(buf[w]) /\ held'[w] = buf[w][1]
  BY <1>1 DEF Inv, TypeOK, PosterTake
<1>4. /\ Len(buf'[w]) = Len(buf[w]) - 1
      /\ \A j \in 1 .. Len(buf'[w]) : j + 1 \in 1 .. Len(buf[w]) /\ buf'[w][j] = buf[w][j + 1]
  BY <1>1, <1>3 DEF Inv, TypeOK, PosterTake
<1>5. \A v \in Workers : \A j \in 1 .. Len(buf'[v]) :
         Shift(w, v, j) \in 1 .. Len(buf[v]) /\ buf'[v][j] = buf[v][Shift(w, v, j)]
  BY <1>3, <1>4 DEF Shift
<1>6. \A v \in Workers : \A j \in 1 .. Len(buf'[v]) : buf[v][Shift(w, v, j)] # buf[w][1]
  <2>1. SUFFICES ASSUME NEW v \in Workers, NEW j \in 1 .. Len(buf'[v]),
                        buf[v][Shift(w, v, j)] = buf[w][1]
                 PROVE  FALSE
    OBVIOUS
  <2>2. v = w /\ Shift(w, v, j) = 1
    BY <1>1, <1>5, <2>1 DEF Inv, OneCustodian
  <2> QED BY <2>2 DEF Shift
<1>7. held[w] = None /\ \A v \in Workers : held[v] # buf[w][1]
  <2>1. held[w] = None
    BY DEF Inv, OneCustodian, PosterTake
  <2> QED BY <1>1, <1>2, <2>1, QueueFacts, ClientAssumption
<1>8. /\ \A q \in Requests : q # buf[w][1] => fate'[q] = fate[q]
      /\ fate'[buf[w][1]] = "inflight"
  BY <1>1 DEF Inv, TypeOK, PosterTake
<1> QED BY <1>1, <1>2, <1>3, <1>4, <1>5, <1>6, <1>7, <1>8 DEF Taken

\* A rejected request never enters the client.
LEMMA RejectPostInv ==
    ASSUME Inv, NEW c \in Callers, NEW r \in Requests, NEW l \in Affinities, NEW wellFormed \in BOOLEAN,
           Usable, RejectPost(c, r, l, wellFormed)
    PROVE  Inv'
<1>1. TypeOK'
  BY DEF Inv, TypeOK, Fates, RejectPost, client, workers, callers
<1>2. Offers'
  BY DEF Inv, Offers, RejectPost, client, callers
<1>3. OneCustodian'
  BY DEF Inv, OneCustodian, RejectPost, client, workers
<1>4. NothingLost'
  BY DEF Inv, NothingLost, RejectPost, client, workers
<1>5. /\ Control' /\ CrewOpen' /\ CrewDrained' /\ CrewAwaited' /\ CrewProgress'
      /\ CrewIndex' /\ CrewComplete' /\ Order'
BY DEF Inv, Crew, Control, CrewOpen, CrewDrained, CrewAwaited, CrewProgress, CrewIndex,
      CrewComplete, Order, InLifecycle, RejectPost, client, workers, callers
<1> QED BY <1>1, <1>2, <1>3, <1>4, <1>5 DEF Inv, Crew

\* A request that is offered was nowhere before.
LEMMA BeginPostInv ==
    ASSUME Inv, NEW c \in Callers, NEW r \in Requests, NEW l \in Affinities,
           Usable, BeginPost(c, r, l)
    PROVE  Inv'
<1>1. TypeOK'
  BY DEF Inv, TypeOK, Fates, CallerStates, Lanes, BeginPost, client, workers
<1>2. Control'
  BY DEF Inv, TypeOK, Control, InLifecycle, InPost, Locked, BeginPost, Usable, client
<1>3. Offers'
  BY ClientAssumption, WorkerIndex DEF Inv, TypeOK, Offers, BeginPost, client
<1>4. CrewAwaited'
  BY DEF Inv, Crew, CrewAwaited, BeginPost, client, workers
<1>5. CrewProgress'
  BY DEF Inv, Crew, CrewProgress, Stopping, BeginPost, client
<1>6. CrewIndex'
  BY DEF Inv, Crew, CrewIndex, Stopping, Locked, BeginPost
<1>7. CrewComplete'
  BY DEF Inv, Crew, CrewComplete, Stopping, BeginPost, client
<1>8. OneCustodian'
  BY DEF Inv, OneCustodian, BeginPost, client, workers
<1>9. NothingLost'
  BY DEF Inv, NothingLost, BeginPost, client, workers
<1>10. Order'
  <2>1. \A v \in Workers : \A j \in 1 .. Len(buf[v]) : buf[v][j] \in Requests /\ buf[v][j] # r
    BY QueueFacts DEF BeginPost
  <2>2. \A v \in Workers : held[v] # r
    BY QueueFacts, ClientAssumption DEF BeginPost
  <2>3. \A q \in Requests : q # r => lane'[q] = lane[q]
    BY DEF Inv, TypeOK, BeginPost
  <2> QED BY <2>1, <2>2, <2>3 DEF Inv, TypeOK, Order, BeginPost, client, workers
<1>11. CrewOpen' /\ CrewDrained'
  BY DEF Inv, Crew, CrewOpen, CrewDrained, BeginPost, client, workers
<1> QED BY <1>1, <1>2, <1>3, <1>4, <1>5, <1>6, <1>7, <1>8, <1>9, <1>10, <1>11 DEF Inv, Crew

\* Post enters its critical section when nobody else is in one.
LEMMA PostLockInv ==
    ASSUME Inv, NEW c \in Callers, PostLock(c)
    PROVE  Inv'
<1>1. TypeOK'
  BY DEF Inv, TypeOK, CallerStates, PostLock, workers, history
<1>2. Control'
  BY ClientAssumption DEF Inv, TypeOK, Control, InLifecycle, InPost, Locked, PostLock
<1>3. Offers'
  <2>1. \A d \in Callers : pc'[d] \in InPost <=> pc[d] \in InPost
    BY DEF Inv, TypeOK, InPost, PostLock
  <2>2. pc'[c] = "scan" => lane[req[c]] < 0
    <3>1. req[c] \in Requests
      BY DEF Inv, Control, InPost, PostLock
    <3> QED BY <3>1, LaneType DEF Inv, TypeOK, PostLock
  <2>3. \A d \in Callers : d # c => pc'[d] = pc[d]
    BY DEF Inv, TypeOK, PostLock
  <2> QED BY <2>1, <2>2, <2>3 DEF Inv, Offers, PostLock, history
<1>4. CrewAwaited'
  BY DEF Inv, Crew, CrewAwaited, PostLock, workers
<1>5. CrewProgress'
  BY DEF Inv, Crew, CrewProgress, Stopping, PostLock
<1>6. CrewIndex'
  BY DEF Inv, Crew, CrewIndex, Locked, PostLock
<1>7. CrewComplete'
  BY DEF Inv, Crew, CrewComplete, Stopping, PostLock
<1>8. CrewOpen' /\ CrewDrained' /\ OneCustodian' /\ NothingLost' /\ Order'
BY DEF Inv, Crew, CrewOpen, CrewDrained, OneCustodian, NothingLost, Order, PostLock, workers,
      history
<1> QED BY <1>1, <1>2, <1>3, <1>4, <1>5, <1>6, <1>7, <1>8 DEF Inv, Crew

\* Post finds a channel full and looks at the next one.
LEMMA PostScanNextInv ==
    ASSUME Inv, NEW c \in Callers, PostScanNext(c)
    PROVE  Inv'
<1>1. TypeOK'
  BY DEF Inv, TypeOK, CallerStates, PostScanNext, client, workers, history
<1>2. Control'
  BY DEF Inv, Control, InLifecycle, InPost, Locked, PostScanNext, client
<1>3. Offers'
  BY DEF Inv, Offers, InPost, PostScanNext, client, history
<1>4. CrewAwaited'
  BY DEF Inv, Crew, CrewAwaited, PostScanNext, client, workers
<1>5. CrewProgress'
  BY DEF Inv, Crew, CrewProgress, Stopping, PostScanNext, client
<1>6. CrewIndex'
  BY DEF Inv, Crew, CrewIndex, Locked, PostScanNext
<1>7. CrewComplete'
  BY DEF Inv, Crew, CrewComplete, Stopping, PostScanNext, client
<1>8. CrewOpen' /\ CrewDrained' /\ OneCustodian' /\ NothingLost' /\ Order'
BY DEF Inv, Crew, CrewOpen, CrewDrained, OneCustodian, NothingLost, Order, PostScanNext,
      client, workers, history
<1> QED BY <1>1, <1>2, <1>3, <1>4, <1>5, <1>6, <1>7, <1>8 DEF Inv, Crew

\* The oldest request of a queue goes to its poster.
LEMMA PosterTakeInv ==
    ASSUME Inv, NEW w \in Workers, PosterTake(w)
    PROVE  Inv'
<1>0. Taken(w)
  BY TakeFacts
<1>1. TypeOK'
  <2>1. Head(buf[w]) \in Requests /\ Tail(buf[w]) \in Seq(Requests)
    BY DEF Inv, TypeOK, PosterTake
  <2> QED BY <2>1 DEF Inv, TypeOK, Fates, PosterStates, PosterTake, callers
<1>2. Offers'
  <2>1. \A d \in Callers : pc[d] \in InPost => req[d] \in Requests /\ req[d] # buf[w][1]
    BY <1>0 DEF Taken, Inv, Control, Offers
  <2> QED BY <2>1, <1>0 DEF Taken, Inv, Offers, PosterTake, callers
<1>3. CrewOpen'
  BY DEF Inv, Crew, CrewOpen, Alive, PosterTake
<1>4. CrewDrained'
  BY DEF Inv, Crew, CrewDrained, PosterTake
<1>5. CrewAwaited'
  BY DEF Inv, Crew, CrewAwaited, PosterTake, callers
<1>6. OneCustodian'
  <2>1. \A v \in Workers : \A j \in 1 .. Len(buf'[v]) :
           /\ fate'[buf'[v][j]] = "queued"
           /\ \A u \in Workers : \A k \in 1 .. Len(buf'[u]) :
                 buf'[u][k] = buf'[v][j] => u = v /\ k = j
    <3>1. SUFFICES ASSUME NEW v \in Workers, NEW j \in 1 .. Len(buf'[v])
                   PROVE  /\ fate'[buf'[v][j]] = "queued"
                          /\ \A u \in Workers : \A k \in 1 .. Len(buf'[u]) :
                                buf'[u][k] = buf'[v][j] => u = v /\ k = j
      OBVIOUS
    <3>2. Shift(w, v, j) \in 1 .. Len(buf[v]) /\ buf'[v][j] = buf[v][Shift(w, v, j)]
      BY <3>1, <1>0 DEF Taken
    <3>3. buf'[v][j] \in Requests /\ buf'[v][j] # buf[w][1]
      BY <3>2, <1>0, QueueFacts DEF Taken
    <3>4. fate'[buf'[v][j]] = "queued"
      BY <3>2, <3>3, <1>0, QueueFacts DEF Taken
    <3>5. ASSUME NEW u \in Workers, NEW k \in 1 .. Len(buf'[u]), buf'[u][k] = buf'[v][j]
          PROVE  u = v /\ k = j
      <4>1. Shift(w, u, k) \in 1 .. Len(buf[u]) /\ buf'[u][k] = buf[u][Shift(w, u, k)]
        BY <1>0 DEF Taken
      <4>2. u = v /\ Shift(w, u, k) = Shift(w, v, j)
        <5>1. OneCustodian /\ buf[u][Shift(w, u, k)] = buf[v][Shift(w, v, j)]
          BY <3>2, <3>5, <4>1 DEF Inv
        <5> QED BY <3>2, <4>1, <5>1 DEF OneCustodian
      <4> QED BY <4>2 DEF Shift
    <3> QED BY <3>4, <3>5
  <2>2. \A v \in Workers :
           /\ poster'[v] = "posting"   => held'[v] \in Requests /\ fate'[held'[v]] = "inflight"
           /\ poster'[v] = "reporting" => held'[v] \in Requests /\ fate'[held'[v]] = "failing"
           /\ poster'[v] \notin {"posting", "reporting"} => held'[v] = None
           /\ \A u \in Workers : held'[v] # None /\ held'[u] = held'[v] => u = v
    <3>1. ASSUME NEW v \in Workers, v # w, held[v] # None
          PROVE  fate'[held[v]] = fate[held[v]]
      BY <3>1, <1>0, QueueFacts DEF Taken
    <3>2. \A v \in Workers : v # w => poster'[v] = poster[v]
      BY DEF Inv, TypeOK, PosterTake
    <3>3. poster'[w] = "posting"
      BY DEF Inv, TypeOK, PosterTake
    <3> QED BY <3>1, <3>2, <3>3, <1>0, ClientAssumption DEF Taken, Inv, OneCustodian
  <2> QED BY <2>1, <2>2 DEF OneCustodian
<1>7. NothingLost'
  <2>1. SUFFICES ASSUME NEW q \in Requests
                 PROVE  /\ fate'[q] = "queued" =>
                              \E v \in Workers : \E j \in 1 .. Len(buf'[v]) : buf'[v][j] = q
                        /\ fate'[q] \in {"inflight", "failing"} => \E v \in Workers : held'[v] = q
    BY DEF NothingLost
  <2>2. CASE q = buf[w][1]
    BY <2>2, <1>0 DEF Taken
  <2>3. CASE q # buf[w][1]
    <3>1. fate'[q] = fate[q]
      BY <2>3, <1>0 DEF Taken, Inv, TypeOK
    <3>2. ASSUME fate[q] = "queued"
          PROVE  \E v \in Workers : \E j \in 1 .. Len(buf'[v]) : buf'[v][j] = q
      <4>1. PICK v \in Workers : \E j \in 1 .. Len(buf[v]) : buf[v][j] = q
        BY <3>2 DEF Inv, NothingLost
      <4>2. PICK j \in 1 .. Len(buf[v]) : buf[v][j] = q
        BY <4>1
      <4>3. CASE v = w
        <5>1. j - 1 \in 1 .. Len(buf'[w]) /\ Shift(w, w, j - 1) = j
          BY <2>3, <4>2, <4>3, <1>0 DEF Taken, Shift
        <5> QED BY <4>2, <4>3, <5>1, <1>0 DEF Taken
      <4>4. CASE v # w
        <5>1. j \in 1 .. Len(buf'[v]) /\ Shift(w, v, j) = j
          BY <4>4, <1>0 DEF Taken, Shift
        <5> QED BY <4>2, <4>4, <5>1, <1>0 DEF Taken
      <4> QED BY <4>3, <4>4
    <3>3. ASSUME fate[q] \in {"inflight", "failing"}
          PROVE  \E v \in Workers : held'[v] = q
      BY <3>3, <1>0, ClientAssumption DEF Taken, Inv, NothingLost, OneCustodian, PosterTake
    <3> QED BY <3>1, <3>2, <3>3
  <2> QED BY <2>2, <2>3
<1>8. Order'
  <2>1. \A r \in Requests : stamp'[r] <= clock'
    BY DEF Inv, Order, PosterTake
  <2>2. ASSUME NEW v \in Workers, NEW j \in 1 .. Len(buf'[v])
        PROVE  /\ lane[buf'[v][j]] < 0 \/ lane[buf'[v][j]] = v
               /\ \A k \in 1 .. Len(buf'[v]) : j < k => stamp[buf'[v][j]] < stamp[buf'[v][k]]
    <3>1. \A k \in 1 .. Len(buf'[v]) :
             Shift(w, v, k) \in 1 .. Len(buf[v]) /\ buf'[v][k] = buf[v][Shift(w, v, k)]
      BY <1>0 DEF Taken
    <3>2. \A k \in 1 .. Len(buf'[v]) : j < k => Shift(w, v, j) < Shift(w, v, k)
      BY DEF Shift
    <3>3. lane[buf'[v][j]] < 0 \/ lane[buf'[v][j]] = v
      BY <3>1 DEF Inv, Order
    <3>4. ASSUME NEW k \in 1 .. Len(buf'[v]), j < k
          PROVE  stamp[buf'[v][j]] < stamp[buf'[v][k]]
      <4>1. \A m, n \in 1 .. Len(buf[v]) : m < n => stamp[buf[v][m]] < stamp[buf[v][n]]
        BY DEF Inv, Order
      <4>2. Shift(w, v, j) < Shift(w, v, k)
        BY <3>2, <3>4
      <4> HIDE DEF Shift
      <4> QED BY <3>1, <3>4, <4>1, <4>2
    <3> QED BY <3>3, <3>4
  <2>3. \A v \in Workers : held'[v] # None => lane[held'[v]] < 0 \/ lane[held'[v]] = v
    BY <1>0 DEF Taken, Inv, Order
  <2> QED BY <2>1, <2>2, <2>3 DEF Order, PosterTake
<1>9. Control' /\ CrewProgress' /\ CrewIndex' /\ CrewComplete'
BY DEF Inv, Crew, Control, CrewProgress, CrewIndex, CrewComplete, InLifecycle, PosterTake,
      callers
<1> QED BY <1>1, <1>2, <1>3, <1>4, <1>5, <1>6, <1>7, <1>8, <1>9 DEF Inv, Crew

\* A request that is over leaves the hands of its poster.
LEMMA PosterDoneInv ==
    ASSUME Inv, NEW w \in Workers, NEW success \in BOOLEAN, PosterDone(w, success)
    PROVE  Inv'
<1>1. TypeOK'
  BY DEF Inv, TypeOK, Fates, PosterStates, PosterDone, client, callers
<1>2. Offers'
  BY DEF Inv, Offers, OneCustodian, PosterDone, client, callers
<1>3. CrewOpen'
  BY DEF Inv, Crew, CrewOpen, Alive, PosterDone, client
<1>4. CrewDrained'
  BY DEF Inv, Crew, CrewDrained, PosterDone, client
<1>5. CrewAwaited'
  BY DEF Inv, Crew, CrewAwaited, PosterDone, client, callers
<1>6. OneCustodian'
  BY ClientAssumption DEF Inv, TypeOK, OneCustodian, PosterDone, client
<1>7. NothingLost'
  BY DEF Inv, TypeOK, NothingLost, PosterDone, client
<1>8. Order'
  BY DEF Inv, Order, PosterDone, client
<1>9. Control' /\ CrewProgress' /\ CrewIndex' /\ CrewComplete'
BY DEF Inv, Crew, Control, CrewProgress, CrewIndex, CrewComplete, InLifecycle, PosterDone,
      client, callers
<1> QED BY <1>1, <1>2, <1>3, <1>4, <1>5, <1>6, <1>7, <1>8, <1>9 DEF Inv, Crew

\* A failed request stays in the hands of its poster until it is reported.
LEMMA PosterFailInv ==
    ASSUME Inv, NEW w \in Workers, PosterFail(w)
    PROVE  Inv'
<1>1. TypeOK'
  BY DEF Inv, TypeOK, Fates, PosterStates, PosterFail, client, callers
<1>2. Offers'
  BY DEF Inv, Offers, OneCustodian, PosterFail, client, callers
<1>3. CrewOpen'
  BY DEF Inv, Crew, CrewOpen, Alive, PosterFail, client
<1>4. CrewDrained'
  BY DEF Inv, Crew, CrewDrained, PosterFail, client
<1>5. CrewAwaited'
  BY DEF Inv, Crew, CrewAwaited, PosterFail, client, callers
<1>6. OneCustodian'
  BY ClientAssumption DEF Inv, TypeOK, OneCustodian, PosterFail, client
<1>7. NothingLost'
  BY DEF Inv, NothingLost, PosterFail, client
<1>8. Control' /\ CrewProgress' /\ CrewIndex' /\ CrewComplete' /\ Order'
BY DEF Inv, Crew, Control, CrewProgress, CrewIndex, CrewComplete, Order, InLifecycle,
      PosterFail, client, callers
<1> QED BY <1>1, <1>2, <1>3, <1>4, <1>5, <1>6, <1>7, <1>8 DEF Inv, Crew

\* A reported request leaves the hands of its poster.
LEMMA PosterReportInv ==
    ASSUME Inv, NEW w \in Workers, PosterReport(w)
    PROVE  Inv'
<1>1. TypeOK'
  BY DEF Inv, TypeOK, Fates, PosterStates, PosterReport, client, callers
<1>2. Offers'
  BY DEF Inv, Offers, OneCustodian, PosterReport, client, callers
<1>3. CrewOpen'
  BY DEF Inv, Crew, CrewOpen, Alive, PosterReport, client
<1>4. CrewDrained'
  BY DEF Inv, Crew, CrewDrained, PosterReport, client
<1>5. CrewAwaited'
  BY DEF Inv, Crew, CrewAwaited, PosterReport, client, callers
<1>6. OneCustodian'
  BY ClientAssumption DEF Inv, TypeOK, OneCustodian, PosterReport, client
<1>7. NothingLost'
  BY DEF Inv, TypeOK, NothingLost, PosterReport, client
<1>8. Order'
  BY DEF Inv, Order, PosterReport, client
<1>9. Control' /\ CrewProgress' /\ CrewIndex' /\ CrewComplete'
BY DEF Inv, Crew, Control, CrewProgress, CrewIndex, CrewComplete, InLifecycle, PosterReport,
      client, callers
<1> QED BY <1>1, <1>2, <1>3, <1>4, <1>5, <1>6, <1>7, <1>8, <1>9 DEF Inv, Crew

\* A poster quits when its channel is closed and drained.
LEMMA PosterExitInv ==
    ASSUME Inv, NEW w \in Workers, PosterExit(w)
    PROVE  Inv'
<1>1. TypeOK'
  BY DEF Inv, TypeOK, PosterStates, PosterExit, client, callers, history
<1>2. CrewOpen'
  BY DEF Inv, Crew, CrewOpen, PosterExit, client
<1>3. CrewDrained'
  BY DEF Inv, Crew, CrewDrained, PosterExit, client
<1>4. CrewAwaited'
  BY DEF Inv, Crew, CrewAwaited, PosterExit, client, callers
<1>5. OneCustodian'
  BY DEF Inv, TypeOK, OneCustodian, PosterExit, client, history
<1>6. /\ Control' /\ Offers' /\ CrewProgress' /\ CrewIndex'
      /\ CrewComplete' /\ NothingLost' /\ Order'
BY DEF Inv, Crew, Control, Offers, CrewProgress, CrewIndex, CrewComplete, NothingLost, Order,
      InLifecycle, PosterExit, client, callers, history
<1> QED BY <1>1, <1>2, <1>3, <1>4, <1>5, <1>6 DEF Inv, Crew

\* The reader of the error channel touches nothing of the client.
LEMMA ConsumerDoneInv ==
    ASSUME Inv, ConsumerDone
    PROVE  Inv'
<1>1. TypeOK'
  BY DEF Inv, TypeOK, ConsumerDone, client, callers, history
<1>2. /\ Control' /\ Offers' /\ CrewOpen' /\ CrewDrained' /\ CrewAwaited' /\ CrewProgress'
      /\ CrewIndex' /\ CrewComplete' /\ OneCustodian' /\ NothingLost' /\ Order'
BY DEF Inv, Crew, Control, Offers, CrewOpen, CrewDrained, CrewAwaited, CrewProgress,
      CrewIndex, CrewComplete, OneCustodian, NothingLost, Order, InLifecycle, ConsumerDone,
      client, callers, history
<1> QED BY <1>1, <1>2 DEF Inv, Crew

\* Flush waits for the lock.
LEMMA BeginFlushInv ==
    ASSUME Inv, NEW c \in Callers, Usable, BeginFlush(c)
    PROVE  Inv'
<1>1. TypeOK'
  BY DEF Inv, TypeOK, CallerStates, BeginFlush, client, workers, history
<1>2. Control'
BY DEF Inv, TypeOK, Control, InLifecycle, InPost, Locked, Stopping, BeginFlush, Usable,
      client
<1>3. Offers'
  BY DEF Inv, Offers, InPost, BeginFlush, client, history
<1>4. CrewAwaited'
  BY DEF Inv, Crew, CrewAwaited, BeginFlush, client, workers
<1>5. CrewProgress'
  BY DEF Inv, Crew, CrewProgress, Stopping, BeginFlush, client
<1>6. CrewIndex'
  BY DEF Inv, Crew, CrewIndex, Stopping, Locked, BeginFlush
<1>7. CrewComplete'
  BY DEF Inv, Crew, CrewComplete, Stopping, BeginFlush, client
<1>8. CrewOpen' /\ CrewDrained' /\ OneCustodian' /\ NothingLost' /\ Order'
BY DEF Inv, Crew, CrewOpen, CrewDrained, OneCustodian, NothingLost, Order, BeginFlush, client,
      workers, history
<1> QED BY <1>1, <1>2, <1>3, <1>4, <1>5, <1>6, <1>7, <1>8 DEF Inv, Crew

\* Flush begins to stop the workers with all channels open.
LEMMA FlushLockInv ==
    ASSUME Inv, NEW c \in Callers, FlushLock(c)
    PROVE  Inv'
<1>1. TypeOK'
  BY DEF Inv, TypeOK, CallerStates, FlushLock, workers, history
<1>2. Control'
  BY ClientAssumption DEF Inv, TypeOK, Control, InLifecycle, InPost, Stopping, FlushLock
<1>3. Offers'
  BY DEF Inv, Offers, InPost, FlushLock, history
<1>4. CrewAwaited'
  BY DEF Inv, Crew, CrewAwaited, FlushLock, workers
<1>5. CrewProgress'
  <2>1. \A d \in Callers : pc[d] \notin Stopping
    BY ClientAssumption DEF Inv, TypeOK, Control, Stopping, InPost, InLifecycle, FlushLock
  <2>2. ready /\ idx[c] = 0
    BY DEF Inv, Control, Crew, CrewIndex, Stopping, Locked, FlushLock
  <2>3. \A w \in Workers : w < cfg.concurrency => open[w]
    BY <2>1, <2>2 DEF Inv, Crew, CrewComplete
  <2>4. \A d \in Callers : pc'[d] \in Stopping => d = c
    BY <2>1 DEF Inv, TypeOK, Stopping, FlushLock
  <2> QED BY <2>2, <2>3, <2>4, WorkerIndex DEF Inv, TypeOK, CrewProgress, FlushLock
<1>6. CrewIndex'
  BY DEF Inv, Crew, CrewIndex, Stopping, FlushLock
<1>7. CrewComplete'
  BY DEF Inv, Crew, CrewComplete, Stopping, FlushLock
<1>8. CrewOpen' /\ CrewDrained' /\ OneCustodian' /\ NothingLost' /\ Order'
BY DEF Inv, Crew, CrewOpen, CrewDrained, OneCustodian, NothingLost, Order, FlushLock, workers,
      history
<1> QED BY <1>1, <1>2, <1>3, <1>4, <1>5, <1>6, <1>7, <1>8 DEF Inv, Crew

\* Close begins alone, with all channels open.
LEMMA BeginCloseInv ==
    ASSUME Inv, NEW c \in Callers, Quiet, ready, BeginClose(c)
    PROVE  Inv'
<1>1. TypeOK'
  BY DEF Inv, TypeOK, CallerStates, BeginClose, client, workers, history
<1>2. Control'
  BY DEF Inv, TypeOK, Control, InLifecycle, InPost, Locked, BeginClose, Quiet, client
<1>3. Offers'
  BY DEF Inv, Offers, InPost, BeginClose, Quiet
<1>4. CrewAwaited'
  BY DEF Inv, Crew, CrewAwaited, BeginClose, client, workers
<1>5. CrewProgress'
BY WorkerIndex DEF Inv, Crew, CrewProgress, CrewIndex, CrewComplete, Stopping, Locked,
      BeginClose, Quiet, client
<1>6. CrewIndex'
  BY DEF Inv, Crew, CrewIndex, Stopping, BeginClose
<1>7. CrewComplete'
  BY DEF Inv, Crew, CrewComplete, Stopping, BeginClose, client
<1>8. CrewOpen' /\ CrewDrained' /\ OneCustodian' /\ NothingLost' /\ Order'
BY DEF Inv, Crew, CrewOpen, CrewDrained, OneCustodian, NothingLost, Order, BeginClose, client,
      workers, history
<1> QED BY <1>1, <1>2, <1>3, <1>4, <1>5, <1>6, <1>7, <1>8 DEF Inv, Crew

\* Init begins alone, with all channels open if there are any.
LEMMA BeginInitInv ==
    ASSUME Inv, NEW c \in Callers, NEW k \in Configs, Quiet, BeginInit(c, k)
    PROVE  Inv'
<1>1. TypeOK'
  BY ClientAssumption DEF Inv, TypeOK, CallerStates, BeginInit, client, workers, history
<1>2. Control'
  BY DEF Inv, TypeOK, Control, InLifecycle, InPost, Locked, BeginInit, Quiet, client
<1>3. Offers'
  BY DEF Inv, Offers, InPost, BeginInit, Quiet
<1>4. CrewAwaited'
  BY DEF Inv, Crew, CrewAwaited, BeginInit, client, workers
<1>5. CrewProgress'
  <2>1. \A d \in Callers : pc'[d] \in Stopping => d = c /\ ready /\ pc'[d] = "stop"
    BY DEF Inv, TypeOK, Stopping, Quiet, BeginInit
  <2>2. idx[c] = 0
    BY DEF Inv, Crew, CrewIndex, Stopping, Locked, BeginInit
  <2>3. ready => \A w \in Workers : w < cfg.concurrency => open[w]
    BY DEF Inv, Crew, CrewComplete, Stopping, Quiet
  <2> QED BY <2>1, <2>2, <2>3, WorkerIndex DEF Inv, TypeOK, CrewProgress, BeginInit, client
<1>6. CrewIndex'
  BY DEF Inv, Crew, CrewIndex, Stopping, Locked, BeginInit
<1>7. CrewComplete'
  BY DEF Inv, Crew, CrewComplete, Stopping, BeginInit, client
<1>8. CrewOpen' /\ CrewDrained' /\ OneCustodian' /\ NothingLost' /\ Order'
BY DEF Inv, Crew, CrewOpen, CrewDrained, OneCustodian, NothingLost, Order, BeginInit, client,
      workers, history
<1> QED BY <1>1, <1>2, <1>3, <1>4, <1>5, <1>6, <1>7, <1>8 DEF Inv, Crew

\* stopWorkers closes the first channel that is still open.
LEMMA StopCloseInv ==
    ASSUME Inv, NEW c \in Callers, StopClose(c)
    PROVE  Inv'
<1>1. TypeOK'
  BY DEF Inv, TypeOK, CallerStates, StopClose, workers, history
<1>2. Control'
  BY DEF Inv, Control, InLifecycle, InPost, Locked, Stopping, StopClose
<1>3. Offers'
  BY DEF Inv, Offers, InPost, StopClose, history
<1>4. CrewOpen'
  BY DEF Inv, Crew, CrewOpen, StopClose, workers
<1>5. CrewAwaited'
  BY DEF Inv, TypeOK, Crew, CrewAwaited, StopClose, workers
<1>6. CrewProgress'
  <2>1. \A d \in Callers : pc'[d] \in Stopping => d = c
    BY OneStopper DEF Inv, TypeOK, Stopping, StopClose
  <2>2. \A w \in Workers : w # idx[c] => open'[w] = open[w]
    BY DEF Inv, TypeOK, StopClose
  <2>3. ~open'[idx[c]]
    BY WorkerIndex DEF Inv, TypeOK, StopClose
  <2> QED BY <2>1, <2>2, <2>3, WorkerIndex DEF Inv, TypeOK, Crew, CrewProgress, Stopping, StopClose
<1>7. CrewIndex'
  BY DEF Inv, Crew, CrewIndex, Stopping, StopClose
<1>8. CrewComplete'
  BY DEF Inv, CrewComplete, Stopping, StopClose
<1>9. CrewDrained' /\ OneCustodian' /\ NothingLost' /\ Order'
  BY DEF Inv, Crew, CrewDrained, OneCustodian, NothingLost, Order, StopClose, workers, history
<1> QED BY <1>1, <1>2, <1>3, <1>4, <1>5, <1>6, <1>7, <1>8, <1>9 DEF Inv, Crew

\* The poster that quits is the one stopWorkers waits for.
LEMMA StopAwaitInv ==
    ASSUME Inv, NEW c \in Callers, NEW w \in Workers, StopAwait(c, w)
    PROVE  Inv'
<1>1. TypeOK'
  BY DEF Inv, TypeOK, CallerStates, PosterStates, StopAwait, client, history
<1>2. Control'
  BY DEF Inv, Control, InLifecycle, InPost, Locked, Stopping, StopAwait, client
<1>3. Offers'
  BY DEF Inv, Offers, InPost, StopAwait, client, history
<1>4. CrewOpen'
  BY DEF Inv, Crew, CrewOpen, Alive, StopAwait, client
<1>5. CrewDrained'
  BY DEF Inv, Crew, CrewDrained, StopAwait, client
<1>6. CrewAwaited'
  <2>1. ~open[w]
    BY DEF Inv, Crew, CrewOpen, Alive, StopAwait
  <2>2. \A v \in Workers : poster[v] # "none" /\ ~open[v] => v = idx[c]
    BY OneStopper DEF Inv, Crew, CrewAwaited, Stopping, StopAwait
  <2>3. w = idx[c]
    BY <2>1, <2>2 DEF StopAwait
  <2> QED BY <2>2, <2>3 DEF Inv, TypeOK, CrewAwaited, StopAwait, client
<1>7. CrewProgress'
  BY WorkerIndex DEF Inv, TypeOK, Crew, CrewProgress, Stopping, StopAwait, client
<1>8. CrewIndex'
  BY DEF Inv, Crew, CrewIndex, Stopping, StopAwait
<1>9. CrewComplete'
  BY DEF Inv, CrewComplete, Stopping, StopAwait
<1>10. OneCustodian'
  BY DEF Inv, OneCustodian, StopAwait, client, history
<1>11. NothingLost' /\ Order'
  BY DEF Inv, NothingLost, Order, StopAwait, client, history
<1> QED BY <1>1, <1>2, <1>3, <1>4, <1>5, <1>6, <1>7, <1>8, <1>9, <1>10, <1>11 DEF Inv, Crew

\* Flush replaces workers that are all gone.
LEMMA FlushRestartInv ==
    ASSUME Inv, NEW c \in Callers, FlushRestart(c)
    PROVE  Inv'
<1>1. TypeOK'
  BY DEF Inv, TypeOK, PosterStates, CallerStates, FlushRestart, initWorkers, history
<1>2. Control'
BY ClientAssumption DEF Inv, TypeOK, Control, InLifecycle, InPost, Locked, Stopping,
      FlushRestart
<1>3. Offers'
  BY DEF Inv, Offers, InPost, FlushRestart, history
<1>4. CrewOpen'
  BY DEF Inv, Control, CrewOpen, Alive, FlushRestart, initWorkers
<1>5. CrewDrained'
  BY DEF Inv, CrewDrained, FlushRestart, initWorkers
<1>6. CrewAwaited'
  BY DEF Inv, CrewAwaited, FlushRestart, initWorkers
<1>7. CrewProgress'
  BY OneStopper DEF Inv, TypeOK, CrewProgress, Stopping, FlushRestart
<1>8. CrewIndex'
  BY DEF Inv, TypeOK, Crew, CrewIndex, FlushRestart
<1>9. CrewComplete'
  BY DEF Inv, CrewComplete, FlushRestart, initWorkers
<1>10. OneCustodian'
  BY DEF Inv, OneCustodian, FlushRestart, initWorkers
<1>11. NothingLost'
  BY AllStopped DEF Inv, TypeOK, NothingLost, Pending, FlushRestart, history
<1>12. Order'
  BY DEF Inv, Order, FlushRestart, initWorkers, history
<1> QED BY <1>1, <1>2, <1>3, <1>4, <1>5, <1>6, <1>7, <1>8, <1>9, <1>10, <1>11, <1>12 DEF Inv, Crew

\* Close gives up channels whose workers are all gone.
LEMMA CloseDoneInv ==
    ASSUME Inv, NEW c \in Callers, CloseDone(c)
    PROVE  Inv'
<1>1. TypeOK'
  BY DEF Inv, TypeOK, CallerStates, CloseDone, workers, history
<1>2. Control'
  BY DEF Inv, TypeOK, Control, InLifecycle, InPost, Locked, CloseDone
<1>3. Offers'
  BY DEF Inv, Offers, InPost, CloseDone, history
<1>4. CrewOpen'
  BY AllStopped DEF CrewOpen, CloseDone
<1>5. CrewAwaited'
  BY DEF Inv, Crew, CrewAwaited, CloseDone, workers
<1>6. CrewProgress'
  BY DEF Inv, TypeOK, Crew, CrewProgress, Stopping, CloseDone
<1>7. CrewIndex'
  BY DEF Inv, TypeOK, Crew, CrewIndex, CloseDone
<1>8. CrewComplete'
  BY DEF Inv, CrewComplete, CloseDone
<1>9. CrewDrained' /\ OneCustodian' /\ NothingLost' /\ Order'
  BY DEF Inv, Crew, CrewDrained, OneCustodian, NothingLost, Order, CloseDone, workers, history
<1> QED BY <1>1, <1>2, <1>3, <1>4, <1>5, <1>6, <1>7, <1>8, <1>9 DEF Inv, Crew

\* Init starts workers when there are none.
LEMMA InitSetupInv ==
    ASSUME Inv, NEW c \in Callers, InitSetup(c)
    PROVE  Inv'
<1>1. TypeOK'
BY ClientAssumption DEF Inv, TypeOK, PosterStates, CallerStates, ConfigType, ZeroConfig,
      InitSetup, initWorkers, history
<1>2. Control'
  BY DEF Inv, TypeOK, Control, InLifecycle, InPost, Locked, InitSetup
<1>3. Offers'
  BY DEF Inv, Control, Offers, InPost, InitSetup
<1>4. CrewOpen'
  BY DEF Inv, CrewOpen, Alive, InitSetup, initWorkers
<1>5. CrewDrained'
  BY DEF Inv, CrewDrained, InitSetup, initWorkers
<1>6. CrewAwaited'
  BY DEF Inv, CrewAwaited, InitSetup, initWorkers
<1>7. CrewProgress'
  BY DEF Inv, Control, CrewProgress, Stopping, InitSetup
<1>8. CrewIndex'
  BY DEF Inv, Crew, CrewIndex, Stopping, Locked, InitSetup
<1>9. CrewComplete'
  BY DEF Inv, CrewComplete, InitSetup, initWorkers
<1>10. OneCustodian'
  BY DEF Inv, OneCustodian, InitSetup, initWorkers
<1>11. NothingLost'
  <2>1. ~ready
    BY DEF Inv, Control, InitSetup
  <2> QED BY <2>1, NobodyRuns DEF Inv, NothingLost, Pending, InitSetup, history
<1>12. Order'
  BY DEF Inv, Order, InitSetup, initWorkers, history
<1> QED BY <1>1, <1>2, <1>3, <1>4, <1>5, <1>6, <1>7, <1>8, <1>9, <1>10, <1>11, <1>12 DEF Inv, Crew

\* A refused configuration leaves the client without workers.
LEMMA InitRefusedInv ==
    ASSUME Inv, NEW c \in Callers, InitRefused(c)
    PROVE  Inv'
<1>1. TypeOK'
  <2>1. want[c] \in ConfigType /\ cfg.errorchan \in BOOLEAN
    BY DEF Inv, TypeOK, ConfigType
  <2>2. cfg' \in ConfigType
    BY <2>1 DEF ConfigType, InitRefused
  <2>3. ZeroConfig \in ConfigType
    BY ClientAssumption DEF ZeroConfig, ConfigType
  <2> QED BY <2>2, <2>3 DEF Inv, TypeOK, CallerStates, InitRefused, workers, history
<1>2. Control'
  BY DEF Inv, TypeOK, Control, InLifecycle, InPost, Locked, InitRefused
<1>3. Offers'
  BY DEF Inv, Control, Offers, InPost, InitRefused
<1>4. CrewOpen'
  BY DEF Inv, Control, Crew, CrewOpen, InitRefused
<1>5. CrewAwaited'
  BY DEF Inv, Crew, CrewAwaited, InitRefused, workers
<1>6. CrewProgress'
  BY DEF Inv, Control, CrewProgress, Stopping, InitRefused
<1>7. CrewIndex'
  BY DEF Inv, Crew, CrewIndex, Stopping, Locked, InitRefused
<1>8. CrewComplete'
  BY DEF Inv, Control, CrewComplete, InitRefused
<1>9. CrewDrained' /\ OneCustodian' /\ NothingLost' /\ Order'
  BY DEF Inv, Crew, CrewDrained, OneCustodian, NothingLost, Order, InitRefused, workers, history
<1> QED BY <1>1, <1>2, <1>3, <1>4, <1>5, <1>6, <1>7, <1>8, <1>9 DEF Inv, Crew
-----------------------------------------------------------------------------
(* The invariant *)

\* NewClient returns a client that satisfies the invariant.
LEMMA InitInv == Init => Inv
<1> SUFFICES ASSUME Init PROVE Inv
  OBVIOUS
<1>1. TypeOK
  <2>1. ZeroConfig \in ConfigType
    BY ClientAssumption DEF ZeroConfig, ConfigType
  <2>2. lane \in [Requests -> Lanes] /\ fate \in [Requests -> Fates] /\ stamp \in [Requests -> Nat]
    BY DEF Init, Lanes, Fates
  <2>3. buf \in [Workers -> Seq(Requests)] /\ open \in [Workers -> BOOLEAN]
    BY DEF Init
  <2>4. poster \in [Workers -> PosterStates] /\ held \in [Workers -> Requests \cup {None}]
    BY DEF Init, PosterStates
  <2> QED BY <2>1, <2>2, <2>3, <2>4 DEF Init, TypeOK, CallerStates
<1>2. Control /\ Offers
  BY ClientAssumption DEF Init, Control, Offers, InPost, Locked, Stopping, InLifecycle
<1>3. Crew
  BY DEF Init, Crew, CrewOpen, CrewDrained, CrewAwaited, CrewProgress, CrewIndex, CrewComplete,
         Stopping, Locked
<1>4. OneCustodian /\ NothingLost /\ Order
  BY DEF Init, OneCustodian, NothingLost, Order
<1> QED BY <1>1, <1>2, <1>3, <1>4 DEF Inv

\* Every step of a caller, of a poster or of the consumer preserves the invariant.
LEMMA NextInv == Inv /\ [Next]_vars => Inv'
<1> SUFFICES ASSUME Inv, [Next]_vars PROVE Inv'
  OBVIOUS
<1>1. CASE UNCHANGED vars
  BY <1>1 DEF Inv, TypeOK, Control, Offers, Crew, CrewOpen, CrewDrained, CrewAwaited, CrewProgress,
              CrewIndex, CrewComplete, OneCustodian, NothingLost, Order, InLifecycle,
              vars, client, workers, callers, history
<1>2. ASSUME NEW c \in Callers, Call(c)
      PROVE  Inv'
  BY <1>2, RejectPostInv, BeginPostInv, BeginFlushInv, BeginCloseInv, BeginInitInv DEF Call
<1>3. ASSUME NEW c \in Callers, CallerStep(c)
      PROVE  Inv'
  BY <1>3, PostLockInv, PostSendInv, PostScanSendInv, PostScanNextInv, FlushLockInv, StopCloseInv,
     StopAwaitInv, FlushRestartInv, CloseDoneInv, InitSetupInv, InitRefusedInv DEF CallerStep
<1>4. ASSUME NEW w \in Workers, PosterStep(w)
      PROVE  Inv'
  BY <1>4, PosterTakeInv, PosterDoneInv, PosterFailInv, PosterReportInv, PosterExitInv DEF PosterStep
<1>5. CASE ConsumerDone
  BY <1>5, ConsumerDoneInv
<1> QED BY <1>1, <1>2, <1>3, <1>4, <1>5 DEF Next

\* The inductive invariant holds of every behaviour of the client.
THEOREM Invariance == Spec => []Inv
<1> QED BY InitInv, NextInv, PTL DEF Spec

\* The struct, its posters and its callers keep their types (http.go:19-26).
THEOREM TypeCorrect == Spec => []TypeOK
<1>1. Inv => TypeOK
  BY DEF Inv
<1> QED BY <1>1, Invariance, PTL

\* At any time a request is in one place only: one place of one channel, or the
\* hands of one poster (http.go:90).
THEOREM Custody == Spec => []OneCustodian
<1>1. Inv => OneCustodian
  BY DEF Inv
<1> QED BY <1>1, Invariance, PTL

\* No interleaving of Post, Flush, Close, Init and the posters loses a request
\* that Post accepted (http.go:190-263).
THEOREM NoRequestLost == Spec => []NothingLost
<1>1. Inv => NothingLost
  BY DEF Inv
<1> QED BY <1>1, Invariance, PTL

\* The channels that Post sends on and stopWorkers closes exist and are open.
LEMMA ChannelsOpen ==
    ASSUME Inv
    PROVE  NoPanic
<1>1. SUFFICES ASSUME NEW c \in Callers
               PROVE  ~PanicNext(c)
  BY DEF NoPanic
<1>2. ASSUME pc[c] \in Locked
      PROVE  ready /\ \A w \in Workers : w < cfg.concurrency => open[w]
  <2>1. ready
    BY <1>2 DEF Inv, Control, Locked
  <2>2. \A d \in Callers : pc[d] \notin Stopping
    BY <1>2, OneStopper DEF Stopping, Locked
  <2> QED BY <2>1, <2>2 DEF Inv, Crew, CrewComplete
<1>3. pc[c] = "send" => ready /\ Target(c) \in Workers /\ open[Target(c)]
  BY <1>2, TargetType DEF Locked
<1>4. pc[c] = "scan" /\ idx[c] < cfg.concurrency => ready /\ open[idx[c]]
  BY <1>2, WorkerIndex DEF Inv, TypeOK, Locked
<1>5. pc[c] = "stop" => ready /\ quitchan = "open"
  BY DEF Inv, Control
<1>6. pc[c] = "stop" /\ idx[c] < cfg.concurrency => open[idx[c]]
  BY DEF Inv, Crew, CrewProgress, Stopping
<1> QED BY <1>3, <1>4, <1>5, <1>6 DEF PanicNext

\* Callers that keep to the contract never meet a closed or missing channel
\* (http.go:221-235, 247-263).
THEOREM PanicFree == Spec => []NoPanic
<1> QED BY ChannelsOpen, Invariance, PTL

\* "Close will block until all data has been written" (http.go:254): the workers
\* are replaced or given up only when every accepted request is over.
THEOREM Drained == Spec => DrainedWhenStopped
<1> DEFINE Step == (ready /\ ~ready') \/ (\E w \in Workers : poster[w] = "none" /\ poster'[w] = "idle")
                     => \A r \in Requests : fate[r] \notin Pending
<1>1. ASSUME Inv, Next, ready /\ ~ready'
      PROVE  \A r \in Requests : fate[r] \notin Pending
  <2>1. \E c \in Callers : CloseDone(c)
    BY <1>1, ZenonT(60) DEF Next, Call, CallerStep, PosterStep, RejectPost, BeginPost, PostLock, PostSend,
                PostScanSend, PostScanNext, Enqueue, PosterTake, PosterDone, PosterFail, PosterReport,
                PosterExit, ConsumerDone, BeginFlush, FlushLock, BeginClose, BeginInit, StopClose,
                StopAwait, FlushRestart, InitSetup, InitRefused, client
  <2> QED BY <1>1, <2>1, AllStopped DEF CloseDone
<1>2. ASSUME Inv, Next, NEW w \in Workers, poster[w] = "none" /\ poster'[w] = "idle"
      PROVE  \A r \in Requests : fate[r] \notin Pending
  <2>1. ASSUME NEW v \in Workers, PosterStep(v)
        PROVE  FALSE
    BY <1>2, <2>1 DEF Inv, TypeOK, PosterStep, PosterTake, PosterDone, PosterFail, PosterReport, PosterExit
  <2>2. \E c \in Callers : FlushRestart(c) \/ InitSetup(c)
    BY <1>2, <2>1 DEF Inv, TypeOK, Next, Call, CallerStep, RejectPost, BeginPost, PostLock, PostSend,
                PostScanSend, PostScanNext, Enqueue, ConsumerDone, BeginFlush, FlushLock, BeginClose,
                BeginInit, StopClose, StopAwait, CloseDone, InitRefused, workers
  <2>3. ASSUME NEW c \in Callers, InitSetup(c)
        PROVE  ~ready
    BY <1>2, <2>3 DEF Inv, Control, InitSetup
  <2> QED BY <1>2, <2>2, <2>3, AllStopped, NobodyRuns DEF FlushRestart
<1>3. Inv /\ [Next]_vars => [Step]_vars
  BY <1>1, <1>2
<1> QED BY <1>3, Invariance, PTL DEF Spec, DrainedWhenStopped
-----------------------------------------------------------------------------
(* Refinement *)

\* The fate FireAndForget sees.
fateBar == [r \in Requests |-> IF fate[r] = "failing" THEN "inflight" ELSE fate[r]]

\* A change of fate that FireAndForget sees is the same change there.
LEMMA BarUpdate ==
    ASSUME TypeOK, NEW r \in Requests, NEW x \in Fates \ {"failing"}, fate' = [fate EXCEPT ![r] = x]
    PROVE  fateBar' = [fateBar EXCEPT ![r] = x]
  BY DEF TypeOK, fateBar

\* A poster takes a request when those accepted before it on its lane are over.
LEMMA AttemptInTurn ==
    ASSUME Inv, NEW w \in Workers, PosterTake(w)
    PROVE  Abstract!Attempt(buf[w][1])
<1> DEFINE r == buf[w][1]
<1>1. Taken(w)
  BY TakeFacts
<1>2. r \in Requests /\ fate[r] = "queued" /\ held[w] = None /\ Head(buf[w]) = r
  BY <1>1, QueueFacts DEF Taken
<1>3. ASSUME NEW q \in Requests, lane[r] >= 0, lane[q] = lane[r], stamp[q] < stamp[r]
      PROVE  fate[q] \notin {"queued", "inflight", "failing"}
  <2>1. lane[r] = w /\ lane[q] = w /\ w \in Nat
    <3>1. lane[r] < 0 \/ lane[r] = w
      BY <1>1 DEF Taken, Inv, Order
    <3> QED BY <1>2, <1>3, <3>1, LaneType, WorkerIndex DEF Inv
  <2>2. ASSUME fate[q] = "queued"
        PROVE  FALSE
    <3>1. PICK v \in Workers : \E j \in 1 .. Len(buf[v]) : buf[v][j] = q
      BY <2>2 DEF Inv, NothingLost
    <3>2. PICK j \in 1 .. Len(buf[v]) : buf[v][j] = q
      BY <3>1
    <3>3. v = w
      <4>1. lane[buf[v][j]] < 0 \/ lane[buf[v][j]] = v
        BY DEF Inv, Order
      <4> QED BY <2>1, <3>2, <4>1
    <3>4. j = 1 \/ stamp[r] < stamp[q]
      BY <1>1, <3>2, <3>3 DEF Taken, Inv, Order
    <3> QED BY <1>2, <1>3, <3>2, <3>3, <3>4 DEF Inv, TypeOK
  <2>3. ASSUME fate[q] \in {"inflight", "failing"}
        PROVE  FALSE
    <3>1. PICK v \in Workers : held[v] = q
      BY <2>3 DEF Inv, NothingLost
    <3>2. v = w
      <4>1. lane[held[v]] < 0 \/ lane[held[v]] = v
        BY <3>1, ClientAssumption DEF Inv, Order
      <4> QED BY <2>1, <3>1, <4>1
    <3> QED BY <1>2, <3>1, <3>2, ClientAssumption
  <2> QED BY <2>2, <2>3
<1>4. fateBar[r] = "queued"
  BY <1>2 DEF fateBar
<1>5. \A q \in Requests : Abstract!Before(q, r) => fateBar[q] \in {"ok", "failed"}
  BY <1>3 DEF Abstract!Before, fateBar
<1>6. fateBar' = [fateBar EXCEPT ![r] = "inflight"]
  BY <1>2, BarUpdate DEF Inv, Fates, PosterTake
<1> QED BY <1>4, <1>5, <1>6 DEF Abstract!Attempt, Abstract!Over, fateBar, PosterTake

\* Enqueue is the acceptance of a request that was offered.
LEMMA AcceptOnce ==
    ASSUME Inv, NEW c \in Callers, NEW w \in Workers, pc[c] \in Locked, Enqueue(c, w)
    PROVE  Abstract!Accept(req[c]) /\ req[c] \in Requests
<1>1. req[c] \in Requests /\ fate[req[c]] = "offered"
  BY DEF Inv, Control, Offers, InPost, Locked
<1>2. fateBar[req[c]] = "offered"
  BY <1>1 DEF fateBar
<1>3. fateBar' = [fateBar EXCEPT ![req[c]] = "queued"]
  BY <1>1, BarUpdate DEF Inv, Fates, Enqueue
<1> QED BY <1>1, <1>2, <1>3 DEF Abstract!Accept, fateBar, Enqueue

\* Ending an attempt, with a report or without.
LEMMA FinishOnce ==
    ASSUME Inv, NEW w \in Workers, poster[w] \in {"posting", "reporting"}, NEW x \in {"ok", "failed"},
           fate' = [fate EXCEPT ![held[w]] = x], UNCHANGED <<lane, stamp, clock>>
    PROVE  held[w] \in Requests /\ Abstract!Finish(held[w], x)
<1>1. held[w] \in Requests /\ fate[held[w]] \in {"inflight", "failing"}
  BY DEF Inv, OneCustodian
<1>2. fateBar[held[w]] = "inflight"
  BY <1>1 DEF fateBar
<1>3. fateBar' = [fateBar EXCEPT ![held[w]] = x]
  BY <1>1, BarUpdate DEF Inv, Fates
<1> QED BY <1>1, <1>2, <1>3 DEF Abstract!Finish, fateBar

\* Every step of the client is a step of FireAndForget or a stutter.
LEMMA StepImplements ==
    ASSUME Inv, Next
    PROVE  Abstract!Next \/ UNCHANGED <<fateBar, lane, stamp, clock>>
<1>1. ASSUME NEW c \in Callers, Call(c)
      PROVE  Abstract!Next \/ UNCHANGED <<fateBar, lane, stamp, clock>>
  <2>1. ASSUME NEW r \in Requests, NEW l \in Affinities, BeginPost(c, r, l)
        PROVE  Abstract!Next
    <3>1. fateBar[r] = "unsent" /\ fateBar' = [fateBar EXCEPT ![r] = "offered"]
      BY <2>1, BarUpdate DEF Inv, Fates, BeginPost, fateBar
    <3>2. l \in Lanes /\ Abstract!Submit(r, l)
      BY <2>1, <3>1 DEF Abstract!Submit, fateBar, BeginPost, Lanes
    <3> QED BY <3>2 DEF Abstract!Next
  <2>2. ASSUME NEW r \in Requests, NEW l \in Affinities, NEW f \in BOOLEAN, RejectPost(c, r, l, f)
        PROVE  Abstract!Next
    <3>1. fateBar[r] = "unsent" /\ fateBar' = [fateBar EXCEPT ![r] = "rejected"]
      BY <2>2, BarUpdate DEF Inv, Fates, RejectPost, fateBar
    <3>2. Abstract!Reject(r)
      BY <2>2, <3>1 DEF Abstract!Reject, fateBar, RejectPost
    <3> QED BY <3>2 DEF Abstract!Next
  <2>3. ASSUME BeginFlush(c) \/ BeginClose(c) \/ \E k \in Configs : BeginInit(c, k)
        PROVE  UNCHANGED <<fateBar, lane, stamp, clock>>
    BY <2>3 DEF BeginFlush, BeginClose, BeginInit, history, fateBar
  <2> QED BY <1>1, <2>1, <2>2, <2>3 DEF Call
<1>2. ASSUME NEW c \in Callers, CallerStep(c)
      PROVE  Abstract!Next \/ UNCHANGED <<fateBar, lane, stamp, clock>>
  <2>1. ASSUME PostSend(c) \/ PostScanSend(c)
        PROVE  Abstract!Next
    <3>1. PICK w \in Workers : Enqueue(c, w)
      <4>1. PostSend(c) => Target(c) \in Workers
        BY TargetType DEF PostSend
      <4>2. PostScanSend(c) => idx[c] \in Workers
        BY WorkerIndex DEF Inv, TypeOK, PostScanSend
      <4> QED BY <2>1, <4>1, <4>2 DEF PostSend, PostScanSend
    <3>2. pc[c] \in Locked
      BY <2>1 DEF PostSend, PostScanSend, Locked
    <3>3. req[c] \in Requests /\ Abstract!Accept(req[c])
      BY <3>1, <3>2, AcceptOnce
    <3> QED BY <3>3 DEF Abstract!Next, Abstract!Accept
  <2>2. CASE UNCHANGED history
    BY <2>2 DEF history, fateBar
  <2> QED BY <1>2, <2>1, <2>2 DEF CallerStep, PostLock, PostScanNext, FlushLock, StopClose, StopAwait,
                                  FlushRestart, CloseDone, InitSetup, InitRefused
<1>3. ASSUME NEW w \in Workers, PosterStep(w)
      PROVE  Abstract!Next \/ UNCHANGED <<fateBar, lane, stamp, clock>>
  <2>1. CASE PosterTake(w)
    <3>1. buf[w][1] \in Requests
      BY <2>1, TakeFacts DEF Taken
    <3>2. Abstract!Attempt(buf[w][1])
      BY <2>1, AttemptInTurn
    <3> QED BY <3>1, <3>2 DEF Abstract!Next, Abstract!Attempt
  <2>2. ASSUME NEW success \in BOOLEAN, PosterDone(w, success)
        PROVE  Abstract!Next
    <3>1. PICK x \in {"ok", "failed"} : fate' = [fate EXCEPT ![held[w]] = x]
      BY <2>2 DEF PosterDone
    <3> QED BY <2>2, <3>1, FinishOnce DEF PosterDone, Abstract!Next, Abstract!Over
  <2>3. CASE PosterFail(w)
    <3>1. held[w] \in Requests /\ fate[held[w]] = "inflight"
      BY <2>3 DEF Inv, OneCustodian, PosterFail
    <3>2. fateBar' = fateBar
      BY <2>3, <3>1 DEF Inv, TypeOK, PosterFail, fateBar
    <3> QED BY <2>3, <3>2 DEF PosterFail
  <2>4. CASE PosterReport(w)
    BY <2>4, FinishOnce DEF PosterReport, Abstract!Next, Abstract!Over
  <2>5. CASE PosterExit(w)
    BY <2>5 DEF PosterExit, history, fateBar
  <2> QED BY <1>3, <2>1, <2>2, <2>3, <2>4, <2>5 DEF PosterStep
<1>4. CASE ConsumerDone
  BY <1>4 DEF ConsumerDone, history, fateBar
<1> QED BY <1>1, <1>2, <1>3, <1>4 DEF Next

\* The client implements FireAndForget: each request is attempted at most once,
\* and those of one affinity one at a time, in the order they were accepted.
THEOREM Refinement == Spec => ImplementsFireAndForget
<1>1. Init => Abstract!Init
  BY DEF Init, Abstract!Init
<1>2. Inv /\ [Next]_vars => [Abstract!Next]_(Abstract!vars)
  <2>1. SUFFICES ASSUME Inv, [Next]_vars
                 PROVE  Abstract!Next \/ UNCHANGED <<fateBar, lane, stamp, clock>>
    BY DEF Abstract!vars, fateBar
  <2>2. CASE UNCHANGED vars
    BY <2>2 DEF vars, history, fateBar
  <2> QED BY <2>1, <2>2, StepImplements
<1> QED BY <1>1, <1>2, Invariance, PTL DEF Spec, ImplementsFireAndForget, Abstract!Spec
=============================================================================
