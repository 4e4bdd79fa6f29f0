-------------------------- MODULE KafkaHooksProofs --------------------------
(***************************************************************************)
(* Proofs about KafkaHooks, for any messages and any sizes of the channels *)
(* and of librdkafka's queue.  Without any condition no message is in two  *)
(* places (Once).  If Flush sees the messages that its goroutines have in  *)
(* hand, and only on_log produces, none is lost either (Kept): whatever    *)
(* comes after Flush finds the producer empty (Drained).                   *)
(***************************************************************************)
EXTENDS KafkaHooks, FiniteSetTheorems, TLAPS

\* The places of a message, as sets.
InChan   == Elements(chan)
InHand   == {taken} \ {None}
InPoll   == {polled[p] : p \in Pollers} \ {None}
InEvents == Elements(events)
Reported == reported \cup ({report} \ {None})

Injective(s) == \A i, j \in 1 .. Len(s) : s[i] = s[j] => i = j

\* A hook is sending when it has a message that nobody else has, and
\* on_kafka_report is running when it was called for the report in hand.
Senders ==
    /\ \A h \in Hooks : At(h, "send") <=> sending[h] # None
    /\ \A h \in Hooks : sending[h] \notin produced
    /\ \A g, h \in Hooks : sending[g] # None /\ sending[g] = sending[h] => g = h
    /\ where["report"] \in {"off", "over"} <=> report = None
    /\ where["report"] \in {"hook", "send", "relock"} => report \in reported
    /\ where["report"] = "want" => report \notin reported

\* No message is in two places.
Once ==
    /\ Injective(chan) /\ Injective(events)
    /\ \A p, q \in Pollers : polled[p] # None /\ polled[p] = polled[q] => p = q
    /\ InChan \cap (InHand \cup outq \cup InPoll \cup InEvents \cup Reported) = {}
    /\ InHand \cap (outq \cup InPoll \cup InEvents \cup Reported) = {}
    /\ outq \cap (InPoll \cup InEvents \cup Reported) = {}
    /\ InPoll \cap (InEvents \cup Reported) = {}
    /\ InEvents \cap Reported = {}
    /\ InChan \cup InHand \cup outq \cup InPoll \cup InEvents \cup Reported \subseteq produced

OnceInv == TypeOK /\ Senders /\ Once

\* The elements of a channel after a send ...
LEMMA AppendFacts ==
    ASSUME NEW s \in Seq(Messages), NEW m \in Messages
    PROVE  /\ Append(s, m) \in Seq(Messages) /\ Len(Append(s, m)) = Len(s) + 1
           /\ Elements(Append(s, m)) = Elements(s) \cup {m}
           /\ Injective(s) /\ m \notin Elements(s) => Injective(Append(s, m))
<1>1. /\ Append(s, m) \in Seq(Messages) /\ Len(s) \in Nat /\ Len(Append(s, m)) = Len(s) + 1
      /\ \A i \in 1 .. Len(s) : Append(s, m)[i] = s[i]
      /\ Append(s, m)[Len(s) + 1] = m
  OBVIOUS
<1>2. 1 .. Len(s) + 1 = (1 .. Len(s)) \cup {Len(s) + 1}
  BY <1>1
<1>3. Elements(Append(s, m)) = Elements(s) \cup {m}
  BY <1>1, <1>2 DEF Elements
<1>4. Injective(s) /\ m \notin Elements(s) => Injective(Append(s, m))
  BY <1>1, <1>2 DEF Elements, Injective
<1> QED BY <1>1, <1>3, <1>4

\* ... and after a receive.
LEMMA TailFacts ==
    ASSUME NEW s \in Seq(Messages), s # <<>>, Injective(s)
    PROVE  /\ Tail(s) \in Seq(Messages) /\ Len(s) \in Nat /\ Len(Tail(s)) = Len(s) - 1
           /\ Head(s) \in Messages
           /\ Elements(s) = Elements(Tail(s)) \cup {Head(s)}
           /\ Head(s) \notin Elements(Tail(s))
           /\ Injective(Tail(s))
<1>1. /\ Tail(s) \in Seq(Messages) /\ Len(s) \in Nat /\ Len(s) > 0 /\ Len(Tail(s)) = Len(s) - 1
      /\ Head(s) = s[1] /\ Head(s) \in Messages
      /\ \A i \in 1 .. Len(s) - 1 : Tail(s)[i] = s[i + 1]
  OBVIOUS
<1>2. ASSUME NEW x \in Elements(s), x # Head(s)
      PROVE  x \in Elements(Tail(s))
  <2>1. PICK i \in 1 .. Len(s) : s[i] = x
    BY DEF Elements
  <2>2. i - 1 \in 1 .. Len(s) - 1
    BY <1>1, <1>2, <2>1
  <2>3. Tail(s)[i - 1] = x
    BY <1>1, <2>1, <2>2
  <2> QED BY <1>1, <2>2, <2>3 DEF Elements
<1>3. ASSUME NEW x \in Elements(Tail(s))
      PROVE  x \in Elements(s) /\ x # Head(s)
  <2>1. PICK i \in 1 .. Len(s) - 1 : Tail(s)[i] = x
    BY <1>1 DEF Elements
  <2>2. i + 1 \in 1 .. Len(s) /\ s[i + 1] = x /\ i + 1 # 1 /\ 1 \in 1 .. Len(s)
    BY <1>1, <2>1
  <2> QED BY <1>1, <2>2 DEF Elements, Injective
<1>4. Head(s) \in Elements(s)
  BY <1>1 DEF Elements
<1>5. Injective(Tail(s))
  <2> SUFFICES ASSUME NEW i \in 1 .. Len(s) - 1, NEW k \in 1 .. Len(s) - 1, Tail(s)[i] = Tail(s)[k]
               PROVE  i = k
    BY <1>1 DEF Injective
  <2>1. s[i + 1] = s[k + 1] /\ i + 1 \in 1 .. Len(s) /\ k + 1 \in 1 .. Len(s)
    BY <1>1
  <2>2. i + 1 = k + 1
    BY <2>1 DEF Injective
  <2> QED BY <2>2
<1> QED BY <1>1, <1>2, <1>3, <1>4, <1>5

\* The producer is empty when the script is loaded.
LEMMA InitOnce == Init => OnceInv
<1> SUFFICES ASSUME Init PROVE OnceInv
  OBVIOUS
<1> USE KafkaAssumption DEF Init
<1>1. TypeOK
  <2>1. /\ <<>> \in Seq(Messages) /\ Len(<<>>) = 0
    OBVIOUS
  <2>2. where \in [Threads -> MainPlaces \cup HookPlaces]
    BY DEF MainPlaces
  <2>3. sending \in [Hooks -> Messages \cup {None}] /\ polled \in [Pollers -> Messages \cup {None}]
    OBVIOUS
  <2>4. /\ luaLock \in Hooks \cup {None} /\ taken \in Messages \cup {None} /\ report \in Messages \cup {None}
        /\ state \in BOOLEAN /\ kafka \in BOOLEAN /\ closed \in BOOLEAN
        /\ outq \subseteq Messages /\ produced \subseteq Messages /\ reported \subseteq Messages
    OBVIOUS
  <2>5. 0 <= ProduceSize /\ 0 <= EventsSize
    OBVIOUS
  <2> QED BY <2>1, <2>2, <2>3, <2>4, <2>5 DEF TypeOK
<1>2. Senders
  BY DEF Senders, At, Threads, Hooks
<1>3. InChan = {} /\ InEvents = {} /\ Injective(chan) /\ Injective(events)
  BY DEF InChan, InEvents, Elements, Injective
<1>4. InHand = {} /\ InPoll = {} /\ Reported = {}
  BY DEF InHand, InPoll, Reported
<1>5. Once
  BY <1>3, <1>4 DEF Once
<1> QED BY <1>1, <1>2, <1>5 DEF OnceInv

\* A step that moves nothing between the places.
Still ==
    /\ UNCHANGED <<chan, taken, outq, polled, events, produced>>
    /\ Reported' = Reported

LEMMA StillOnce ==
    ASSUME Once, Still
    PROVE  Once'
  BY DEF Once, Still, InChan, InHand, InPoll, InEvents, Injective

\* Hooks that enter, return or wait for luaLock.
LEMMA HookOnce ==
    ASSUME OnceInv, NEW h \in Hooks, Call(h) \/ Enter(h) \/ Return(h) \/ KafkaProduce(h) \/ Relock(h)
    PROVE  OnceInv'
<1> USE KafkaAssumption DEF At, Go, producer, history, lua
<1> h \in Threads /\ "report" \in Threads /\ "main" \notin Hooks /\ "report" \in Hooks
  BY DEF Threads, Hooks
<1>1. CASE Call(h)
  <2>1. TypeOK' /\ Senders'
    BY <1>1 DEF OnceInv, TypeOK, Senders, Call, HookPlaces, Threads
  <2> QED BY <1>1, <2>1, StillOnce DEF OnceInv, Still, Call, Reported
<1>2. CASE Enter(h)
  <2>1. h = "report" => report \in Messages
    BY <1>2 DEF OnceInv, TypeOK, Senders, Enter
  <2>2. TypeOK' /\ Senders'
    BY <1>2, <2>1 DEF OnceInv, TypeOK, Senders, Enter, HookPlaces, Threads
  <2>3. Reported' = Reported
    BY <1>2, <2>1 DEF Enter, Reported
  <2> QED BY <1>2, <2>2, <2>3, StillOnce DEF OnceInv, Still, Enter
<1>3. CASE Return(h)
  <2>1. h = "report" => report \in reported
    BY <1>3 DEF OnceInv, Senders, Return
  <2>2. TypeOK' /\ Senders'
    BY <1>3 DEF OnceInv, TypeOK, Senders, Return, HookPlaces, Threads
  <2>3. Reported' = Reported
    BY <1>3, <2>1 DEF Return, Reported
  <2> QED BY <1>3, <2>2, <2>3, StillOnce DEF OnceInv, Still, Return
<1>4. CASE KafkaProduce(h)
  <2>0. /\ At(h, "hook") /\ where' = [where EXCEPT ![h] = "send"]
        /\ luaLock' = None /\ kafka' = TRUE /\ closed' = (closed /\ kafka)
        /\ UNCHANGED <<state, chan, taken, outq, polled, events, report, produced, reported>>
    BY <1>4 DEF KafkaProduce
  <2>1. PICK m \in Unused : sending' = [sending EXCEPT ![h] = m]
    BY <1>4 DEF KafkaProduce
  <2>2. m \in Messages /\ m \notin produced /\ \A g \in Hooks : sending[g] # m
    BY <2>1 DEF Unused
  <2>3. TypeOK'
    <3>1. where' \in [Threads -> MainPlaces \cup HookPlaces]
      BY <2>0 DEF OnceInv, TypeOK, HookPlaces
    <3>2. sending' \in [Hooks -> Messages \cup {None}]
      BY <2>1, <2>2 DEF OnceInv, TypeOK
    <3>3. closed' \in BOOLEAN
      BY <2>0
    <3> QED BY <2>0, <3>1, <3>2, <3>3 DEF OnceInv, TypeOK
  <2>4. Senders'
    <3>1. \A g \in Hooks : g # h => sending'[g] = sending[g] /\ where'[g] = where[g]
      BY <2>0, <2>1 DEF OnceInv, TypeOK, Threads
    <3>2. sending'[h] = m /\ where'[h] = "send" /\ m # None
      BY <2>0, <2>1, <2>2 DEF OnceInv, TypeOK
    <3> QED BY <2>0, <2>2, <3>1, <3>2 DEF OnceInv, Senders
  <2> QED BY <1>4, <2>3, <2>4, StillOnce DEF OnceInv, Still, KafkaProduce, Reported
<1>5. CASE Relock(h)
  <2>1. TypeOK' /\ Senders'
    BY <1>5 DEF OnceInv, TypeOK, Senders, Relock, HookPlaces, Threads
  <2> QED BY <1>5, <2>1, StillOnce DEF OnceInv, Still, Relock, Reported
<1> QED BY <1>1, <1>2, <1>3, <1>4, <1>5

\* channel <- message.
LEMMA SendOnce ==
    ASSUME OnceInv, NEW h \in Hooks, Send(h)
    PROVE  OnceInv'
<1> USE KafkaAssumption DEF At, Go
<1> h \in Threads /\ "report" \in Threads /\ "report" \in Hooks
  BY DEF Threads, Hooks
<1> DEFINE m == sending[h]
<1>1. m \in Messages /\ m \notin produced /\ chan \in Seq(Messages) /\ chan' = Append(chan, m)
  BY DEF OnceInv, TypeOK, Senders, Send
<1> HIDE DEF m
<1>2. /\ chan' \in Seq(Messages) /\ Len(chan') = Len(chan) + 1
      /\ InChan' = InChan \cup {m}
      /\ m \notin InChan => Injective(chan')
  BY <1>1, AppendFacts DEF InChan, OnceInv, Once
<1>3. TypeOK'
  BY <1>1, <1>2 DEF OnceInv, TypeOK, Send, HookPlaces, Threads, m
<1>4. Senders'
  BY <1>1 DEF OnceInv, TypeOK, Senders, Send, Threads, m
<1>5. /\ InHand' = InHand /\ outq' = outq /\ InPoll' = InPoll /\ InEvents' = InEvents /\ Reported' = Reported
      /\ produced' = produced \cup {m} /\ events' = events /\ polled' = polled
  BY DEF Send, InHand, InPoll, InEvents, Reported, m
<1>6. Once'
  BY <1>1, <1>2, <1>5 DEF OnceInv, Once, Injective
<1> QED BY <1>3, <1>4, <1>6 DEF OnceInv

\* pollKafkaEvents receives a report.
LEMMA ReceiveOnce ==
    ASSUME OnceInv, Receive
    PROVE  OnceInv'
<1> USE KafkaAssumption DEF At, Go
<1> "report" \in Threads /\ "report" \in Hooks
  BY DEF Threads, Hooks
<1> DEFINE m == Head(events)
<1>1. events \in Seq(Messages) /\ events # <<>> /\ Injective(events) /\ events' = Tail(events)
  BY DEF OnceInv, TypeOK, Once, Receive
<1>2. /\ events' \in Seq(Messages) /\ Len(events') = Len(events) - 1 /\ Len(events) \in Nat
      /\ m \in Messages /\ m \notin InEvents' /\ InEvents = InEvents' \cup {m}
      /\ Injective(events')
  BY <1>1, TailFacts DEF InEvents
<1>3. report = None /\ report' = m
  BY DEF OnceInv, Senders, Receive
<1> HIDE DEF m
<1>4. m \notin reported
  BY <1>2 DEF OnceInv, Once, Reported
<1>5. TypeOK'
  BY <1>2, <1>3 DEF OnceInv, TypeOK, Receive, history, HookPlaces, Threads
<1>6. Senders'
  BY <1>2, <1>3, <1>4 DEF OnceInv, TypeOK, Senders, Receive, history, Threads
<1>7. /\ InChan' = InChan /\ InHand' = InHand /\ outq' = outq /\ InPoll' = InPoll
      /\ produced' = produced /\ chan' = chan /\ polled' = polled
  BY DEF Receive, history, InHand, InPoll, InChan
<1>8. Reported' = Reported \cup {m}
  BY <1>2, <1>3 DEF Reported, Receive, history
<1>9. Once'
  BY <1>2, <1>7, <1>8 DEF OnceInv, Once, Injective
<1> QED BY <1>5, <1>6, <1>9 DEF OnceInv

\* Nothing that hooks can see changes.
LEMMA SameSenders ==
    ASSUME Senders, UNCHANGED <<where, sending, report, produced, reported>>
    PROVE  Senders'
  BY DEF Senders, At

\* channelProducer.
LEMMA ProducerOnce ==
    ASSUME OnceInv, ProducerStep
    PROVE  OnceInv'
<1> USE KafkaAssumption DEF lua, history
<1>1. CASE Take
  <2> DEFINE m == Head(chan)
  <2>1. chan \in Seq(Messages) /\ chan # <<>> /\ Injective(chan) /\ chan' = Tail(chan)
    BY <1>1 DEF OnceInv, TypeOK, Once, Take
  <2>2. /\ chan' \in Seq(Messages) /\ Len(chan') = Len(chan) - 1 /\ Len(chan) \in Nat
        /\ m \in Messages /\ m \notin InChan' /\ InChan = InChan' \cup {m}
        /\ Injective(chan')
    BY <2>1, TailFacts DEF InChan
  <2>3. taken = None /\ taken' = m
    BY <1>1 DEF Take
  <2> HIDE DEF m
  <2>4. TypeOK'
    BY <1>1, <2>2, <2>3 DEF OnceInv, TypeOK, Take
  <2>5. Senders'
    BY <1>1, SameSenders DEF OnceInv, Take
  <2>6. /\ outq' = outq /\ InPoll' = InPoll /\ InEvents' = InEvents /\ Reported' = Reported
        /\ produced' = produced /\ events' = events /\ polled' = polled
    BY <1>1 DEF Take, InPoll, InEvents, Reported
  <2>7. InHand = {} /\ InHand' = {m}
    BY <2>2, <2>3 DEF InHand
  <2>8. Once'
    BY <2>2, <2>6, <2>7 DEF OnceInv, Once, Injective
  <2> QED BY <2>4, <2>5, <2>8 DEF OnceInv
<1>2. CASE Transmit
  <2>1. taken \in Messages /\ InHand = {taken} /\ InHand' = {}
    BY <1>2 DEF OnceInv, TypeOK, Transmit, InHand
  <2>2. TypeOK'
    BY <1>2, <2>1 DEF OnceInv, TypeOK, Transmit
  <2>3. Senders'
    BY <1>2, SameSenders DEF OnceInv, Transmit
  <2>4. /\ InChan' = InChan /\ InPoll' = InPoll /\ InEvents' = InEvents /\ Reported' = Reported
        /\ produced' = produced /\ events' = events /\ polled' = polled /\ chan' = chan
        /\ outq' = outq \cup {taken}
    BY <1>2 DEF Transmit, InChan, InPoll, InEvents, Reported
  <2>5. Once'
    BY <2>1, <2>4 DEF OnceInv, Once, Injective
  <2> QED BY <2>2, <2>3, <2>5 DEF OnceInv
<1>3. CASE Refuse
  <2>1. taken \in Messages /\ InHand = {taken} /\ InHand' = {}
    BY <1>3 DEF OnceInv, TypeOK, Refuse, InHand
  <2>2. events \in Seq(Messages) /\ Injective(events) /\ taken \notin InEvents /\ events' = Append(events, taken)
    BY <1>3, <2>1 DEF OnceInv, TypeOK, Once, Refuse
  <2>3. /\ events' \in Seq(Messages) /\ Len(events') = Len(events) + 1
        /\ InEvents' = InEvents \cup {taken} /\ Injective(events')
    BY <2>1, <2>2, AppendFacts DEF InEvents
  <2>4. TypeOK'
    BY <1>3, <2>3 DEF OnceInv, TypeOK, Refuse
  <2>5. Senders'
    BY <1>3, SameSenders DEF OnceInv, Refuse
  <2>6. /\ InChan' = InChan /\ InPoll' = InPoll /\ Reported' = Reported
        /\ produced' = produced /\ outq' = outq /\ polled' = polled /\ chan' = chan
    BY <1>3 DEF Refuse, InChan, InPoll, Reported
  <2>7. Once'
    BY <2>1, <2>3, <2>6 DEF OnceInv, Once, Injective
  <2> QED BY <2>4, <2>5, <2>7 DEF OnceInv
<1> QED BY <1>1, <1>2, <1>3 DEF ProducerStep

\* What a poller takes or hands on is its own.
LEMMA PollFacts ==
    ASSUME OnceInv, NEW p \in Pollers, NEW m \in Messages \cup {None},
           polled' = [polled EXCEPT ![p] = m]
    PROVE  /\ polled[p] = None /\ m # None => InPoll' = InPoll \cup {m}
           /\ polled[p] # None /\ m = None =>
                 InPoll = InPoll' \cup {polled[p]} /\ polled[p] \notin InPoll'
<1>1. polled \in [Pollers -> Messages \cup {None}]
  BY DEF OnceInv, TypeOK
<1>2. \A q \in Pollers : q # p => polled'[q] = polled[q]
  BY <1>1
<1>3. polled'[p] = m
  BY <1>1
<1>4. ASSUME polled[p] = None, m # None
      PROVE  InPoll' = InPoll \cup {m}
  BY <1>2, <1>3, <1>4 DEF InPoll
<1>5. ASSUME polled[p] # None, m = None
      PROVE  InPoll = InPoll' \cup {polled[p]} /\ polled[p] \notin InPoll'
  <2>1. \A q \in Pollers : q # p => polled[q] # polled[p]
    BY <1>5 DEF OnceInv, Once
  <2> QED BY <1>2, <1>3, <1>5, <2>1 DEF InPoll
<1> QED BY <1>4, <1>5

\* eventPoll.
LEMMA PollerOnce ==
    ASSUME OnceInv, NEW p \in Pollers, PollerStep(p)
    PROVE  OnceInv'
<1> USE KafkaAssumption DEF lua, history
<1>1. CASE Poll(p)
  <2>1. PICK m \in outq : polled' = [polled EXCEPT ![p] = m] /\ outq' = outq \ {m}
    BY <1>1 DEF Poll
  <2>2. m \in Messages /\ m # None /\ polled[p] = None /\ polled \in [Pollers -> Messages \cup {None}]
    BY <1>1 DEF OnceInv, TypeOK, Poll
  <2>3. InPoll' = InPoll \cup {m}
    BY <2>1, <2>2, PollFacts
  <2>4. TypeOK'
    BY <1>1, <2>1, <2>2 DEF OnceInv, TypeOK, Poll
  <2>5. Senders'
    BY <1>1, SameSenders DEF OnceInv, Poll
  <2>6. /\ InChan' = InChan /\ InHand' = InHand /\ InEvents' = InEvents /\ Reported' = Reported
        /\ produced' = produced /\ events' = events /\ chan' = chan
    BY <1>1 DEF Poll, InChan, InHand, InEvents, Reported
  <2>7. \A q, r \in Pollers : polled'[q] # None /\ polled'[q] = polled'[r] => q = r
    <3>1. m \notin InPoll
      BY <2>1 DEF OnceInv, Once
    <3>2. \A q \in Pollers : polled[q] # m
      BY <2>2, <3>1 DEF InPoll
    <3> QED BY <2>1, <2>2, <3>2 DEF OnceInv, Once
  <2>8. Once'
    BY <2>1, <2>3, <2>6, <2>7 DEF OnceInv, Once, Injective
  <2> QED BY <2>4, <2>5, <2>8 DEF OnceInv
<1>2. CASE Forward(p)
  <2> DEFINE m == polled[p]
  <2>1. m \in Messages /\ m # None /\ polled \in [Pollers -> Messages \cup {None}]
    BY <1>2 DEF OnceInv, TypeOK, Forward
  <2>2. InPoll = InPoll' \cup {m} /\ m \notin InPoll'
    BY <1>2, PollFacts DEF Forward
  <2>3. events \in Seq(Messages) /\ Injective(events) /\ m \notin InEvents /\ events' = Append(events, m)
    BY <1>2, <2>2 DEF OnceInv, TypeOK, Once, Forward
  <2>4. /\ events' \in Seq(Messages) /\ Len(events') = Len(events) + 1
        /\ InEvents' = InEvents \cup {m} /\ Injective(events')
    BY <2>1, <2>3, AppendFacts DEF InEvents
  <2>5. TypeOK'
    BY <1>2, <2>4 DEF OnceInv, TypeOK, Forward
  <2>6. Senders'
    BY <1>2, SameSenders DEF OnceInv, Forward
  <2>7. /\ InChan' = InChan /\ InHand' = InHand /\ Reported' = Reported
        /\ produced' = produced /\ outq' = outq /\ chan' = chan
    BY <1>2 DEF Forward, InChan, InHand, Reported
  <2>8. \A q, r \in Pollers : polled'[q] # None /\ polled'[q] = polled'[r] => q = r
    BY <1>2, <2>1 DEF OnceInv, Once, Forward
  <2> HIDE DEF m
  <2>9. Once'
    BY <2>2, <2>4, <2>7, <2>8 DEF OnceInv, Once, Injective
  <2> QED BY <2>5, <2>6, <2>9 DEF OnceInv
<1> QED BY <1>1, <1>2 DEF PollerStep

\* Close of the sandbox; it may drop a report, it duplicates none.
LEMMA MainOnce ==
    ASSUME OnceInv, Exit \/ MainStep
    PROVE  OnceInv'
<1> USE KafkaAssumption DEF At, Go, history, producer
<1> "main" \in Threads /\ "log" \in Threads /\ "tick" \in Threads /\ "report" \in Threads /\ "main" \notin Hooks
  BY DEF Threads, Hooks
<1>1. CASE Exit \/ Flushed \/ StopTicker \/ EndClose \/ ReturnMain
  <2>1. TypeOK'
    BY <1>1 DEF OnceInv, TypeOK, Exit, Flushed, StopTicker, EndClose, ReturnMain, MainPlaces, HookPlaces
  <2>3. \A h \in Hooks : \/ where'[h] = where[h]
                         \/ h # "report" /\ where[h] = "off" /\ where'[h] = "over"
    BY <1>1 DEF OnceInv, TypeOK, Exit, Flushed, StopTicker, EndClose, ReturnMain, Threads, Hooks
  <2>4. UNCHANGED <<sending, report, produced, reported>>
    BY <1>1 DEF Exit, Flushed, StopTicker, EndClose, ReturnMain
  <2>5. Senders'
    BY <2>3, <2>4 DEF OnceInv, Senders, Hooks
  <2>2. Still
    BY <1>1 DEF Still, Reported, Exit, Flushed, StopTicker, EndClose, ReturnMain
  <2> QED BY <2>1, <2>2, <2>5, StillOnce DEF OnceInv
<1>2. CASE CloseChannels
  <2>1. \A p \in Pollers : polled'[p] \in {polled[p], None}
    BY <1>2 DEF CloseChannels
  <2>2. polled' \in [Pollers -> Messages \cup {None}]
    BY <1>2 DEF CloseChannels, OnceInv, TypeOK
  <2>3. TypeOK' /\ Senders'
    BY <1>2, <2>2 DEF OnceInv, TypeOK, Senders, CloseChannels, MainPlaces, Threads, Hooks
  <2>4. InPoll' \subseteq InPoll
    BY <2>1 DEF InPoll
  <2>5. /\ InChan' = InChan /\ InHand' = InHand /\ InEvents' = InEvents /\ Reported' = Reported
        /\ produced' = produced /\ outq' = outq /\ chan' = chan /\ events' = events
    BY <1>2 DEF CloseChannels, InChan, InHand, InEvents, Reported
  <2>6. \A q, r \in Pollers : polled'[q] # None /\ polled'[q] = polled'[r] => q = r
    BY <2>1 DEF OnceInv, Once
  <2>7. Once'
    BY <2>4, <2>5, <2>6 DEF OnceInv, Once, Injective
  <2> QED BY <2>3, <2>7 DEF OnceInv
<1>3. CASE Closed
  <2>1. TypeOK' /\ Senders'
    BY <1>3 DEF OnceInv, TypeOK, Senders, Closed, MainPlaces, Threads, Hooks
  <2>2. /\ InChan' = InChan /\ InHand' = InHand /\ InPoll' = InPoll /\ InEvents' = InEvents
        /\ Reported' = Reported /\ produced' = produced /\ outq' = {} /\ chan' = chan /\ events' = events
        /\ polled' = polled
    BY <1>3 DEF Closed, InChan, InHand, InPoll, InEvents, Reported
  <2>3. Once'
    BY <2>2 DEF OnceInv, Once, Injective
  <2> QED BY <2>1, <2>3 DEF OnceInv
<1> QED BY <1>1, <1>2, <1>3 DEF MainStep

Dies == FlushTimesOut \/ \E h \in Hooks : InitFails(h)

\* A panic moves nothing but main.
LEMMA DiesOnly ==
    ASSUME Dies
    PROVE  /\ where' = [where EXCEPT !["main"] = "died"]
           /\ UNCHANGED <<luaLock, state, kafka, sending, producer, report, history>>
           /\ chan' = chan /\ closed' = closed /\ taken' = taken /\ outq' = outq
           /\ polled' = polled /\ events' = events
           /\ produced' = produced /\ reported' = reported
<1>1. FlushTimesOut => Die
  BY DEF FlushTimesOut
<1>2. (\E h \in Hooks : InitFails(h)) => Die
  BY DEF InitFails
<1> QED BY <1>1, <1>2 DEF Dies, Die, producer, history

\* It keeps the invariant.
LEMMA DiesOnce ==
    ASSUME OnceInv, Dies
    PROVE  OnceInv'
<1> "main" \in Threads /\ Hooks \subseteq Threads /\ "main" \notin Hooks /\ "report" \in Hooks
  BY DEF Threads, Hooks
<1>1. TypeOK'
  BY DiesOnly DEF OnceInv, TypeOK, MainPlaces
<1>2. \A h \in Hooks : where'[h] = where[h]
  BY DiesOnly DEF OnceInv, TypeOK
<1>3. Senders'
  BY <1>2, DiesOnly DEF OnceInv, Senders, At
<1>4. Still
  BY DiesOnly DEF Still, Reported
<1> QED BY <1>1, <1>3, <1>4, StillOnce DEF OnceInv

\* Every step keeps the invariant.
LEMMA NextOnce == OnceInv /\ [Next]_vars => OnceInv'
<1> SUFFICES ASSUME OnceInv, [Next]_vars PROVE OnceInv'
  OBVIOUS
<1>1. CASE UNCHANGED vars
  <2>1. TypeOK' /\ Senders'
    BY <1>1, SameSenders DEF OnceInv, TypeOK, vars, lua, producer, history
  <2> QED BY <1>1, <2>1, StillOnce DEF OnceInv, Still, Reported, vars, producer, history
<1> QED BY <1>1, HookOnce, SendOnce, ReceiveOnce, ProducerOnce, PollerOnce, MainOnce, DiesOnce
       DEF Next, HookStep, Exited, Dies

\* The sandbox and the producer keep their types, and the channels never hold more
\* than they have room for (setSaneKafkaDefaults, kafka.go).
THEOREM TypeCorrect == Spec => []TypeOK
<1>1. OnceInv => TypeOK
  BY DEF OnceInv
<1> QED BY <1>1, InitOnce, NextOnce, PTL DEF Spec

-----------------------------------------------------------------------------
(* Nothing is lost *)

Drained ==
    /\ chan = <<>> /\ taken = None /\ outq = {} /\ events = <<>>
    /\ \A p \in Pollers : polled[p] = None

\* A message that was produced is somewhere.
Kept == produced \subseteq InChan \cup InHand \cup outq \cup InPoll \cup InEvents \cup Reported

\* Which hooks can run as the exit proceeds.
Phases ==
    /\ where["main"] \notin {"off", "died"} => At("log", "over")
    /\ where["main"] \in {"end", "closed", "returned"} => At("tick", "over")
    /\ \A h \in Hooks \ Producing : where[h] \notin {"send", "relock"}
    /\ ~state => where["main"] \in {"closed", "returned"}
    /\ closed => where["main"] \notin {"off", "flush", "close"}

\* The producer is empty before it is made, and after Flush.
Emptied ==
    /\ ~kafka => Drained /\ \A h \in Hooks : ~At(h, "send")
    /\ where["main"] \notin {"off", "flush", "died"} => Drained

KeptInv == Kept /\ Phases /\ Emptied

\* If main waits for the last on_kafka_report, nothing is called after Close.
Silent == where["main"] \in {"closed", "returned"} => At("report", "off")

\* What the proofs of this section assume: Flush waits for what is in hand, and
\* only the pipeline, which is over when Close runs, produces.
Settled == "settled" \in Assumed /\ Producing \subseteq {"log"}

\* The producer does not exist yet.
LEMMA InitKept == Init => KeptInv /\ Silent
<1> SUFFICES ASSUME Init PROVE KeptInv /\ Silent
  OBVIOUS
<1>1. Drained /\ Kept
  BY DEF Init, Drained, Kept
<1>2. Phases /\ Silent
  BY DEF Init, Phases, Silent, At, Threads, Hooks
<1>3. \A h \in Hooks : ~At(h, "send")
  BY DEF Init, At, Threads
<1> QED BY <1>1, <1>2, <1>3 DEF KeptInv, Emptied, Init

\* A message that leaves one place comes to another.
LEMMA NextKeeps ==
    ASSUME OnceInv, KeptInv, Next
    PROVE  Kept'
<1> USE KafkaAssumption DEF lua, producer, history
<1>1. CASE UNCHANGED <<chan, taken, outq, polled, events, produced>> /\ Reported' = Reported
  BY <1>1 DEF KeptInv, Kept, InChan, InHand, InPoll, InEvents
<1>2. ASSUME NEW h \in Hooks, Call(h) \/ Enter(h) \/ Return(h) \/ KafkaProduce(h) \/ Relock(h)
      PROVE  Kept'
  <2>1. UNCHANGED <<chan, taken, outq, polled, events, produced>>
    BY <1>2 DEF Call, Enter, Return, KafkaProduce, Relock
  <2>2. CASE Enter(h)
    <3>1. h = "report" => report # None
      BY <2>2 DEF OnceInv, Senders, Enter, At
    <3> QED BY <1>1, <2>1, <2>2, <3>1 DEF Enter, Reported
  <2>3. CASE Return(h)
    <3>1. h = "report" => report \in reported
      BY <2>3 DEF OnceInv, Senders, Return, At
    <3> QED BY <1>1, <2>1, <2>3, <3>1 DEF Return, Reported
  <2>4. CASE Call(h) \/ KafkaProduce(h) \/ Relock(h)
    BY <1>1, <2>1, <2>4 DEF Call, KafkaProduce, Relock, Reported
  <2> QED BY <1>2, <2>2, <2>3, <2>4
<1>3. ASSUME NEW h \in Hooks, Send(h)
      PROVE  Kept'
  <2>1. sending[h] \in Messages /\ chan \in Seq(Messages) /\ chan' = Append(chan, sending[h])
    BY <1>3 DEF OnceInv, TypeOK, Senders, Send
  <2>2. InChan' = InChan \cup {sending[h]}
    BY <2>1, AppendFacts DEF InChan
  <2>3. /\ InHand' = InHand /\ outq' = outq /\ InPoll' = InPoll /\ InEvents' = InEvents /\ Reported' = Reported
        /\ produced' = produced \cup {sending[h]}
    BY <1>3 DEF Send, InHand, InPoll, InEvents, Reported
  <2> QED BY <2>2, <2>3 DEF KeptInv, Kept
<1>4. CASE Receive
  <2>1. events \in Seq(Messages) /\ events # <<>> /\ Injective(events) /\ events' = Tail(events)
    BY <1>4 DEF OnceInv, TypeOK, Once, Receive
  <2>2. Head(events) \in Messages /\ InEvents = InEvents' \cup {Head(events)}
    BY <2>1, TailFacts DEF InEvents
  <2>3. report = None /\ report' = Head(events) /\ reported' = reported
    BY <1>4 DEF OnceInv, Senders, Receive, At
  <2>4. Reported' = Reported \cup {Head(events)}
    BY <2>2, <2>3 DEF Reported
  <2>5. /\ InChan' = InChan /\ InHand' = InHand /\ outq' = outq /\ InPoll' = InPoll /\ produced' = produced
    BY <1>4 DEF Receive, InHand, InPoll, InChan
  <2> QED BY <2>2, <2>4, <2>5 DEF KeptInv, Kept
<1>5. CASE Take
  <2>1. chan \in Seq(Messages) /\ chan # <<>> /\ Injective(chan) /\ chan' = Tail(chan)
    BY <1>5 DEF OnceInv, TypeOK, Once, Take
  <2>2. Head(chan) \in Messages /\ InChan = InChan' \cup {Head(chan)}
    BY <2>1, TailFacts DEF InChan
  <2>3. InHand = {} /\ InHand' = {Head(chan)}
    BY <1>5, <2>2 DEF Take, InHand
  <2>4. outq' = outq /\ InPoll' = InPoll /\ InEvents' = InEvents /\ Reported' = Reported /\ produced' = produced
    BY <1>5 DEF Take, InPoll, InEvents, Reported
  <2> QED BY <2>2, <2>3, <2>4 DEF KeptInv, Kept
<1>6. CASE Transmit
  <2>1. InHand = {taken} /\ outq' = outq \cup {taken}
    BY <1>6 DEF Transmit, InHand
  <2>2. InChan' = InChan /\ InPoll' = InPoll /\ InEvents' = InEvents /\ Reported' = Reported /\ produced' = produced
    BY <1>6 DEF Transmit, InChan, InPoll, InEvents, Reported
  <2> QED BY <2>1, <2>2 DEF KeptInv, Kept
<1>7. CASE Refuse
  <2>1. taken \in Messages /\ events \in Seq(Messages) /\ events' = Append(events, taken) /\ InHand = {taken}
    BY <1>7 DEF OnceInv, TypeOK, Refuse, InHand
  <2>2. InEvents' = InEvents \cup {taken}
    BY <2>1, AppendFacts DEF InEvents
  <2>3. InChan' = InChan /\ outq' = outq /\ InPoll' = InPoll /\ Reported' = Reported /\ produced' = produced
    BY <1>7 DEF Refuse, InChan, InPoll, Reported
  <2> QED BY <2>1, <2>2, <2>3 DEF KeptInv, Kept
<1>8. ASSUME NEW p \in Pollers, Poll(p)
      PROVE  Kept'
  <2>1. PICK m \in outq : polled' = [polled EXCEPT ![p] = m] /\ outq' = outq \ {m}
    BY <1>8 DEF Poll
  <2>2. InPoll' = InPoll \cup {m}
    BY <1>8, <2>1, PollFacts DEF OnceInv, TypeOK, Poll
  <2>3. InChan' = InChan /\ InHand' = InHand /\ InEvents' = InEvents /\ Reported' = Reported /\ produced' = produced
    BY <1>8 DEF Poll, InChan, InHand, InEvents, Reported
  <2> QED BY <2>1, <2>2, <2>3 DEF KeptInv, Kept
<1>9. ASSUME NEW p \in Pollers, Forward(p)
      PROVE  Kept'
  <2>1. polled[p] \in Messages /\ events \in Seq(Messages) /\ events' = Append(events, polled[p])
    BY <1>9 DEF OnceInv, TypeOK, Forward
  <2>2. InEvents' = InEvents \cup {polled[p]}
    BY <2>1, AppendFacts DEF InEvents
  <2>3. InPoll = InPoll' \cup {polled[p]}
    BY <1>9, PollFacts DEF Forward
  <2>4. InChan' = InChan /\ InHand' = InHand /\ outq' = outq /\ Reported' = Reported /\ produced' = produced
    BY <1>9 DEF Forward, InChan, InHand, Reported
  <2> QED BY <2>2, <2>3, <2>4 DEF KeptInv, Kept
<1>10. CASE Exit \/ Flushed \/ StopTicker \/ EndClose \/ ReturnMain \/ Exited
  BY <1>1, <1>10 DEF Exit, Flushed, StopTicker, EndClose, ReturnMain, Exited, vars, Reported
<1>11. CASE CloseChannels \/ Closed
  <2>1. Drained /\ where["main"] \in {"close", "wait"}
    BY <1>11 DEF CloseChannels, Closed, KeptInv, Emptied, At
  <2>2. /\ UNCHANGED <<chan, taken, events, produced>> /\ Reported' = Reported /\ outq' = outq
    BY <1>11, <2>1 DEF CloseChannels, Closed, Drained, Reported
  <2>3. InPoll = {} /\ InChan' = InChan /\ InHand' = InHand /\ InEvents' = InEvents
    BY <2>1, <2>2 DEF Drained, InPoll, InChan, InHand, InEvents
  <2> QED BY <2>2, <2>3 DEF KeptInv, Kept
<1>12. CASE Dies
  BY <1>1, <1>12, DiesOnly DEF Reported
<1> QED BY <1>2, <1>3, <1>4, <1>5, <1>6, <1>7, <1>8, <1>9, <1>10, <1>11, <1>12
       DEF Dies, Next, HookStep, ProducerStep, PollerStep, MainStep

\* The hooks stop one after the other as the exit proceeds.
LEMMA NextPhases ==
    ASSUME Settled, OnceInv, KeptInv, Next
    PROVE  Phases'
<1> USE DEF At, Go, lua, producer, history
<1> "main" \in Threads /\ "log" \in Threads /\ "tick" \in Threads /\ "report" \in Threads /\ "main" \notin Hooks
  BY DEF Threads, Hooks
<1>1. ASSUME NEW h \in Hooks, Call(h) \/ HookStep(h)
      PROVE  Phases'
  <2>1. h \in Threads /\ where' = [where EXCEPT ![h] = where'[h]] /\ where[h] # "over"
    BY <1>1 DEF HookStep, Call, Enter, Return, KafkaProduce, Send, Relock, OnceInv, TypeOK, Threads
  <2>2. h \notin Producing => where'[h] \notin {"send", "relock"}
    BY <1>1 DEF HookStep, Call, Enter, Return, KafkaProduce, Send, Relock, OnceInv, TypeOK, Threads, KeptInv, Phases
  <2>3. state' = state /\ (closed' = closed \/ closed' = (closed /\ kafka))
    BY <1>1 DEF HookStep, Call, Enter, Return, KafkaProduce, Send, Relock
  <2>4. closed' => closed
    BY <2>3, Zenon
  <2> QED BY <2>1, <2>2, <2>3, <2>4 DEF OnceInv, TypeOK, KeptInv, Phases, Hooks, Threads
<1>2. CASE Receive
  <2>1. "report" \in Producing \/ where'["report"] \notin {"send", "relock"}
    BY <1>2 DEF Receive, OnceInv, TypeOK
  <2> QED BY <1>2, <2>1 DEF Receive, OnceInv, TypeOK, KeptInv, Phases, Hooks, Threads
<1>3. CASE ProducerStep \/ (\E p \in Pollers : PollerStep(p)) \/ Exited
  BY <1>3 DEF ProducerStep, Take, Transmit, Refuse, PollerStep, Poll, Forward, Exited, vars, KeptInv, Phases
<1>4. CASE Exit
  BY <1>4 DEF Exit, OnceInv, TypeOK, KeptInv, Phases, Hooks, Threads
<1>5. CASE Flushed \/ CloseChannels \/ Closed
  BY <1>5 DEF Flushed, CloseChannels, Closed, OnceInv, TypeOK, KeptInv, Phases, Hooks, Threads
<1>6. CASE StopTicker
  BY <1>6 DEF StopTicker, OnceInv, TypeOK, KeptInv, Phases, Hooks, Threads
<1>7. CASE EndClose \/ ReturnMain
  BY <1>7 DEF EndClose, ReturnMain, OnceInv, TypeOK, KeptInv, Phases, Hooks, Threads
<1>8. CASE Dies /\ Running
  <2>1. state
    <3>1. CASE FlushTimesOut
      BY <3>1 DEF FlushTimesOut, KeptInv, Phases
    <3>2. ASSUME NEW h \in Hooks, InitFails(h) PROVE state
      BY <1>8, <3>2 DEF InitFails, Settled, Running, KeptInv, Phases
    <3> QED BY <1>8, <3>1, <3>2 DEF Dies
  <2>2. \A h \in Hooks : where'[h] = where[h]
    BY <1>8, DiesOnly DEF OnceInv, TypeOK, Hooks, Threads
  <2>3. where'["main"] = "died" /\ UNCHANGED <<state, closed>>
    BY <1>8, DiesOnly DEF OnceInv, TypeOK
  <2> QED BY <2>1, <2>2, <2>3 DEF KeptInv, Phases
<1> QED BY <1>1, <1>2, <1>3, <1>4, <1>5, <1>6, <1>7, <1>8 DEF Next, MainStep, Dies

\* An empty producer has no step.
LEMMA DrainedStays ==
    ASSUME Drained, Next, \A h \in Hooks : ~At(h, "send")
    PROVE  Drained'
<1> USE DEF Drained, lua, producer, history
<1>1. ASSUME NEW h \in Hooks, Call(h) \/ HookStep(h)
      PROVE  Drained'
  BY <1>1 DEF HookStep, Call, Enter, Return, KafkaProduce, Send, Relock
<1>2. CASE Receive \/ ProducerStep \/ \E p \in Pollers : PollerStep(p)
  BY <1>2 DEF Receive, ProducerStep, Take, Transmit, Refuse, PollerStep, Poll, Forward
<1>3. CASE Exit \/ Exited \/ Flushed \/ StopTicker \/ EndClose \/ ReturnMain \/ Closed
  BY <1>3 DEF Exit, Exited, vars, Flushed, StopTicker, EndClose, ReturnMain, Closed
<1>4. CASE CloseChannels
  BY <1>4 DEF CloseChannels
<1>5. CASE Dies
  BY <1>5, DiesOnly
<1> QED BY <1>1, <1>2, <1>3, <1>4, <1>5 DEF Next, MainStep, Dies

\* The producer stays empty from Flush on.
LEMMA NextEmptied ==
    ASSUME Settled, OnceInv, KeptInv, Next
    PROVE  Emptied'
<1> USE DEF At, Go, lua, producer, history
<1> "main" \in Threads /\ "log" \in Threads /\ "main" \notin Hooks /\ Hooks \subseteq Threads /\ "log" \in Hooks
  BY DEF Threads, Hooks
<1>1. where["main"] \notin {"off", "flush", "died"} => Drained /\ \A h \in Hooks : ~At(h, "send")
  BY DEF Settled, KeptInv, Emptied, Phases
<1>2. CASE Drained /\ (\A h \in Hooks : ~At(h, "send")) /\ ~\E h \in Hooks : KafkaProduce(h)
  <2>1. Drained'
    BY <1>2, DrainedStays
  <2>2. \A h \in Hooks : where'[h] # "send"
    <3>1. ASSUME NEW g \in Hooks, Call(g) \/ HookStep(g)
          PROVE  \A h \in Hooks : where'[h] # "send"
      BY <1>2, <3>1 DEF OnceInv, TypeOK, HookStep, Call, Enter, Return, Send, Relock
    <3>2. CASE ProducerStep \/ (\E p \in Pollers : PollerStep(p)) \/ Exited
      BY <1>2, <3>2 DEF ProducerStep, Take, Transmit, Refuse, PollerStep, Poll, Forward, Exited, vars
    <3>3. CASE Receive \/ Exit \/ StopTicker
      BY <1>2, <3>3 DEF OnceInv, TypeOK, Receive, Exit, StopTicker
    <3>4. CASE Flushed \/ CloseChannels \/ Closed \/ EndClose \/ ReturnMain
      BY <1>2, <3>4 DEF OnceInv, TypeOK, Flushed, CloseChannels, Closed, EndClose, ReturnMain
    <3>5. CASE Dies
      BY <1>2, <3>5, DiesOnly DEF OnceInv, TypeOK
    <3> QED BY <3>1, <3>2, <3>3, <3>4, <3>5 DEF Next, MainStep, Dies
  <2> QED BY <2>1, <2>2 DEF Emptied
<1>3. ASSUME NEW h \in Hooks, KafkaProduce(h)
      PROVE  Emptied'
  <2>1. kafka' = TRUE /\ where' = [where EXCEPT ![h] = "send"] /\ where[h] = "hook" /\ h = "log"
    BY <1>3 DEF KafkaProduce, Settled
  <2>2. where["main"] \in {"off", "died"} /\ where'["main"] = where["main"]
    BY <2>1 DEF KeptInv, Phases, OnceInv, TypeOK, Hooks
  <2> QED BY <2>1, <2>2 DEF Emptied
<1>4. CASE kafka /\ where["main"] \in {"off", "flush"} /\ ~\E h \in Hooks : KafkaProduce(h)
  <2>1. CASE Flushed
    <3>1. Drained' /\ kafka' = kafka
      BY <2>1 DEF Flushed, Drained, Settled, Pollers
    <3> QED BY <1>4, <3>1 DEF Emptied
  <2>2. CASE Exit
    BY <1>4, <2>2 DEF Exit, OnceInv, TypeOK, Emptied, Threads, Hooks
  <2>4. CASE Dies
    BY <1>4, <2>4, DiesOnly DEF OnceInv, TypeOK, Emptied
  <2>3. CASE ~Flushed /\ ~Exit /\ ~Dies
    <3>1. kafka' = kafka /\ where'["main"] = where["main"]
      BY <1>4, <2>3 DEF OnceInv, TypeOK, Next, HookStep, Call, Enter, Return, Send, Relock, Receive,
         ProducerStep, Take, Transmit, Refuse, PollerStep, Poll, Forward, MainStep, CloseChannels, Closed,
         StopTicker, EndClose, ReturnMain, Exited, vars, Dies
    <3> QED BY <1>4, <3>1 DEF Emptied
  <2> QED BY <2>1, <2>2, <2>3, <2>4
<1>5. CASE where["main"] = "died"
  <2>1. UNCHANGED vars
    BY <1>5 DEF Next, Running, Exited
  <2> QED BY <1>5, <2>1 DEF vars, KeptInv, Emptied, Drained
<1> QED BY <1>1, <1>2, <1>3, <1>4, <1>5 DEF KeptInv, Emptied, OnceInv, TypeOK

\* Every step keeps both invariants.
LEMMA NextKept ==
    ASSUME Settled
    PROVE  OnceInv /\ KeptInv /\ [Next]_vars => OnceInv' /\ KeptInv'
<1> SUFFICES ASSUME OnceInv, KeptInv, [Next]_vars PROVE OnceInv' /\ KeptInv'
  OBVIOUS
<1>1. OnceInv'
  BY NextOnce
<1>2. CASE Next
  BY <1>1, <1>2, NextKeeps, NextPhases, NextEmptied DEF KeptInv
<1>3. CASE UNCHANGED vars
  <2> USE <1>3 DEF vars, lua, producer, history
  <2>1. Kept'
    BY DEF KeptInv, Kept, InChan, InHand, InPoll, InEvents, Reported
  <2>2. Phases' /\ Emptied'
    BY DEF KeptInv, Phases, Emptied, Drained, At
  <2> QED BY <1>1, <2>1, <2>2 DEF KeptInv
<1> QED BY <1>2, <1>3
-----------------------------------------------------------------------------
(* The theorems *)

\* If a message is in one of the sets it has one entry in Custody, in none of them none.
LEMMA CustodySize ==
    ASSUME OnceInv, NEW m \in Messages
    PROVE  /\ m \in InChan \cup InHand \cup outq \cup InPoll \cup InEvents \cup Reported =>
                 Cardinality(Custody(m)) = 1
           /\ m \notin InChan \cup InHand \cup outq \cup InPoll \cup InEvents \cup Reported =>
                 Cardinality(Custody(m)) = 0
<1> DEFINE C1 == {<<"chan", i>> : i \in {j \in 1 .. Len(chan) : chan[j] = m}}
           C2 == IF taken = m THEN {<<"taken", 0>>} ELSE {}
           C3 == IF m \in outq THEN {<<"outq", 0>>} ELSE {}
           C4 == {<<p, 0>> : p \in {q \in Pollers : polled[q] = m}}
           C5 == {<<"events", i>> : i \in {j \in 1 .. Len(events) : events[j] = m}}
           C6 == IF report = m \/ m \in reported THEN {<<"report", 0>>} ELSE {}
<1>1. Custody(m) = C1 \cup C2 \cup C3 \cup C4 \cup C5 \cup C6
  BY DEF Custody
<1>2. m # None
  BY KafkaAssumption
<1>3. /\ m \notin InChan => C1 = {}
      /\ m \in InChan => \E x : C1 = {x}
  <2>1. CASE m \notin InChan
    BY <2>1 DEF InChan, Elements
  <2>2. CASE m \in InChan
    <3>1. PICK i \in 1 .. Len(chan) : chan[i] = m
      BY <2>2 DEF InChan, Elements
    <3>2. \A j \in 1 .. Len(chan) : chan[j] = m => j = i
      BY <3>1 DEF OnceInv, Once, Injective
    <3>3. C1 = {<<"chan", i>>}
      BY <3>1, <3>2
    <3> QED BY <2>2, <3>3
  <2> QED BY <2>1, <2>2
<1>4. /\ m \notin InHand => C2 = {}
      /\ m \in InHand => \E x : C2 = {x}
  BY <1>2 DEF InHand
<1>5. /\ m \notin outq => C3 = {}
      /\ m \in outq => \E x : C3 = {x}
  OBVIOUS
<1>6. /\ m \notin InPoll => C4 = {}
      /\ m \in InPoll => \E x : C4 = {x}
  <2>1. CASE m \notin InPoll
    BY <1>2, <2>1 DEF InPoll
  <2>2. CASE m \in InPoll
    <3>1. PICK p \in Pollers : polled[p] = m
      BY <2>2 DEF InPoll
    <3>2. \A q \in Pollers : polled[q] = m => q = p
      BY <1>2, <3>1 DEF OnceInv, Once
    <3>3. C4 = {<<p, 0>>}
      BY <3>1, <3>2
    <3> QED BY <2>2, <3>3
  <2> QED BY <2>1, <2>2
<1>7. /\ m \notin InEvents => C5 = {}
      /\ m \in InEvents => \E x : C5 = {x}
  <2>1. CASE m \notin InEvents
    BY <2>1 DEF InEvents, Elements
  <2>2. CASE m \in InEvents
    <3>1. PICK i \in 1 .. Len(events) : events[i] = m
      BY <2>2 DEF InEvents, Elements
    <3>2. \A j \in 1 .. Len(events) : events[j] = m => j = i
      BY <3>1 DEF OnceInv, Once, Injective
    <3>3. C5 = {<<"events", i>>}
      BY <3>1, <3>2
    <3> QED BY <2>2, <3>3
  <2> QED BY <2>1, <2>2
<1>8. /\ m \notin Reported => C6 = {}
      /\ m \in Reported => \E x : C6 = {x}
  BY <1>2 DEF Reported
<1> HIDE DEF C1, C2, C3, C4, C5, C6
<1>9. m \notin InChan \cup InHand \cup outq \cup InPoll \cup InEvents \cup Reported => Custody(m) = {}
  BY <1>1, <1>3, <1>4, <1>5, <1>6, <1>7, <1>8
<1>10. m \in InChan \cup InHand \cup outq \cup InPoll \cup InEvents \cup Reported => \E x : Custody(m) = {x}
  <2>1. /\ m \in InChan => m \notin InHand \cup outq \cup InPoll \cup InEvents \cup Reported
        /\ m \in InHand => m \notin InChan \cup outq \cup InPoll \cup InEvents \cup Reported
        /\ m \in outq => m \notin InChan \cup InHand \cup InPoll \cup InEvents \cup Reported
        /\ m \in InPoll => m \notin InChan \cup InHand \cup outq \cup InEvents \cup Reported
        /\ m \in InEvents => m \notin InChan \cup InHand \cup outq \cup InPoll \cup Reported
        /\ m \in Reported => m \notin InChan \cup InHand \cup outq \cup InPoll \cup InEvents
    BY DEF OnceInv, Once
  <2>2. CASE m \in InChan
    BY <1>1, <1>3, <1>4, <1>5, <1>6, <1>7, <1>8, <2>1, <2>2
  <2>3. CASE m \in InHand
    BY <1>1, <1>3, <1>4, <1>5, <1>6, <1>7, <1>8, <2>1, <2>3
  <2>4. CASE m \in outq
    BY <1>1, <1>3, <1>4, <1>5, <1>6, <1>7, <1>8, <2>1, <2>4
  <2>5. CASE m \in InPoll
    BY <1>1, <1>3, <1>4, <1>5, <1>6, <1>7, <1>8, <2>1, <2>5
  <2>6. CASE m \in InEvents
    BY <1>1, <1>3, <1>4, <1>5, <1>6, <1>7, <1>8, <2>1, <2>6
  <2>7. CASE m \in Reported
    BY <1>1, <1>3, <1>4, <1>5, <1>6, <1>7, <1>8, <2>1, <2>7
  <2> QED BY <2>2, <2>3, <2>4, <2>5, <2>6, <2>7
<1> QED BY <1>9, <1>10, FS_EmptySet, FS_Singleton

\* Whatever the script and the exit do, no message is reported twice or is in two
\* places at once (channelProducer, poller and Flush share librdkafka and Events).
THEOREM NeverTwice == Spec => [](\A m \in Messages : Cardinality(Custody(m)) <= 1)
<1>1. OnceInv => \A m \in Messages : Cardinality(Custody(m)) <= 1
  BY CustodySize
<1> QED BY <1>1, InitOnce, NextOnce, PTL DEF Spec

\* If Flush sees what its goroutines have in hand and only on_log produces, every
\* message is in one place on its way to on_kafka_report or was reported, across
\* the flush and the close of the producer (kafka.go:93-218).
THEOREM ReportsExactlyOnce ==
    ASSUME Settled
    PROVE  Spec => []ReportedOnce
<1>1. OnceInv /\ KeptInv => ReportedOnce
  BY CustodySize DEF OnceInv, Once, KeptInv, Kept, ReportedOnce
<1>2. Init => OnceInv /\ KeptInv
  BY InitOnce, InitKept
<1> QED BY <1>1, <1>2, NextKept, PTL DEF Spec

\* Once main has returned from Close no report is under way.
LEMMA NextSilent ==
    ASSUME "quietExit" \in Assumed, OnceInv, KeptInv, Silent, [Next]_vars
    PROVE  Silent'
<1> USE DEF Silent, At, Go, lua, producer, history
<1> "main" \in Threads /\ "report" \in Threads /\ "report" \in Hooks /\ Hooks \subseteq Threads /\ "main" \notin Hooks
  BY DEF Threads, Hooks
<1>1. ASSUME NEW h \in Hooks, Call(h) \/ HookStep(h)
      PROVE  Silent'
  <2>1. where' = [where EXCEPT ![h] = where'[h]] /\ (h = "report" => where[h] # "off")
    BY <1>1 DEF HookStep, Call, Enter, Return, KafkaProduce, Send, Relock, OnceInv, TypeOK
  <2> QED BY <2>1 DEF OnceInv, TypeOK
<1>2. CASE Receive
  <2>1. where["main"] \in {"off", "flush", "died"}
    BY <1>2 DEF Receive, KeptInv, Emptied, Drained
  <2> QED BY <1>2, <2>1 DEF Receive, OnceInv, TypeOK
<1>3. CASE ProducerStep \/ (\E p \in Pollers : PollerStep(p)) \/ Exited \/ UNCHANGED vars
  BY <1>3 DEF ProducerStep, Take, Transmit, Refuse, PollerStep, Poll, Forward, Exited, vars
<1>4. CASE Exit \/ StopTicker
  BY <1>4 DEF Exit, StopTicker, OnceInv, TypeOK
<1>5. CASE Flushed \/ CloseChannels \/ Closed \/ EndClose \/ ReturnMain
  BY <1>5 DEF Flushed, CloseChannels, Closed, EndClose, ReturnMain, OnceInv, TypeOK
<1>6. CASE Dies
  BY <1>6, DiesOnly DEF OnceInv, TypeOK
<1> QED BY <1>1, <1>2, <1>3, <1>4, <1>5, <1>6 DEF Next, MainStep, Dies

\* The invariants of the exit, together.
LEMMA ExitInv ==
    ASSUME Settled, "quietExit" \in Assumed
    PROVE  Spec => [](OnceInv /\ KeptInv /\ Silent)
<1>1. Init => OnceInv /\ KeptInv /\ Silent
  BY InitOnce, InitKept
<1>2. OnceInv /\ KeptInv /\ Silent /\ [Next]_vars => (OnceInv /\ KeptInv /\ Silent)'
  BY NextKept, NextSilent
<1> QED BY <1>1, <1>2, PTL DEF Spec

\* If main also returns from Close after the last on_kafka_report, nothing is sent
\* on the closed ProduceChannel and no hook meets a nil l.state, for messages and
\* channels of any number and size (kafka.go:93, lua.go:429-447), also when the
\* producer cannot be made and when Flush runs out of time.
THEOREM RuntimePanicFree ==
    ASSUME Settled, "quietExit" \in Assumed
    PROVE  Spec => []NoRuntimePanic
<1>1. OnceInv /\ KeptInv /\ Silent => NoRuntimePanic
  <2> SUFFICES ASSUME OnceInv, KeptInv, Silent, Running, NEW h \in Hooks
               PROVE  ~(At(h, "send") /\ closed) /\ ~(At(h, "want") /\ ~state)
    BY DEF NoRuntimePanic, PanicNext
  <2>1. At(h, "send") => h = "log"
    BY DEF KeptInv, Phases, Settled, At
  <2>2. closed => At("log", "over")
    BY DEF KeptInv, Phases, At, Running
  <2>3. ~state => At("log", "over") /\ At("tick", "over") /\ At("report", "off")
    BY DEF KeptInv, Phases, Silent, At
  <2> QED BY <2>1, <2>2, <2>3 DEF At, Hooks
<1> QED BY <1>1, ExitInv, PTL

\* Under the same conditions every message was reported when Close returns: "we need
\* to make sure that all message reports have been delivered" (kafka.go:196).
THEOREM Flushes ==
    ASSUME Settled, "quietExit" \in Assumed
    PROVE  Spec => []FlushedAtExit
<1>1. OnceInv /\ KeptInv /\ Silent => FlushedAtExit
  <2> SUFFICES ASSUME OnceInv, KeptInv, Silent, ~state
               PROVE  produced \subseteq reported
    BY DEF FlushedAtExit
  <2>1. where["main"] \in {"closed", "returned"} /\ report = None
    BY DEF KeptInv, Phases, Silent, OnceInv, Senders, At
  <2>2. Drained
    BY <2>1 DEF KeptInv, Emptied
  <2>3. InChan = {} /\ InHand = {} /\ outq = {} /\ InPoll = {} /\ InEvents = {} /\ Reported = reported
    BY <2>1, <2>2 DEF Drained, InChan, InHand, InPoll, InEvents, Reported, Elements
  <2> QED BY <2>3 DEF KeptInv, Kept
<1> QED BY <1>1, ExitInv, PTL
=============================================================================
