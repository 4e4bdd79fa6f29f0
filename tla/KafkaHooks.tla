----------------------------- MODULE KafkaHooks -----------------------------
(***************************************************************************)
(* lua/kafka.go and the parts of lua/lua.go it works with: kafka_produce,  *)
(* the delivery reports that pollKafkaEvents hands to on_kafka_report, and *)
(* the Close that flushes the producer at the exit.                        *)
(*                                                                         *)
(* The producer is the vendored confluent-kafka-go: channelProducer moves  *)
(* messages from ProduceChannel to librdkafka, its poller and Flush move   *)
(* delivery reports from librdkafka to the channel Events.  librdkafka     *)
(* itself, which reports every message once within message.timeout.ms, is  *)
(* the set outq.  A report stands for delivery and for failure alike.      *)
(***************************************************************************)
EXTENDS Integers, Sequences, FiniteSets

CONSTANTS Messages,     \* messages the script produces
          ProduceSize,  \* go.produce.channel.size
          EventsSize,   \* go.events.channel.size
          QueueSize,    \* queue.buffering.max.messages
          Producing,    \* hooks of the script that call kafka_produce
          Assumed,      \* conditions the code relies on and does not enforce
          None

Hooks == {"log", "tick", "report"}
Threads == Hooks \cup {"main"}
Pollers == {"poller", "main"}

Conditions == {
    "settled",      \* Flush sees no message in the hands of channelProducer or the poller
    "quietExit"     \* main returns from Close after the last on_kafka_report
}

ASSUME KafkaAssumption ==
    /\ ProduceSize \in Nat \ {0}
    /\ EventsSize \in Nat \ {0}
    /\ QueueSize \in Nat \ {0}
    /\ Producing \subseteq Hooks
    /\ Assumed \subseteq Conditions
    /\ None \notin Messages \cup Threads

VARIABLES
    luaLock,    \* its holder, or None
    state,      \* l.state # nil
    kafka,      \* l.kafka # nil
    where,      \* [Threads -> STRING]  where each goroutine is
    sending,    \* [Hooks -> Messages \cup {None}]  argument of kafka_produce
    chan,       \* contents of ProduceChannel
    closed,     \* ProduceChannel is closed
    taken,      \* message channelProducer has received
    outq,       \* messages librdkafka has, up to their report
    polled,     \* [Pollers -> Messages \cup {None}]  report eventPoll has received
    events,     \* contents of Events
    report,     \* report pollKafkaEvents has received
    produced,   \* history: messages kafka_produce has sent
    reported    \* history: messages on_kafka_report was called for

lua      == <<luaLock, state, kafka, where>>
producer == <<chan, closed, taken, outq, polled, events>>
history  == <<produced, reported>>
vars     == <<lua, sending, producer, report, history>>

Init ==
    /\ luaLock = None
    /\ state = TRUE
    /\ kafka = FALSE
    /\ where = [t \in Threads |-> "off"]
    /\ sending = [h \in Hooks |-> None]
    /\ chan = <<>>
    /\ closed = FALSE
    /\ taken = None
    /\ outq = {}
    /\ polled = [p \in Pollers |-> None]
    /\ events = <<>>
    /\ report = None
    /\ produced = {}
    /\ reported = {}

At(t, place) == where[t] = place
Go(t, place) == where' = [where EXCEPT ![t] = place]
-----------------------------------------------------------------------------
(* Hooks *)

\* A log was parsed, or the ticker fired.
Call(h) ==
    /\ h \in {"log", "tick"}
    /\ At(h, "off")
    /\ Go(h, "want")
    /\ UNCHANGED <<luaLock, state, kafka, sending, producer, report, history>>

\* pollKafkaEvents receives a report.
Receive ==
    /\ At("report", "off")
    /\ events # <<>>
    /\ report' = Head(events)
    /\ events' = Tail(events)
    /\ Go("report", "want")
    /\ UNCHANGED <<luaLock, state, kafka, sending, chan, closed, taken, outq, polled, history>>

Enter(h) ==
    /\ At(h, "want")
    /\ luaLock = None /\ state
    /\ luaLock' = h
    /\ Go(h, "hook")
    /\ reported' = IF h = "report" THEN reported \cup {report} ELSE reported
    /\ UNCHANGED <<state, kafka, sending, producer, report, produced>>

\* Mutant: a report is handed to on_kafka_report again and again.
ReturnAgain(h) ==
    /\ At(h, "hook")
    /\ luaLock' = None
    /\ Go(h, IF h = "report" THEN "want" ELSE "off")
    /\ UNCHANGED <<state, kafka, sending, producer, report, history>>

Return(h) ==
    /\ At(h, "hook")
    /\ luaLock' = None
    /\ Go(h, "off")
    /\ report' = IF h = "report" THEN None ELSE report
    /\ UNCHANGED <<state, kafka, sending, producer, history>>
-----------------------------------------------------------------------------
(* kafka_produce *)

\* The next message: which identity it gets makes no difference.
Unused == Messages \ (produced \cup {sending[h] : h \in Hooks})

\* A panic ends the process, wherever its goroutines are.
Die ==
    /\ where' = [where EXCEPT !["main"] = "died"]
    /\ UNCHANGED <<luaLock, state, kafka, sending, producer, report, history>>

\* kafka_produce cannot make the producer and panics.  Protected mode does not help:
\* what it recovers is no error of Lua, and the pipeline ends the process with it.
InitFails(h) ==
    /\ At(h, "hook") /\ h \in Producing
    /\ ~kafka
    /\ Die

\* kafka_produce makes the producer if there is none, and releases luaLock.
KafkaProduce(h) ==
    /\ At(h, "hook") /\ h \in Producing
    /\ Unused # {}
    /\ sending' = [sending EXCEPT ![h] = CHOOSE m \in Unused : TRUE]
    /\ kafka' = TRUE
    /\ closed' = (closed /\ kafka)
    /\ luaLock' = None
    /\ Go(h, "send")
    /\ UNCHANGED <<state, chan, taken, outq, polled, events, report, history>>

\* channel <- message.
Send(h) ==
    /\ At(h, "send")
    /\ ~closed /\ Len(chan) < ProduceSize
    /\ chan' = Append(chan, sending[h])
    /\ produced' = produced \cup {sending[h]}
    /\ sending' = [sending EXCEPT ![h] = None]
    /\ Go(h, "relock")
    /\ UNCHANGED <<luaLock, state, kafka, closed, taken, outq, polled, events, report, reported>>

Relock(h) ==
    /\ At(h, "relock")
    /\ luaLock = None
    /\ luaLock' = h
    /\ Go(h, "hook")
    /\ UNCHANGED <<state, kafka, sending, producer, report, history>>
-----------------------------------------------------------------------------
(* The producer *)

Take ==
    /\ taken = None
    /\ chan # <<>>
    /\ taken' = Head(chan)
    /\ chan' = Tail(chan)
    /\ UNCHANGED <<lua, sending, closed, outq, polled, events, report, history>>

\* librdkafka accepts the message when it has room ...
Transmit ==
    /\ taken # None
    /\ Cardinality(outq) < QueueSize
    /\ outq' = outq \cup {taken}
    /\ taken' = None
    /\ UNCHANGED <<lua, sending, chan, closed, polled, events, report, history>>

\* Mutant: a message that is refused is put back.
RefuseRequeues ==
    /\ taken # None
    /\ Len(chan) < ProduceSize
    /\ chan' = Append(chan, taken)
    /\ taken' = None
    /\ UNCHANGED <<lua, sending, closed, outq, polled, events, report, history>>

\* Mutant: a message that is refused stays in hand, and is tried again.
RefuseKeeps ==
    /\ taken # None
    /\ Len(events) < EventsSize
    /\ events' = Append(events, taken)
    /\ UNCHANGED <<lua, sending, chan, closed, taken, outq, polled, report, history>>

\* ... or refuses it, and channelProducer reports the error itself.
Refuse ==
    /\ taken # None
    /\ Len(events) < EventsSize
    /\ events' = Append(events, taken)
    /\ taken' = None
    /\ UNCHANGED <<lua, sending, chan, closed, outq, polled, report, history>>

\* eventPoll, called by the poller until Close and by main inside Flush.
Poll(p) ==
    /\ IF p = "main" THEN At("main", "flush") ELSE ~closed
    /\ polled[p] = None
    /\ \E m \in outq :
          /\ polled' = [polled EXCEPT ![p] = m]
          /\ outq' = outq \ {m}
    /\ UNCHANGED <<lua, sending, chan, closed, taken, events, report, history>>

Forward(p) ==
    /\ polled[p] # None
    /\ Len(events) < EventsSize
    /\ events' = Append(events, polled[p])
    /\ polled' = [polled EXCEPT ![p] = None]
    /\ UNCHANGED <<lua, sending, chan, closed, taken, outq, report, history>>
-----------------------------------------------------------------------------
(* Close, run by main when the pipeline is over *)

\* Mutant: main does not wait for the pipeline.
ExitEarly ==
    /\ At("main", "off")
    /\ Go("main", IF kafka THEN "flush" ELSE "ticker")
    /\ UNCHANGED <<luaLock, state, kafka, sending, producer, report, history>>

Exit ==
    /\ At("main", "off") /\ At("log", "off")
    /\ where' = [where EXCEPT !["main"] = IF kafka THEN "flush" ELSE "ticker", !["log"] = "over"]
    /\ UNCHANGED <<luaLock, state, kafka, sending, producer, report, history>>

\* Mutant: Len leaves out the reports queued for the application.
FlushedIgnoresEvents ==
    /\ At("main", "flush")
    /\ chan = <<>> /\ outq = {}
    /\ polled["main"] = None
    /\ "settled" \in Assumed => taken = None /\ polled["poller"] = None
    /\ Go("main", "close")
    /\ UNCHANGED <<luaLock, state, kafka, sending, producer, report, history>>

\* Flush returns when Len is 0. What channelProducer and the poller have in hand
\* is not counted.
Flushed ==
    /\ At("main", "flush")
    /\ chan = <<>> /\ outq = {} /\ events = <<>>
    /\ polled["main"] = None
    /\ "settled" \in Assumed => taken = None /\ polled["poller"] = None
    /\ Go("main", "close")
    /\ UNCHANGED <<luaLock, state, kafka, sending, producer, report, history>>

\* Flush gives up after twice message.timeout.ms, and what is left makes flushKafka
\* panic.  It looks at the time between two events, not while it waits for room.
FlushTimesOut ==
    /\ At("main", "flush")
    /\ chan # <<>> \/ outq # {} \/ events # <<>>
    /\ polled["main"] = None
    /\ Die

\* Producer.Close stops the poller, which may drop the report it has in hand, and
\* closes ProduceChannel ...
CloseChannels ==
    /\ At("main", "close")
    /\ closed' = TRUE
    /\ \E dropped \in SUBSET {"poller"} :
          polled' = [p \in Pollers |-> IF p \in dropped THEN None ELSE polled[p]]
    /\ Go("main", "wait")
    /\ UNCHANGED <<luaLock, state, kafka, sending, chan, taken, outq, events, report, history>>

\* ... waits for both goroutines, and destroys what librdkafka still has.
Closed ==
    /\ At("main", "wait")
    /\ chan = <<>> /\ taken = None /\ polled["poller"] = None
    /\ outq' = {}
    /\ kafka' = FALSE
    /\ Go("main", "ticker")
    /\ UNCHANGED <<luaLock, state, sending, chan, closed, taken, polled, events, report, history>>

\* stopTicker waits for the ticker to be at its select.
StopTicker ==
    /\ At("main", "ticker") /\ At("tick", "off")
    /\ where' = [where EXCEPT !["main"] = "end", !["tick"] = "over"]
    /\ UNCHANGED <<luaLock, state, kafka, sending, producer, report, history>>

EndClose ==
    /\ At("main", "end")
    /\ "quietExit" \in Assumed => At("report", "off")
    /\ state' = FALSE
    /\ Go("main", "closed")
    /\ UNCHANGED <<luaLock, kafka, sending, producer, report, history>>

\* main returns, and the process is gone.
ReturnMain ==
    /\ At("main", "closed")
    /\ Go("main", "returned")
    /\ UNCHANGED <<luaLock, state, kafka, sending, producer, report, history>>
-----------------------------------------------------------------------------
Running == where["main"] \notin {"returned", "died"}

HookStep(h) == Enter(h) \/ Return(h) \/ KafkaProduce(h) \/ Send(h) \/ Relock(h)
ProducerStep == Take \/ Transmit \/ Refuse
PollerStep(p) == Poll(p) \/ Forward(p)
MainStep == Flushed \/ CloseChannels \/ Closed \/ StopTicker \/ EndClose \/ ReturnMain
Exited == ~Running /\ UNCHANGED vars

Next ==
    \/ Running /\ \E h \in Hooks : Call(h) \/ HookStep(h) \/ InitFails(h)
    \/ Running /\ (Receive \/ ProducerStep)
    \/ Running /\ \E p \in Pollers : PollerStep(p)
    \/ Running /\ (Exit \/ MainStep \/ FlushTimesOut)
    \/ Exited

Spec == Init /\ [][Next]_vars

(***************************************************************************)
(* A goroutine runs until it blocks, a mutex and a channel starve no one,  *)
(* a hook calls builtins a finite number of times and returns, librdkafka  *)
(* reports every message.  No log, tick, call of a builtin or end of the   *)
(* input is bound to come, and no timeout or failure.                      *)
(***************************************************************************)
Fairness ==
    /\ \A h \in Hooks :
          /\ SF_vars(Running /\ (Enter(h) \/ Send(h) \/ Relock(h)))
          /\ WF_vars(Running /\ Return(h))
    /\ WF_vars(Running /\ Receive)
    /\ SF_vars(Running /\ ProducerStep)
    /\ \A p \in Pollers : SF_vars(Running /\ PollerStep(p))
    /\ SF_vars(Running /\ MainStep)

FairSpec == Spec /\ Fairness
-----------------------------------------------------------------------------
(* Properties *)

Elements(s) == {s[i] : i \in 1 .. Len(s)}
MainPlaces == {"off", "flush", "close", "wait", "ticker", "end", "closed", "returned", "died"}
HookPlaces == {"off", "want", "hook", "send", "relock", "over"}

\* Type invariant of the sandbox fields used here and of the producer; the
\* channels hold as many messages as setSaneKafkaDefaults gives them room for.
TypeOK ==
    /\ luaLock \in Hooks \cup {None}
    /\ state \in BOOLEAN
    /\ kafka \in BOOLEAN
    /\ where \in [Threads -> MainPlaces \cup HookPlaces]
    /\ sending \in [Hooks -> Messages \cup {None}]
    /\ chan \in Seq(Messages) /\ Len(chan) <= ProduceSize
    /\ closed \in BOOLEAN
    /\ taken \in Messages \cup {None}
    /\ outq \subseteq Messages
    /\ polled \in [Pollers -> Messages \cup {None}]
    /\ events \in Seq(Messages) /\ Len(events) <= EventsSize
    /\ report \in Messages \cup {None}
    /\ produced \subseteq Messages
    /\ reported \subseteq Messages

\* Where the report of m may still come from, or that it came.
Custody(m) ==
    {<<"chan", i>> : i \in {j \in 1 .. Len(chan) : chan[j] = m}}
        \cup (IF taken = m THEN {<<"taken", 0>>} ELSE {})
        \cup (IF m \in outq THEN {<<"outq", 0>>} ELSE {})
        \cup {<<p, 0>> : p \in {q \in Pollers : polled[q] = m}}
        \cup {<<"events", i>> : i \in {j \in 1 .. Len(events) : events[j] = m}}
        \cup (IF report = m \/ m \in reported THEN {<<"report", 0>>} ELSE {})

\* on_kafka_report is called once for each message (README.md): a message that was
\* produced is in one place on its way to the report, or was reported; it is never
\* lost and never in two places, the flush and the close of the producer included.
ReportedOnce ==
    \A m \in Messages : Cardinality(Custody(m)) = IF m \in produced THEN 1 ELSE 0

\* The next step of some goroutine is a panic of the Go runtime: a send on the
\* closed ProduceChannel, or a hook called on the nil l.state.
PanicNext ==
    /\ Running
    /\ \E h \in Hooks : \/ At(h, "send") /\ closed
                        \/ At(h, "want") /\ luaLock = None /\ ~state

\* No interleaving of hooks, reports and exit ends in a panic of the runtime: the
\* process panics only where kafka.go says so itself, when the producer cannot be
\* made and when Flush runs out of time.
NoRuntimePanic == ~PanicNext

\* When Close returns every message was reported: "we need to make sure that all
\* message reports have been delivered and client has received all errors"
\* (kafka.go:196-197).
FlushedAtExit == ~state => produced \subseteq reported

\* Every message is reported, whatever waits for room or for luaLock, unless
\* kafka.go ends the process by a panic of its own.
EveryMessageReported ==
    \A m \in Messages : m \in produced ~> m \in reported \/ At("main", "died")

\* Every hook returns, kafka_produce under back-pressure included.
EveryHookReturns ==
    \A h \in Hooks : where[h] \notin {"off", "over"} ~> where[h] \in {"off", "over"} \/ ~Running

\* Once the input is over the program ends, with whatever is queued: all is
\* reported, or Flush runs out of time.
ExitCompletes == ~At("main", "off") ~> ~Running
=============================================================================
