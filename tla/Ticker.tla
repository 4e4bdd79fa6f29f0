------------------------------- MODULE Ticker -------------------------------
(***************************************************************************)
(* lua/lua.go: the life of the Sandbox, its ticker goroutines and luaLock, *)
(* with the goroutines that main starts around it.                         *)
(*                                                                         *)
(* runTicker makes a channel and a goroutine together; both are known by   *)
(* the same number, 0 standing for a nil channel.  main and signal run     *)
(* Init and Close, every config_set("tick", ...) of the script starts a    *)
(* goroutine that runs restartTicker, and the pipeline calls on_log.  What *)
(* an access to quitticker sees is what the last write to it left there.   *)
(* Scripts define on_log, on_tick and on_signal, and give tick a positive  *)
(* value while they load, as NewTicker requires; loading does not fail.    *)
(***************************************************************************)
EXTENDS Integers, FiniteSets

CONSTANTS Restarters,   \* goroutines started by setTick, one per call
          MaxSignals,   \* bound on the number of signals received
          Assumed       \* conditions the code relies on and does not enforce

Conditions == {
    "noOverlap",    \* no two goroutines are inside stopTicker/runTicker at once
    "lateTicks",    \* no tick fires during an Init
    "quietReload",  \* no on_log call, and no exit, while a signal is handled
    "loneSignal"    \* nothing else runs Lua code while on_signal does
}

ASSUME TickerAssumption ==
    /\ IsFiniteSet(Restarters)
    /\ MaxSignals \in Nat
    /\ Assumed \subseteq Conditions
    /\ Restarters \cap {"main", "signal"} = {}

Tickers == 1 .. (1 + MaxSignals + Cardinality(Restarters))
Lifecycle == {"main", "signal"}
Threads == Lifecycle \cup Restarters

VARIABLES
    luaLock,    \* its holder: "main" or "signal" inside Init, "pipeline", a "ticker", or "free"
    state,      \* l.state # nil
    tick,       \* l.cfg.tick is positive
    quitticker, \* l.quitticker
    closed,     \* channels that were closed
    made,       \* number of tickers started so far
    tpc,        \* [Tickers -> STRING]  where each ticker goroutine is
    ear,        \* [Tickers -> Tickers \cup {0}]  channel its select listens to
    job,        \* [Threads -> STRING]  what stopTicker is part of
    pc,         \* [Threads -> STRING]
    chan,       \* [Threads -> Tickers \cup {0}]  channel it sends on
    onlog,      \* where the pipeline is in CallOnLog
    signals     \* signals received so far

shared  == <<state, tick, quitticker, closed, made, signals>>
tickers == <<tpc, ear>>
threads == <<job, pc, chan>>
vars    == <<luaLock, shared, tickers, threads, onlog>>

Init ==
    /\ luaLock = "free"
    /\ state = FALSE
    /\ tick = FALSE
    /\ quitticker = 0
    /\ closed = {}
    /\ made = 0
    /\ tpc = [g \in Tickers |-> "none"]
    /\ ear = [g \in Tickers |-> 0]
    /\ job = [t \in Threads |-> IF t = "main" THEN "init" ELSE "none"]
    /\ pc = [t \in Threads |-> IF t = "main" THEN "lock" ELSE "off"]
    /\ chan = [t \in Threads |-> 0]
    /\ onlog = "idle"
    /\ signals = 0

Started == job["main"] # "init"
Reloading == job["signal"] # "none"
MayEnterLua == "loneSignal" \in Assumed => pc["signal"] # "hook"
-----------------------------------------------------------------------------
(* setTick, stopTicker, runTicker *)

\* The script is running: loading, or in a hook.
InScript ==
    \/ \E t \in Lifecycle : pc[t] \in {"load", "hook"}
    \/ onlog = "hook"
    \/ \E g \in Tickers : tpc[g] = "hook"

\* config_set("tick", n) with n positive: go l.restartTicker().
SetTick(r) ==
    /\ InScript
    /\ pc[r] = "off" /\ job[r] = "none"
    /\ tick' = TRUE
    /\ job' = [job EXCEPT ![r] = "restart"]
    /\ pc' = [pc EXCEPT ![r] = "check"]
    /\ UNCHANGED <<luaLock, state, quitticker, closed, made, signals, tickers, chan, onlog>>

InRestart == {"send", "wait", "close", "clear", "run"}
MayEnter(t) == "noOverlap" \in Assumed => \A u \in Threads \ {t} : pc[u] \notin InRestart

\* Mutant: setTick stops the ticker and does not start another.
AfterStopNoRun(t) ==
    IF job[t] = "close" THEN "stopped" ELSE IF job[t] = "restart" THEN "off" ELSE "run"

\* Where a thread goes when stopTicker returns.
AfterStop(t) == IF job[t] = "close" THEN "stopped" ELSE "run"

\* Mutant: a ticker that runs is not stopped.
StopCheckSkips(t) ==
    /\ pc[t] = "check"
    /\ MayEnter(t)
    /\ pc' = [pc EXCEPT ![t] = AfterStop(t)]
    /\ UNCHANGED <<luaLock, shared, tickers, job, chan, onlog>>

StopCheck(t) ==
    /\ pc[t] = "check"
    /\ MayEnter(t)
    /\ pc' = [pc EXCEPT ![t] = IF quitticker = 0 THEN AfterStop(t) ELSE "send"]
    /\ UNCHANGED <<luaLock, shared, tickers, job, chan, onlog>>

\* Mutant: stopTicker polls quitticker instead of sending.
StopSendPolls(t) ==
    /\ pc[t] = "send"
    /\ pc' = [pc EXCEPT ![t] = "check"]
    /\ UNCHANGED <<luaLock, shared, tickers, job, chan, onlog>>

\* The send evaluates l.quitticker, then blocks on that channel ...
StopSend(t) ==
    /\ pc[t] = "send"
    /\ chan' = [chan EXCEPT ![t] = quitticker]
    /\ pc' = [pc EXCEPT ![t] = "wait"]
    /\ UNCHANGED <<luaLock, shared, tickers, job, onlog>>

\* ... until a ticker whose select listens to it receives, and returns.
StopReceived(t, g) ==
    /\ pc[t] = "wait"
    /\ chan[t] # 0 /\ chan[t] \notin closed
    /\ tpc[g] = "select" /\ ear[g] = chan[t]
    /\ tpc' = [tpc EXCEPT ![g] = "gone"]
    /\ pc' = [pc EXCEPT ![t] = "close"]
    /\ chan' = [chan EXCEPT ![t] = 0]
    /\ UNCHANGED <<luaLock, shared, ear, job, onlog>>

StopClose(t) ==
    /\ pc[t] = "close"
    /\ quitticker # 0 /\ quitticker \notin closed
    /\ closed' = closed \cup {quitticker}
    /\ pc' = [pc EXCEPT ![t] = "clear"]
    /\ UNCHANGED <<luaLock, state, tick, quitticker, made, signals, tickers, job, chan, onlog>>

\* Mutant: the closed channel stays in quitticker.
StopClearKeeps(t) ==
    /\ pc[t] = "clear"
    /\ pc' = [pc EXCEPT ![t] = AfterStop(t)]
    /\ UNCHANGED <<luaLock, shared, tickers, job, chan, onlog>>

StopClear(t) ==
    /\ pc[t] = "clear"
    /\ quitticker' = 0
    /\ pc' = [pc EXCEPT ![t] = AfterStop(t)]
    /\ UNCHANGED <<luaLock, state, tick, closed, made, signals, tickers, job, chan, onlog>>

\* A goroutine of setTick ends here; Init returns and releases luaLock.
RunTicker(t) ==
    /\ pc[t] = "run"
    /\ made' = made + 1
    /\ quitticker' = made + 1
    /\ tpc' = [tpc EXCEPT ![made + 1] = "start"]
    /\ pc' = [pc EXCEPT ![t] = "off"]
    /\ job' = [job EXCEPT ![t] = IF t \in Lifecycle THEN "none" ELSE "over"]
    /\ luaLock' = IF job[t] = "init" THEN "free" ELSE luaLock
    /\ UNCHANGED <<state, tick, closed, signals, ear, chan, onlog>>
-----------------------------------------------------------------------------
(* Init and Close of the Sandbox *)

InitLock(t) ==
    /\ pc[t] = "lock"
    /\ luaLock = "free"
    /\ MayEnterLua
    /\ luaLock' = t
    /\ state' = TRUE
    /\ pc' = [pc EXCEPT ![t] = "load"]
    /\ UNCHANGED <<tick, quitticker, closed, made, signals, tickers, job, chan, onlog>>

\* The script is loaded; Init goes on to restartTicker, under luaLock.
Loaded(t) ==
    /\ pc[t] = "load"
    /\ tick
    /\ pc' = [pc EXCEPT ![t] = "check"]
    /\ UNCHANGED <<luaLock, shared, tickers, job, chan, onlog>>

\* sigHandler receives a signal and gives it to on_signal, without luaLock: the
\* test that the script defines the hook is on l.state already.
CallOnSignal ==
    /\ Started /\ ~Reloading
    /\ signals < MaxSignals
    /\ "quietReload" \in Assumed => onlog = "idle"
    /\ "loneSignal" \in Assumed => ~InScript
    /\ signals' = signals + 1
    /\ job' = [job EXCEPT !["signal"] = "signal"]
    /\ pc' = [pc EXCEPT !["signal"] = "hook"]
    /\ UNCHANGED <<luaLock, state, tick, quitticker, closed, made, tickers, chan, onlog>>

\* handleSignal, SIGUSR2: a heap profile.
Profile ==
    /\ pc["signal"] = "hook"
    /\ job' = [job EXCEPT !["signal"] = "none"]
    /\ pc' = [pc EXCEPT !["signal"] = "off"]
    /\ UNCHANGED <<luaLock, shared, tickers, chan, onlog>>

\* handleSignal, SIGUSR1: Init closes the sandbox first, and takes no lock for it.
Reload ==
    /\ pc["signal"] = "hook"
    /\ job' = [job EXCEPT !["signal"] = "close"]
    /\ pc' = [pc EXCEPT !["signal"] = "check"]
    /\ UNCHANGED <<luaLock, shared, tickers, chan, onlog>>

\* The pipeline is over and main runs its deferred l.Close().
Exit ==
    /\ job["main"] = "none"
    /\ onlog = "idle"
    /\ "quietReload" \in Assumed => ~Reloading
    /\ onlog' = "over"
    /\ job' = [job EXCEPT !["main"] = "close"]
    /\ pc' = [pc EXCEPT !["main"] = "check"]
    /\ UNCHANGED <<luaLock, shared, tickers, chan>>

\* The end of Close: main returns, signal goes on with Init.
CloseDone(t) ==
    /\ pc[t] = "stopped"
    /\ state' = FALSE
    /\ pc' = [pc EXCEPT ![t] = IF t = "main" THEN "exited" ELSE "lock"]
    /\ job' = [job EXCEPT ![t] = IF t = "main" THEN @ ELSE "init"]
    /\ UNCHANGED <<luaLock, tick, quitticker, closed, made, signals, tickers, chan, onlog>>
-----------------------------------------------------------------------------
(* tick, callOnTick, CallOnLog *)

TickStart(g) ==
    /\ tpc[g] = "start"
    /\ tick
    /\ tpc' = [tpc EXCEPT ![g] = "loop"]
    /\ UNCHANGED <<luaLock, shared, ear, threads, onlog>>

\* select evaluates l.quitticker each time round.
TickSelect(g) ==
    /\ tpc[g] = "loop"
    /\ ear' = [ear EXCEPT ![g] = quitticker]
    /\ tpc' = [tpc EXCEPT ![g] = "select"]
    /\ UNCHANGED <<luaLock, shared, threads, onlog>>

TickFire(g) ==
    /\ tpc[g] = "select"
    /\ "lateTicks" \in Assumed => Started /\ ~Reloading
    /\ tpc' = [tpc EXCEPT ![g] = "want"]
    /\ UNCHANGED <<luaLock, shared, ear, threads, onlog>>

TickQuit(g) ==
    /\ tpc[g] = "select"
    /\ ear[g] \in closed
    /\ tpc' = [tpc EXCEPT ![g] = "gone"]
    /\ UNCHANGED <<luaLock, shared, ear, threads, onlog>>

OnTick(g) ==
    /\ tpc[g] = "want"
    /\ luaLock = "free" /\ state
    /\ MayEnterLua
    /\ luaLock' = "ticker"
    /\ tpc' = [tpc EXCEPT ![g] = "hook"]
    /\ UNCHANGED <<shared, ear, threads, onlog>>

OnTickReturns(g) ==
    /\ tpc[g] = "hook"
    /\ luaLock' = "free"
    /\ tpc' = [tpc EXCEPT ![g] = "loop"]
    /\ UNCHANGED <<shared, ear, threads, onlog>>

CallOnLog ==
    /\ Started
    /\ onlog = "idle"
    /\ "quietReload" \in Assumed => ~Reloading
    /\ onlog' = "want"
    /\ UNCHANGED <<luaLock, shared, tickers, threads>>

\* Mutant: on_log without luaLock.
OnLogUnlocked ==
    /\ onlog = "want"
    /\ state
    /\ MayEnterLua
    /\ onlog' = "hook"
    /\ UNCHANGED <<luaLock, shared, tickers, threads>>

OnLog ==
    /\ onlog = "want"
    /\ luaLock = "free" /\ state
    /\ MayEnterLua
    /\ luaLock' = "pipeline"
    /\ onlog' = "hook"
    /\ UNCHANGED <<shared, tickers, threads>>

OnLogReturns ==
    /\ onlog = "hook"
    /\ luaLock' = "free"
    /\ onlog' = "idle"
    /\ UNCHANGED <<shared, tickers, threads>>
-----------------------------------------------------------------------------
Running == pc["main"] # "exited"

ThreadStep(t) ==
    \/ StopCheck(t)
    \/ StopSend(t)
    \/ \E g \in Tickers : StopReceived(t, g)
    \/ StopClose(t)
    \/ StopClear(t)
    \/ RunTicker(t)
    \/ InitLock(t)
    \/ Loaded(t)
    \/ CloseDone(t)

TickerStep(g) ==
    \/ TickStart(g)
    \/ TickSelect(g)
    \/ TickFire(g)
    \/ TickQuit(g)
    \/ OnTick(g)
    \/ OnTickReturns(g)

PipelineStep == OnLog \/ OnLogReturns
HandleSignal == Profile \/ Reload

\* Nothing happens once main has returned.
Exited == ~Running /\ UNCHANGED vars

Next ==
    \/ Running /\ \E t \in Threads : ThreadStep(t)
    \/ Running /\ \E g \in Tickers : TickerStep(g)
    \/ Running /\ \E r \in Restarters : SetTick(r)
    \/ Running /\ (PipelineStep \/ HandleSignal)
    \/ Running /\ (CallOnLog \/ CallOnSignal \/ Exit)
    \/ Exited

Spec == Init /\ [][Next]_vars

(***************************************************************************)
(* Goroutines run until they block and hooks return.  sync.Mutex does not  *)
(* starve a waiter, and select chooses at random between a tick and a quit *)
(* that are both ready: neither can be passed over for ever.  Nothing      *)
(* obliges the script to call config_set while it runs, a log to arrive,   *)
(* or a signal to be sent; while it loads, it sets tick.                   *)
(***************************************************************************)
Fairness ==
    /\ \A t \in Threads : WF_vars(Running /\ ThreadStep(t))
    /\ \A g \in Tickers : WF_vars(Running /\ TickerStep(g))
    /\ WF_vars(Running /\ PipelineStep)
    /\ WF_vars(Running /\ HandleSignal)
    /\ WF_vars(Running /\ ~tick /\ \E r \in Restarters : SetTick(r))
    /\ SF_vars(Running /\ InitLock("signal"))
    /\ SF_vars(Running /\ \E g \in Tickers : OnTick(g))
    /\ SF_vars(Running /\ \E t \in Threads, g \in Tickers : StopReceived(t, g))

FairSpec == Spec /\ Fairness
-----------------------------------------------------------------------------
(* Properties *)

TickerStates == {"none", "start", "loop", "select", "want", "hook", "gone"}
ThreadStates == {"off", "hook", "lock", "load", "check", "stopped", "exited"} \cup InRestart

\* Type invariant of the Sandbox fields and of the goroutines around it.
TypeOK ==
    /\ luaLock \in Lifecycle \cup {"pipeline", "ticker", "free"}
    /\ state \in BOOLEAN
    /\ tick \in BOOLEAN
    /\ quitticker \in Tickers \cup {0}
    /\ closed \subseteq Tickers
    /\ made \in Tickers \cup {0}
    /\ tpc \in [Tickers -> TickerStates]
    /\ ear \in [Tickers -> Tickers \cup {0}]
    /\ job \in [Threads -> {"none", "init", "signal", "close", "restart", "over"}]
    /\ pc \in [Threads -> ThreadStates]
    /\ chan \in [Threads -> Tickers \cup {0}]
    /\ onlog \in {"idle", "want", "hook", "over"}
    /\ signals \in 0 .. MaxSignals

Live(g) == tpc[g] \notin {"none", "gone"}

\* There is one ticker at most, however often and from whichever hook the script
\* sets tick: stopTicker stops the one that runs before runTicker starts another
\* (lua.go:86, quitticker = nil "indicating that ticker is not running").
OneTicker ==
    /\ \A g, h \in Tickers : Live(g) /\ Live(h) => g = h
    /\ quitticker = 0 => \A g \in Tickers : ~Live(g)

\* The next step of some goroutine panics: NewTicker(0), a send on or a close of
\* a closed or nil channel, or a hook called on the nil l.state.
PanicNext ==
    /\ Running
    /\ \/ \E g \in Tickers : tpc[g] = "start" /\ ~tick
       \/ \E t \in Threads : pc[t] = "wait" /\ chan[t] \in closed
       \/ \E t \in Threads : pc[t] = "close" /\ quitticker \in closed \cup {0}
       \/ luaLock = "free" /\ ~state /\ (onlog = "want" \/ \E g \in Tickers : tpc[g] = "want")

\* No order of ticks, logs, config_set calls, signals and exit makes the
\* sandbox panic.
NoPanic == ~PanicNext

\* The goroutines that are running Lua code.
InLua ==
    {<<t, 0>> : t \in {u \in Lifecycle : pc[u] \in {"load", "hook"}}}
        \cup (IF onlog = "hook" THEN {<<"pipeline", 0>>} ELSE {})
        \cup {<<"ticker", g>> : g \in {h \in Tickers : tpc[h] = "hook"}}

\* One goroutine at most runs Lua code: loading scripts, on_log, on_tick and
\* on_signal exclude each other (lua.go:173 and :186, "caller must take care of
\* synchronizing concurrent access to state").
OneGoroutineInLua == \A x, y \in InLua : x = y

\* Every restartTicker, Init and Close ends, setTick called from on_tick
\* included (lua.go:96, "so we don't deadlock").
EveryRestartEnds ==
    \A t \in Threads : pc[t] \notin {"off", "exited"} ~> pc[t] \in {"off", "exited"} \/ ~Running

\* The ticker is never lost: after every restart and reload on_tick is called
\* again, until the program exits.
KeepsTicking == []<>(~Running \/ \E g \in Tickers : tpc[g] = "hook")
=============================================================================
