---------------------------- MODULE TickerProofs ----------------------------
(***************************************************************************)
(* Proofs about Ticker, for any number of signals and of config_set calls. *)
(* Each theorem names the conditions it needs:                             *)
(*   Exclusion        Lua code is run by one goroutine at a time, provided *)
(*                    that on_signal, which takes no lock, runs alone;     *)
(*   TypeCorrect      no condition;                                        *)
(*   AtMostOneTicker  restarts do not overlap;                             *)
(*   PanicFree        as well, no tick fires during an Init and the        *)
(*                    pipeline is quiet during a reload.                   *)
(***************************************************************************)
EXTENDS Ticker, FiniteSetTheorems, TLAPS
-----------------------------------------------------------------------------
(* Exclusion *)

\* What the types of the fields contribute.
Shape ==
    /\ tpc \in [Tickers -> TickerStates]
    /\ job \in [Threads -> {"none", "init", "signal", "close", "restart", "over"}]
    /\ pc \in [Threads -> ThreadStates]

\* Only main and signal run Init, Close and on_signal.
Roles ==
    \A t \in Threads :
        /\ pc[t] \in {"lock", "load"} => job[t] = "init"
        /\ pc[t] = "stopped" => job[t] = "close"
        /\ pc[t] = "hook" => t = "signal" /\ job[t] = "signal"
        /\ t \in Restarters => job[t] \in {"none", "restart", "over"}

\* Init holds luaLock from the moment it took it to its return.
InitHolds ==
    \A t \in Lifecycle : luaLock = t <=> job[t] = "init" /\ pc[t] # "lock"

\* A hook that takes luaLock holds it while it runs.
HookHolds ==
    /\ onlog = "hook" <=> luaLock = "pipeline"
    /\ \A g \in Tickers : tpc[g] = "hook" => luaLock = "ticker"
    /\ \A g, h \in Tickers : tpc[g] = "hook" /\ tpc[h] = "hook" => g = h

\* on_signal runs alone.
SignalAlone ==
    pc["signal"] = "hook" =>
        pc["main"] # "load" /\ onlog # "hook" /\ \A g \in Tickers : tpc[g] # "hook"

Inv == Shape /\ Roles /\ InitHolds /\ HookHolds /\ SignalAlone

\* The invariant holds when main starts.
LEMMA InitInv == Init => Inv
  BY TickerAssumption DEF Init, Inv, Shape, Roles, InitHolds, HookHolds, SignalAlone, Threads,
     Lifecycle, TickerStates, ThreadStates, InRestart

\* The goroutines that run Init, Close and restartTicker keep it.
LEMMA ThreadStepInv ==
    ASSUME "loneSignal" \in Assumed, Inv, NEW t \in Threads, ThreadStep(t)
    PROVE  Inv'
<1> USE TickerAssumption DEF Inv, Shape, Roles, InitHolds, HookHolds, SignalAlone, Lifecycle
<1>1. CASE StopCheck(t)
  BY <1>1 DEF StopCheck, AfterStop, shared, tickers, ThreadStates, InRestart, Threads
<1>2. CASE StopSend(t)
  BY <1>2 DEF StopSend, shared, tickers, ThreadStates, InRestart, Threads
<1>3. ASSUME NEW g \in Tickers, StopReceived(t, g)
      PROVE  Inv'
  BY <1>3 DEF StopReceived, shared, tickers, ThreadStates, TickerStates, InRestart, Threads
<1>4. CASE StopClose(t)
  BY <1>4 DEF StopClose, shared, tickers, ThreadStates, InRestart, Threads
<1>5. CASE StopClear(t)
  BY <1>5 DEF StopClear, AfterStop, shared, tickers, ThreadStates, InRestart, Threads
<1>6. CASE RunTicker(t)
  BY <1>6 DEF RunTicker, shared, tickers, ThreadStates, TickerStates, InRestart, Threads
<1>7. CASE InitLock(t)
  BY <1>7 DEF InitLock, MayEnterLua, shared, tickers, ThreadStates, InRestart, Threads
<1>8. CASE Loaded(t)
  BY <1>8 DEF Loaded, shared, tickers, ThreadStates, InRestart, Threads
<1>9. CASE CloseDone(t)
  BY <1>9 DEF CloseDone, shared, tickers, ThreadStates, InRestart, Threads
<1> QED BY <1>1, <1>2, <1>3, <1>4, <1>5, <1>6, <1>7, <1>8, <1>9 DEF ThreadStep

\* A ticker goroutine keeps it.
LEMMA TickerStepInv ==
    ASSUME "loneSignal" \in Assumed, Inv, NEW g \in Tickers, TickerStep(g)
    PROVE  Inv'
<1> USE DEF Inv, Shape, Roles, InitHolds, HookHolds, SignalAlone, Lifecycle, TickerStates, threads
<1>1. CASE TickStart(g)
  BY <1>1 DEF TickStart
<1>2. CASE TickSelect(g)
  BY <1>2 DEF TickSelect
<1>3. CASE TickFire(g)
  BY <1>3 DEF TickFire
<1>4. CASE TickQuit(g)
  BY <1>4 DEF TickQuit
<1>5. CASE OnTick(g)
  BY <1>5 DEF OnTick, MayEnterLua
<1>6. CASE OnTickReturns(g)
  BY <1>6 DEF OnTickReturns
<1> QED BY <1>1, <1>2, <1>3, <1>4, <1>5, <1>6 DEF TickerStep

\* The pipeline, the signal handler, the script and main keep it.
LEMMA OtherStepInv ==
    ASSUME "loneSignal" \in Assumed, Inv,
           \/ \E r \in Restarters : SetTick(r)
           \/ PipelineStep \/ HandleSignal \/ CallOnLog \/ CallOnSignal \/ Exit
    PROVE  Inv'
<1> USE TickerAssumption DEF Inv, Shape, Roles, InitHolds, HookHolds, SignalAlone, Lifecycle, Threads,
                             ThreadStates, InRestart
<1>1. ASSUME NEW r \in Restarters, SetTick(r)
      PROVE  Inv'
  BY <1>1 DEF SetTick, tickers
<1>2. CASE OnLog
  BY <1>2 DEF OnLog, MayEnterLua, tickers, threads
<1>3. CASE OnLogReturns
  BY <1>3 DEF OnLogReturns, tickers, threads
<1>4. CASE CallOnLog
  BY <1>4 DEF CallOnLog, tickers, threads
<1>5. CASE CallOnSignal
  BY <1>5 DEF CallOnSignal, InScript, Reloading, tickers
<1>6. CASE Profile
  BY <1>6 DEF Profile, tickers
<1>7. CASE Reload
  BY <1>7 DEF Reload, tickers
<1>8. CASE Exit
  BY <1>8 DEF Exit, tickers
<1> QED BY <1>1, <1>2, <1>3, <1>4, <1>5, <1>6, <1>7, <1>8 DEF PipelineStep, HandleSignal

\* Every step keeps the invariant.
LEMMA NextInv ==
    ASSUME "loneSignal" \in Assumed
    PROVE  Inv /\ [Next]_vars => Inv'
<1> SUFFICES ASSUME Inv, [Next]_vars PROVE Inv'
  OBVIOUS
<1>1. CASE UNCHANGED vars
  BY <1>1 DEF Inv, Shape, Roles, InitHolds, HookHolds, SignalAlone, vars, tickers, threads
<1> QED BY <1>1, ThreadStepInv, TickerStepInv, OtherStepInv DEF Next, Exited

\* luaLock keeps loading scripts, on_log and on_tick apart, with any number of
\* signals, reloads and restarts of the ticker (lua.go:173-306).
THEOREM Exclusion ==
    ASSUME "loneSignal" \in Assumed
    PROVE  Spec => []OneGoroutineInLua
<1>1. Inv => OneGoroutineInLua
  <2> SUFFICES ASSUME Inv, NEW x \in InLua, NEW y \in InLua
               PROVE  x = y
    BY DEF OneGoroutineInLua
  <2> DEFINE Loader(z) == \E t \in Lifecycle : z = <<t, 0>> /\ pc[t] = "load" /\ luaLock = t
             Handler(z) == z = <<"signal", 0>> /\ pc["signal"] = "hook"
             OnLogs(z) == z = <<"pipeline", 0>> /\ onlog = "hook" /\ luaLock = "pipeline"
             Ticks(z) == \E g \in Tickers : z = <<"ticker", g>> /\ tpc[g] = "hook" /\ luaLock = "ticker"
  <2>1. \A z \in InLua : Loader(z) \/ Handler(z) \/ OnLogs(z) \/ Ticks(z)
    BY DEF Inv, Roles, InitHolds, HookHolds, InLua, Lifecycle, Threads
  <2>2. CASE Handler(x) \/ Handler(y)
    BY <2>1, <2>2 DEF Inv, SignalAlone, Lifecycle
  <2>3. CASE Loader(x) /\ Loader(y)
    BY <2>3
  <2>4. CASE Ticks(x) /\ Ticks(y)
    BY <2>4 DEF Inv, HookHolds
  <2> QED BY <2>1, <2>2, <2>3, <2>4 DEF Lifecycle
<1> QED BY <1>1, InitInv, NextInv, PTL DEF Spec
-----------------------------------------------------------------------------
(* The types *)

\* What a thread does and where it is fit together.
Jobs ==
    \A t \in Threads :
        /\ pc[t] = "off" <=> job[t] \in {"none", "over"}
        /\ pc[t] = "hook" <=> job[t] = "signal"
        /\ pc[t] = "run" => job[t] # "close"
        /\ t \in Lifecycle => job[t] \in {"none", "init", "signal", "close"}
        /\ t = "main" => job[t] # "signal"

Over == {r \in Restarters : job[r] = "over"}

\* Every ticker was started by the Init of main, by a reload that is over, or by a
\* goroutine of setTick that is over.
Budget ==
    made <= (IF Started THEN 1 ELSE 0) + (signals - (IF Reloading THEN 1 ELSE 0)) + Cardinality(Over)

TypeInv == TypeOK /\ Roles /\ Jobs /\ Budget

\* Goroutines of setTick are counted once.
LEMMA OverFacts ==
    ASSUME TypeInv
    PROVE  /\ IsFiniteSet(Over) /\ Cardinality(Over) \in Nat
           /\ Cardinality(Over) <= Cardinality(Restarters)
           /\ Cardinality(Restarters) \in Nat
           /\ \A r \in Restarters \ Over :
                 /\ Cardinality(Over \cup {r}) = Cardinality(Over) + 1
                 /\ Cardinality(Over) + 1 <= Cardinality(Restarters)
<1>1. Over \subseteq Restarters
  BY DEF Over
<1>2. IsFiniteSet(Over) /\ Cardinality(Over) <= Cardinality(Restarters)
  BY <1>1, TickerAssumption, FS_Subset
<1>3. Cardinality(Over) \in Nat /\ Cardinality(Restarters) \in Nat
  BY <1>2, TickerAssumption, FS_CardinalityType
<1>4. ASSUME NEW r \in Restarters, r \notin Over
      PROVE  /\ Cardinality(Over \cup {r}) = Cardinality(Over) + 1
             /\ Cardinality(Over) + 1 <= Cardinality(Restarters)
  <2>1. Cardinality(Over \cup {r}) = Cardinality(Over) + 1
    BY <1>2, <1>4, FS_AddElement
  <2>2. Over \cup {r} \subseteq Restarters
    BY <1>1, <1>4
  <2>3. Cardinality(Over \cup {r}) <= Cardinality(Restarters)
    BY <2>2, TickerAssumption, FS_Subset
  <2> QED BY <2>1, <2>3
<1> QED BY <1>2, <1>3, <1>4

\* main and signal are threads, and no goroutine of setTick is one of them.
LEMMA ThreadFacts ==
    /\ "main" \in Threads /\ "signal" \in Threads /\ Lifecycle \subseteq Threads
    /\ Restarters \subseteq Threads
    /\ \A r \in Restarters : r \notin Lifecycle
  BY TickerAssumption DEF Threads, Lifecycle

\* The types hold when main starts.
LEMMA InitTypes == Init => TypeInv
<1> SUFFICES ASSUME Init PROVE TypeInv
  OBVIOUS
<1>1. Roles /\ Jobs
  BY TickerAssumption DEF Init, Roles, Jobs, Threads, Lifecycle
<1>2. TypeOK
  <2>1. 0 \in 0 .. MaxSignals
    BY TickerAssumption
  <2>2. /\ tpc \in [Tickers -> TickerStates] /\ ear \in [Tickers -> Tickers \cup {0}]
        /\ job \in [Threads -> {"none", "init", "signal", "close", "restart", "over"}]
        /\ pc \in [Threads -> ThreadStates] /\ chan \in [Threads -> Tickers \cup {0}]
    BY DEF Init, TickerStates, ThreadStates
  <2> QED BY <2>1, <2>2 DEF Init, TypeOK
<1>3. Over = {}
  BY TickerAssumption DEF Init, Over, Threads, Lifecycle
<1>4. Budget
  BY <1>3, FS_EmptySet, ThreadFacts DEF Init, Budget, Started, Reloading
<1> QED BY <1>1, <1>2, <1>4 DEF TypeInv

\* Steps that start no ticker keep the count.
LEMMA SameBudget ==
    ASSUME Budget, UNCHANGED <<made, signals>>, Over' = Over,
           Started' = Started, Reloading' = Reloading
    PROVE  Budget'
  BY DEF Budget

\* runTicker has room for one more ticker.
LEMMA RunTickerTypes ==
    ASSUME TypeInv, NEW t \in Threads, RunTicker(t)
    PROVE  TypeInv' /\ made + 1 \in Tickers
<1> USE ThreadFacts
<1>1. /\ made \in Nat /\ signals \in Nat /\ signals <= MaxSignals /\ MaxSignals \in Nat
      /\ job[t] \in {"init", "restart"}
      /\ t \in Lifecycle => job[t] = "init"
      /\ t \in Restarters => job[t] = "restart"
      /\ t \in Lifecycle \/ t \in Restarters
  <2>1. made \in Nat /\ signals \in Nat /\ signals <= MaxSignals /\ MaxSignals \in Nat
    BY TickerAssumption DEF TypeInv, TypeOK, Tickers
  <2>2. t \in Lifecycle \/ t \in Restarters
    BY DEF Threads
  <2> QED BY <2>1, <2>2 DEF TypeInv, Roles, Jobs, RunTicker
<1>2. made' <= (IF Started' THEN 1 ELSE 0) + (signals - (IF Reloading' THEN 1 ELSE 0)) + Cardinality(Over')
  <2>1. CASE t \in Restarters
    <3>1. t \notin Over /\ Over' = Over \cup {t} /\ Started' = Started /\ Reloading' = Reloading
      BY <1>1, <2>1 DEF Over, RunTicker, Started, Reloading, TypeInv, TypeOK, Lifecycle
    <3>2. Cardinality(Over') = Cardinality(Over) + 1 /\ Cardinality(Over) \in Nat
      BY <2>1, <3>1, OverFacts
    <3> QED BY <1>1, <3>1, <3>2 DEF TypeInv, Budget, RunTicker
  <2>2. CASE t = "main"
    <3>1. Over' = Over /\ ~Started /\ Started' /\ Reloading' = Reloading
      BY <1>1, <2>2 DEF Over, RunTicker, Started, Reloading, TypeInv, TypeOK, Lifecycle
    <3> QED BY <1>1, <3>1, OverFacts DEF TypeInv, Budget, RunTicker
  <2>3. CASE t = "signal"
    <3>1. Over' = Over /\ Reloading /\ ~Reloading' /\ Started' = Started
      BY <1>1, <2>3 DEF Over, RunTicker, Started, Reloading, TypeInv, TypeOK, Lifecycle
    <3> QED BY <1>1, <3>1, OverFacts DEF TypeInv, Budget, RunTicker
  <2> QED BY <1>1, <2>1, <2>2, <2>3 DEF Lifecycle
<1>3. Over' \subseteq Restarters
  BY DEF Over
<1>4. Cardinality(Over') <= Cardinality(Restarters) /\ Cardinality(Over') \in Nat /\ Cardinality(Restarters) \in Nat
  BY <1>3, TickerAssumption, FS_Subset, FS_CardinalityType
<1>5. made + 1 \in Tickers
  BY <1>1, <1>2, <1>4 DEF RunTicker, Tickers
<1>6. TypeOK'
  BY <1>1, <1>5 DEF TypeInv, TypeOK, RunTicker, TickerStates, ThreadStates, InRestart, Lifecycle
<1>7. Roles' /\ Jobs'
  BY <1>1 DEF TypeInv, TypeOK, Roles, Jobs, RunTicker, Lifecycle
<1>8. Budget'
  BY <1>2 DEF Budget, RunTicker
<1> QED BY <1>5, <1>6, <1>7, <1>8 DEF TypeInv

\* The goroutines that run Init, Close and restartTicker keep the types.
LEMMA ThreadStepTypes ==
    ASSUME TypeInv, NEW t \in Threads, ThreadStep(t)
    PROVE  TypeInv'
<1> USE ThreadFacts
<1> DEFINE Same == Over' = Over /\ Started' = Started /\ Reloading' = Reloading
<1>1. CASE StopCheck(t)
  <2>1. TypeOK' /\ Roles' /\ Jobs'
    BY <1>1 DEF TypeInv, TypeOK, Roles, Jobs, StopCheck, AfterStop, shared, tickers, ThreadStates, InRestart
  <2> QED BY <1>1, <2>1, SameBudget DEF TypeInv, StopCheck, shared, Over, Started, Reloading
<1>2. CASE StopSend(t)
  <2>1. TypeOK' /\ Roles' /\ Jobs'
    BY <1>2 DEF TypeInv, TypeOK, Roles, Jobs, StopSend, shared, tickers, ThreadStates, InRestart
  <2> QED BY <1>2, <2>1, SameBudget DEF TypeInv, StopSend, shared, Over, Started, Reloading
<1>3. ASSUME NEW g \in Tickers, StopReceived(t, g)
      PROVE  TypeInv'
  <2>1. TypeOK' /\ Roles' /\ Jobs'
    BY <1>3 DEF TypeInv, TypeOK, Roles, Jobs, StopReceived, shared, TickerStates, ThreadStates, InRestart
  <2> QED BY <1>3, <2>1, SameBudget DEF TypeInv, StopReceived, shared, Over, Started, Reloading
<1>4. CASE StopClose(t)
  <2>1. TypeOK' /\ Roles' /\ Jobs'
    BY <1>4 DEF TypeInv, TypeOK, Roles, Jobs, StopClose, tickers, ThreadStates, InRestart
  <2> QED BY <1>4, <2>1, SameBudget DEF TypeInv, StopClose, Over, Started, Reloading
<1>5. CASE StopClear(t)
  <2>1. TypeOK' /\ Roles' /\ Jobs'
    BY <1>5 DEF TypeInv, TypeOK, Roles, Jobs, StopClear, AfterStop, tickers, ThreadStates, InRestart
  <2> QED BY <1>5, <2>1, SameBudget DEF TypeInv, StopClear, Over, Started, Reloading
<1>6. CASE RunTicker(t)
  BY <1>6, RunTickerTypes
<1>7. CASE InitLock(t)
  <2>1. t \in Lifecycle
    BY <1>7 DEF TypeInv, Roles, InitLock, Threads
  <2>2. TypeOK' /\ Roles' /\ Jobs'
    BY <1>7, <2>1 DEF TypeInv, TypeOK, Roles, Jobs, InitLock, tickers, ThreadStates, InRestart
  <2> QED BY <1>7, <2>2, SameBudget DEF TypeInv, InitLock, Over, Started, Reloading
<1>8. CASE Loaded(t)
  <2>1. TypeOK' /\ Roles' /\ Jobs'
    BY <1>8 DEF TypeInv, TypeOK, Roles, Jobs, Loaded, shared, tickers, ThreadStates, InRestart
  <2> QED BY <1>8, <2>1, SameBudget DEF TypeInv, Loaded, shared, Over, Started, Reloading
<1>9. CASE CloseDone(t)
  <2>1. t \in Lifecycle /\ t \notin Restarters /\ job[t] = "close"
    BY <1>9 DEF TypeInv, Roles, CloseDone, Threads
  <2>2. TypeOK' /\ Roles' /\ Jobs'
    <3>1. TypeOK'
      BY <1>9, <2>1 DEF TypeInv, TypeOK, CloseDone, tickers, ThreadStates
    <3>2. Roles' /\ Jobs'
      BY <1>9, <2>1 DEF TypeInv, TypeOK, Roles, Jobs, CloseDone, tickers, InRestart, Lifecycle
    <3> QED BY <3>1, <3>2
  <2>3. Same
    BY <1>9, <2>1 DEF TypeInv, TypeOK, CloseDone, Over, Started, Reloading, Lifecycle
  <2> QED BY <1>9, <2>2, <2>3, SameBudget DEF TypeInv, CloseDone
<1> QED BY <1>1, <1>2, <1>3, <1>4, <1>5, <1>6, <1>7, <1>8, <1>9 DEF ThreadStep

\* The tickers, the pipeline, the signal handler, the script and main keep the types.
LEMMA OtherStepTypes ==
    ASSUME TypeInv,
           \/ \E g \in Tickers : TickerStep(g)
           \/ \E r \in Restarters : SetTick(r)
           \/ PipelineStep \/ HandleSignal \/ CallOnLog \/ CallOnSignal \/ Exit
    PROVE  TypeInv'
<1> USE ThreadFacts
<1> DEFINE Same == Over' = Over /\ Started' = Started /\ Reloading' = Reloading
<1>1. ASSUME NEW g \in Tickers, TickerStep(g)
      PROVE  TypeInv'
  <2>1. UNCHANGED <<shared, threads, onlog>>
    BY <1>1 DEF TickerStep, TickStart, TickSelect, TickFire, TickQuit, OnTick, OnTickReturns
  <2>2. TypeOK'
    BY <1>1, <2>1 DEF TypeInv, TypeOK, shared, threads, TickerStep, TickStart, TickSelect, TickFire,
       TickQuit, OnTick, OnTickReturns, TickerStates
  <2>3. Roles' /\ Jobs'
    BY <2>1 DEF TypeInv, Roles, Jobs, threads
  <2> QED BY <2>1, <2>2, <2>3, SameBudget DEF TypeInv, shared, threads, Over, Started, Reloading
<1>2. ASSUME NEW r \in Restarters, SetTick(r)
      PROVE  TypeInv'
  <2>1. TypeOK' /\ Roles' /\ Jobs'
    BY <1>2 DEF TypeInv, TypeOK, Roles, Jobs, SetTick, tickers, ThreadStates, InRestart, Lifecycle
  <2>2. Same
    BY <1>2 DEF TypeInv, TypeOK, SetTick, Over, Started, Reloading, Lifecycle
  <2> QED BY <1>2, <2>1, <2>2, SameBudget DEF TypeInv, SetTick
<1>3. CASE PipelineStep \/ CallOnLog
  <2>1. UNCHANGED <<shared, tickers, threads>>
    BY <1>3 DEF PipelineStep, OnLog, OnLogReturns, CallOnLog
  <2>2. TypeOK'
    BY <1>3, <2>1 DEF TypeInv, TypeOK, shared, tickers, threads, PipelineStep, OnLog, OnLogReturns, CallOnLog
  <2>3. Roles' /\ Jobs'
    BY <2>1 DEF TypeInv, Roles, Jobs, threads
  <2> QED BY <2>1, <2>2, <2>3, SameBudget DEF TypeInv, shared, threads, Over, Started, Reloading
<1>4. CASE Profile
  <2>1. TypeOK' /\ Roles' /\ Jobs'
    BY <1>4 DEF TypeInv, TypeOK, Roles, Jobs, Profile, shared, tickers, ThreadStates, Lifecycle
  <2>2. Over' = Over /\ Started' = Started /\ ~Reloading' /\ made \in Nat /\ signals \in Nat
    BY <1>4 DEF TypeInv, TypeOK, Tickers, Profile, Over, Started, Reloading, Lifecycle
  <2> QED BY <1>4, <2>1, <2>2, OverFacts DEF TypeInv, Budget, Profile, shared
<1>5. CASE Reload
  <2>1. TypeOK' /\ Roles' /\ Jobs'
    BY <1>5 DEF TypeInv, TypeOK, Roles, Jobs, Reload, shared, tickers, ThreadStates, Lifecycle
  <2>2. Same
    BY <1>5 DEF TypeInv, TypeOK, Roles, Reload, Over, Started, Reloading, Lifecycle
  <2> QED BY <1>5, <2>1, <2>2, SameBudget DEF TypeInv, Reload, shared
<1>6. CASE CallOnSignal
  <2>1. job["signal"] = "none"
    BY <1>6 DEF CallOnSignal, Reloading
  <2>2. TypeOK' /\ Roles' /\ Jobs'
    BY <1>6, <2>1, TickerAssumption DEF TypeInv, TypeOK, Roles, Jobs, CallOnSignal, tickers, ThreadStates, Lifecycle
  <2>3. Over' = Over /\ Started' = Started /\ Reloading' /\ ~Reloading /\ made \in Nat /\ signals \in Nat
    BY <1>6, <2>1 DEF TypeInv, TypeOK, Tickers, CallOnSignal, Over, Started, Reloading, Lifecycle
  <2> QED BY <1>6, <2>2, <2>3, OverFacts DEF TypeInv, Budget, CallOnSignal
<1>7. CASE Exit
  <2>1. TypeOK' /\ Roles' /\ Jobs'
    BY <1>7 DEF TypeInv, TypeOK, Roles, Jobs, Exit, shared, tickers, ThreadStates, Lifecycle
  <2>2. Same
    BY <1>7 DEF TypeInv, TypeOK, Exit, Over, Started, Reloading, Lifecycle
  <2> QED BY <1>7, <2>1, <2>2, SameBudget DEF TypeInv, Exit, shared
<1> QED BY <1>1, <1>2, <1>3, <1>4, <1>5, <1>6, <1>7 DEF HandleSignal

\* Every step keeps the types.
LEMMA NextTypes == TypeInv /\ [Next]_vars => TypeInv'
<1> SUFFICES ASSUME TypeInv, [Next]_vars PROVE TypeInv'
  OBVIOUS
<1>1. CASE UNCHANGED vars
  <2>1. TypeOK' /\ Roles' /\ Jobs'
    BY <1>1 DEF TypeInv, TypeOK, Roles, Jobs, vars, shared, tickers, threads
  <2> QED BY <1>1, <2>1, SameBudget DEF TypeInv, vars, shared, threads, Over, Started, Reloading
<1> QED BY <1>1, ThreadStepTypes, OtherStepTypes DEF Next, Exited

\* The sandbox keeps the types of its fields without any of the conditions: there
\* are never more tickers than the Init of main, the reloads and the config_set
\* calls account for (runTicker, lua.go:159-162).
THEOREM TypeCorrect == Spec => []TypeOK
<1>1. TypeInv => TypeOK
  BY DEF TypeInv
<1> QED BY <1>1, InitTypes, NextTypes, PTL DEF Spec
-----------------------------------------------------------------------------
(* One ticker *)

\* One thread at a time is between stopTicker and runTicker.
Alone == \A t, u \in Threads : pc[t] \in InRestart /\ pc[u] \in InRestart => t = u

\* Channels up to made exist.
Fresh ==
    /\ quitticker <= made
    /\ \A g \in Tickers : made < g => tpc[g] = "none" /\ g \notin closed

\* The ticker that runs listens to the channel in quitticker.
Listens == \A g \in Tickers : Live(g) => quitticker = g /\ (tpc[g] = "select" => ear[g] = g)

\* What a thread inside stopTicker or runTicker may rely on.
Progress ==
    \A t \in Threads :
        /\ pc[t] \in {"send", "wait"} => quitticker # 0
        /\ pc[t] = "wait" => chan[t] = quitticker
        /\ pc[t] \in {"close", "clear"} => quitticker # 0 /\ \A g \in Tickers : ~Live(g)
        /\ pc[t] = "run" => quitticker = 0

\* The channel in quitticker is closed by a thread that is about to clear it.
OpenChannel == quitticker \in closed => \E t \in Threads : pc[t] = "clear"

TickInv == Alone /\ Fresh /\ Listens /\ Progress /\ OpenChannel


\* Tickers are numbered from 1.
LEMMA TickerNumbers ==
    ASSUME TypeInv
    PROVE  /\ \A g \in Tickers : g \in Nat /\ g # 0
           /\ made \in Nat /\ quitticker \in Nat
  BY DEF TypeInv, TypeOK, Tickers

\* There is no ticker when main starts.
LEMMA InitTick == Init => TickInv
  BY DEF Init, TickInv, Alone, Fresh, Listens, Progress, OpenChannel, Live, InRestart, Tickers

\* stopTicker is entered when nobody else is between it and runTicker.
LEMMA StopCheckTick ==
    ASSUME "noOverlap" \in Assumed, TypeInv, TickInv, NEW t \in Threads, StopCheck(t)
    PROVE  TickInv'
<1>1. \A u \in Threads \ {t} : pc[u] \notin InRestart
  BY DEF StopCheck, MayEnter
<1>2. Alone' /\ Progress'
  BY <1>1 DEF TypeInv, TypeOK, TickInv, Alone, Progress, StopCheck, AfterStop, shared, tickers, InRestart, Live
<1>3. Fresh' /\ Listens' /\ OpenChannel'
  BY DEF TypeInv, TypeOK, TickInv, Fresh, Listens, OpenChannel, StopCheck, AfterStop, shared, tickers, Live
<1> QED BY <1>2, <1>3 DEF TickInv

\* The one ticker receives the message of stopTicker, and none is left.
LEMMA StopReceivedTick ==
    ASSUME TypeInv, TickInv, NEW t \in Threads, NEW g \in Tickers, StopReceived(t, g)
    PROVE  TickInv' /\ \A h \in Tickers : ~Live(h)'
<1>1. pc[t] \in InRestart /\ \A u \in Threads : pc[u] \in InRestart => u = t
  BY DEF StopReceived, TickInv, Alone, InRestart
<1>2. quitticker = g /\ \A h \in Tickers : Live(h) => h = g
  BY DEF StopReceived, TickInv, Listens, Live
<1>3. \A h \in Tickers : ~Live(h)'
  BY <1>2 DEF StopReceived, Live, TypeInv, TypeOK
<1>4. quitticker # 0 /\ quitticker \notin closed
  BY <1>2 DEF StopReceived, TickInv, Progress
<1>5. Alone' /\ Progress'
  BY <1>1, <1>3, <1>4 DEF TypeInv, TypeOK, TickInv, Alone, Progress, StopReceived, shared, InRestart
<1>6. Fresh' /\ Listens' /\ OpenChannel'
  BY <1>3, <1>4, TickerNumbers DEF TypeInv, TypeOK, TickInv, Fresh, Listens, OpenChannel, StopReceived, shared
<1> QED BY <1>3, <1>5, <1>6 DEF TickInv

\* runTicker starts the only ticker.
LEMMA RunTickerTick ==
    ASSUME TypeInv, TickInv, NEW t \in Threads, RunTicker(t)
    PROVE  TickInv'
<1>1. made + 1 \in Tickers
  BY RunTickerTypes
<1>2. \A u \in Threads : pc[u] \in InRestart => u = t
  BY DEF RunTicker, TickInv, Alone, InRestart
<1>3. quitticker = 0 /\ \A h \in Tickers : ~Live(h)
  BY TickerNumbers DEF RunTicker, TickInv, Progress, Listens
<1>4. Alone' /\ Progress'
  BY <1>2 DEF TypeInv, TypeOK, TickInv, Alone, Progress, RunTicker, InRestart
<1>5. Fresh'
  BY <1>1, TickerNumbers DEF TypeInv, TypeOK, TickInv, Fresh, RunTicker
<1>6. Listens'
  BY <1>1, <1>3 DEF TypeInv, TypeOK, Listens, RunTicker, Live
<1>7. OpenChannel'
  BY <1>1, TickerNumbers DEF TickInv, OpenChannel, Fresh, RunTicker
<1> QED BY <1>4, <1>5, <1>6, <1>7 DEF TickInv

\* The goroutines that run Init, Close and restartTicker keep the invariant.
LEMMA ThreadStepTick ==
    ASSUME "noOverlap" \in Assumed, TypeInv, TickInv, NEW t \in Threads, ThreadStep(t)
    PROVE  TickInv'
<1>1. CASE StopCheck(t)
  BY <1>1, StopCheckTick
<1>2. CASE StopSend(t)
  <2>1. Alone' /\ Progress'
    BY <1>2 DEF TypeInv, TypeOK, TickInv, Alone, Progress, StopSend, shared, tickers, InRestart, Live
  <2>2. Fresh' /\ Listens' /\ OpenChannel'
    BY <1>2 DEF TypeInv, TypeOK, TickInv, Fresh, Listens, OpenChannel, StopSend, shared, tickers, Live
  <2> QED BY <2>1, <2>2 DEF TickInv
<1>3. ASSUME NEW g \in Tickers, StopReceived(t, g)
      PROVE  TickInv'
  BY <1>3, StopReceivedTick
<1>4. CASE StopClose(t)
  <2>1. Alone' /\ Progress'
    BY <1>4 DEF TypeInv, TypeOK, TickInv, Alone, Progress, StopClose, tickers, InRestart, Live
  <2>2. Fresh' /\ Listens'
    BY <1>4, TickerNumbers DEF TypeInv, TypeOK, TickInv, Fresh, Listens, StopClose, tickers, Live
  <2>3. OpenChannel'
    BY <1>4 DEF TypeInv, TypeOK, OpenChannel, StopClose
  <2> QED BY <2>1, <2>2, <2>3 DEF TickInv
<1>5. CASE StopClear(t)
  <2>1. \A u \in Threads : pc[u] \in InRestart => u = t
    BY <1>5 DEF StopClear, TickInv, Alone, InRestart
  <2>2. \A h \in Tickers : ~Live(h)
    BY <1>5 DEF StopClear, TickInv, Progress
  <2>3. Alone' /\ Progress'
    BY <1>5, <2>1 DEF TypeInv, TypeOK, TickInv, Alone, Progress, StopClear, AfterStop, tickers, InRestart, Live
  <2>4. Fresh' /\ Listens'
    BY <1>5, <2>2, TickerNumbers DEF TickInv, Fresh, Listens, StopClear, tickers, Live
  <2>5. OpenChannel'
    BY <1>5 DEF TypeInv, TypeOK, OpenChannel, StopClear, Tickers
  <2> QED BY <2>3, <2>4, <2>5 DEF TickInv
<1>6. CASE RunTicker(t)
  BY <1>6, RunTickerTick
<1>7. CASE InitLock(t) \/ Loaded(t) \/ CloseDone(t)
  <2>1. Alone' /\ Progress'
    BY <1>7 DEF TypeInv, TypeOK, TickInv, Alone, Progress, InitLock, Loaded, CloseDone, shared, tickers, InRestart, Live
  <2>2. Fresh' /\ Listens' /\ OpenChannel'
    BY <1>7 DEF TypeInv, TypeOK, TickInv, Fresh, Listens, OpenChannel, InitLock, Loaded, CloseDone, shared, tickers, Live
  <2> QED BY <2>1, <2>2 DEF TickInv
<1> QED BY <1>1, <1>2, <1>3, <1>4, <1>5, <1>6, <1>7 DEF ThreadStep

\* A ticker that is gone stays so, and one that runs evaluates quitticker.
LEMMA TickerStepTick ==
    ASSUME TypeInv, TickInv, NEW g \in Tickers, TickerStep(g)
    PROVE  TickInv'
<1>1. UNCHANGED <<shared, threads, onlog>>
  BY DEF TickerStep, TickStart, TickSelect, TickFire, TickQuit, OnTick, OnTickReturns
<1>2. /\ \A h \in Tickers : Live(h)' => Live(h)
      /\ tpc[g] # "none" /\ \A h \in Tickers \ {g} : tpc'[h] = tpc[h]
  BY DEF TypeInv, TypeOK, Live, TickerStep, TickStart, TickSelect, TickFire, TickQuit, OnTick, OnTickReturns
<1>3. Listens'
  BY <1>1, <1>2 DEF TypeInv, TypeOK, TickInv, Listens, Live, shared, TickerStep, TickStart, TickSelect,
     TickFire, TickQuit, OnTick, OnTickReturns
<1>4. Alone' /\ Progress' /\ OpenChannel'
  BY <1>1, <1>2 DEF TickInv, Alone, Progress, OpenChannel, shared, threads
<1>5. Fresh'
  BY <1>1, <1>2 DEF TickInv, Fresh, shared
<1> QED BY <1>3, <1>4, <1>5 DEF TickInv

\* Every step keeps the invariant.
LEMMA NextTick ==
    ASSUME "noOverlap" \in Assumed
    PROVE  TypeInv /\ TickInv /\ [Next]_vars => TickInv'
<1> SUFFICES ASSUME TypeInv, TickInv, [Next]_vars PROVE TickInv'
  OBVIOUS
<1> USE ThreadFacts
<1>1. ASSUME NEW r \in Restarters, SetTick(r)
      PROVE  TickInv'
  <2>1. Alone' /\ Progress'
    BY <1>1 DEF TypeInv, TypeOK, TickInv, Alone, Progress, SetTick, tickers, InRestart, Live
  <2>2. Fresh' /\ Listens' /\ OpenChannel'
    BY <1>1 DEF TypeInv, TypeOK, TickInv, Fresh, Listens, OpenChannel, SetTick, tickers, Live
  <2> QED BY <2>1, <2>2 DEF TickInv
<1>2. CASE PipelineStep \/ CallOnLog \/ UNCHANGED vars
  <2>1. UNCHANGED <<shared, tickers, threads>>
    BY <1>2 DEF PipelineStep, OnLog, OnLogReturns, CallOnLog, vars
  <2> QED BY <2>1 DEF TickInv, Alone, Fresh, Listens, Progress, OpenChannel, Live, shared, tickers, threads
<1>3. CASE HandleSignal \/ CallOnSignal \/ Exit
  <2>1. Alone' /\ Progress'
    BY <1>3 DEF TypeInv, TypeOK, TickInv, Alone, Progress, HandleSignal, Profile, Reload, CallOnSignal, Exit,
       shared, tickers, InRestart, Live
  <2>2. pc["signal"] # "clear" \/ pc'["signal"] = pc["signal"]
    BY <1>3 DEF TypeInv, Roles, Jobs, HandleSignal, Profile, Reload, CallOnSignal, Exit, Reloading, TypeOK
  <2>3. pc["main"] # "clear" \/ pc'["main"] = pc["main"]
    BY <1>3 DEF TypeInv, Roles, Jobs, HandleSignal, Profile, Reload, CallOnSignal, Exit, TypeOK
  <2>4. Fresh' /\ Listens'
    BY <1>3 DEF TypeInv, TypeOK, TickInv, Fresh, Listens, HandleSignal, Profile, Reload, CallOnSignal, Exit, shared, tickers, Live
  <2>5. OpenChannel'
    BY <1>3, <2>2, <2>3 DEF TypeInv, TypeOK, TickInv, OpenChannel, HandleSignal, Profile, Reload, CallOnSignal, Exit, shared, tickers
  <2> QED BY <2>1, <2>4, <2>5 DEF TickInv
<1> QED BY <1>1, <1>2, <1>3, ThreadStepTick, TickerStepTick DEF Next, Exited

\* If no two restarts overlap there is one ticker at most, for any number of
\* signals and of config_set calls, whichever hooks make them (lua.go:80-92).
THEOREM AtMostOneTicker ==
    ASSUME "noOverlap" \in Assumed
    PROVE  Spec => []OneTicker
<1>1. TypeInv /\ TickInv => OneTicker
  BY TickerNumbers DEF TickInv, Listens, OneTicker
<1>2. Init => TypeInv /\ TickInv
  BY InitTypes, InitTick
<1>3. TypeInv /\ TickInv /\ [Next]_vars => TypeInv' /\ TickInv'
  BY NextTypes, NextTick
<1> QED BY <1>1, <1>2, <1>3, PTL DEF Spec
-----------------------------------------------------------------------------
(* No panic *)

\* tick is positive once a ticker is about to be started.
Positive ==
    /\ \A t \in Threads :
          job[t] = "restart" \/ (job[t] = "init" /\ pc[t] \notin {"lock", "load"}) => tick
    /\ \A g \in Tickers : Live(g) => tick

\* From the stop of the last ticker to the end of Init no tick is under way, and
\* while a signal is handled no log is.
Calm ==
    /\ ~Started => \A g \in Tickers : tpc[g] \notin {"want", "hook"}
    /\ job["signal"] = "init" \/ (job["signal"] = "close" /\ pc["signal"] \in {"close", "clear", "stopped"})
          => \A g \in Tickers : tpc[g] \notin {"want", "hook"}
    /\ onlog \in {"want", "hook"} => Started /\ ~Reloading
    /\ onlog = "over" <=> job["main"] = "close"
    /\ ~Started \/ onlog = "over" => ~Reloading

\* The sandbox has no state only while Init has yet to take luaLock.
NoState ==
    ~state /\ Running => \E t \in Lifecycle : pc[t] = "lock"

PanicInv == Positive /\ Calm /\ NoState

\* Nothing is under way when main starts.
LEMMA InitPanic == Init => PanicInv
  BY ThreadFacts DEF Init, PanicInv, Positive, Calm, NoState, Started, Reloading, Live, Lifecycle

\* tick stays positive.
LEMMA NextPositive ==
    ASSUME TypeInv, Positive, [Next]_vars
    PROVE  Positive'
<1> USE ThreadFacts DEF Positive, Live
<1>1. ASSUME NEW t \in Threads, ThreadStep(t)
      PROVE  Positive'
  <2>1. tick' = tick
    BY <1>1 DEF ThreadStep, StopCheck, StopSend, StopReceived, StopClose, StopClear, RunTicker, InitLock,
       Loaded, CloseDone, shared
  <2>2. CASE RunTicker(t)
    BY <2>1, <2>2 DEF RunTicker, TypeInv, TypeOK, Roles, Jobs, Threads
  <2>3. CASE StopCheck(t) \/ StopSend(t) \/ StopClose(t) \/ StopClear(t)
    BY <2>1, <2>3 DEF StopCheck, StopSend, StopClose, StopClear, AfterStop, TypeInv, TypeOK, shared, tickers
  <2>4. ASSUME NEW g \in Tickers, StopReceived(t, g)
        PROVE  Positive'
    BY <2>1, <2>4 DEF StopReceived, TypeInv, TypeOK, shared
  <2>5. CASE InitLock(t) \/ Loaded(t) \/ CloseDone(t)
    BY <2>1, <2>5 DEF InitLock, Loaded, CloseDone, TypeInv, TypeOK, Roles, shared, tickers
  <2> QED BY <1>1, <2>2, <2>3, <2>4, <2>5 DEF ThreadStep
<1>2. ASSUME NEW g \in Tickers, TickerStep(g)
      PROVE  Positive'
  BY <1>2 DEF TickerStep, TickStart, TickSelect, TickFire, TickQuit, OnTick, OnTickReturns, shared, threads,
     TypeInv, TypeOK
<1>3. ASSUME NEW r \in Restarters, SetTick(r)
      PROVE  Positive'
  BY <1>3 DEF SetTick, TypeInv, TypeOK, tickers
<1>4. CASE PipelineStep \/ CallOnLog \/ UNCHANGED vars
  BY <1>4 DEF PipelineStep, OnLog, OnLogReturns, CallOnLog, vars, shared, tickers, threads
<1>5. CASE HandleSignal \/ CallOnSignal \/ Exit
  BY <1>5 DEF HandleSignal, Profile, Reload, CallOnSignal, Exit, TypeInv, TypeOK, shared, tickers
<1> QED BY <1>1, <1>2, <1>3, <1>4, <1>5 DEF Next, Exited

\* l.state is nil only between a Close and the Init that follows it.
LEMMA NextNoState ==
    ASSUME TypeInv, NoState, [Next]_vars
    PROVE  NoState'
<1> USE ThreadFacts DEF NoState, Running, Lifecycle
<1>1. ASSUME NEW t \in Threads, ThreadStep(t)
      PROVE  NoState'
  <2>1. CASE CloseDone(t)
    BY <2>1 DEF CloseDone, TypeInv, TypeOK, Roles, Threads
  <2>2. CASE InitLock(t)
    BY <2>2 DEF InitLock
  <2>3. CASE StopCheck(t) \/ StopSend(t) \/ StopClose(t) \/ StopClear(t) \/ RunTicker(t) \/ Loaded(t)
    BY <2>3 DEF StopCheck, StopSend, StopClose, StopClear, RunTicker, Loaded, AfterStop, TypeInv, TypeOK, shared
  <2>4. ASSUME NEW g \in Tickers, StopReceived(t, g)
        PROVE  NoState'
    BY <2>4 DEF StopReceived, TypeInv, TypeOK, shared
  <2> QED BY <1>1, <2>1, <2>2, <2>3, <2>4 DEF ThreadStep
<1>2. ASSUME NEW g \in Tickers, TickerStep(g)
      PROVE  NoState'
  BY <1>2 DEF TickerStep, TickStart, TickSelect, TickFire, TickQuit, OnTick, OnTickReturns, shared, threads
<1>3. ASSUME NEW r \in Restarters, SetTick(r)
      PROVE  NoState'
  BY <1>3 DEF SetTick, TypeInv, TypeOK
<1>4. CASE PipelineStep \/ CallOnLog \/ UNCHANGED vars
  BY <1>4 DEF PipelineStep, OnLog, OnLogReturns, CallOnLog, vars, shared, threads
<1>5. CASE HandleSignal \/ CallOnSignal \/ Exit
  BY <1>5 DEF HandleSignal, Profile, Reload, CallOnSignal, Exit, Reloading, TypeInv, TypeOK, Roles, Jobs, shared
<1> QED BY <1>1, <1>2, <1>3, <1>4, <1>5 DEF Next, Exited

\* No tick survives the stopTicker of a reload, and none is fired before the Init
\* of the reload has returned.
LEMMA ThreadStepCalm ==
    ASSUME "noOverlap" \in Assumed, TypeInv, TickInv, Calm, NEW t \in Threads, ThreadStep(t)
    PROVE  Calm'
<1> USE ThreadFacts DEF Calm, Started, Reloading
<1>1. CASE StopCheck(t)
  <2>1. quitticker = 0 => \A g \in Tickers : tpc[g] \notin {"want", "hook"}
    BY TickerNumbers DEF TickInv, Listens, Live
  <2> QED BY <1>1, <2>1 DEF StopCheck, AfterStop, TypeInv, TypeOK, shared, tickers
<1>2. CASE StopSend(t) \/ Loaded(t) \/ InitLock(t)
  BY <1>2 DEF StopSend, Loaded, InitLock, TypeInv, TypeOK, Roles, shared, tickers
<1>3. ASSUME NEW g \in Tickers, StopReceived(t, g)
      PROVE  Calm'
  <2>1. \A h \in Tickers : tpc'[h] \notin {"want", "hook"}
    BY <1>3, StopReceivedTick DEF Live
  <2> QED BY <1>3, <2>1 DEF StopReceived, TypeInv, TypeOK, shared
<1>4. CASE StopClose(t) \/ StopClear(t)
  BY <1>4 DEF StopClose, StopClear, AfterStop, TypeInv, TypeOK, tickers
<1>5. CASE RunTicker(t)
  <2>1. \A g \in Tickers : tpc[g] \notin {"want", "hook"} /\ tpc'[g] \notin {"want", "hook"}
    BY <1>5, TickerNumbers, RunTickerTypes DEF TickInv, Progress, Listens, Live, RunTicker, TypeInv, TypeOK
  <2>2. job[t] # "close"
    BY <1>5 DEF TypeInv, Jobs, RunTicker
  <2> QED BY <1>5, <2>1, <2>2 DEF RunTicker, TypeInv, TypeOK, Lifecycle
<1>6. CASE CloseDone(t)
  BY <1>6 DEF CloseDone, TypeInv, TypeOK, Roles, tickers, Threads, Lifecycle
<1> QED BY <1>1, <1>2, <1>3, <1>4, <1>5, <1>6 DEF ThreadStep

\* Every step keeps it.
LEMMA NextCalm ==
    ASSUME {"noOverlap", "lateTicks", "quietReload"} \subseteq Assumed, TypeInv, TickInv, Calm, [Next]_vars
    PROVE  Calm'
<1> USE ThreadFacts DEF Calm, Started, Reloading
<1>1. ASSUME NEW t \in Threads, ThreadStep(t)
      PROVE  Calm'
  BY <1>1, ThreadStepCalm
<1>2. ASSUME NEW g \in Tickers, TickerStep(g)
      PROVE  Calm'
  <2>1. CASE TickFire(g)
    BY <2>1 DEF TickFire, shared, threads, TypeInv, TypeOK
  <2>2. CASE OnTick(g)
    BY <2>2 DEF OnTick, shared, threads, TypeInv, TypeOK
  <2>3. CASE TickStart(g) \/ TickSelect(g) \/ TickQuit(g) \/ OnTickReturns(g)
    BY <2>3 DEF TickStart, TickSelect, TickQuit, OnTickReturns, shared, threads, TypeInv, TypeOK
  <2> QED BY <1>2, <2>1, <2>2, <2>3 DEF TickerStep
<1>3. ASSUME NEW r \in Restarters, SetTick(r)
      PROVE  Calm'
  BY <1>3 DEF SetTick, TypeInv, TypeOK, tickers, Lifecycle
<1>4. CASE PipelineStep \/ CallOnLog \/ UNCHANGED vars
  BY <1>4 DEF PipelineStep, OnLog, OnLogReturns, CallOnLog, vars, shared, tickers, threads
<1>5. CASE HandleSignal \/ CallOnSignal
  BY <1>5 DEF HandleSignal, Profile, Reload, CallOnSignal, TypeInv, TypeOK, Roles, Jobs, shared, tickers
<1>6. CASE Exit
  BY <1>6 DEF Exit, TypeInv, TypeOK, shared, tickers
<1> QED BY <1>1, <1>2, <1>3, <1>4, <1>5, <1>6 DEF Next, Exited

\* If restarts do not overlap, no tick fires during an Init and the pipeline is
\* quiet during a reload, nothing is sent on or closed twice, no ticker starts with
\* an interval of 0 and no hook meets a nil l.state (lua.go:80-162, :364-447).
THEOREM PanicFree ==
    ASSUME {"noOverlap", "lateTicks", "quietReload"} \subseteq Assumed
    PROVE  Spec => []NoPanic
<1> DEFINE IInv == TypeInv /\ TickInv /\ PanicInv
<1>1. Init => IInv
  BY InitTypes, InitTick, InitPanic
<1>2. IInv /\ [Next]_vars => IInv'
  BY NextTypes, NextTick, NextPositive, NextCalm, NextNoState DEF PanicInv
<1>3. IInv => NoPanic
  <2> SUFFICES ASSUME IInv, Running
               PROVE  /\ \A g \in Tickers : tpc[g] = "start" => tick
                      /\ \A t \in Threads : pc[t] = "wait" => chan[t] \notin closed
                      /\ \A t \in Threads : pc[t] = "close" => quitticker \notin closed \cup {0}
                      /\ ~state => onlog # "want" /\ \A g \in Tickers : tpc[g] # "want"
    BY DEF NoPanic, PanicNext
  <2>1. \A g \in Tickers : tpc[g] = "start" => tick
    BY DEF PanicInv, Positive, Live
  <2>2. \A t \in Threads : pc[t] \in InRestart /\ pc[t] # "clear" => quitticker \notin closed
    BY DEF TickInv, OpenChannel, Alone, InRestart
  <2>3. \A t \in Threads : /\ pc[t] = "wait" => chan[t] \notin closed
                           /\ pc[t] = "close" => quitticker \notin closed \cup {0}
    BY <2>2 DEF TickInv, Progress, InRestart
  <2>4. ~state => onlog # "want" /\ \A g \in Tickers : tpc[g] # "want"
    BY ThreadFacts DEF PanicInv, NoState, Calm, TypeInv, Roles, Started, Reloading, Lifecycle
  <2> QED BY <2>1, <2>3, <2>4
<1> QED BY <1>1, <1>2, <1>3, PTL DEF Spec
=============================================================================
