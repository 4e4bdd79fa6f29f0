---------------------------- MODULE ProgramProofs ----------------------------
(***************************************************************************)
(* Proofs about the pipeline and the exit of the program, for inputs,      *)
(* reads, signals, ticks and passes of any number: every log is handled    *)
(* once and in order, an exit status of 0 and a panic on a closed channel  *)
(* mean that all were, and the Lua stack lasts for half as many protected  *)
(* calls as it has slots.                                                  *)
(***************************************************************************)
EXTENDS Program, TLAPS

\* The type invariant in three parts: the flags, the Lua stack and all the rest.
Flags == latched \in BOOLEAN /\ protected \in BOOLEAN /\ full \in BOOLEAN

Types ==
    /\ mode \in Modes
    /\ main \in MainSteps
    /\ status \in {None, 0, 1, 2} /\ died \in Deaths
    /\ pipe \in {"start", "read", "call", "report", "done"}
    /\ next \in 1 .. MaxLogs + 1
    /\ logs \in Seq(Logs) /\ at \in 1 .. Len(logs) + 1
    /\ pass \in 0 .. Iterations
    /\ err \in {"none", "eof", "read", "undefined", "other"}
    /\ handled \in Seq(Logs)
    /\ handler \in {"idle", "usr1", "usr2", "report", "ended"}
    /\ sigs \in 0 .. MaxSignals
    /\ ticks \in 0 .. MaxTicks

\* What the pipeline has read, has in hand and has handled fit together.
Account ==
    /\ pipe \in {"start", "read"} => logs = <<>> /\ at = 1
    /\ mode = "script" =>
          /\ Len(handled) + Len(logs) = next + at - 2
          /\ \A k \in 1 .. Len(handled) : handled[k] = k
          /\ \A j \in 1 .. Len(logs) : logs[j] = next - 1 - Len(logs) + j

\* Why the pipeline ended, and what that says about its input.
Reasons ==
    /\ pipe \in {"start", "read", "call"} => err = "none"
    /\ mode # "script" /\ pipe \in {"start", "read", "call"} => pass < Iterations
    /\ mode # "script" /\ pipe \in {"report", "done"} /\ err = "none" => pass = Iterations
    /\ mode = "script" /\ pipe \in {"report", "done"} => err # "none"
    /\ err = "eof" => mode = "script" /\ next = MaxLogs + 1 /\ logs = <<>> /\ at = 1

\* main leaves after the pipeline reported that nothing failed.
Leaves ==
    /\ main \notin {"setup", "waiting", "gone"} \/ status = 0
          => pipe = "done" /\ err \in {"none", "eof"}
    /\ died = "closed channel" => pipe = "done" /\ err \in {"none", "eof"}
    /\ died # "no" => status = 2

Inv == Types /\ Account /\ Reasons /\ Leaves

\* The invariant holds when the script is loaded.
LEMMA InitInv == Init => Inv
<1> SUFFICES ASSUME Init PROVE Inv
  OBVIOUS
<1> USE ProgramAssumption DEF Init
<1>1. Types
  BY DEF Types, Logs, MainSteps, Deaths
<1>2. Account /\ Reasons
  BY DEF Account, Reasons
<1>3. Leaves
  BY DEF Leaves
<1> QED
  BY <1>1, <1>2, <1>3 DEF Inv

USE DEF alive, ended, input, pipeline, script, stack, Live, Die, Fail, Step, inCall, signalsClosed, exitClosed

\* A program that runs has no exit status.
LEMMA NoStatus == None # 0 /\ None # 1 /\ None # 2
  BY ProgramAssumption

Ticks == callOnTick \/ callProtectedOnTick

Others == Main \/ Handler \/ Ticks \/ SetProtected \/ runPprofServer \/ \E s \in {"usr1", "usr2"} : Signal(s)

\* main, the goroutine of the signals, the ticker, config_set and the profile server
\* leave the pipeline alone.
LEMMA OthersKeep ==
    ASSUME Others
    PROVE  UNCHANGED <<mode, pipe, latched, next, logs, at, pass, err, handled>>
<1>1. Main => UNCHANGED <<mode, pipe, latched, next, logs, at, pass, err, handled>>
  BY DEF Main, Ready, CloseSignals, CloseReader, CloseExit, CloseSandbox
<1>2. Handler => UNCHANGED <<mode, pipe, latched, next, logs, at, pass, err, handled>>
  BY DEF Handler, Reload, Profile, ReportProfile, HandlerEnds
<1> QED
  BY <1>1, <1>2 DEF Others, Ticks, callOnTick, callProtectedOnTick, tick, SetProtected,
     runPprofServer, Signal

\* What may become of a program that runs, in a step that does not end it with 0.
Fates ==
    \/ UNCHANGED <<main, status, died>>
    \/ main' = "gone" /\ status' = 1 /\ died' = died
    \/ /\ main' = "gone" /\ status' = 2 /\ died' \in Deaths
       /\ died' = "closed channel" => signalsClosed

\* Whoever sends an error ends the program, one way or the other.
LEMMA SendErrorEnds == SendError => Fates
  BY DEF SendError, Fates, Deaths

\* The end of the program keeps what is known about main.
LEMMA FatesKeep ==
    ASSUME Types, Leaves, alive, Fates, UNCHANGED <<pipe, err>>
    PROVE  main' \in MainSteps /\ status' \in {None, 0, 1, 2} /\ died' \in Deaths /\ Leaves'
<1>1. CASE UNCHANGED <<main, status, died>>
  BY <1>1 DEF Types, Leaves
<1>2. CASE main' = "gone" /\ status' = 1 /\ died' = died
  <2>1. died = "no"
    BY NoStatus DEF Leaves
  <2> QED
    BY <1>2, <2>1 DEF Leaves, MainSteps, Deaths
<1>3. CASE /\ main' = "gone" /\ status' = 2 /\ died' \in Deaths
           /\ died' = "closed channel" => signalsClosed
  <2>1. signalsClosed => pipe = "done" /\ err \in {"none", "eof"}
    BY DEF Leaves
  <2>2. /\ main' = "gone" /\ status' = 2 /\ pipe' = pipe /\ err' = err
        /\ died' = "closed channel" => pipe = "done" /\ err \in {"none", "eof"}
    BY <1>3, <2>1
  <2>3. Leaves'
    <3>1. main' = "gone" /\ status' = 2
      BY <2>2
    <3>2. main' \in {"setup", "waiting", "gone"} /\ status' # 0
      BY <3>1
    <3>3. died' = "closed channel" => pipe' = "done" /\ err' \in {"none", "eof"}
      BY <2>2
    <3> QED
      BY <3>1, <3>2, <3>3, Zenon DEF Leaves
  <2> QED
    BY <1>3, <2>3 DEF MainSteps
<1> QED
  BY <1>1, <1>2, <1>3 DEF Fates

\* They keep the invariant.
LEMMA OthersInv ==
    ASSUME Inv, Others
    PROVE  Inv'
<1> USE DEF Inv
<1> DEFINE Rest == /\ handler' \in {"idle", "usr1", "usr2", "report", "ended"}
                   /\ sigs' \in 0 .. MaxSignals
                   /\ ticks' \in 0 .. MaxTicks
           Ends == /\ main' \in MainSteps /\ status' \in {None, 0, 1, 2} /\ died' \in Deaths
                   /\ Leaves'
<1>1. Account' /\ Reasons'
  BY OthersKeep DEF Account, Reasons
<1>2. UNCHANGED <<pipe, err>>
  BY OthersKeep
<1>3. Rest /\ Ends
  <2>1. CASE Main
    BY <2>1, <1>2, NoStatus
    DEF Types, Leaves, MainSteps, Main, Ready, CloseSignals, CloseReader, CloseExit, CloseSandbox
  <2>2. CASE Reload
    <3>1. /\ alive /\ handler' = "idle" /\ sigs' = sigs /\ ticks' = ticks
          /\ Live \/ Die("reload")
      BY <2>2 DEF Reload
    <3>2. Fates
      BY <3>1 DEF Fates, Deaths
    <3> QED
      BY <3>1, <3>2, <1>2, FatesKeep, ProgramAssumption DEF Types
  <2>3. CASE HandlerEnds
    BY <2>3, <1>2 DEF HandlerEnds, Types, Leaves
  <2>8. CASE Profile
    <3>1. /\ alive /\ handler' \in {"idle", "report"} /\ sigs' = sigs /\ ticks' = ticks
          /\ Live \/ Fail
      BY <2>8 DEF Profile
    <3>2. Fates
      BY <3>1 DEF Fates
    <3> QED
      BY <3>1, <3>2, <1>2, FatesKeep DEF Types
  <2>9. CASE Ticks
    <3>1. /\ alive /\ ticks < MaxTicks /\ ticks' = ticks + 1 /\ UNCHANGED <<handler, sigs>>
          /\ Live \/ Die("on_tick")
      BY <2>9 DEF Ticks, callOnTick, callProtectedOnTick, tick
    <3>2. Fates
      BY <3>1 DEF Fates, Deaths
    <3>3. ticks' \in 0 .. MaxTicks
      BY <3>1, ProgramAssumption DEF Types
    <3>4. handler' \in {"idle", "usr1", "usr2", "report", "ended"} /\ sigs' \in 0 .. MaxSignals
      BY <3>1 DEF Types
    <3> QED
      BY <3>1, <3>2, <3>3, <3>4, <1>2, FatesKeep
  <2>4. CASE ReportProfile
    BY <2>4, <1>2, SendErrorEnds, FatesKeep DEF ReportProfile, Types
  <2>5. CASE SetProtected
    BY <2>5, <1>2 DEF SetProtected, Types, Leaves
  <2>6. CASE runPprofServer
    BY <2>6, <1>2, SendErrorEnds, FatesKeep DEF runPprofServer, Types
  <2>7. ASSUME NEW s \in {"usr1", "usr2"}, Signal(s)
        PROVE  Rest /\ Ends
    <3>1. sigs < MaxSignals /\ sigs' = sigs + 1 /\ ticks' = ticks
      BY <2>7 DEF Signal
    <3>2. alive /\ handler' \in {s, handler} /\ (Live \/ (signalsClosed /\ Die("closed channel")))
      BY <2>7 DEF Signal
    <3>3. Fates
      BY <3>2 DEF Fates, Deaths
    <3>4. handler' \in {"idle", "usr1", "usr2", "report", "ended"}
      BY <3>2 DEF Types
    <3>5. sigs \in 0 .. MaxSignals /\ ticks \in 0 .. MaxTicks
      BY DEF Types
    <3>6. sigs' \in 0 .. MaxSignals /\ ticks' \in 0 .. MaxTicks
      BY <3>1, <3>5, ProgramAssumption
    <3> QED
      BY <3>2, <3>3, <3>4, <3>6, <1>2, FatesKeep
  <2> QED
    BY <2>1, <2>2, <2>3, <2>4, <2>5, <2>6, <2>7, <2>8, <2>9 DEF Others, Handler
<1>4. Types'
  BY <1>3, OthersKeep DEF Types
<1> QED
  BY <1>1, <1>3, <1>4

\* A read appends the logs that come next.
LEMMA ReadLogsInv ==
    ASSUME Inv, ReadLogs
    PROVE  Inv'
<1> USE ProgramAssumption DEF Inv
<1>1. PICK k \in 0 .. MaxBatch :
         /\ next + k <= MaxLogs + 1
         /\ logs' = logs \o [j \in 1 .. k |-> next + j - 1]
         /\ next' = next + k
  BY DEF ReadLogs
<1>2. /\ mode' = mode /\ main' = main /\ status' = status /\ died' = died /\ pass' = pass
      /\ err' = err /\ handled' = handled /\ handler' = handler /\ sigs' = sigs /\ ticks' = ticks
      /\ pipe = "read" /\ at' = 1 /\ pipe' = "call" /\ mode = "script"
  BY DEF ReadLogs
<1>3. logs = <<>> /\ at = 1 /\ next \in Nat
  BY <1>2 DEF Account, Types
<1> DEFINE new == [j \in 1 .. k |-> next + j - 1]
<1>4. new \in Seq(Logs) /\ Len(new) = k /\ \A j \in 1 .. k : new[j] = next + j - 1
  <2>1. \A j \in 1 .. k : next + j - 1 \in Logs
    BY <1>1 DEF Types, Logs
  <2> QED
    BY <1>1, <2>1
<1>5. logs' = new
  BY <1>1, <1>3, <1>4
<1> HIDE DEF new
<1>6. Types'
  <2>1. next \in 1 .. MaxLogs + 1
    BY DEF Types
  <2>2. next' \in 1 .. MaxLogs + 1
    BY <1>1, <2>1
  <2>3. logs' \in Seq(Logs) /\ at' \in 1 .. Len(logs') + 1
    BY <1>2, <1>4, <1>5
  <2> QED
    BY <1>2, <2>2, <2>3 DEF Types
<1>7. Account'
  <2>1. Len(handled) = next - 1 /\ \A j \in 1 .. Len(handled) : handled[j] = j
    BY <1>2, <1>3 DEF Account, Types
  <2>2. /\ Len(handled') + Len(logs') = next' + at' - 2
        /\ \A j \in 1 .. Len(handled') : handled'[j] = j
    BY <1>1, <1>2, <1>3, <1>4, <1>5, <2>1
  <2>3. \A j \in 1 .. Len(logs') : logs'[j] = next' - 1 - Len(logs') + j
    BY <1>1, <1>3, <1>4, <1>5
  <2> QED
    BY <1>2, <2>2, <2>3 DEF Account
<1>8. Reasons' /\ Leaves'
  BY <1>2 DEF Reasons, Leaves
<1> QED
  BY <1>6, <1>7, <1>8

\* A log that was handled is the next one of those in hand.
LEMMA CalledKeeps ==
    ASSUME Types, Account, Called, pipe = "call", at <= Len(logs), UNCHANGED <<mode, next, logs>>
    PROVE  handled' \in Seq(Logs) /\ at' \in 1 .. Len(logs') + 1 /\ Account'
<1>1. logs \in Seq(Logs) /\ handled \in Seq(Logs) /\ at \in 1 .. Len(logs) + 1 /\ next \in Nat
  BY ProgramAssumption DEF Types
<1>2. /\ handled' = Append(handled, logs[at]) /\ at' = at + 1 /\ pipe' = "call"
      /\ logs' = logs /\ next' = next /\ mode' = mode
  BY DEF Called
<1>3. at \in 1 .. Len(logs) /\ logs[at] \in Logs
  BY <1>1
<1>4. handled' \in Seq(Logs) /\ at' \in 1 .. Len(logs') + 1
  BY <1>1, <1>2, <1>3
<1>5. ASSUME mode = "script"
      PROVE  /\ Len(handled') + Len(logs') = next' + at' - 2
             /\ \A k \in 1 .. Len(handled') : handled'[k] = k
             /\ \A j \in 1 .. Len(logs') : logs'[j] = next' - 1 - Len(logs') + j
  <2>1. /\ Len(handled) + Len(logs) = next + at - 2
        /\ \A k \in 1 .. Len(handled) : handled[k] = k
        /\ \A j \in 1 .. Len(logs) : logs[j] = next - 1 - Len(logs) + j
    BY <1>5 DEF Account
  <2>2. logs[at] = Len(handled) + 1
    BY <1>1, <1>3, <2>1
  <2>3. Len(handled') = Len(handled) + 1
    BY <1>1, <1>2, <1>3
  <2>4. \A k \in 1 .. Len(handled') : handled'[k] = k
    BY <1>1, <1>2, <1>3, <2>1, <2>2, <2>3
  <2> QED
    BY <1>1, <1>2, <2>1, <2>3, <2>4
<1> QED
  BY <1>2, <1>4, <1>5 DEF Account

\* A call that fails ends the pipeline, or is skipped by a benchmark.
LEMMA CallFailedKeeps ==
    ASSUME Types, Account, Reasons, NEW e \in {"undefined", "other"}, CallFailed(e), pipe = "call",
           at <= Len(logs), UNCHANGED <<mode, next, logs, pass>>
    PROVE  /\ handled' \in Seq(Logs) /\ at' \in 1 .. Len(logs') + 1
           /\ pipe' \in {"call", "report"} /\ err' \in {"none", "undefined", "other"}
           /\ Account' /\ Reasons'
<1>1. logs \in Seq(Logs) /\ handled \in Seq(Logs) /\ at \in 1 .. Len(logs) + 1 /\ err = "none"
  BY DEF Types, Reasons
<1>2. CASE mode = "script"
  <2>1. pipe' = "report" /\ err' = e /\ at' = at /\ handled' = handled
    BY <1>2 DEF CallFailed
  <2> QED
    BY <1>1, <1>2, <2>1 DEF Account, Reasons
<1>3. CASE mode # "script"
  <2>1. pipe' = pipe /\ err' = err /\ at' = at + 1 /\ handled' = handled
    BY <1>3 DEF CallFailed
  <2>2. at' \in 1 .. Len(logs') + 1
    BY <1>1, <2>1
  <2> QED
    BY <1>1, <1>3, <2>1, <2>2 DEF Account, Reasons
<1> QED
  BY <1>2, <1>3

\* A call of on_log handles the log, fails, or ends the program.
Outcomes ==
    \/ Called /\ Live
    \/ \E e \in {"undefined", "other"} : CallFailed(e) /\ Live
    \/ /\ main' = "gone" /\ status' = 2 /\ died' \in {"on_log", "on_error"}
       /\ UNCHANGED <<at, pipe, err, handled>>

\* Whichever it is, the invariant is kept.
LEMMA OutcomesInv ==
    ASSUME Inv, inCall, Outcomes, UNCHANGED <<mode, next, logs, pass, handler, sigs, ticks>>
    PROVE  Inv'
<1> USE DEF Inv
<1>1. CASE Called /\ Live
  <2>1. handled' \in Seq(Logs) /\ at' \in 1 .. Len(logs') + 1 /\ Account'
    BY <1>1, CalledKeeps
  <2>2. UNCHANGED <<pipe, err, main, status, died>>
    BY <1>1 DEF Called
  <2>3. Reasons'
    BY <2>2 DEF Reasons
  <2>4. Types'
    BY <2>1, <2>2 DEF Types
  <2>5. Leaves'
    BY <2>2 DEF Leaves
  <2> QED
    BY <2>1, <2>3, <2>4, <2>5
<1>2. ASSUME NEW e \in {"undefined", "other"}, CallFailed(e), Live
      PROVE  Inv'
  <2>1. /\ handled' \in Seq(Logs) /\ at' \in 1 .. Len(logs') + 1
        /\ pipe' \in {"call", "report"} /\ err' \in {"none", "undefined", "other"}
        /\ Account' /\ Reasons'
    BY <1>2, CallFailedKeeps
  <2>2. main \in {"setup", "waiting", "gone"} /\ status # 0 /\ died # "closed channel"
    BY DEF Leaves, Types
  <2>3. Leaves'
    BY <1>2, <2>2 DEF Leaves
  <2>4. Types'
    BY <1>2, <2>1 DEF Types
  <2> QED
    BY <2>1, <2>3, <2>4
<1>3. CASE /\ main' = "gone" /\ status' = 2 /\ died' \in {"on_log", "on_error"}
           /\ UNCHANGED <<at, pipe, err, handled>>
  <2>1. main' \in MainSteps /\ status' \in {None, 0, 1, 2} /\ died' \in Deaths /\ Leaves'
    BY <1>3, FatesKeep DEF Fates, Deaths
  <2>2. Types'
    BY <1>3, <2>1 DEF Types
  <2>3. Account' /\ Reasons'
    BY <1>3 DEF Account, Reasons
  <2> QED
    BY <2>1, <2>2, <2>3
<1> QED
  BY <1>1, <1>2, <1>3 DEF Outcomes

\* Both ways to call on_log have these outcomes.
LEMMA CallsInv ==
    ASSUME Inv, CallOnLog \/ ProtectedCallOnLog
    PROVE  Inv'
<1>1. CASE CallOnLog
  <2>1. inCall /\ UNCHANGED <<mode, next, logs, pass, handler, sigs, ticks>>
    BY <1>1 DEF CallOnLog
  <2>2. Outcomes
    BY <1>1 DEF CallOnLog, Outcomes
  <2> QED
    BY <2>1, <2>2, OutcomesInv
<1>2. CASE ProtectedCallOnLog
  <2>1. inCall /\ UNCHANGED <<mode, next, logs, pass, handler, sigs, ticks>>
    BY <1>2 DEF ProtectedCallOnLog
  <2>2. Outcomes
    BY <1>2 DEF ProtectedCallOnLog, Outcomes
  <2> QED
    BY <2>1, <2>2, OutcomesInv
<1> QED
  BY <1>1, <1>2

\* The steps of the pipeline between the calls.
LEMMA PipelineInv ==
    ASSUME Inv, Pipeline
    PROVE  Inv'
<1> USE DEF Inv
<1>1. CASE Latch
  <2>1. /\ UNCHANGED <<mode, main, status, died, next, logs, at, pass, err, handled, handler, sigs, ticks>>
        /\ pipe = "start" /\ pipe' = "read"
    BY <1>1 DEF Latch
  <2> QED
    BY <2>1 DEF Types, Account, Reasons, Leaves
<1>2. CASE ReadLogs
  BY <1>2, ReadLogsInv
<1>3. CASE ReadAll
  <2>1. /\ UNCHANGED <<mode, main, status, died, at, pass, err, handled, handler, sigs, ticks>>
        /\ pipe = "read" /\ pipe' = "call" /\ mode # "script"
        /\ logs' = [j \in Logs |-> j] /\ next' = MaxLogs + 1
    BY <1>3 DEF ReadAll
  <2>2. logs' \in Seq(Logs) /\ Len(logs') = MaxLogs /\ next' \in 1 .. MaxLogs + 1
    BY <2>1, ProgramAssumption DEF Logs
  <2>3. at' \in 1 .. Len(logs') + 1
    BY <2>1, <2>2, ProgramAssumption DEF Account
  <2>4. Types'
    BY <2>1, <2>2, <2>3 DEF Types
  <2>5. Account' /\ Reasons'
    BY <2>1 DEF Account, Reasons
  <2> QED
    BY <2>1, <2>4, <2>5 DEF Leaves
<1>4. CASE ReadEnds
  <2>1. /\ UNCHANGED <<mode, main, status, died, next, logs, at, pass, handled, handler, sigs, ticks>>
        /\ pipe = "read" /\ pipe' = "report" /\ err' \in {"eof", "read"}
        /\ err' = "eof" => mode = "script" /\ next = MaxLogs + 1
    BY <1>4 DEF ReadEnds
  <2>2. Types' /\ Account'
    BY <2>1 DEF Types, Account
  <2>3. Reasons'
    BY <2>1 DEF Account, Reasons
  <2> QED
    BY <2>1, <2>2, <2>3 DEF Leaves
<1>5. CASE CallOnLog \/ ProtectedCallOnLog
  BY <1>5, CallsInv
<1>6. CASE BatchDone
  <2>1. /\ UNCHANGED <<mode, main, status, died, next, pass, err, handled, handler, sigs, ticks>>
        /\ pipe = "call" /\ pipe' = "read" /\ mode = "script" /\ at > Len(logs)
        /\ logs' = <<>> /\ at' = 1
    BY <1>6 DEF BatchDone
  <2>2. logs \in Seq(Logs) /\ handled \in Seq(Logs) /\ at \in 1 .. Len(logs) + 1 /\ next \in Nat
    BY ProgramAssumption DEF Types
  <2>3. Len(handled) = next - 1
    BY <2>1, <2>2 DEF Account
  <2>4. logs' \in Seq(Logs) /\ Len(logs') = 0 /\ at' \in 1 .. Len(logs') + 1
    BY <2>1
  <2>5. Account'
    BY <2>1, <2>2, <2>3, <2>4 DEF Account
  <2>6. Types'
    BY <2>1, <2>4 DEF Types
  <2>7. Reasons' /\ Leaves'
    BY <2>1 DEF Reasons, Leaves
  <2> QED
    BY <2>5, <2>6, <2>7
<1>7. CASE PassDone
  <2>1. /\ UNCHANGED <<mode, main, status, died, next, logs, err, handled, handler, sigs, ticks>>
        /\ pipe = "call" /\ mode # "script" /\ at' = 1 /\ pass' = pass + 1
        /\ pipe' = IF pass' = Iterations THEN "report" ELSE "call"
    BY <1>7 DEF PassDone
  <2>2. pass \in 0 .. Iterations /\ pass < Iterations /\ err = "none"
    BY <2>1 DEF Types, Reasons
  <2>3. pass' \in 0 .. Iterations /\ (pipe' = "call" => pass' < Iterations)
    BY <2>1, <2>2, ProgramAssumption
  <2>4. logs \in Seq(Logs) /\ at' \in 1 .. Len(logs') + 1
    BY <2>1 DEF Types
  <2>5. pipe' \in {"call", "report"} /\ (pipe' = "report" => pass' = Iterations)
    BY <2>1
  <2>6. Types'
    BY <2>1, <2>3, <2>4, <2>5 DEF Types
  <2>7. Account' /\ Reasons'
    BY <2>1, <2>2, <2>3, <2>5 DEF Account, Reasons
  <2>8. main \in {"setup", "waiting", "gone"} /\ status # 0 /\ died # "closed channel"
    BY <2>1 DEF Leaves, Types
  <2>9. Leaves'
    BY <2>1, <2>8 DEF Leaves
  <2> QED
    BY <2>6, <2>7, <2>9
<1>8. CASE Report
  <2>1. /\ UNCHANGED <<mode, next, logs, at, pass, err, handled, handler, sigs, ticks>>
        /\ alive /\ pipe = "report" /\ pipe' = "done" /\ main = "waiting"
        /\ IF err \in {"none", "eof"}
           THEN main' = "closeSignals" /\ UNCHANGED <<status, died>> ELSE Fail
    BY <1>8 DEF Report
  <2>2. Account' /\ Reasons'
    BY <2>1 DEF Account, Reasons
  <2>3. main' \in MainSteps /\ status' \in {None, 0, 1, 2} /\ died' \in Deaths /\ Leaves'
    <3>1. died = "no" /\ died' = "no"
      BY <2>1, NoStatus DEF Leaves
    <3> QED
      BY <2>1, <3>1, NoStatus DEF Leaves, MainSteps, Deaths
  <2>4. Types'
    BY <2>1, <2>3 DEF Types
  <2> QED
    BY <2>2, <2>3, <2>4
<1> QED
  BY <1>1, <1>2, <1>3, <1>4, <1>5, <1>6, <1>7, <1>8 DEF Pipeline

\* Every step keeps the invariant.
LEMMA NextInv == Inv /\ [Next]_vars => Inv'
<1>1. ASSUME Inv, Next PROVE Inv'
  BY <1>1, OthersInv, PipelineInv DEF Next, Others, Ticks
<1>2. ASSUME Inv, UNCHANGED vars PROVE Inv'
  <2>1. UNCHANGED <<mode, main, status, died, pipe, next, logs, at, pass, err, handled, handler, sigs, ticks>>
    BY <1>2 DEF vars
  <2>2. Types' /\ Account' /\ Reasons'
    BY <1>2, <2>1 DEF Inv, Types, Account, Reasons
  <2>3. Leaves'
    BY <1>2, <2>1 DEF Inv, Leaves
  <2> QED
    BY <2>2, <2>3 DEF Inv
<1> QED
  BY <1>1, <1>2

\* The flags keep their types.
LEMMA FlagsStep == Flags /\ [Next]_vars => Flags'
<1> SUFFICES ASSUME Flags, [Next]_vars PROVE Flags'
  OBVIOUS
<1> USE DEF Flags
<1>1. CASE Main
  BY <1>1 DEF Main, Ready, CloseSignals, CloseReader, CloseExit, CloseSandbox
<1>2. CASE Handler
  <2>1. CASE Reload
    BY <2>1 DEF Reload
  <2> QED
    BY <1>2, <2>1 DEF Handler, Profile, ReportProfile, HandlerEnds
<1>3. CASE SetProtected
  BY <1>3 DEF SetProtected
<1>4. CASE Latch
  BY <1>4 DEF Latch
<1>5. CASE Pipeline /\ ~Latch
  <2>1. UNCHANGED <<latched, protected>> /\ full' \in {full, TRUE}
    BY <1>5 DEF Pipeline, ReadLogs, ReadAll, ReadEnds, CallOnLog, ProtectedCallOnLog, Protect,
       BatchDone, PassDone, Report
  <2> QED
    BY <2>1
<1>6. CASE runPprofServer
  BY <1>6 DEF runPprofServer
<1>7. ASSUME NEW s \in {"usr1", "usr2"}, Signal(s) PROVE Flags'
  BY <1>7 DEF Signal
<1>8. CASE UNCHANGED vars
  BY <1>8 DEF vars
<1>9. CASE Ticks
  BY <1>9 DEF Ticks, callOnTick, callProtectedOnTick, tick, Protect
<1> QED
  BY <1>1, <1>2, <1>3, <1>4, <1>5, <1>6, <1>7, <1>8, <1>9 DEF Next, Ticks

\* What the protected calls have left behind since the script was loaded.
Leaks ==
    /\ slots \in Nat /\ calls \in Nat
    /\ slots <= 2 * calls
    /\ full => 2 * (calls - 1) >= MaxSlots

\* A protected call leaves two slots at most.
LEMMA ProtectLeaks ==
    ASSUME Leaks, NEW r \in Results, Protect(r)
    PROVE  Leaks'
<1>1. LeftBehind(r) \in 1 .. 2
  BY DEF LeftBehind
<1>2. calls' = calls + 1 /\ slots' = slots + LeftBehind(r)
  BY DEF Protect
<1>3. slots' \in Nat /\ calls' \in Nat /\ slots' <= 2 * calls' /\ 2 * calls' >= 2 * calls
  BY <1>1, <1>2 DEF Leaks
<1>4. ASSUME full' PROVE 2 * (calls' - 1) >= MaxSlots
  <2>1. full \/ slots >= MaxSlots
    BY <1>4 DEF Protect
  <2> QED
    BY <1>2, <1>3, <2>1, ProgramAssumption DEF Leaks
<1> QED
  BY <1>3, <1>4 DEF Leaks

\* Every step keeps the account of the Lua stack.
LEMMA LeaksStep == Leaks /\ [Next]_vars => Leaks'
<1> SUFFICES ASSUME Leaks, [Next]_vars PROVE Leaks'
  OBVIOUS
<1>1. CASE UNCHANGED <<slots, calls, full>>
  BY <1>1 DEF Leaks
<1>2. CASE ProtectedCallOnLog \/ callProtectedOnTick
  BY <1>2, ProtectLeaks DEF ProtectedCallOnLog, callProtectedOnTick
<1>3. CASE Reload
  <2>1. UNCHANGED <<slots, calls, full>> \/ (slots' = 0 /\ calls' = 0 /\ full' = FALSE)
    BY <1>3 DEF Reload
  <2> QED
    BY <1>1, <2>1 DEF Leaks
<1>4. CASE Main
  BY <1>1, <1>4 DEF Main, Ready, CloseSignals, CloseReader, CloseExit, CloseSandbox
<1>5. CASE Profile \/ ReportProfile \/ HandlerEnds \/ callOnTick \/ SetProtected \/ runPprofServer
  BY <1>1, <1>5 DEF Profile, ReportProfile, HandlerEnds, callOnTick, SetProtected, runPprofServer
<1>6. CASE Latch \/ ReadLogs \/ ReadAll \/ ReadEnds \/ CallOnLog \/ BatchDone \/ PassDone \/ Report
  BY <1>1, <1>6 DEF Latch, ReadLogs, ReadAll, ReadEnds, CallOnLog, BatchDone, PassDone, Report
<1>7. ASSUME NEW s \in {"usr1", "usr2"}, Signal(s) PROVE Leaks'
  BY <1>1, <1>7 DEF Signal
<1>8. CASE UNCHANGED vars
  BY <1>1, <1>8 DEF vars
<1> QED
  BY <1>2, <1>3, <1>4, <1>5, <1>6, <1>7, <1>8 DEF Next, Handler, Pipeline

\* The account holds when the script is loaded.
LEMMA InitLeaks == Init => Leaks
  BY ProgramAssumption DEF Init, Leaks
-----------------------------------------------------------------------------
\* The program keeps the types of its fields, for any number of logs, passes,
\* ticks and signals.
THEOREM TypeCorrect == Spec => []TypeOK
<1>1. Init => Inv /\ Flags /\ Leaks
  BY InitInv, InitLeaks DEF Init, Flags
<1>2. Inv /\ Flags /\ Leaks /\ [Next]_vars => Inv' /\ Flags' /\ Leaks'
  BY NextInv, FlagsStep, LeaksStep
<1>3. Inv /\ Flags /\ Leaks => TypeOK
  BY DEF Inv, Flags, Leaks, Types, TypeOK
<1> QED
  BY <1>1, <1>2, <1>3, PTL DEF Spec

\* Every log of the input is handed to on_log once and in the order of the input.
THEOREM InOrder == Spec => []HandledInOrder
<1>1. Inv => HandledInOrder
  <2> SUFFICES ASSUME Inv, mode = "script"
               PROVE  Len(handled) <= MaxLogs /\ \A k \in 1 .. Len(handled) : handled[k] = k
    BY DEF HandledInOrder
  <2>1. /\ Len(handled) + Len(logs) = next + at - 2
        /\ \A k \in 1 .. Len(handled) : handled[k] = k
    BY DEF Inv, Account
  <2>2. /\ logs \in Seq(Logs) /\ handled \in Seq(Logs) /\ at \in 1 .. Len(logs) + 1
        /\ next \in 1 .. MaxLogs + 1
    BY DEF Inv, Types
  <2> QED
    BY <2>1, <2>2, ProgramAssumption
<1> QED
  BY <1>1, InitInv, NextInv, PTL DEF Spec

\* A pipeline that ended well has done all the work.
LEMMA DoneComplete ==
    ASSUME Inv, pipe = "done", err \in {"none", "eof"}
    PROVE  Complete
<1>1. CASE mode = "script"
  <2>1. next = MaxLogs + 1 /\ logs = <<>> /\ at = 1
    BY <1>1 DEF Inv, Reasons
  <2>2. Len(handled) + Len(logs) = next + at - 2 /\ handled \in Seq(Logs)
    BY <1>1 DEF Inv, Account, Types
  <2>3. Len(handled) = MaxLogs
    BY <2>1, <2>2, ProgramAssumption
  <2> QED
    BY <1>1, <2>3 DEF Complete
<1>2. CASE mode # "script"
  BY <1>2 DEF Inv, Reasons, Complete
<1> QED
  BY <1>1, <1>2

\* An exit status of 0 means that every log was handled, or every pass made.
THEOREM ZeroDone == Spec => []ZeroMeansDone
<1>1. Inv => ZeroMeansDone
  BY DoneComplete DEF Inv, Leaves, ZeroMeansDone
<1> QED
  BY <1>1, InitInv, NextInv, PTL DEF Spec

\* A send on a channel that main has closed (main.go:327, 344) ends the program
\* only when all the work is done.
THEOREM ClosedDone == Spec => []ClosedAfterDone
<1>1. Inv => ClosedAfterDone
  BY DoneComplete DEF Inv, Leaves, ClosedAfterDone
<1> QED
  BY <1>1, InitInv, NextInv, PTL DEF Spec

\* The Lua stack does not overflow before half as many protected calls of on_log
\* and on_tick (lua.go:233, 301) as it has slots.
THEOREM Lasts == Spec => []StackLasts
<1>1. Leaks => StackLasts
  BY DEF Leaks, StackLasts
<1> QED
  BY <1>1, InitLeaks, LeaksStep, PTL DEF Spec
=============================================================================
