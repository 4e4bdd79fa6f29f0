-------------------------------- MODULE Program --------------------------------
(***************************************************************************)
(* The program logd (cmd/logd/main.go, cmd/logd/bench.go): main, the       *)
(* goroutine that runs the pipeline or a benchmark, the goroutine that     *)
(* handles signals, the profile server, and the calls of on_log and        *)
(* on_tick with and without protection (lua/lua.go), down to the slots     *)
(* that a protected call leaves on the stack of the Lua state.             *)
(*                                                                         *)
(* A log is its position in the input.  The channel exit is unbuffered and *)
(* main receives from it once, so a send meets main's receive or waits for *)
(* ever; a send on it once it is closed panics.  The channel signals is    *)
(* unbuffered and the runtime never waits on it: a signal that finds no    *)
(* receiver is dropped.                                                    *)
(*                                                                         *)
(* The hooks of the script may do anything: return, fail, and switch       *)
(* protected mode on and off.  Signals and a failing profile server come   *)
(* at any time.  The steps inside a reload and the start and stop of the   *)
(* ticker are in module Ticker; here a reload is one step, and the ticker  *)
(* fires while the program runs.                                           *)
(***************************************************************************)
EXTENDS Integers, Sequences

CONSTANTS
    Modes,       \* -R, -B and -F: the commands the program may be run with
    MaxLogs,     \* the input has this many logs
    MaxBatch,    \* and a read brings at most so many
    Iterations,  \* how many times a benchmark runs its logs
    MaxSignals,  \* how many signals arrive
    MaxTicks,    \* how often the ticker fires
    MaxSlots,    \* a call that finds fewer slots left behind than this has
                 \* room on the Lua stack for its own
    None

AllModes == {"script", "bench", "full"}

ASSUME ProgramAssumption ==
    /\ Modes \subseteq AllModes
    /\ MaxLogs \in Nat /\ MaxBatch \in Nat /\ MaxSignals \in Nat
    /\ MaxTicks \in Nat /\ MaxSlots \in Nat
    /\ Iterations \in Nat \ {0}
    /\ None \notin Nat

Logs == 1 .. MaxLogs
Deaths == {"no", "on_log", "on_error", "on_tick", "closed channel", "reload"}
MainSteps == {"setup", "waiting", "closeSignals", "closeReader", "closeExit",
              "closeSandbox", "gone"}

VARIABLES
    mode,       \* which command
    main,       \* where main is
    status,     \* the exit status, None while the program runs
    died,       \* what panicked
    pipe,       \* where the pipeline or the benchmark is
    latched,    \* the pipeline runs the protected loop
    next,       \* the next log of the input
    logs, at,   \* the logs of the last read and the one that is next
    pass,       \* the passes a benchmark has made
    err,        \* why the pipeline ends
    handled,    \* the logs given to on_log, or to on_error in its place
    handler,    \* where sigHandler is
    sigs,       \* how many signals came
    protected,  \* cfg.protected
    slots,      \* what the protected calls have left on the Lua stack
    calls,      \* how many of them there were since the script was loaded
    full,       \* one of them found no room on the stack
    ticks       \* how often the ticker fired

input == <<next, logs, at, pass>>
pipeline == <<pipe, latched, next, logs, at, pass, err, handled>>
stack == <<slots, calls, full>>
script == <<protected, slots, calls, full, ticks>>
ended == <<main, status, died>>
vars == <<mode, main, status, died, pipe, latched, next, logs, at, pass, err, handled,
          handler, sigs, protected, slots, calls, full, ticks>>

\* One type invariant for the module.
TypeOK ==
    /\ mode \in Modes
    /\ main \in MainSteps
    /\ status \in {None, 0, 1, 2} /\ died \in Deaths
    /\ pipe \in {"start", "read", "call", "report", "done"}
    /\ latched \in BOOLEAN
    /\ next \in 1 .. MaxLogs + 1
    /\ logs \in Seq(Logs) /\ at \in 1 .. Len(logs) + 1
    /\ pass \in 0 .. Iterations
    /\ err \in {"none", "eof", "read", "undefined", "other"}
    /\ handled \in Seq(Logs)
    /\ handler \in {"idle", "usr1", "usr2", "report", "ended"}
    /\ sigs \in 0 .. MaxSignals
    /\ protected \in BOOLEAN
    /\ slots \in Nat /\ calls \in Nat /\ full \in BOOLEAN
    /\ ticks \in 0 .. MaxTicks

\* The script has been loaded, and may have switched protected mode on.
Init ==
    /\ mode \in Modes
    /\ main = "setup" /\ status = None /\ died = "no"
    /\ pipe = "start" /\ latched = FALSE
    /\ next = 1 /\ logs = <<>> /\ at = 1 /\ pass = 0
    /\ err = "none" /\ handled = <<>>
    /\ handler = "idle" /\ sigs = 0
    /\ protected \in BOOLEAN /\ slots = 0 /\ calls = 0 /\ full = FALSE /\ ticks = 0

alive == status = None
signalsClosed == main \in {"closeReader", "closeExit", "closeSandbox"}
exitClosed == main = "closeSandbox"

\* A panic that nothing recovers ends the process.
Die(what) == died' = what /\ status' = 2 /\ main' = "gone"
Live == UNCHANGED ended

----------------------------------------------------------------------------
(* The pipeline and the benchmarks *)

\* The pipeline asks for the mode once; the benchmarks never call with protection.
Latch ==
    /\ alive /\ pipe = "start"
    /\ latched' = (mode = "script" /\ protected)
    /\ pipe' = "read"
    /\ UNCHANGED <<mode, ended, input, err, handled, handler, sigs, script>>

\* A read brings logs (none, when it ends within a line), which Parse appends to
\* what logs holds.
ReadLogs ==
    /\ alive /\ mode = "script" /\ pipe = "read" /\ next <= MaxLogs
    /\ \E k \in 0 .. MaxBatch :
          /\ next + k <= MaxLogs + 1
          /\ logs' = logs \o [j \in 1 .. k |-> next + j - 1]
          /\ next' = next + k
    /\ at' = 1 /\ pipe' = "call"
    /\ UNCHANGED <<mode, ended, latched, pass, err, handled, handler, sigs, script>>

\* A benchmark reads everything at once.
ReadAll ==
    /\ alive /\ mode # "script" /\ pipe = "read"
    /\ logs' = [j \in Logs |-> j]
    /\ next' = MaxLogs + 1
    /\ pipe' = "call"
    /\ UNCHANGED <<mode, ended, latched, at, pass, err, handled, handler, sigs, script>>

\* The end of the input, which a benchmark does not see as an error, or a
\* read that fails.
ReadEnds ==
    /\ alive /\ pipe = "read"
    /\ err' \in {"eof", "read"}
    /\ err' = "eof" => mode = "script" /\ next = MaxLogs + 1
    /\ pipe' = "report"
    /\ UNCHANGED <<mode, ended, latched, input, handled, handler, sigs, script>>

\* on_log ran, or failed and on_error ran.
Called ==
    /\ handled' = Append(handled, logs[at])
    /\ at' = at + 1
    /\ UNCHANGED <<pipe, err>>

\* The call returned an error: the pipeline breaks off, a benchmark notes it.
CallFailed(e) ==
    /\ IF mode = "script"
       THEN pipe' = "report" /\ err' = e /\ UNCHANGED at
       ELSE at' = at + 1 /\ UNCHANGED <<pipe, err>>
    /\ UNCHANGED handled

inCall == alive /\ pipe = "call" /\ at <= Len(logs)

\* Without protection an error of on_log is a panic.
CallOnLog ==
    /\ inCall /\ ~latched
    /\ \/ Called /\ Live
       \/ CallFailed("undefined") /\ Live
       \/ Die("on_log") /\ UNCHANGED <<at, pipe, err, handled>>
    /\ UNCHANGED <<mode, latched, next, logs, pass, handler, sigs, script>>

\* Mutant: nothing is popped after a call that failed.
LeftBehindAll(r) == IF r \in {"ok", "undefined"} THEN 1 ELSE 3

\* The error handler is pushed and never popped, and the one slot that is popped
\* is the module when the call leaves no error and the error when it does.
LeftBehind(r) == IF r \in {"ok", "undefined"} THEN 1 ELSE 2

Results == {"ok", "undefined", "error", "other", "on_error"}

\* A protected call that comes to r.  With too much left behind the stack may
\* overflow: the hook does not run and the overflow is the error of the call.
Protect(r) ==
    /\ calls' = calls + 1
    /\ slots' = slots + LeftBehind(r)
    /\ \/ UNCHANGED full
       \/ slots >= MaxSlots /\ r \in {"error", "other", "on_error"} /\ full' = TRUE

\* With protection, an error of on_log goes to on_error, which runs unprotected;
\* an error of another kind is returned.
ProtectedCallOnLog ==
    /\ inCall /\ latched
    /\ \E r \in Results :
          /\ Protect(r)
          /\ \/ r \in {"ok", "error"} /\ Called /\ Live
             \/ r \in {"undefined", "other"} /\ CallFailed(r) /\ Live
             \/ r = "on_error" /\ Die(r) /\ UNCHANGED <<at, pipe, err, handled>>
    /\ UNCHANGED <<mode, latched, next, logs, pass, handler, sigs, protected, ticks>>

\* The ticker fires and looks at the mode, each time anew.
tick(on) ==
    /\ alive /\ ticks < MaxTicks /\ protected = on
    /\ ticks' = ticks + 1
    /\ UNCHANGED <<mode, pipeline, handler, sigs, protected>>

\* An error of on_tick is a panic, and so is that it is not defined.
callOnTick ==
    /\ tick(FALSE)
    /\ Live \/ Die("on_tick")
    /\ UNCHANGED stack

\* With protection an error goes to on_error; any other error makes tick panic.
callProtectedOnTick ==
    /\ tick(TRUE)
    /\ \E r \in Results :
          /\ Protect(r)
          /\ IF r \in {"ok", "error"} THEN Live ELSE Die("on_tick")

\* A hook calls config_set("protected", on), which needs on_error to be defined.
SetProtected ==
    /\ alive
    /\ protected' \in BOOLEAN
    /\ UNCHANGED <<mode, ended, pipeline, handler, sigs, stack, ticks>>

\* Mutant: the logs of the last read are kept.
BatchDoneKeeps ==
    /\ alive /\ mode = "script" /\ pipe = "call" /\ at > Len(logs)
    /\ pipe' = "read" /\ at' = 1
    /\ UNCHANGED <<mode, ended, latched, next, logs, pass, err, handled, handler, sigs, script>>

\* All logs of the read are done: the pipeline forgets them and reads again.
BatchDone ==
    /\ alive /\ mode = "script" /\ pipe = "call" /\ at > Len(logs)
    /\ pipe' = "read" /\ at' = 1 /\ logs' = <<>>
    /\ UNCHANGED <<mode, ended, latched, next, pass, err, handled, handler, sigs, script>>

\* A benchmark runs its logs once more, or flushes and is done.
PassDone ==
    /\ alive /\ mode # "script" /\ pipe = "call" /\ at > Len(logs)
    /\ at' = 1 /\ pass' = pass + 1
    /\ pipe' = IF pass' = Iterations THEN "report" ELSE "call"
    /\ UNCHANGED <<mode, ended, latched, next, logs, err, handled, handler, sigs, script>>

----------------------------------------------------------------------------
(* The channel exit *)

\* Mutant: main returns, and what it deferred runs.
FailReturns == main' = "closeSignals" /\ UNCHANGED <<status, died>>

\* What main does with an error it receives: os.Exit(1), nothing deferred runs.
Fail == main' = "gone" /\ status' = 1 /\ UNCHANGED died

\* Mutant: the pipeline reports nil whatever happened.
ReportNil ==
    /\ alive /\ pipe = "report" /\ main = "waiting"
    /\ pipe' = "done"
    /\ main' = "closeSignals" /\ UNCHANGED <<status, died>>
    /\ UNCHANGED <<mode, latched, input, err, handled, handler, sigs, script>>

\* Mutant: the end of the input is not reported.
ReportErrors ==
    /\ alive /\ pipe = "report" /\ main = "waiting"
    /\ pipe' = "done"
    /\ IF err \in {"none", "eof"} THEN Live ELSE Fail
    /\ UNCHANGED <<mode, latched, input, err, handled, handler, sigs, script>>

\* The pipeline sends its result: nil at the end of the input.
Report ==
    /\ alive /\ pipe = "report" /\ main = "waiting"
    /\ pipe' = "done"
    /\ IF err \in {"none", "eof"}
       THEN main' = "closeSignals" /\ UNCHANGED <<status, died>>
       ELSE Fail
    /\ UNCHANGED <<mode, latched, input, err, handled, handler, sigs, script>>

\* An error that comes from somewhere else: main takes it while it waits; after
\* close(exit) the sender panics, and in between it waits.
SendError ==
    /\ main = "waiting" \/ exitClosed
    /\ IF exitClosed THEN Die("closed channel") ELSE Fail

\* The profile server cannot listen.
runPprofServer ==
    /\ alive
    /\ SendError
    /\ UNCHANGED <<mode, pipeline, handler, sigs, script>>

----------------------------------------------------------------------------
(* Signals *)

\* The runtime offers a signal: sigHandler takes it or it is dropped; on the
\* closed channel the offer panics.
Signal(s) ==
    /\ alive /\ main # "setup" /\ sigs < MaxSignals
    /\ sigs' = sigs + 1
    /\ handler' = IF handler = "idle" /\ ~signalsClosed THEN s ELSE handler
    /\ IF signalsClosed THEN Die("closed channel") ELSE Live
    /\ UNCHANGED <<mode, pipeline, script>>

\* SIGUSR1: load the script again in a fresh Lua state, or panic.  The mode stays
\* as it was unless the script sets it.
Reload ==
    /\ alive /\ handler = "usr1"
    /\ handler' = "idle"
    /\ \E loads \in BOOLEAN :
          IF loads
          THEN slots' = 0 /\ calls' = 0 /\ full' = FALSE /\ protected' \in BOOLEAN /\ Live
          ELSE UNCHANGED <<protected, stack>> /\ Die("reload")
    /\ UNCHANGED <<mode, pipeline, sigs, ticks>>

\* SIGUSR2: write a heap profile, if asked for.  A failed write goes to main; a
\* file that cannot be created ends the process here.
Profile ==
    /\ alive /\ handler = "usr2"
    /\ \/ handler' \in {"idle", "report"} /\ Live
       \/ handler' = "idle" /\ Fail
    /\ UNCHANGED <<mode, pipeline, sigs, script>>

ReportProfile ==
    /\ alive /\ handler = "report"
    /\ SendError
    /\ handler' = "idle"
    /\ UNCHANGED <<mode, pipeline, sigs, script>>

HandlerEnds ==
    /\ alive /\ handler = "idle" /\ signalsClosed
    /\ handler' = "ended"
    /\ UNCHANGED <<mode, ended, pipeline, sigs, script>>

----------------------------------------------------------------------------
(* main *)

Step(from, to) ==
    /\ alive /\ main = from /\ main' = to
    /\ UNCHANGED <<mode, status, died, pipeline, handler, sigs, script>>

\* Everything is set up when main receives from exit; the deferred calls run
\* last to first, and the sandbox is flushed and closed at the end.
Ready == Step("setup", "waiting")
CloseSignals == Step("closeSignals", "closeReader")
CloseReader == Step("closeReader", "closeExit")
CloseExit == Step("closeExit", "closeSandbox")
CloseSandbox ==
    /\ alive /\ main = "closeSandbox"
    /\ main' = "gone" /\ status' = 0
    /\ UNCHANGED <<mode, died, pipeline, handler, sigs, script>>

Main == Ready \/ CloseSignals \/ CloseReader \/ CloseExit \/ CloseSandbox
Pipeline == Latch \/ ReadLogs \/ ReadAll \/ ReadEnds \/ CallOnLog \/ ProtectedCallOnLog
            \/ BatchDone \/ PassDone \/ Report
Handler == Reload \/ Profile \/ ReportProfile \/ HandlerEnds

Next ==
    \/ Main \/ Pipeline \/ Handler
    \/ callOnTick \/ callProtectedOnTick \/ SetProtected \/ runPprofServer
    \/ \E s \in {"usr1", "usr2"} : Signal(s)

\* The goroutines run, and the reads of a finite input cannot end within the same
\* line for ever.
Fairness ==
    /\ WF_vars(Main) /\ WF_vars(Pipeline) /\ WF_vars(Handler)
    /\ SF_vars(ReadLogs /\ next' # next)

Spec == Init /\ [][Next]_vars /\ Fairness

----------------------------------------------------------------------------
(* Properties *)

\* Every log of the input is handed to on_log, or to on_error in its place, once
\* and in the order of the input, however the reads cut it, whatever the hooks do
\* and whatever signals come in between.
HandledInOrder ==
    mode = "script" => /\ Len(handled) <= MaxLogs
                       /\ \A k \in 1 .. Len(handled) : handled[k] = k

\* The pipeline took every log of its input to its end, or the benchmark made all
\* its passes (in which a call that failed is only noted).
Complete ==
    /\ err \in {"none", "eof"}
    /\ IF mode = "script" THEN Len(handled) = MaxLogs ELSE pass = Iterations

\* Exit status 0 means that all the work was done: with -R that nothing failed and
\* every log was handled, in a benchmark that every pass was made.
ZeroMeansDone == status = 0 => Complete

\* main closes signals and exit under the feet of the runtime and of the goroutine
\* that handles signals, and a late signal or error then panics; but no log is
\* lost by it, for all the work was done before.
ClosedAfterDone == died = "closed channel" => Complete

\* Protected calls of on_log and on_tick leave slots behind, but two each at most:
\* a call finds the stack full only after half as many protected calls as it has
\* slots, counted from the last time the script was loaded.
StackLasts == full => 2 * (calls - 1) >= MaxSlots

\* The program ends.
Exits == <>(status # None)
================================================================================
