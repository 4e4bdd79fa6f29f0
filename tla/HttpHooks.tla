----------------------------- MODULE HttpHooks -----------------------------
(***************************************************************************)
(* lua/http.go and the parts of lua/lua.go it works with: the hooks of a   *)
(* script that posts over HTTP, luaLock, the goroutine that hands errors   *)
(* to on_http_error, and the Close that ends the program.  The client      *)
(* itself is AsyncClient: its state is part of the state here, every call  *)
(* the sandbox makes of it is one of its actions, and its callers are the  *)
(* goroutines below.                                                       *)
(*                                                                         *)
(* The module follows one life of the sandbox, from a loaded script to the *)
(* exit.  on_log is called by the pipeline, on_tick by the ticker and      *)
(* on_http_error by pollHTTPErrors; main runs Close.  What a hook does     *)
(* between two calls of the client is one uninterrupted piece of Lua code. *)
(***************************************************************************)
EXTENDS AsyncClient

CONSTANTS Posting,      \* hooks of the script that call http_post
          Configuring,  \* hooks of the script that call config_set("http.*", ...)
          Assumed       \* conditions the code relies on and does not enforce

Hooks == {"log", "tick", "error"}
Threads == Hooks \cup {"main"}

Conditions == {
    "calmConfig",   \* config_set("http.*") of a client in use comes when no request is pending
    "validConfig",  \* and its value is valid
    "lateTicks",    \* in protected mode no tick comes while on_log is inside http_post
    "handled",      \* a script raises errors in protected mode only
    "quietExit"     \* main returns from Close after the last on_http_error
}

ASSUME HooksAssumption ==
    /\ Callers = Threads
    /\ Posting \subseteq Hooks
    /\ Configuring \subseteq Hooks
    /\ Assumed \subseteq Conditions
    /\ \A k \in Configs : k.errorchan

VARIABLES
    luaLock,    \* its holder, or None
    state,      \* l.state # nil
    http,       \* l.http # nil
    httpConfig, \* l.httpConfig
    protected,  \* l.cfg.protected
    where,      \* [Threads -> STRING]  where each goroutine is
    frames,     \* the frames of the Lua state, each the hook that pushed it
    err,        \* request of the error pollHTTPErrors has in hand, or None
    heard       \* history: requests whose error reached on_http_error

luaVars == <<luaLock, where, frames>>
sandboxVars == <<vars, luaVars, state, http, httpConfig, protected, err, heard>>

SandboxInit ==
    /\ Init
    /\ luaLock = None
    /\ state = TRUE
    /\ http = FALSE
    /\ httpConfig \in Configs
    /\ protected \in BOOLEAN
    /\ where = [t \in Threads |-> "off"]
    /\ frames = <<>>
    /\ err = None
    /\ heard = {}

At(t, place) == where[t] = place
Go(t, place) == where' = [where EXCEPT ![t] = place]
-----------------------------------------------------------------------------
(* Hooks *)

\* A log was parsed, or the ticker fired.
CallHook(h) ==
    /\ h \in {"log", "tick"}
    /\ At(h, "off")
    /\ Go(h, "want")
    /\ UNCHANGED <<vars, luaLock, frames, state, http, httpConfig, protected, err, heard>>

\* A poster reports an error and pollHTTPErrors receives it.
Report(w) ==
    /\ At("error", "off")
    /\ PosterReport(w)
    /\ err' = held[w]
    /\ Go("error", "want")
    /\ UNCHANGED <<luaLock, frames, state, http, httpConfig, protected, heard>>

\* Mutant: on_http_error runs without luaLock.
EnterUnlocked(h) ==
    /\ At(h, "want") /\ state
    /\ luaLock = None \/ h = "error"
    /\ "lateTicks" \in Assumed => ~(protected /\ h = "tick" /\ frames # <<>>)
    /\ luaLock' = h
    /\ frames' = Append(frames, h)
    /\ Go(h, "hook")
    /\ heard' = IF h = "error" THEN heard \cup {err} ELSE heard
    /\ UNCHANGED <<vars, state, http, httpConfig, protected, err>>

Enter(h) ==
    /\ At(h, "want") /\ state
    /\ luaLock = None
    /\ "lateTicks" \in Assumed => ~(protected /\ h = "tick" /\ frames # <<>>)
    /\ luaLock' = h
    /\ frames' = Append(frames, h)
    /\ Go(h, "hook")
    /\ heard' = IF h = "error" THEN heard \cup {err} ELSE heard
    /\ UNCHANGED <<vars, state, http, httpConfig, protected, err>>

\* Mutant: an error is handed to on_http_error again and again.
ReturnAgain(h) ==
    /\ At(h, "hook") \/ (At(h, "raise") /\ protected /\ h # "error")
    /\ luaLock' = None
    /\ frames' = SubSeq(frames, 1, Len(frames) - 1)
    /\ Go(h, IF h = "error" THEN "want" ELSE "off")
    /\ UNCHANGED <<vars, err, state, http, httpConfig, protected, heard>>

\* The hook returns, or raised an error that on_error has handled; the frame on
\* top is the one that goes.
Return(h) ==
    /\ At(h, "hook") \/ (At(h, "raise") /\ protected /\ h # "error")
    /\ luaLock' = None
    /\ frames' = SubSeq(frames, 1, Len(frames) - 1)
    /\ Go(h, "off")
    /\ IF h = "error"
         THEN ConsumerDone /\ err' = None
         ELSE UNCHANGED <<vars, err>>
    /\ UNCHANGED <<state, http, httpConfig, protected, heard>>
-----------------------------------------------------------------------------
(* http_post *)

\* The next request: which identity it gets makes no difference.
Unsent == {r \in Requests : fate[r] = "unsent"}
Fresh == CHOOSE r \in Unsent : TRUE

\* The first http_post makes the client.
BeginInitHTTP(h) ==
    /\ At(h, "hook") /\ h \in Posting
    /\ ~http /\ Unsent # {}
    /\ "handled" \in Assumed => protected \/ validateConfiguration(httpConfig)
    /\ BeginInit(h, httpConfig)
    /\ Go(h, "init")
    /\ UNCHANGED <<luaLock, frames, state, http, httpConfig, protected, err, heard>>

\* Mutant: initHTTP keeps the client that was refused.
InitDoneKeeps(h) ==
    /\ where[h] \in {"init", "config"}
    /\ http' = TRUE
    /\ \/ InitSetup(h) /\ Go(h, IF At(h, "init") THEN "call" ELSE "hook")
       \/ InitRefused(h) /\ Go(h, "raise")
    /\ UNCHANGED <<luaLock, frames, state, httpConfig, protected, err, heard>>

\* Init of the client returns. When it is refused the builtin raises an error:
\* initHTTP leaves nil in l.http, config_set the client that Init has closed.
InitDone(h) ==
    /\ where[h] \in {"init", "config"}
    /\ \/ InitSetup(h) /\ http' = TRUE /\ Go(h, IF At(h, "init") THEN "call" ELSE "hook")
       \/ InitRefused(h) /\ http' = At(h, "config") /\ Go(h, "raise")
    /\ UNCHANGED <<luaLock, frames, state, httpConfig, protected, err, heard>>

\* http_post releases luaLock and calls Post, which may fail at once.
HttpPost(h, l) ==
    /\ At(h, "call") \/ (At(h, "hook") /\ h \in Posting /\ http)
    /\ Unsent # {}
    /\ luaLock' = None
    /\ \/ BeginPost(h, Fresh, l) /\ Go(h, "post")
       \/ /\ "handled" \in Assumed => protected
          /\ \E wellFormed \in BOOLEAN : RejectPost(h, Fresh, l, wellFormed)
          /\ Go(h, "refused")
    /\ UNCHANGED <<frames, state, http, httpConfig, protected, err, heard>>

\* Inside Post.
Post(h) ==
    /\ At(h, "post")
    /\ \/ PostLock(h)
       \/ PostSend(h)
       \/ PostScanSend(h)
       \/ PostScanNext(h)
    /\ UNCHANGED <<luaVars, state, http, httpConfig, protected, err, heard>>

\* Post has returned; the deferred Lock takes luaLock back.
Relock(h) ==
    /\ where[h] \in {"post", "refused"} /\ pc[h] = "idle"
    /\ luaLock = None
    /\ luaLock' = h
    /\ Go(h, IF At(h, "post") THEN "hook" ELSE "raise")
    /\ UNCHANGED <<vars, frames, state, http, httpConfig, protected, err, heard>>
-----------------------------------------------------------------------------
(* config_set("http.concurrency", n) and config_set("http.channel_buffer", n) *)

OneSetting(k) == k.concurrency = httpConfig.concurrency \/ k.chanBuffer = httpConfig.chanBuffer

\* Without a client the value is stored; otherwise Init replaces the workers,
\* with luaLock held.
SetHTTP(h, k) ==
    /\ At(h, "hook") /\ h \in Configuring
    /\ OneSetting(k)
    /\ httpConfig' = k
    /\ IF http
         THEN /\ "calmConfig" \in Assumed =>
                    /\ \A r \in Requests : fate[r] \notin Pending
                    /\ ~consumer
              /\ "validConfig" \in Assumed => validateConfiguration(k)
              /\ BeginInit(h, k) /\ Go(h, "config")
         ELSE UNCHANGED <<vars, where>>
    /\ UNCHANGED <<luaLock, frames, state, http, protected, err, heard>>

\* Init and Close stop the client that runs.
CloseClient(t) ==
    /\ where[t] \in {"config", "closing"}
    /\ \/ StopClose(t)
       \/ \E w \in Workers : StopAwait(t, w)
       \/ At(t, "config") /\ CloseDone(t)
    /\ UNCHANGED <<luaVars, state, http, httpConfig, protected, err, heard>>
-----------------------------------------------------------------------------
(* Close, run by main when the pipeline is over *)

\* Mutant: main does not wait for the pipeline.
ExitEarly ==
    /\ At("main", "off")
    /\ Go("main", "ticker")
    /\ UNCHANGED <<vars, luaLock, frames, state, http, httpConfig, protected, err, heard>>

Exit ==
    /\ At("main", "off") /\ At("log", "off")
    /\ where' = [where EXCEPT !["main"] = "ticker", !["log"] = "over"]
    /\ UNCHANGED <<vars, luaLock, frames, state, http, httpConfig, protected, err, heard>>

\* stopTicker waits for the ticker to be at its select.
StopTicker ==
    /\ At("main", "ticker") /\ At("tick", "off")
    /\ where' = [where EXCEPT !["main"] = IF http THEN "close" ELSE "end", !["tick"] = "over"]
    /\ UNCHANGED <<vars, luaLock, frames, state, http, httpConfig, protected, err, heard>>

\* Mutant: Close does not close the client.
BeginCloseHTTPSkipped ==
    /\ At("main", "close")
    /\ http' = FALSE
    /\ Go("main", "end")
    /\ UNCHANGED <<vars, luaLock, frames, state, httpConfig, protected, err, heard>>

BeginCloseHTTP ==
    /\ At("main", "close")
    /\ BeginClose("main")
    /\ Go("main", "closing")
    /\ UNCHANGED <<luaLock, frames, state, http, httpConfig, protected, err, heard>>

\* http.Close returns; httpErrors is closed, which ends pollHTTPErrors when it is
\* at its range; l.http = nil.
CloseHTTP ==
    /\ At("main", "closing")
    /\ CloseDone("main")
    /\ http' = FALSE
    /\ Go("main", "end")
    /\ UNCHANGED <<luaLock, frames, state, httpConfig, protected, err, heard>>

EndClose ==
    /\ At("main", "end")
    /\ "quietExit" \in Assumed => At("error", "off")
    /\ state' = FALSE
    /\ Go("main", "closed")
    /\ UNCHANGED <<vars, luaLock, frames, http, httpConfig, protected, err, heard>>

\* main returns, and the process is gone.
ReturnMain ==
    /\ At("main", "closed")
    /\ Go("main", "returned")
    /\ UNCHANGED <<vars, luaLock, frames, state, http, httpConfig, protected, err, heard>>
-----------------------------------------------------------------------------
Running == ~At("main", "returned")

HookStep(h) ==
    \/ Enter(h)
    \/ Return(h)
    \/ BeginInitHTTP(h)
    \/ InitDone(h)
    \/ \E l \in Affinities : HttpPost(h, l)
    \/ Post(h)
    \/ Relock(h)
    \/ \E k \in Configs : SetHTTP(h, k)

\* Posters, apart from the report of an error.
PosterRuns(w) ==
    /\ \/ PosterTake(w)
       \/ PosterDone(w, TRUE)
       \/ PosterFail(w)
       \/ PosterExit(w)
    /\ UNCHANGED <<luaVars, state, http, httpConfig, protected, err, heard>>

MainStep ==
    \/ StopTicker
    \/ BeginCloseHTTP
    \/ CloseHTTP
    \/ EndClose
    \/ ReturnMain

Exited == ~Running /\ UNCHANGED sandboxVars

SandboxNext ==
    \/ Running /\ \E h \in Hooks : CallHook(h) \/ HookStep(h)
    \/ Running /\ \E w \in Workers : PosterRuns(w) \/ Report(w)
    \/ Running /\ \E t \in Threads : CloseClient(t)
    \/ Running /\ (Exit \/ MainStep)
    \/ Exited

SandboxSpec == SandboxInit /\ [][SandboxNext]_sandboxVars

(***************************************************************************)
(* As in AsyncClient and Ticker: a goroutine runs until it blocks, a mutex *)
(* and a channel starve no one, a post ends by its deadline, a hook calls  *)
(* builtins a finite number of times and returns.  No log, tick, call of a *)
(* builtin or end of the input is bound to come.                           *)
(***************************************************************************)
Progress(h) ==
    \/ Enter(h) \/ Relock(h)
    \/ InitDone(h) \/ Post(h)
    \/ (At(h, "call") /\ \E l \in Affinities : HttpPost(h, l))
    \/ CloseClient(h)

SandboxFairness ==
    /\ \A h \in Hooks : SF_sandboxVars(Running /\ Progress(h)) /\ SF_sandboxVars(Running /\ Return(h))
    /\ \A w \in Workers : SF_sandboxVars(Running /\ (PosterRuns(w) \/ Report(w)))
    /\ SF_sandboxVars(Running /\ (MainStep \/ CloseClient("main")))

FairSandboxSpec == SandboxSpec /\ SandboxFairness
-----------------------------------------------------------------------------
(* Properties *)

Places == {"off", "want", "hook", "raise", "init", "call", "post", "refused", "config",
           "ticker", "close", "closing", "end", "closed", "returned", "over"}

\* Type invariant of the sandbox fields used here and of the client.
SandboxTypeOK ==
    /\ TypeOK
    /\ luaLock \in Threads \cup {None}
    /\ state \in BOOLEAN
    /\ http \in BOOLEAN
    /\ httpConfig \in Configs
    /\ protected \in BOOLEAN
    /\ where \in [Threads -> Places]
    /\ frames \in Seq(Hooks)
    /\ err \in Requests \cup {None}
    /\ heard \subseteq Requests

InLua(h) == where[h] \in {"hook", "raise", "init", "call", "config"}

\* The goroutine that runs Lua code is alone, holds luaLock, and its frame is the
\* top one, although http_post lets other hooks in between (lua/http.go:82-83):
\* what a hook returns from is its own call.
FramesNest ==
    \A h \in Hooks : InLua(h) =>
        /\ luaLock = h
        /\ frames # <<>> /\ frames[Len(frames)] = h
        /\ \A g \in Hooks : InLua(g) => g = h

\* The sandbox is a caller that keeps to the contract of the client: it posts to a
\* client that is initialised, and runs Init and Close when nobody else is in it.
\* What AsyncClientProofs proves about the client then holds in the sandbox.
KeepsClientContract == Spec

\* The next step of some goroutine panics: in the client, on the nil l.state, by an
\* error nobody handles, or because the error handler is not at index 1 of the
\* frame of the http_post that the hook interrupts (lua.go:203).
SandboxPanicNext ==
    /\ Running
    /\ \/ \E t \in Threads : PanicNext(t)
       \/ \E h \in Hooks : At(h, "want") /\ luaLock = None /\ ~state
       \/ \E h \in Hooks : At(h, "raise") /\ ~(protected /\ h # "error")
       \/ \E h \in {"log", "tick"} :
             At(h, "hook") /\ protected /\ Len(frames) > 1 /\ frames[Len(frames)] = h

\* No interleaving of hooks, posts, errors and exit makes the process panic.
SandboxNoPanic == ~SandboxPanicNext

\* When Close returns, every request is over and every error was handed to
\* on_http_error: "shut down all the resources held by this Sandbox and flush all
\* the pending I/O operations" (lua.go:427).
FlushedAtExit ==
    ~state => \A r \in Requests :
        /\ fate[r] \notin Pending
        /\ fate[r] = "failed" => r \in heard

\* Every hook returns, http_post under back-pressure while an error waits for
\* luaLock included (lua/http.go:79-81: "Post will block and thus create a deadlock").
EveryHookReturns ==
    \A h \in Hooks : where[h] \notin {"off", "over"} ~> where[h] \in {"off", "over"} \/ ~Running

\* Once the input is over the program ends, with whatever is queued, in flight or
\* being reported.
ExitCompletes == At("main", "ticker") ~> ~Running
=============================================================================
