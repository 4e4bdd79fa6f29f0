-------------------------- MODULE HttpHooksProofs --------------------------
(***************************************************************************)
(* Proofs about HttpHooks, for any requests, affinities, configurations    *)
(* and number of workers, and for scripts whose hooks post and configure   *)
(* as each theorem says.  The frames need who holds luaLock (LockInv) and  *)
(* what is on the stack (Stack).  The contract of the client is kept since *)
(* place and call of every goroutine go together (Duties), l.http is there *)
(* while it is used (Presence) and Close comes last (Ending); the invariant*)
(* of the client, which AsyncClientProofs proves from its contract, is     *)
(* then one of the sandbox too, and the other two theorems rest on it.     *)
(***************************************************************************)
EXTENDS HttpHooks, AsyncClientProofs, SequenceTheorems
-----------------------------------------------------------------------------
(* luaLock *)

HookPlaces == {"off", "want", "hook", "raise", "init", "call", "post", "refused", "config", "over"}
MainPlaces == {"off", "ticker", "close", "closing", "end", "closed", "returned"}

\* Each goroutine is at a place of its own code, and only a hook takes luaLock.
LuaTypes ==
    /\ where \in [Threads -> Places]
    /\ \A h \in Hooks : where[h] \in HookPlaces
    /\ where["main"] \in MainPlaces
    /\ luaLock \in Hooks \cup {None}

\* The hook that runs Lua code is the one that holds luaLock.
Holding == \A h \in Hooks : InLua(h) <=> luaLock = h

\* Only hooks that post are on their way to, or inside, Post.
Callees == \A h \in Hooks : where[h] \in {"init", "call", "post", "refused"} => h \in Posting

LockInv == LuaTypes /\ Holding /\ Callees

\* Every step keeps Lua code under luaLock.
LEMMA LockNext ==
    ASSUME LockInv, SandboxNext
    PROVE  LockInv'
<1> USE DEF At, Go
<1>0. "log" \in Hooks /\ "tick" \in Hooks /\ "error" \in Hooks /\ "main" \notin Hooks
      /\ "main" \in Threads /\ Hooks \subseteq Threads /\ None \notin Threads
  BY HooksAssumption, ClientAssumption DEF Hooks, Threads
<1>1. ASSUME NEW h \in Hooks, CallHook(h) PROVE LockInv'
  BY <1>0, <1>1 DEF LockInv, LuaTypes, Holding, Callees, InLua, HookPlaces, Places, CallHook
<1>2. ASSUME NEW h \in Hooks, Enter(h) PROVE LockInv'
  BY <1>0, <1>2 DEF LockInv, LuaTypes, Holding, Callees, InLua, HookPlaces, Places, Enter
<1>3. ASSUME NEW h \in Hooks, Return(h) PROVE LockInv'
  BY <1>0, <1>3 DEF LockInv, LuaTypes, Holding, Callees, InLua, HookPlaces, Places, Return
<1>4. ASSUME NEW h \in Hooks, BeginInitHTTP(h) PROVE LockInv'
  BY <1>0, <1>4 DEF LockInv, LuaTypes, Holding, Callees, InLua, HookPlaces, Places, BeginInitHTTP
<1>5. ASSUME NEW h \in Hooks, InitDone(h) PROVE LockInv'
  BY <1>0, <1>5 DEF LockInv, LuaTypes, Holding, Callees, InLua, HookPlaces, Places, InitDone
<1>6. ASSUME NEW h \in Hooks, NEW l \in Affinities, HttpPost(h, l) PROVE LockInv'
  BY <1>0, <1>6 DEF LockInv, LuaTypes, Holding, Callees, InLua, HookPlaces, Places, HttpPost
<1>7. ASSUME NEW h \in Hooks, Relock(h) PROVE LockInv'
  BY <1>0, <1>7 DEF LockInv, LuaTypes, Holding, Callees, InLua, HookPlaces, Places, Relock
<1>8. ASSUME NEW h \in Hooks, NEW k \in Configs, SetHTTP(h, k) PROVE LockInv'
  BY <1>0, <1>8 DEF LockInv, LuaTypes, Holding, Callees, InLua, HookPlaces, Places, SetHTTP
<1>9. ASSUME NEW w \in Workers, Report(w) PROVE LockInv'
  BY <1>0, <1>9 DEF LockInv, LuaTypes, Holding, Callees, InLua, HookPlaces, Places, Report
<1>10. ASSUME UNCHANGED luaVars PROVE LockInv'
  BY <1>10 DEF LockInv, LuaTypes, Holding, Callees, InLua, luaVars
<1>11. ASSUME Exit \/ MainStep PROVE LockInv'
  BY <1>0, <1>11 DEF LockInv, LuaTypes, Holding, Callees, InLua, HookPlaces, MainPlaces, Places, Exit,
       MainStep, StopTicker, BeginCloseHTTP, CloseHTTP, EndClose, ReturnMain
<1> QED BY <1>1, <1>2, <1>3, <1>4, <1>5, <1>6, <1>7, <1>8, <1>9, <1>10, <1>11
        DEF SandboxNext, HookStep, Post, PosterRuns, CloseClient, Exited, sandboxVars

\* Inside http_post, without luaLock.
Away(h) == where[h] \in {"post", "refused"}

\* The stack has the frame of the hook that is inside http_post, if one is, and
\* above it the frame of the hook that holds luaLock, if one does.
Stack ==
    /\ (\A g \in Hooks : ~Away(g)) =>
          frames = IF luaLock = None THEN <<>> ELSE <<luaLock>>
    /\ \A g \in Hooks : Away(g) =>
          frames = IF luaLock = None THEN <<g>> ELSE <<g, luaLock>>

\* One hook of the script posts.
OnePoster == \A g, h \in Posting : g = h

\* Pushing and popping the frames of two hooks.
LEMMA Frames ==
    ASSUME NEW g \in Hooks, NEW h \in Hooks
    PROVE  /\ Append(<<>>, h) = <<h>> /\ Append(<<g>>, h) = <<g, h>>
           /\ SubSeq(<<h>>, 1, Len(<<h>>) - 1) = <<>>
           /\ SubSeq(<<g, h>>, 1, Len(<<g, h>>) - 1) = <<g>>
           /\ <<h>>[Len(<<h>>)] = h /\ <<g, h>>[Len(<<g, h>>)] = h
           /\ Len(<<h>>) = 1 /\ Len(<<g, h>>) = 2
           /\ <<h>> # <<>> /\ <<g, h>> # <<>>
<1>1. /\ <<>> \in Seq(Hooks) /\ <<h>> \in Seq(Hooks) /\ <<g>> \in Seq(Hooks) /\ <<g, h>> \in Seq(Hooks)
      /\ Len(<<h>>) = 1 /\ Len(<<g>>) = 1 /\ Len(<<g, h>>) = 2 /\ <<h>> # <<>> /\ <<g, h>> # <<>>
  OBVIOUS
<1>2. <<h>>[Len(<<h>>)] = h /\ <<g, h>>[Len(<<g, h>>)] = h
  BY <1>1
<1>3. Append(<<>>, h) = <<h>>
  OBVIOUS
<1>4. Append(<<g>>, h) = <<g, h>>
  <2>1. /\ Append(<<g>>, h) \in Seq(Hooks) /\ Len(Append(<<g>>, h)) = 2
        /\ Append(<<g>>, h)[1] = g /\ Append(<<g>>, h)[2] = h
    BY <1>1, AppendProperties
  <2>2. \A i \in 1 .. Len(Append(<<g>>, h)) : Append(<<g>>, h)[i] = <<g, h>>[i]
    BY <2>1
  <2>3. Len(Append(<<g>>, h)) = Len(<<g, h>>) /\ <<g, h>> \in Seq(Hooks)
    BY <1>1, <2>1
  <2> QED BY <2>1, <2>2, <2>3, SeqEqual, Zenon
<1>5. SubSeq(<<h>>, 1, Len(<<h>>) - 1) = <<>>
  OBVIOUS
<1>6. SubSeq(<<g, h>>, 1, Len(<<g, h>>) - 1) = <<g>>
  <2>1. SubSeq(<<g, h>>, 1, 1) \in Seq(Hooks) /\ Len(SubSeq(<<g, h>>, 1, 1)) = 1
        /\ SubSeq(<<g, h>>, 1, 1)[1] = g
    BY <1>1
  <2>2. \A i \in 1 .. Len(SubSeq(<<g, h>>, 1, 1)) : SubSeq(<<g, h>>, 1, 1)[i] = <<g>>[i]
    BY <2>1
  <2>3. Len(SubSeq(<<g, h>>, 1, 1)) = Len(<<g>>) /\ <<g>> \in Seq(Hooks)
    BY <1>1, <2>1
  <2>4. SubSeq(<<g, h>>, 1, 1) = <<g>>
    BY <2>1, <2>2, <2>3, SeqEqual, Zenon
  <2> QED BY <1>1, <2>4
<1> QED BY <1>1, <1>2, <1>3, <1>4, <1>5, <1>6

\* Frames are pushed and popped in the order of the calls.
LEMMA StackNext ==
    ASSUME OnePoster, LockInv, Stack, SandboxNext
    PROVE  Stack'
<1> USE DEF At, Go
<1>0. "log" \in Hooks /\ "tick" \in Hooks /\ "error" \in Hooks /\ "main" \notin Hooks
      /\ "main" \in Threads /\ Hooks \subseteq Threads /\ None \notin Hooks
  BY HooksAssumption, ClientAssumption DEF Hooks, Threads
<1>1. ASSUME NEW h \in Hooks, CallHook(h) PROVE Stack'
  BY <1>0, <1>1 DEF LockInv, LuaTypes, Stack, Away, CallHook
<1>2. ASSUME NEW h \in Hooks, Enter(h) PROVE Stack'
  <2>1. luaLock = None /\ luaLock' = h /\ frames' = Append(frames, h)
    BY <1>2 DEF Enter
  <2>2. \A g \in Hooks : Away(g)' <=> Away(g)
    BY <1>0, <1>2 DEF LockInv, LuaTypes, Away, Enter
  <2>3. h # None
    BY <1>0
  <2>4. (\A g \in Hooks : ~Away(g)) => frames' = <<h>>
    BY <2>1, Frames DEF Stack
  <2>5. \A g \in Hooks : Away(g) => frames' = <<g, h>>
    <3> SUFFICES ASSUME NEW g \in Hooks, Away(g) PROVE frames' = <<g, h>>
      OBVIOUS
    <3>1. frames = <<g>>
      BY <2>1 DEF Stack
    <3> QED BY <2>1, <3>1, Frames
  <2> QED BY <2>1, <2>2, <2>3, <2>4, <2>5 DEF Stack
<1>3. ASSUME NEW h \in Hooks, Return(h) PROVE Stack'
  <2>1. luaLock = h /\ luaLock' = None /\ frames' = SubSeq(frames, 1, Len(frames) - 1)
    BY <1>3 DEF LockInv, Holding, InLua, Return
  <2>2. \A g \in Hooks : Away(g)' <=> Away(g)
    BY <1>0, <1>3 DEF LockInv, LuaTypes, Away, Return
  <2>3. h # None
    BY <1>0
  <2>4. (\A g \in Hooks : ~Away(g)) => frames' = <<>>
    BY <2>1, <2>3, Frames DEF Stack
  <2>5. ASSUME NEW g \in Hooks, Away(g) PROVE frames' = <<g>>
    <3>1. frames = <<g, h>>
      BY <2>1, <2>3, <2>5 DEF Stack
    <3> QED BY <2>1, <3>1, Frames
  <2> QED BY <2>1, <2>2, <2>4, <2>5 DEF Stack
<1>4. ASSUME NEW h \in Hooks, BeginInitHTTP(h) PROVE Stack'
  BY <1>0, <1>4 DEF LockInv, LuaTypes, Stack, Away, BeginInitHTTP
<1>5. ASSUME NEW h \in Hooks, InitDone(h) PROVE Stack'
  BY <1>0, <1>5 DEF LockInv, LuaTypes, Stack, Away, InitDone
<1>6. ASSUME NEW h \in Hooks, NEW l \in Affinities, HttpPost(h, l) PROVE Stack'
  <2>1. luaLock = h /\ luaLock' = None /\ frames' = frames /\ h \in Posting /\ ~Away(h) /\ Away(h)'
    BY <1>0, <1>6 DEF LockInv, LuaTypes, Holding, Callees, InLua, Away, HttpPost
  <2>2. \A g \in Hooks : g # h => (Away(g)' <=> Away(g))
    BY <1>0, <1>6 DEF LockInv, LuaTypes, Away, HttpPost
  <2>3. \A g \in Hooks : ~Away(g)
    BY <2>1 DEF OnePoster, LockInv, Callees, Away
  <2> QED BY <1>0, <2>1, <2>2, <2>3 DEF Stack
<1>7. ASSUME NEW h \in Hooks, Relock(h) PROVE Stack'
  <2>1. luaLock = None /\ luaLock' = h /\ frames' = frames /\ h \in Posting /\ Away(h) /\ ~Away(h)'
    BY <1>0, <1>7 DEF LockInv, LuaTypes, Callees, Away, Relock
  <2>2. \A g \in Hooks : g # h => ~Away(g)'
    BY <1>0, <1>7, <2>1 DEF OnePoster, LockInv, LuaTypes, Callees, Away, Relock
  <2> QED BY <1>0, <2>1, <2>2 DEF Stack
<1>8. ASSUME NEW h \in Hooks, NEW k \in Configs, SetHTTP(h, k) PROVE Stack'
  BY <1>0, <1>8 DEF LockInv, LuaTypes, Stack, Away, SetHTTP
<1>9. ASSUME NEW w \in Workers, Report(w) PROVE Stack'
  BY <1>0, <1>9 DEF LockInv, LuaTypes, Stack, Away, Report
<1>10. ASSUME UNCHANGED luaVars PROVE Stack'
  BY <1>10 DEF Stack, Away, luaVars
<1>11. ASSUME Exit \/ MainStep PROVE Stack'
  BY <1>0, <1>11 DEF LockInv, LuaTypes, Stack, Away, Exit,
       MainStep, StopTicker, BeginCloseHTTP, CloseHTTP, EndClose, ReturnMain
<1> QED BY <1>1, <1>2, <1>3, <1>4, <1>5, <1>6, <1>7, <1>8, <1>9, <1>10, <1>11
        DEF SandboxNext, HookStep, Post, PosterRuns, CloseClient, Exited, sandboxVars

\* Nobody runs Lua code at first, and the stack is empty.
LEMMA LockInit ==
    ASSUME SandboxInit
    PROVE  LockInv /\ Stack
<1>0. None \notin Hooks /\ Hooks \subseteq Threads /\ "main" \in Threads
  BY HooksAssumption, ClientAssumption DEF Threads
<1> QED BY <1>0 DEF SandboxInit, LockInv, LuaTypes, Holding, Callees, InLua, HookPlaces, MainPlaces,
                    Places, Stack, Away

\* The invariants stay when nothing changes.
LEMMA LockStutter ==
    ASSUME UNCHANGED sandboxVars
    PROVE  (LockInv => LockInv') /\ (Stack => Stack')
  BY DEF LockInv, LuaTypes, Holding, Callees, InLua, Stack, Away, sandboxVars, luaVars

\* Frames nest: of a script with one hook that posts, the hook that runs Lua code
\* is alone, holds luaLock and is on top of the stack, however http_post lets the
\* others in (lua/http.go:82-83).
THEOREM FramesNesting ==
    ASSUME OnePoster
    PROVE  SandboxSpec => []FramesNest
<1>1. SandboxInit => LockInv /\ Stack
  BY LockInit
<1>2. LockInv /\ Stack /\ [SandboxNext]_sandboxVars => (LockInv /\ Stack)'
  BY LockNext, StackNext, LockStutter
<1>3. LockInv /\ Stack => FramesNest
  <2> SUFFICES ASSUME LockInv, Stack, NEW h \in Hooks, InLua(h)
               PROVE  /\ luaLock = h
                      /\ frames # <<>> /\ frames[Len(frames)] = h
                      /\ \A g \in Hooks : InLua(g) => g = h
    BY DEF FramesNest
  <2>1. luaLock = h /\ luaLock # None
    BY HooksAssumption, ClientAssumption DEF LockInv, Holding, Threads
  <2>2. frames = <<h>> \/ \E g \in Hooks : frames = <<g, h>>
    BY <2>1 DEF Stack
  <2>3. frames # <<>> /\ frames[Len(frames)] = h
    BY <2>2, Frames
  <2> QED BY <2>1, <2>3 DEF LockInv, Holding
<1> QED BY <1>1, <1>2, <1>3, PTL DEF SandboxSpec
-----------------------------------------------------------------------------
(* The contract of the client *)

\* on_http_error does not post, and the hook that posts is the one that configures.
OwnClient ==
    /\ "error" \notin Posting
    /\ \A g \in Posting, h \in Configuring : g = h

\* Where a goroutine is in the sandbox says which call of the client it is in.
Duties ==
    \A t \in Threads :
        /\ op[t] \in {"none", "init", "close"}
        /\ where[t] \in {"init", "config"} <=> op[t] = "init"
        /\ where[t] = "closing" <=> op[t] = "close"
        /\ pc[t] \in InPost => where[t] = "post"

\* l.http is not nil while it is used, and is initialised unless config_set or
\* Close is at work on it.
Presence ==
    /\ httpConfig \in Configs
    /\ \A h \in Hooks : where[h] \in {"call", "post", "config"} => http
    /\ \A h \in Hooks : where[h] = "config" => h \in Posting /\ validateConfiguration(want[h])
    /\ \A h \in Hooks : where[h] = "init" => ~http
    /\ http => Posting # {}
    /\ ~http => ~ready
    /\ http /\ (\A t \in Threads : where[t] \notin {"config", "closing"}) => ready

\* Close comes after the last log and the last tick.
Ending ==
    /\ where["log"] # "over" => where["main"] = "off"
    /\ where["tick"] # "over" => where["main"] \in {"off", "ticker"}
    /\ where["main"] \in {"close", "closing"} => http
    /\ where["main"] \in {"end", "closed", "returned"} => ~http
    /\ ~state <=> where["main"] \in {"closed", "returned"}

ContractInv == LockInv /\ Inv /\ Duties /\ Presence /\ Ending

\* A hook that posts or configures the client is alone with it: the others that
\* could be in it hold luaLock too, are the same hook, or come after it.
LEMMA AloneInLua ==
    ASSUME OwnClient, ContractInv, NEW h \in Hooks, InLua(h), h \in Posting
    PROVE  /\ \A t \in Threads : t # h => where[t] \notin {"init", "config", "closing"}
           /\ where["main"] \in {"off", "ticker"}
<1>1. h \in {"log", "tick"} /\ where[h] # "over"
  BY DEF OwnClient, InLua, Hooks
<1>2. where["main"] \in {"off", "ticker"}
  BY <1>1 DEF ContractInv, Ending
<1>3. \A g \in Hooks : g # h => ~InLua(g)
  BY DEF ContractInv, LockInv, Holding
<1>4. \A g \in Hooks : where[g] # "closing"
  BY DEF ContractInv, LockInv, LuaTypes, HookPlaces
<1> QED BY <1>2, <1>3, <1>4 DEF InLua, Threads

\* Such a hook is in no call of the client, and nobody is in Init or Close.
LEMMA UsableInLua ==
    ASSUME OwnClient, ContractInv, NEW h \in Hooks, where[h] \in {"hook", "call"}, h \in Posting, http
    PROVE  Usable
<1>1. InLua(h)
  BY DEF InLua
<1>2. \A t \in Threads : where[t] \notin {"init", "config", "closing"}
  BY <1>1, AloneInLua
<1>3. \A c \in Callers : ~InLifecycle(c)
  BY <1>2, HooksAssumption DEF ContractInv, Duties, InLifecycle
<1>4. ready
  BY <1>2 DEF ContractInv, Presence
<1> QED BY <1>3, <1>4 DEF Usable

\* Nobody is in the client when nobody is inside Post, Init or Close.
LEMMA QuietWhenNobody ==
    ASSUME ContractInv, \A t \in Threads : where[t] \notin {"init", "config", "closing", "post"}
    PROVE  Quiet
<1> SUFFICES ASSUME NEW c \in Callers PROVE pc[c] = "idle"
  BY DEF Quiet
<1>1. op[c] = "none" /\ pc[c] \notin InPost
  BY HooksAssumption DEF ContractInv, Duties
<1>2. pc[c] \in InPost \cup {"idle"}
  BY <1>1 DEF ContractInv, Inv, Control
<1> QED BY <1>1, <1>2

\* Every step of the sandbox is a step of the client that the contract allows, or
\* none of the client.
LEMMA ClientStep ==
    ASSUME OwnClient, ContractInv, SandboxNext
    PROVE  [Next]_vars
<1> USE DEF At
<1>0. "main" \in Callers /\ Hooks \subseteq Callers /\ "main" \notin Hooks
  BY HooksAssumption DEF Threads, Hooks
<1>1. ASSUME NEW h \in Hooks, BeginInitHTTP(h) PROVE Next
  <2>1. InLua(h) /\ h \in Posting /\ ~http /\ BeginInit(h, httpConfig)
    BY <1>1 DEF BeginInitHTTP, InLua
  <2>2. \A t \in Threads : where[t] \notin {"init", "config", "closing", "post"}
    <3>1. where[h] = "hook"
      BY <1>1 DEF BeginInitHTTP
    <3>2. \A g \in Hooks : where[g] # "post"
      BY <2>1 DEF ContractInv, Presence
    <3> QED BY <2>1, <3>1, <3>2, AloneInLua DEF Threads
  <2>3. httpConfig \in Configs
    BY DEF ContractInv, Presence
  <2> QED BY <1>0, <2>1, <2>2, <2>3, QuietWhenNobody DEF Next, Call
<1>2. ASSUME NEW h \in Hooks, NEW k \in Configs, SetHTTP(h, k), http PROVE Next
  <2>1. InLua(h) /\ h \in Configuring /\ BeginInit(h, k) /\ where[h] = "hook"
    BY <1>2 DEF SetHTTP, InLua
  <2>2. h \in Posting /\ \A g \in Posting : g = h
    BY <1>2, <2>1 DEF ContractInv, Presence, OwnClient
  <2>3. \A g \in Hooks : where[g] # "post"
    BY <2>1, <2>2 DEF ContractInv, LockInv, Callees
  <2>4. \A t \in Threads : where[t] \notin {"init", "config", "closing", "post"}
    BY <2>1, <2>2, <2>3, AloneInLua DEF Threads
  <2> QED BY <1>0, <2>1, <2>4, QuietWhenNobody DEF Next, Call
<1>3. ASSUME NEW h \in Hooks, NEW l \in Affinities, HttpPost(h, l) PROVE Next
  <2>1. h \in Posting /\ http /\ where[h] \in {"hook", "call"}
    BY <1>3 DEF HttpPost, ContractInv, LockInv, Callees, Presence
  <2>2. Usable
    BY <2>1, UsableInLua
  <2>3. Fresh \in Requests
    BY <1>3 DEF HttpPost, Fresh, Unsent
  <2>4. Call(h)
    BY <1>3, <2>2, <2>3 DEF HttpPost, Call
  <2> QED BY <1>0, <2>4 DEF Next
<1>4. ASSUME BeginCloseHTTP PROVE Next
  <2>1. where["main"] = "close" /\ BeginClose("main")
    BY <1>4 DEF BeginCloseHTTP
  <2>2. where["log"] = "over" /\ where["tick"] = "over" /\ http
    BY <2>1 DEF ContractInv, Ending
  <2>3. where["error"] \notin {"init", "config", "closing", "post"}
    BY DEF OwnClient, ContractInv, LockInv, LuaTypes, HookPlaces, Callees, Presence, Hooks
  <2>4. \A t \in Threads : where[t] \notin {"init", "config", "closing", "post"}
    BY <2>1, <2>2, <2>3 DEF Threads, Hooks
  <2>5. Quiet /\ ready
    BY <2>2, <2>4, QuietWhenNobody DEF ContractInv, Presence
  <2> QED BY <1>0, <2>1, <2>5 DEF Next, Call
<1>5. ASSUME NEW t \in Threads, CallerStep(t) PROVE Next
  BY <1>5, HooksAssumption DEF Next
<1>6. ASSUME NEW w \in Workers, PosterStep(w) PROVE Next
  BY <1>6 DEF Next
<1>7. ASSUME NEW h \in Hooks, Return(h) PROVE [Next]_vars
  BY <1>7 DEF Return, Next
<1>8. ASSUME NEW h \in Hooks, HookStep(h) PROVE [Next]_vars
  <2>1. h \in Threads
    BY DEF Threads
  <2>2. CASE Post(h) \/ InitDone(h)
    BY <1>5, <2>1, <2>2 DEF Post, InitDone, CallerStep
  <2>3. CASE Enter(h) \/ Relock(h)
    BY <2>3 DEF Enter, Relock
  <2>4. ASSUME NEW k \in Configs, SetHTTP(h, k) PROVE [Next]_vars
    BY <1>2, <2>4 DEF SetHTTP
  <2> QED BY <1>1, <1>3, <1>7, <1>8, <2>2, <2>3, <2>4 DEF HookStep
<1>9. ASSUME NEW w \in Workers, PosterRuns(w) \/ Report(w) PROVE Next
  <2>1. PosterStep(w)
    BY <1>9 DEF PosterRuns, Report, PosterStep
  <2> QED BY <1>6, <2>1
<1>10. ASSUME NEW t \in Threads, CloseClient(t) PROVE Next
  BY <1>5, <1>10 DEF CloseClient, CallerStep
<1>11. ASSUME CloseHTTP PROVE Next
  BY <1>5, <1>11 DEF CloseHTTP, CallerStep, Threads
<1>12. ASSUME Exit \/ StopTicker \/ EndClose \/ ReturnMain PROVE UNCHANGED vars
  BY <1>12 DEF Exit, StopTicker, EndClose, ReturnMain
<1>13. ASSUME NEW h \in Hooks, CallHook(h) PROVE UNCHANGED vars
  BY <1>13 DEF CallHook
<1>14. ASSUME Exited PROVE UNCHANGED vars
  BY <1>14 DEF Exited, sandboxVars
<1> QED BY <1>4, <1>8, <1>9, <1>10, <1>11, <1>12, <1>13, <1>14 DEF SandboxNext, MainStep

\* The goroutines of the sandbox and their calls of the client stay in step.
LEMMA DutiesNext ==
    ASSUME ContractInv, SandboxNext
    PROVE  Duties'
<1> USE DEF At, Go
<1>0. /\ Callers = Threads /\ Hooks \subseteq Threads /\ "main" \in Threads /\ "main" \notin Hooks
      /\ where \in [Threads -> Places] /\ pc \in [Threads -> CallerStates]
      /\ op \in [Threads -> {"none", "flush", "close", "init"}]
      /\ "log" \in Threads /\ "tick" \in Threads /\ "error" \in Threads
  BY HooksAssumption DEF Threads, Hooks, ContractInv, LockInv, LuaTypes, Inv, TypeOK
<1>1. ASSUME NEW h \in Hooks, CallHook(h) PROVE Duties'
  BY <1>0, <1>1 DEF ContractInv, Duties, CallHook, vars, callers
<1>2. ASSUME NEW h \in Hooks, Enter(h) PROVE Duties'
  BY <1>0, <1>2 DEF ContractInv, Duties, Enter, vars, callers
<1>3. ASSUME NEW h \in Hooks, Return(h) PROVE Duties'
  BY <1>0, <1>3 DEF ContractInv, Duties, Return, ConsumerDone, vars, callers
<1>4. ASSUME NEW h \in Hooks, BeginInitHTTP(h) PROVE Duties'
  BY <1>0, <1>4 DEF ContractInv, Duties, BeginInitHTTP, BeginInit, InPost
<1>5. ASSUME NEW h \in Hooks, InitDone(h) PROVE Duties'
  BY <1>0, <1>5 DEF ContractInv, Duties, InitDone, InitSetup, InitRefused, InPost
<1>6. ASSUME NEW h \in Hooks, NEW l \in Affinities, HttpPost(h, l) PROVE Duties'
  BY <1>0, <1>6 DEF ContractInv, Duties, HttpPost, BeginPost, RejectPost, callers, InPost
<1>7. ASSUME NEW h \in Hooks, Post(h) PROVE Duties'
  BY <1>0, <1>7 DEF ContractInv, Duties, Post, luaVars, PostLock, PostSend, PostScanSend, PostScanNext,
                    Enqueue, InPost
<1>8. ASSUME NEW h \in Hooks, Relock(h) PROVE Duties'
  BY <1>0, <1>8 DEF ContractInv, Duties, Relock, vars, callers, InPost
<1>9. ASSUME NEW h \in Hooks, NEW k \in Configs, SetHTTP(h, k) PROVE Duties'
  BY <1>0, <1>9 DEF ContractInv, Duties, SetHTTP, BeginInit, vars, callers, InPost
<1>10. ASSUME NEW w \in Workers, PosterRuns(w) PROVE Duties'
  BY <1>10 DEF ContractInv, Duties, PosterRuns, PosterTake, PosterDone, PosterFail, PosterExit,
               callers, luaVars
<1>11. ASSUME NEW w \in Workers, Report(w) PROVE Duties'
  BY <1>0, <1>11 DEF ContractInv, Duties, Report, PosterReport, callers
<1>12. ASSUME NEW t \in Threads, CloseClient(t) PROVE Duties'
  BY <1>0, <1>12 DEF ContractInv, Duties, CloseClient, StopClose, StopAwait, CloseDone, luaVars, InPost
<1>13. ASSUME Exit \/ StopTicker \/ EndClose \/ ReturnMain PROVE Duties'
  BY <1>0, <1>13 DEF ContractInv, Duties, Exit, StopTicker, EndClose, ReturnMain, vars, callers
<1>14. ASSUME BeginCloseHTTP PROVE Duties'
  BY <1>0, <1>14 DEF ContractInv, Duties, BeginCloseHTTP, BeginClose, InPost
<1>15. ASSUME CloseHTTP PROVE Duties'
  BY <1>0, <1>15 DEF ContractInv, Duties, CloseHTTP, CloseDone, InPost
<1>16. ASSUME Exited PROVE Duties'
  BY <1>16 DEF ContractInv, Duties, Exited, sandboxVars, vars, callers, luaVars
<1> QED BY <1>1, <1>2, <1>3, <1>4, <1>5, <1>6, <1>7, <1>8, <1>9, <1>10, <1>11, <1>12, <1>13, <1>14,
           <1>15, <1>16 DEF SandboxNext, HookStep, MainStep

\* Initialised or not, l.http is what the hooks take it for.
LEMMA PresenceNext ==
    ASSUME OwnClient, "validConfig" \in Assumed, ContractInv, SandboxNext
    PROVE  Presence'
<1> USE DEF At, Go
<1>0. /\ Callers = Threads /\ Hooks \subseteq Threads /\ "main" \in Threads /\ "main" \notin Hooks
      /\ where \in [Threads -> Places] /\ want \in [Threads -> ConfigType]
      /\ "log" \in Threads /\ "tick" \in Threads /\ "error" \in Threads
      /\ \A h \in Hooks : where[h] \in HookPlaces
  BY HooksAssumption DEF Threads, Hooks, ContractInv, LockInv, LuaTypes, Inv, TypeOK
<1>1. ASSUME NEW h \in Hooks, CallHook(h) PROVE Presence'
  BY <1>0, <1>1 DEF ContractInv, Presence, CallHook, vars, callers, client
<1>2. ASSUME NEW h \in Hooks, Enter(h) PROVE Presence'
  BY <1>0, <1>2 DEF ContractInv, Presence, Enter, vars, callers, client
<1>3. ASSUME NEW h \in Hooks, Return(h) PROVE Presence'
  BY <1>0, <1>3 DEF ContractInv, Presence, Return, ConsumerDone, vars, callers, client
<1>4. ASSUME NEW h \in Hooks, BeginInitHTTP(h) PROVE Presence'
  BY <1>0, <1>4 DEF ContractInv, Presence, BeginInitHTTP, BeginInit, client
<1>5. ASSUME NEW h \in Hooks, InitDone(h) PROVE Presence'
  <2>1. \A g \in Hooks : g # h => where[g] # "config" /\ where[g] # "init"
    BY <1>5 DEF ContractInv, LockInv, Holding, InLua, InitDone
  <2>2. h \in Posting
    BY <1>5 DEF ContractInv, LockInv, Callees, Presence, InitDone
  <2>3. CASE where[h] = "init" /\ InitSetup(h)
    BY <1>0, <1>5, <2>1, <2>2, <2>3 DEF ContractInv, Presence, InitDone, InitSetup, InitRefused
  <2>4. CASE where[h] = "init" /\ InitRefused(h)
    BY <1>0, <1>5, <2>1, <2>2, <2>4 DEF ContractInv, Presence, InitDone, InitSetup, InitRefused
  <2>5. CASE where[h] = "config"
    BY <1>0, <1>5, <2>1, <2>2, <2>5 DEF ContractInv, Presence, InitDone, InitSetup, InitRefused
  <2> QED BY <1>5, <2>3, <2>4, <2>5 DEF InitDone
<1>6. ASSUME NEW h \in Hooks, NEW l \in Affinities, HttpPost(h, l) PROVE Presence'
  BY <1>0, <1>6 DEF ContractInv, Presence, HttpPost, BeginPost, RejectPost, callers, client
<1>7. ASSUME NEW h \in Hooks, Post(h) PROVE Presence'
  BY <1>0, <1>7 DEF ContractInv, Presence, Post, luaVars, PostLock, PostSend, PostScanSend, PostScanNext,
                    Enqueue, client
<1>8. ASSUME NEW h \in Hooks, Relock(h) PROVE Presence'
  BY <1>0, <1>8 DEF ContractInv, Presence, Relock, vars, callers, client
<1>9. ASSUME NEW h \in Hooks, NEW k \in Configs, SetHTTP(h, k) PROVE Presence'
  <2>1. http => h \in Posting
    BY <1>9 DEF ContractInv, Presence, OwnClient, SetHTTP
  <2> QED BY <1>0, <1>9, <2>1 DEF ContractInv, Presence, SetHTTP, BeginInit, vars, callers, client
<1>10. ASSUME NEW w \in Workers, PosterRuns(w) PROVE Presence'
  BY <1>10 DEF ContractInv, Presence, PosterRuns, PosterTake, PosterDone, PosterFail, PosterExit,
               callers, client, luaVars
<1>11. ASSUME NEW w \in Workers, Report(w) PROVE Presence'
  BY <1>0, <1>11 DEF ContractInv, Presence, Report, PosterReport, callers, client
<1>12. ASSUME NEW t \in Threads, CloseClient(t) PROVE Presence'
  BY <1>0, <1>12 DEF ContractInv, Presence, CloseClient, StopClose, StopAwait, CloseDone, luaVars, client
<1>13. ASSUME Exit \/ StopTicker \/ EndClose \/ ReturnMain PROVE Presence'
  BY <1>0, <1>13 DEF ContractInv, Presence, Exit, StopTicker, EndClose, ReturnMain, vars, callers, client
<1>14. ASSUME BeginCloseHTTP PROVE Presence'
  BY <1>0, <1>14 DEF ContractInv, Presence, BeginCloseHTTP, BeginClose, client
<1>15. ASSUME CloseHTTP PROVE Presence'
  <2>1. where["log"] = "over" /\ where["tick"] = "over"
    BY <1>15 DEF ContractInv, Ending, CloseHTTP
  <2>2. where["error"] \notin {"call", "post", "config"}
    BY DEF OwnClient, ContractInv, LockInv, Callees, Presence, Hooks
  <2>3. \A h \in Hooks : where[h] \notin {"call", "post", "config"}
    BY <2>1, <2>2 DEF Hooks
  <2> QED BY <1>0, <1>15, <2>3 DEF ContractInv, Presence, CloseHTTP, CloseDone, client
<1>16. ASSUME Exited PROVE Presence'
  BY <1>16 DEF ContractInv, Presence, Exited, sandboxVars, vars, callers, client, luaVars
<1> QED BY <1>1, <1>2, <1>3, <1>4, <1>5, <1>6, <1>7, <1>8, <1>9, <1>10, <1>11, <1>12, <1>13, <1>14,
           <1>15, <1>16 DEF SandboxNext, HookStep, MainStep

\* Close keeps its order.
LEMMA EndingNext ==
    ASSUME OwnClient, ContractInv, SandboxNext
    PROVE  Ending'
<1> USE DEF At, Go
<1>0. /\ Hooks \subseteq Threads /\ "main" \in Threads /\ "main" \notin Hooks
      /\ where \in [Threads -> Places]
      /\ "log" \in Hooks /\ "tick" \in Hooks /\ "error" \in Hooks
      /\ where["main"] \in MainPlaces
  BY DEF Threads, Hooks, ContractInv, LockInv, LuaTypes
<1>1. ASSUME NEW h \in Hooks, CallHook(h) PROVE Ending'
  BY <1>0, <1>1 DEF ContractInv, Ending, CallHook
<1>2. ASSUME NEW h \in Hooks, Enter(h) PROVE Ending'
  BY <1>0, <1>2 DEF ContractInv, Ending, Enter
<1>3. ASSUME NEW h \in Hooks, Return(h) PROVE Ending'
  BY <1>0, <1>3 DEF ContractInv, Ending, Return
<1>4. ASSUME NEW h \in Hooks, BeginInitHTTP(h) PROVE Ending'
  BY <1>0, <1>4 DEF ContractInv, Ending, BeginInitHTTP
<1>5. ASSUME NEW h \in Hooks, InitDone(h) PROVE Ending'
  <2>1. InLua(h) /\ h \in Posting
    BY <1>5 DEF ContractInv, LockInv, Callees, Presence, InitDone, InLua
  <2>2. where["main"] \in {"off", "ticker"}
    BY <2>1, AloneInLua
  <2> QED BY <1>0, <1>5, <2>2 DEF ContractInv, Ending, InitDone
<1>6. ASSUME NEW h \in Hooks, NEW l \in Affinities, HttpPost(h, l) PROVE Ending'
  BY <1>0, <1>6 DEF ContractInv, Ending, HttpPost
<1>7. ASSUME NEW h \in Hooks, Relock(h) PROVE Ending'
  BY <1>0, <1>7 DEF ContractInv, Ending, Relock
<1>8. ASSUME NEW h \in Hooks, NEW k \in Configs, SetHTTP(h, k) PROVE Ending'
  BY <1>0, <1>8 DEF ContractInv, Ending, SetHTTP
<1>9. ASSUME NEW w \in Workers, Report(w) PROVE Ending'
  BY <1>0, <1>9 DEF ContractInv, Ending, Report
<1>10. ASSUME UNCHANGED <<luaVars, http, state>> PROVE Ending'
  BY <1>10 DEF ContractInv, Ending, luaVars
<1>11. ASSUME Exit \/ MainStep PROVE Ending'
  BY <1>0, <1>11 DEF ContractInv, Ending, MainPlaces, Exit, MainStep, StopTicker, BeginCloseHTTP, CloseHTTP,
                     EndClose, ReturnMain
<1> QED BY <1>1, <1>2, <1>3, <1>4, <1>5, <1>6, <1>7, <1>8, <1>9, <1>10, <1>11
        DEF SandboxNext, HookStep, Post, PosterRuns, CloseClient, Exited, sandboxVars

\* A step of the sandbox keeps the invariant of the client and its own.
LEMMA ContractNext ==
    ASSUME OwnClient, "validConfig" \in Assumed, ContractInv, [SandboxNext]_sandboxVars
    PROVE  ContractInv' /\ [Next]_vars
<1>1. CASE SandboxNext
  <2>1. [Next]_vars
    BY <1>1, ClientStep
  <2>2. Inv'
    BY <2>1, NextInv DEF ContractInv
  <2>3. LockInv'
    BY <1>1, LockNext DEF ContractInv
  <2> QED BY <1>1, <2>1, <2>2, <2>3, DutiesNext, PresenceNext, EndingNext DEF ContractInv
<1>2. CASE UNCHANGED sandboxVars
  <2>1. UNCHANGED vars
    BY <1>2 DEF sandboxVars
  <2>2. Inv'
    BY <2>1, NextInv DEF ContractInv
  <2>3. Duties' /\ Presence' /\ Ending'
    BY <1>2 DEF ContractInv, Duties, Presence, Ending, sandboxVars, vars, callers, client, luaVars
  <2> QED BY <1>2, <2>1, <2>2, <2>3, LockStutter DEF ContractInv
<1> QED BY <1>1, <1>2

\* A loaded script has no client.
LEMMA ContractInit ==
    ASSUME SandboxInit
    PROVE  ContractInv
<1>1. LockInv /\ Inv
  BY LockInit, InitInv DEF SandboxInit
<1>2. "log" \in Threads /\ "tick" \in Threads /\ "main" \in Threads /\ Hooks \subseteq Threads
  BY DEF Threads, Hooks
<1>3. Duties /\ Presence /\ Ending
  BY <1>2, HooksAssumption DEF SandboxInit, Init, Duties, Presence, Ending, InPost
<1> QED BY <1>1, <1>3 DEF ContractInv

\* The sandbox keeps the contract of the client: when on_http_error does not post,
\* the hook that posts is the one that configures and the values it sets are valid,
\* Post reaches only an initialised client, and Init and Close run alone in it
\* (lua/http.go, Close of lua.go).  All that AsyncClientProofs proves of the client
\* is then true of the client in the sandbox.
THEOREM ClientContract ==
    ASSUME OwnClient, "validConfig" \in Assumed
    PROVE  SandboxSpec => KeepsClientContract
<1>1. SandboxInit => ContractInv /\ Init
  BY ContractInit DEF SandboxInit
<1>2. ContractInv /\ [SandboxNext]_sandboxVars => ContractInv' /\ [Next]_vars
  BY ContractNext
<1> QED BY <1>1, <1>2, PTL DEF SandboxSpec, KeepsClientContract, Spec

\* What the client promises to its callers it keeps in the sandbox, whatever the hooks,
\* the errors and the exit do: no accepted request is lost, no channel is used that is
\* closed or nil, and each request is attempted once, in the order of its affinity.
COROLLARY SandboxKeepsPromises ==
    ASSUME OwnClient, "validConfig" \in Assumed
    PROVE  SandboxSpec => []NothingLost /\ []NoPanic /\ ImplementsFireAndForget
<1>1. SandboxSpec => Spec
  BY ClientContract DEF KeepsClientContract
<1> QED BY <1>1, NoRequestLost, PanicFree, Refinement, PTL
-----------------------------------------------------------------------------
(* No panic *)

\* The conditions under which nothing in the sandbox panics, and a script of which
\* on_log alone uses the client.
Calm ==
    /\ {"validConfig", "handled", "lateTicks", "quietExit"} \subseteq Assumed
    /\ Posting \subseteq {"log"}

\* An error is raised in protected mode only, and by a hook that posts.
Raises ==
    /\ \A h \in Hooks : where[h] = "init" /\ ~protected => validateConfiguration(want[h])
    /\ \A h \in Hooks : where[h] \in {"refused", "raise"} => protected /\ h \in Posting

\* In protected mode on_tick is not called while on_log is inside http_post.
Late == protected /\ luaLock = "tick" => \A g \in Hooks : ~Away(g)

\* After Close nobody hands over errors.
Orphan == ~state => where["error"] = "off"

\* Raised errors stay within protected mode.
LEMMA RaisesNext ==
    ASSUME Calm, OwnClient, ContractInv, Raises, SandboxNext
    PROVE  Raises'
<1> USE DEF At, Go
<1>0. /\ Callers = Threads /\ Hooks \subseteq Threads /\ "main" \in Threads /\ "main" \notin Hooks
      /\ where \in [Threads -> Places] /\ want \in [Threads -> ConfigType]
      /\ "log" \in Threads /\ "tick" \in Threads /\ "error" \in Threads
  BY HooksAssumption DEF Threads, Hooks, ContractInv, LockInv, LuaTypes, Inv, TypeOK
<1>1. ASSUME NEW h \in Hooks, CallHook(h) PROVE Raises'
  BY <1>0, <1>1 DEF Raises, CallHook, vars, callers
<1>2. ASSUME NEW h \in Hooks, Enter(h) PROVE Raises'
  BY <1>0, <1>2 DEF Raises, Enter, vars, callers
<1>3. ASSUME NEW h \in Hooks, Return(h) PROVE Raises'
  BY <1>0, <1>3 DEF Raises, Return, ConsumerDone, vars, callers
<1>4. ASSUME NEW h \in Hooks, BeginInitHTTP(h) PROVE Raises'
  BY <1>0, <1>4 DEF Calm, Raises, BeginInitHTTP, BeginInit
<1>5. ASSUME NEW h \in Hooks, InitDone(h) PROVE Raises'
  <2>1. h \in Posting
    BY <1>5 DEF ContractInv, LockInv, Callees, Presence, InitDone
  <2>2. where[h] = "config" => validateConfiguration(want[h])
    BY DEF ContractInv, Presence
  <2>3. \A g \in Hooks : g # h => want'[g] = want[g]
    BY <1>0, <1>5 DEF InitDone, InitSetup, InitRefused
  <2> QED BY <1>0, <1>5, <2>1, <2>2, <2>3 DEF Raises, InitDone, InitSetup, InitRefused
<1>6. ASSUME NEW h \in Hooks, NEW l \in Affinities, HttpPost(h, l) PROVE Raises'
  <2>1. h \in Posting
    BY <1>6 DEF ContractInv, LockInv, Callees, HttpPost
  <2> QED BY <1>0, <1>6, <2>1 DEF Calm, Raises, HttpPost, BeginPost, RejectPost, callers
<1>7. ASSUME NEW h \in Hooks, Post(h) PROVE Raises'
  BY <1>0, <1>7 DEF Raises, Post, luaVars, PostLock, PostSend, PostScanSend, PostScanNext, Enqueue
<1>8. ASSUME NEW h \in Hooks, Relock(h) PROVE Raises'
  BY <1>0, <1>8 DEF Raises, Relock, vars, callers
<1>9. ASSUME NEW h \in Hooks, NEW k \in Configs, SetHTTP(h, k) PROVE Raises'
  BY <1>0, <1>9 DEF Raises, SetHTTP, BeginInit, vars, callers
<1>10. ASSUME NEW w \in Workers, PosterRuns(w) PROVE Raises'
  BY <1>10 DEF Raises, PosterRuns, PosterTake, PosterDone, PosterFail, PosterExit, callers, luaVars
<1>11. ASSUME NEW w \in Workers, Report(w) PROVE Raises'
  BY <1>0, <1>11 DEF Raises, Report, PosterReport, callers
<1>12. ASSUME NEW t \in Threads, CloseClient(t) PROVE Raises'
  BY <1>0, <1>12 DEF Raises, CloseClient, StopClose, StopAwait, CloseDone, luaVars
<1>13. ASSUME Exit \/ MainStep PROVE Raises'
  BY <1>0, <1>13 DEF Raises, Exit, MainStep, StopTicker, EndClose, ReturnMain, BeginCloseHTTP, BeginClose,
                     CloseHTTP, CloseDone, vars, callers
<1>14. ASSUME Exited PROVE Raises'
  BY <1>14 DEF Raises, Exited, sandboxVars, vars, callers, luaVars
<1> QED BY <1>1, <1>2, <1>3, <1>4, <1>5, <1>6, <1>7, <1>8, <1>9, <1>10, <1>11, <1>12, <1>13, <1>14
        DEF SandboxNext, HookStep

\* Ticks stay late.
LEMMA LateNext ==
    ASSUME Calm, LockInv, Stack, Late, SandboxNext
    PROVE  Late'
<1> USE DEF At, Go
<1>0. /\ Hooks \subseteq Threads /\ "main" \in Threads /\ "main" \notin Hooks
      /\ where \in [Threads -> Places] /\ None \notin Hooks
      /\ "log" \in Hooks /\ "tick" \in Hooks /\ "error" \in Hooks
  BY HooksAssumption, ClientAssumption DEF Threads, Hooks, LockInv, LuaTypes
<1>1. ASSUME NEW h \in Hooks, Enter(h) PROVE Late'
  <2> SUFFICES ASSUME protected, h = "tick" PROVE \A g \in Hooks : ~Away(g)'
    BY <1>1 DEF Late, Enter
  <2>1. frames = <<>> /\ luaLock = None
    BY <1>1 DEF Calm, Enter
  <2>2. \A g \in Hooks : ~Away(g)
    BY <1>0, <2>1, Frames DEF Stack
  <2> QED BY <1>0, <1>1, <2>2 DEF Away, Enter
<1>2. ASSUME NEW h \in Hooks, Relock(h) PROVE Late'
  <2>1. h \in Posting
    BY <1>2 DEF LockInv, Callees, Relock
  <2> QED BY <1>2, <2>1 DEF Calm, Late, Relock
<1>3. ASSUME NEW h \in Hooks, Return(h) PROVE Late'
  BY <1>0, <1>3 DEF Late, Return
<1>4. ASSUME NEW h \in Hooks, NEW l \in Affinities, HttpPost(h, l) PROVE Late'
  BY <1>0, <1>4 DEF Late, HttpPost
<1>5. ASSUME NEW h \in Hooks, CallHook(h) \/ BeginInitHTTP(h) \/ InitDone(h) PROVE Late'
  BY <1>0, <1>5 DEF Late, Away, CallHook, BeginInitHTTP, InitDone
<1>6. ASSUME NEW h \in Hooks, NEW k \in Configs, SetHTTP(h, k) PROVE Late'
  BY <1>0, <1>6 DEF Late, Away, SetHTTP
<1>7. ASSUME NEW w \in Workers, Report(w) PROVE Late'
  BY <1>0, <1>7 DEF Late, Away, Report
<1>8. ASSUME Exit \/ MainStep PROVE Late'
  BY <1>0, <1>8 DEF Late, Away, Exit, MainStep, StopTicker, BeginCloseHTTP, CloseHTTP, EndClose, ReturnMain
<1>9. ASSUME UNCHANGED <<luaVars, protected>> PROVE Late'
  BY <1>9 DEF Late, Away, luaVars
<1> QED BY <1>1, <1>2, <1>3, <1>4, <1>5, <1>6, <1>7, <1>8, <1>9
        DEF SandboxNext, HookStep, Post, PosterRuns, CloseClient, Exited, sandboxVars

\* No error is reported by a client that Close has closed.
LEMMA OrphanNext ==
    ASSUME "quietExit" \in Assumed, ContractInv, Orphan, SandboxNext
    PROVE  Orphan'
<1> USE DEF At, Go
<1>0. /\ Hooks \subseteq Threads /\ "main" \in Threads /\ "main" \notin Hooks
      /\ where \in [Threads -> Places] /\ "error" \in Hooks
  BY DEF Threads, Hooks, ContractInv, LockInv, LuaTypes
<1>1. ASSUME NEW w \in Workers, Report(w) PROVE Orphan'
  <2>1. ready
    BY <1>1, NobodyRuns DEF ContractInv, Report, PosterReport
  <2>2. state
    BY <2>1 DEF ContractInv, Presence, Ending
  <2> QED BY <1>1, <2>2 DEF Orphan, Report
<1>2. ASSUME NEW h \in Hooks, CallHook(h) \/ Enter(h) \/ Return(h) \/ BeginInitHTTP(h) \/ InitDone(h) \/ Relock(h)
      PROVE  Orphan'
  BY <1>0, <1>2 DEF Orphan, CallHook, Enter, Return, BeginInitHTTP, InitDone, Relock
<1>3. ASSUME NEW h \in Hooks, NEW l \in Affinities, HttpPost(h, l) PROVE Orphan'
  BY <1>0, <1>3 DEF Orphan, HttpPost
<1>4. ASSUME NEW h \in Hooks, NEW k \in Configs, SetHTTP(h, k) PROVE Orphan'
  BY <1>0, <1>4 DEF Orphan, SetHTTP
<1>5. ASSUME Exit \/ MainStep PROVE Orphan'
  BY <1>0, <1>5 DEF Orphan, Exit, MainStep, StopTicker, BeginCloseHTTP, CloseHTTP, EndClose, ReturnMain
<1>6. ASSUME UNCHANGED <<luaVars, state>> PROVE Orphan'
  BY <1>6 DEF Orphan, luaVars
<1> QED BY <1>1, <1>2, <1>3, <1>4, <1>5, <1>6
        DEF SandboxNext, HookStep, Post, PosterRuns, CloseClient, Exited, sandboxVars

CalmInv == ContractInv /\ Stack /\ Raises /\ Late /\ Orphan

\* None of the steps that panic is next.
LEMMA CalmNoPanic ==
    ASSUME Calm, CalmInv
    PROVE  SandboxNoPanic
<1> USE DEF At
<1>1. \A t \in Threads : ~PanicNext(t)
  BY ChannelsOpen, HooksAssumption DEF CalmInv, ContractInv, NoPanic
<1>2. ASSUME NEW h \in Hooks, where[h] = "want", ~state PROVE FALSE
  <2>1. where["main"] \in {"closed", "returned"}
    BY <1>2 DEF CalmInv, ContractInv, Ending
  <2>2. where["log"] = "over" /\ where["tick"] = "over"
    BY <2>1 DEF CalmInv, ContractInv, Ending
  <2>3. where["error"] = "off"
    BY <1>2 DEF CalmInv, Orphan
  <2> QED BY <1>2, <2>2, <2>3 DEF Hooks
<1>3. \A h \in Hooks : where[h] = "raise" => protected /\ h # "error"
  BY DEF CalmInv, Raises, Calm
<1>4. ASSUME NEW h \in {"log", "tick"}, where[h] = "hook", protected, Len(frames) > 1 PROVE FALSE
  <2>1. h \in Hooks /\ luaLock = h /\ h # None /\ ~Away(h)
    BY <1>4, HooksAssumption, ClientAssumption
       DEF CalmInv, ContractInv, LockInv, Holding, InLua, Hooks, Threads, Away
  <2>2. PICK g \in Hooks : Away(g)
    <3>1. (\A g \in Hooks : ~Away(g)) => frames = <<h>>
      BY <2>1 DEF CalmInv, Stack
    <3>2. Len(<<h>>) = 1
      OBVIOUS
    <3>3. frames = <<h>> => Len(frames) = 1
      BY <3>2, Zenon
    <3>4. ~(1 > 1)
      OBVIOUS
    <3> QED BY <1>4, <3>1, <3>3, <3>4, Zenon
  <2>3. g = "log"
    BY <2>2 DEF CalmInv, ContractInv, LockInv, Callees, Away, Calm
  <2> QED BY <1>4, <2>1, <2>2, <2>3 DEF CalmInv, Late
<1> QED BY <1>1, <1>2, <1>3, <1>4 DEF SandboxNoPanic, SandboxPanicNext

\* No interleaving of hooks, posts, errors and exit makes the process panic: not in
\* the client, on the nil Lua state, by an error nobody handles or on a stack that
\* is not the one a hook expects (lua/http.go:69-101, lua.go:203, 427-447).
THEOREM SandboxPanicFree ==
    ASSUME Calm, OwnClient
    PROVE  SandboxSpec => []SandboxNoPanic
<1>1. SandboxInit => CalmInv
  <2> SUFFICES ASSUME SandboxInit PROVE CalmInv
    OBVIOUS
  <2>1. ContractInv /\ Stack
    BY ContractInit, LockInit
  <2>2. Hooks \subseteq Threads /\ "error" \in Threads /\ None # "tick"
    BY HooksAssumption, ClientAssumption DEF Threads, Hooks
  <2>3. Raises /\ Late /\ Orphan
    BY <2>2 DEF SandboxInit, Raises, Late, Orphan
  <2> QED BY <2>1, <2>3 DEF CalmInv
<1>2. CalmInv /\ [SandboxNext]_sandboxVars => CalmInv'
  <2> SUFFICES ASSUME CalmInv, [SandboxNext]_sandboxVars PROVE CalmInv'
    OBVIOUS
  <2>1. ContractInv'
    BY ContractNext DEF CalmInv, Calm
  <2>2. CASE SandboxNext
    <3>1. OnePoster
      BY DEF Calm, OnePoster
    <3>2. Stack' /\ Raises' /\ Late' /\ Orphan'
      BY <2>2, <3>1, StackNext, RaisesNext, LateNext, OrphanNext DEF CalmInv, ContractInv, Calm
    <3> QED BY <2>1, <3>2 DEF CalmInv
  <2>3. CASE UNCHANGED sandboxVars
    <3>1. Raises' /\ Late' /\ Orphan'
      BY <2>3 DEF CalmInv, Raises, Late, Away, Orphan, sandboxVars, vars, callers, luaVars
    <3> QED BY <2>1, <2>3, <3>1, LockStutter DEF CalmInv
  <2> QED BY <2>2, <2>3
<1>3. CalmInv => SandboxNoPanic
  BY CalmNoPanic
<1> QED BY <1>1, <1>2, <1>3, PTL DEF SandboxSpec
-----------------------------------------------------------------------------
(* Nothing is lost at the exit *)

\* A request that failed was handed to on_http_error, or is about to be.
Told ==
    \A r \in Requests : fate[r] = "failed" =>
        r \in heard \/ (where["error"] = "want" /\ err = r)

\* Every error that is received is handed over.
LEMMA ToldNext ==
    ASSUME LockInv, TypeOK, Told, SandboxNext
    PROVE  Told'
<1> USE DEF At, Go
<1>0. /\ Hooks \subseteq Threads /\ "main" \in Threads /\ "main" \notin Hooks
      /\ where \in [Threads -> Places] /\ fate \in [Requests -> Fates]
      /\ "log" \in Hooks /\ "tick" \in Hooks /\ "error" \in Hooks
  BY DEF Threads, Hooks, LockInv, LuaTypes, TypeOK
<1>1. ASSUME NEW w \in Workers, Report(w) PROVE Told'
  BY <1>0, <1>1 DEF Told, Report, PosterReport
<1>2. ASSUME NEW h \in Hooks, Enter(h) PROVE Told'
  BY <1>0, <1>2 DEF Told, Enter, vars, history
<1>3. ASSUME NEW h \in Hooks, Return(h) PROVE Told'
  BY <1>0, <1>3 DEF Told, Return, ConsumerDone, vars, history
<1>4. ASSUME NEW h \in Hooks, CallHook(h) \/ BeginInitHTTP(h) \/ InitDone(h) \/ Relock(h) PROVE Told'
  BY <1>0, <1>4 DEF Told, CallHook, BeginInitHTTP, BeginInit, InitDone, InitSetup, InitRefused, Relock,
                    vars, history
<1>5. ASSUME NEW h \in Hooks, NEW l \in Affinities, HttpPost(h, l) PROVE Told'
  BY <1>0, <1>5 DEF Told, HttpPost, BeginPost, RejectPost
<1>6. ASSUME NEW h \in Hooks, Post(h) PROVE Told'
  BY <1>0, <1>6 DEF Told, Post, PostLock, PostSend, PostScanSend, PostScanNext, Enqueue, history, luaVars
<1>7. ASSUME NEW h \in Hooks, NEW k \in Configs, SetHTTP(h, k) PROVE Told'
  BY <1>0, <1>7 DEF Told, SetHTTP, BeginInit, vars, history
<1>8. ASSUME NEW w \in Workers, PosterRuns(w) PROVE Told'
  BY <1>0, <1>8 DEF Told, PosterRuns, PosterTake, PosterDone, PosterFail, PosterExit, history, luaVars
<1>9. ASSUME NEW t \in Threads, CloseClient(t) PROVE Told'
  BY <1>9 DEF Told, CloseClient, StopClose, StopAwait, CloseDone, history, luaVars
<1>10. ASSUME Exit \/ MainStep PROVE Told'
  BY <1>0, <1>10 DEF Told, Exit, MainStep, StopTicker, BeginCloseHTTP, BeginClose, CloseHTTP, CloseDone,
                     EndClose, ReturnMain, vars, history
<1>11. ASSUME Exited PROVE Told'
  BY <1>11 DEF Told, Exited, sandboxVars, vars, history, luaVars
<1> QED BY <1>1, <1>2, <1>3, <1>4, <1>5, <1>6, <1>7, <1>8, <1>9, <1>10, <1>11 DEF SandboxNext, HookStep

\* When Close returns every request is over, and every error was handed to
\* on_http_error: "flush all the pending I/O operations" (lua.go:427).
THEOREM SandboxFlushes ==
    ASSUME OwnClient, {"validConfig", "quietExit"} \subseteq Assumed
    PROVE  SandboxSpec => []FlushedAtExit
<1> DEFINE ExitInv == ContractInv /\ Orphan /\ Told
<1>1. SandboxInit => ExitInv
  <2> SUFFICES ASSUME SandboxInit PROVE ExitInv
    OBVIOUS
  <2>1. Orphan /\ Told
    BY DEF SandboxInit, Init, Orphan, Told
  <2> QED BY <2>1, ContractInit
<1>2. ExitInv /\ [SandboxNext]_sandboxVars => ExitInv'
  <2> SUFFICES ASSUME ExitInv, [SandboxNext]_sandboxVars PROVE ExitInv'
    OBVIOUS
  <2>1. ContractInv'
    BY ContractNext
  <2>2. CASE SandboxNext
    <3>1. LockInv /\ TypeOK
      BY DEF ContractInv, Inv
    <3> QED BY <2>1, <2>2, <3>1, OrphanNext, ToldNext
  <2>3. CASE UNCHANGED sandboxVars
    BY <2>1, <2>3 DEF Orphan, Told, sandboxVars, vars, history, luaVars
  <2> QED BY <2>2, <2>3
<1>3. ExitInv => FlushedAtExit
  <2> SUFFICES ASSUME ExitInv, ~state, NEW r \in Requests
               PROVE  fate[r] \notin Pending /\ (fate[r] = "failed" => r \in heard)
    BY DEF FlushedAtExit
  <2>1. ~ready
    BY DEF ContractInv, Presence, Ending
  <2>2. fate[r] \notin Pending
    BY <2>1, NobodyRuns DEF ContractInv
  <2>3. where["error"] = "off"
    BY DEF Orphan
  <2> QED BY <2>2, <2>3 DEF Told
<1> QED BY <1>1, <1>2, <1>3, PTL DEF SandboxSpec
=============================================================================
