--------------------------- MODULE FireAndForget ---------------------------
(***************************************************************************)
(* What the asynchronous HTTP client promises, with no queues, workers or  *)
(* locks in sight.  A request is submitted at most once, on a lane (an     *)
(* affinity; -1 means "no affinity").  It is then accepted, attempted once *)
(* and ends either ok or failed.  Requests of one lane are synchronised:   *)
(* one is attempted only when all the requests accepted before it on that  *)
(* lane are over.                                                          *)
(***************************************************************************)
EXTENDS Integers

CONSTANTS Requests,     \* identities of the requests
          Lanes         \* affinities a caller may ask for

VARIABLES fate,         \* [Requests -> Fates]
          lane,         \* [Requests -> Lanes]  affinity the request was submitted with
          stamp,        \* [Requests -> Nat]    position in the order of acceptance
          clock         \* number of requests accepted so far

vars == <<fate, lane, stamp, clock>>

Fates == {"unsent", "rejected", "offered", "queued", "inflight", "ok", "failed"}
Over  == {"ok", "failed"}

Init ==
    /\ fate  = [r \in Requests |-> "unsent"]
    /\ lane  = [r \in Requests |-> -1]
    /\ stamp = [r \in Requests |-> 0]
    /\ clock = 0

\* q was accepted before r on the same synchronised lane.
Before(q, r) ==
    /\ lane[r] >= 0
    /\ lane[q] = lane[r]
    /\ fate[q] \in {"queued", "inflight", "ok", "failed"}
    /\ stamp[q] < stamp[r]

Submit(r, l) ==
    /\ fate[r] = "unsent"
    /\ fate' = [fate EXCEPT ![r] = "offered"]
    /\ lane' = [lane EXCEPT ![r] = l]
    /\ UNCHANGED <<stamp, clock>>

Reject(r) ==
    /\ fate[r] = "unsent"
    /\ fate' = [fate EXCEPT ![r] = "rejected"]
    /\ UNCHANGED <<lane, stamp, clock>>

Accept(r) ==
    /\ fate[r] = "offered"
    /\ fate'  = [fate EXCEPT ![r] = "queued"]
    /\ stamp' = [stamp EXCEPT ![r] = clock + 1]
    /\ clock' = clock + 1
    /\ UNCHANGED lane

Attempt(r) ==
    /\ fate[r] = "queued"
    /\ \A q \in Requests : Before(q, r) => fate[q] \in Over
    /\ fate' = [fate EXCEPT ![r] = "inflight"]
    /\ UNCHANGED <<lane, stamp, clock>>

Finish(r, outcome) ==
    /\ fate[r] = "inflight"
    /\ fate' = [fate EXCEPT ![r] = outcome]
    /\ UNCHANGED <<lane, stamp, clock>>

Next ==
    \E r \in Requests :
        \/ \E l \in Lanes : Submit(r, l)
        \/ Reject(r)
        \/ Accept(r)
        \/ Attempt(r)
        \/ \E outcome \in Over : Finish(r, outcome)

Spec == Init /\ [][Next]_vars
=============================================================================
