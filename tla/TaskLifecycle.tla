--------------------------- MODULE TaskLifecycle ---------------------------
(***************************************************************************)
(* What the background task table promises, without dispatchers, leases or *)
(* retries: a task moves through its phases in order, only a claim advances*)
(* its fence, and a finished task is left alone until an administrator     *)
(* sends a failed one back or removes it.                                  *)
(***************************************************************************)
EXTENDS Naturals

CONSTANT Tasks

VARIABLES
    phase,  \* [Tasks -> Phase]
    fence   \* [Tasks -> Nat], the number of times a task was claimed

vars == <<phase, fence>>

Phase == {"absent", "ready", "running", "succeeded", "failed", "removed"}

Init ==
    /\ phase = [t \in Tasks |-> "absent"]
    /\ fence = [t \in Tasks |-> 0]

Move(t, from, to) ==
    /\ phase[t] \in from
    /\ \E p \in to : phase' = [phase EXCEPT ![t] = p]
    /\ UNCHANGED fence

\* A task arrives ready, or as the record of a run that is already over
Create(t) == Move(t, {"absent"}, {"ready", "succeeded", "failed"})

\* A worker takes a ready task, or takes a running one over
Claim(t) ==
    /\ phase[t] \in {"ready", "running"}
    /\ phase' = [phase EXCEPT ![t] = "running"]
    /\ fence' = [fence EXCEPT ![t] = @ + 1]

Finish(t) == Move(t, {"running"}, {"ready", "succeeded", "failed"})

Retry(t) == Move(t, {"failed"}, {"ready"})

Remove(t) == Move(t, {"succeeded", "failed"}, {"removed"})

Step(t) == Create(t) \/ Claim(t) \/ Finish(t) \/ Retry(t) \/ Remove(t)

\* A batch claim takes several tasks in one transaction
ClaimBatch(S) ==
    /\ \A t \in S : phase[t] \in {"ready", "running"}
    /\ phase' = [t \in Tasks |-> IF t \in S THEN "running" ELSE phase[t]]
    /\ fence' = [t \in Tasks |-> IF t \in S THEN fence[t] + 1 ELSE fence[t]]

Next ==
    \/ \E t \in Tasks : Step(t)
    \/ \E S \in SUBSET Tasks : ClaimBatch(S)

Spec == Init /\ [][Next]_vars
=============================================================================
