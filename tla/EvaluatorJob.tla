---------------------------- MODULE EvaluatorJob ----------------------------
(***************************************************************************)
(* What the Evaluator service promises the platform of its jobs: it takes  *)
(* at most Capacity of them at a time, finishes each at most once, and a   *)
(* job that was withdrawn, even before it was heard of, never runs again.  *)
(* EvaluationDispatch drives the same five states as its environment.      *)
(***************************************************************************)
EXTENDS Naturals, FiniteSets

CONSTANTS Runs, Capacity

VARIABLE job

Init == job = [r \in Runs |-> "none"]

Held == {r \in Runs : job[r] \in {"running", "stopping"}}

Become(r, state) == job' = [job EXCEPT ![r] = state]

Accept(r) == job[r] = "none" /\ Cardinality(Held) < Capacity /\ Become(r, "running")

Finish(r) == job[r] = "running" /\ Become(r, "finished")

\* A job with containers must first unwind; any other is withdrawn at once.
MayBecome(r) ==
  {job[r], "stopped"} \cup IF job[r] \in {"running", "finished"} THEN {"stopping"} ELSE {}

\* A start of the service may withdraw several.
Withdraw == job' = [r \in Runs |-> job'[r]] /\ \A r \in Runs : job'[r] \in MayBecome(r)

Next == Withdraw \/ \E r \in Runs : Accept(r) \/ Finish(r)

Spec == Init /\ [][Next]_job
=============================================================================
