----------------------------- MODULE SettleOnce -----------------------------
(***************************************************************************)
(* What the platform promises of one evaluation, whoever ends it: it is    *)
(* open, may be judged, and is settled once, and in the step that settles  *)
(* it the case run and the official result receive the one verdict they    *)
(* keep.  Only a result that could not be read may be judged again, its    *)
(* case having failed meanwhile.  A user may withdraw the evaluation       *)
(* before it is settled; a failure to dispatch may be withdrawn too, but   *)
(* its case has failed and stays failed.                                   *)
(***************************************************************************)
CONSTANT Evals

VARIABLES phase, verdict

outcome == <<phase, verdict>>

Init ==
  /\ phase = [e \in Evals |-> "open"]
  /\ verdict = [e \in Evals |-> "none"]

\* The raw result is frozen: from here only normalization or a failure remain.
Judge(e) ==
  /\ phase[e] = "open"
  /\ phase' = [phase EXCEPT ![e] = "judging"]
  /\ UNCHANGED verdict

\* A result that could not be read is taken up once more; its case stays failed.
JudgeAgain(e) ==
  /\ phase[e] = "unread"
  /\ phase' = [phase EXCEPT ![e] = "judging"]
  /\ UNCHANGED verdict

Pronounce(e) ==
  /\ phase[e] = "judging"
  /\ phase' = [phase EXCEPT ![e] = "settled"]
  /\ \E v \in {"evaluated", "invalid", "failed"} : verdict' = [verdict EXCEPT ![e] = v]

FailToRead(e) ==
  /\ phase[e] = "judging"
  /\ phase' = [phase EXCEPT ![e] = "unread"]
  /\ verdict' = [verdict EXCEPT ![e] = "failed"]

\* The reaper, a refused dispatch or a stopped service ends it without a verdict.
GiveUp(e) ==
  /\ phase[e] \in {"open", "judging"}
  /\ phase' = [phase EXCEPT ![e] = "settled"]
  /\ verdict' = [verdict EXCEPT ![e] = "failed"]

Withdraw(e) ==
  /\ phase[e] \in {"open", "judging"} /\ verdict[e] = "none"
  /\ phase' = [phase EXCEPT ![e] = "withdrawn"]
  /\ verdict' = [verdict EXCEPT ![e] = "cancelled"]

WithdrawFailed(e) ==
  /\ phase[e] \in {"judging", "settled"} /\ verdict[e] = "failed"
  /\ phase' = [phase EXCEPT ![e] = "withdrawn"]
  /\ UNCHANGED verdict

Step(e) ==
  \/ Judge(e) \/ JudgeAgain(e) \/ Pronounce(e) \/ FailToRead(e) \/ GiveUp(e)
  \/ Withdraw(e) \/ WithdrawFailed(e)

\* Every step takes one evaluation to another phase.
Next == \E e \in Evals : phase'[e] # phase[e] /\ Step(e)

Spec == Init /\ [][Next]_outcome
=============================================================================
