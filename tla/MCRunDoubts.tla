----------------------------- MODULE MCRunDoubts -----------------------------
(***************************************************************************)
(* What the documents of the repository say of case runs and their         *)
(* dispatch, for TLC to compare with what the code does.                   *)
(***************************************************************************)
EXTENDS RunDispatch, TLC

\* data-control-flow.md: of watchdog, completion and dispatch answer whoever wins
\* writes the final status; a late dispatch cannot revive a run that has failed.
EndedRunStaysEnded ==
  [][\A r \in Runs : status[r] = "execution_failed" => status'[r] \notin Active]_vars
=============================================================================
