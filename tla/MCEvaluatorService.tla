------------------------- MODULE MCEvaluatorService -------------------------
(* Instances of EvaluatorService for TLC.                                  *)
EXTENDS EvaluatorService, TLC

CONSTANTS r1, r2

BothRuns == {r1, r2}
FirstRun == {r1}
None == {}
=============================================================================
