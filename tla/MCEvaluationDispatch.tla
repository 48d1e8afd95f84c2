------------------------ MODULE MCEvaluationDispatch ------------------------
EXTENDS EvaluationDispatch, TLC

CONSTANTS e1, e2, c1, c2, u1, u2

MCEvals == {e1, e2}
OneEval == {e1}
MCUsers == {u1, u2}
MCUserOf == [e \in Evals |-> u1]
Symmetric == Permutations(Calls)
\* The competition for slots: no deletion, no shutdown, results stay unread.
Competing ==
  /\ ~halted /\ late = {}
  /\ \A e \in Evals : e \notin deleted /\ job[e] # "finished" /\ status[e] \notin Settled

SymmetricAll == Permutations(Evals) \cup Permutations(Calls)
=============================================================================
