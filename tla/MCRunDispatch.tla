--------------------------- MODULE MCRunDispatch ---------------------------
EXTENDS RunDispatch, TLC

\* Bound: a run is followed until its result is settled, which fulfils both liveness
\* properties for good.
Open == \A r \in Runs : result[r] = "pending"

SymmetricCalls == Permutations(Calls)
=============================================================================
