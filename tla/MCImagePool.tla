----------------------------- MODULE MCImagePool -----------------------------
(* Instances of ImagePool for TLC.                                         *)
EXTENDS ImagePool, TLC

CONSTANTS i1, i2, o1, o2

\* The first job wants more than the disk holds, the second competes with it.
TwoImages == {i1, i2}
FirstImage == {i1}
SecondImage == {i2}
TwoOwners == {o1, o2}
PairNeeds == (o1 :> <<i1, i2>>) @@ (o2 :> <<i2>>)
=============================================================================
