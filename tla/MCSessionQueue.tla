--------------------------- MODULE MCSessionQueue ---------------------------
(* Instances of SessionQueue for TLC.                                       *)
EXTENDS SessionQueue, TLC

CONSTANTS t1, t2

OneThread == {t1}
TwoThreads == {t1, t2}
Symmetry == Permutations(TwoThreads)

ManagedKinds == {"start", "steer"}
=============================================================================
