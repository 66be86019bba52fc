--------------------------- MODULE MCRuntimeOwner ---------------------------
(* Instances of RuntimeOwner for TLC.                                       *)
EXTENDS RuntimeOwner, TLC

CONSTANTS s1, s2, s3, d1, d2

ThreeShims == {s1, s2, s3}
Third == {s3}
TwoDirs == {d1, d2}
=============================================================================
