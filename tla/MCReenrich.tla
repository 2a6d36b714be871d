------------------------------ MODULE MCReenrich ------------------------------
(* Instances of Reenrich for TLC.  Liveness is checked, so no symmetry.    *)
EXTENDS Reenrich

CONSTANTS d1, d2, c1, c2   \* documents and calls
=============================================================================
