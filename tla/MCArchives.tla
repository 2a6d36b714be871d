----------------------------- MODULE MCArchives ------------------------------
(* Instances of Archives for TLC.                                          *)
EXTENDS Archives, TLC
=============================================================================
