------------------------------ MODULE MCPolling ------------------------------
(* Instances of Polling for TLC.                                           *)
EXTENDS Polling, TLC
=============================================================================
