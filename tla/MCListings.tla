----------------------------- MODULE MCListings ------------------------------
(* Instances of Listings for TLC.                                          *)
EXTENDS Listings, TLC
=============================================================================
