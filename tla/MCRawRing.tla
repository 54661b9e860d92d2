------------------------------ MODULE MCRawRing ------------------------------
(* Model values for checking RawRing with TLC. *)
EXTENDS RawRing, TLC
=============================================================================
