----------------------------- MODULE MCAsyncTTL -----------------------------
(* Instances of AsyncTTL for TLC: the constants are given in the .cfg files. *)
EXTENDS AsyncTTL
=============================================================================
