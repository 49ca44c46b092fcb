----------------------------- MODULE MCSessions -----------------------------
(***************************************************************************)
(* Instances of Sessions: two browser sessions of which one is in steady   *)
(* use, and a time limit of one tick.                                      *)
(***************************************************************************)
EXTENDS Sessions

CONSTANTS b1, b2

=============================================================================
