-------------------------- MODULE MCFawnDS_Rewrite --------------------------
(* Copies of a store with two keys in the range and one outside it.           *)
EXTENDS FawnDS_Rewrite

CONSTANTS k1, k2, k3
=============================================================================
