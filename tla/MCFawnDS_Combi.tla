--------------------------- MODULE MCFawnDS_Combi ---------------------------
(* The SILT pipeline for TLC.                                                *)
EXTENDS FawnDS_Combi
=============================================================================
