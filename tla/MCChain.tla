------------------------------ MODULE MCChain -------------------------------
(* Chains for TLC in which no node, any node but the head, the second, or the *)
(* last may crash; the second put is a remove.                                *)
EXTENDS Chain

NoneFails == {}
AnyFails == 2 .. R
SecondFails == {2}
TailFails == {R}
MCRemoves == {2}
=============================================================================
