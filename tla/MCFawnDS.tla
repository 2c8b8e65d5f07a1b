------------------------------ MODULE MCFawnDS ------------------------------
(* FAWN-DS on a table of four slots in two groups.  k1 probes both groups,  *)
(* k2 the first group twice, and their key fragments collide.               *)
EXTENDS FawnDS, TLC

CONSTANTS k1, k2, v1, v2, f1

MCKey == {k1, k2}
MCValue == {v1, v2}
MChashes == (k1 :> <<0, 3>>) @@ (k2 :> <<1, 0>>)
MCkeyfragment == [k \in MCKey |-> f1]
MCExtensions == [k \in MCKey |-> {k}]
\* k1 is a proper prefix of k2 and ends in the same two bytes.
MCPrefixExtensions == (k1 :> {k1, k2}) @@ (k2 :> {k2})
ValueSymmetry == Permutations(MCValue)
=============================================================================
