----------------------------- MODULE MCFawnDS_SF -----------------------------
(* A FawnDS_SF store for TLC.  In the cuckoo table two keys have the same    *)
(* fragments, one has them the other way round, and two have only one row;   *)
(* in the default table the probes of all keys overlap.                      *)
EXTENDS FawnDS_SF, TLC

CONSTANTS k1, k2, k3, k4, k5

Frag(x, y) == (0 :> x @@ 1 :> y)
MCkeyfrag ==
  k1 :> Frag(0, 1) @@ k2 :> Frag(1, 0) @@ k3 :> Frag(0, 0) @@ k4 :> Frag(0, 0) @@ k5 :> Frag(0, 1)
MChashes ==
  0 :> (k1 :> 0 @@ k2 :> 0 @@ k3 :> 1 @@ k4 :> 2 @@ k5 :> 0) @@
  1 :> (k1 :> 2 @@ k2 :> 3 @@ k3 :> 3 @@ k4 :> 0 @@ k5 :> 1)
MCkeyfragment == k1 :> 0 @@ k2 :> 1 @@ k3 :> 0 @@ k4 :> 1 @@ k5 :> 0

\* Without conversion new_offset and keep_datastore do not matter.
Conf(table, quadratic, fixed, offset, keep) ==
  [table |-> table, quadratic |-> quadratic, fixed |-> fixed,
   new_offset |-> offset, keep_datastore |-> keep]
MCConfig ==
  {Conf("cuckoo", FALSE, TRUE, FALSE, FALSE), Conf("cuckoo", FALSE, TRUE, TRUE, FALSE),
   Conf("cuckoo", FALSE, TRUE, TRUE, TRUE), Conf("default", FALSE, TRUE, TRUE, FALSE),
   Conf("cuckoo", FALSE, FALSE, TRUE, TRUE), Conf("default", TRUE, FALSE, TRUE, TRUE)}
MCMaxLog == [c \in MCConfig |-> IF c.fixed /\ ~c.new_offset THEN 4 ELSE 3]
Symmetry == Permutations(Value)
==============================================================================
