----------------------------- MODULE MCBackStore -----------------------------
(* Two partitions of 5-bit keys for TLC.  The back stores at the start have  *)
(* one, two or four buckets, with keys spread over them or crowded in one:   *)
(* for the relative layouts, deltas that fit their fields and that do not.   *)
EXTENDS BackStore

MCKey == {0, 1, 3, 15, 17}

\* The layout the back store is compiled with, and the four others.
MCStart ==
  {"twolevel_absoff"} \X
    {{}, {2}, {1, 2, 3, 9, 17, 18, 29}, 0 .. 6, {3, 4, 9, 12, 14, 15, 17}}
  \cup {"flat_absoff", "semi_direct_16_absoff", "semi_direct_16_reloff", "twolevel_reloff"} \X
    {{1, 2, 3, 9, 10, 14, 15} \cup 16 .. 20}

\* Rows of expected_size.cpp.
MCknown_index_sizes ==
  << 2, 1 >> :> 1500000 @@ << 4, 1 >> :> 2035714 @@ << 2, 4 >> :> 375000 @@ << 4, 4 >> :> 750000
==============================================================================
