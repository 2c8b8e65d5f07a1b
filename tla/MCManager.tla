------------------------------ MODULE MCManager ------------------------------
(* Three static nodes and one that joins, at fixed places of a ring of 8 ids.  *)
EXTENDS Manager

CONSTANTS n1, n2, n3, n4

MCStaticNodes == <<n1, n2, n3>>
MCJoiners == {n4}
MCvid == (n1 :> 1) @@ (n2 :> 6) @@ (n3 :> 3) @@ (n4 :> 5)
=============================================================================
