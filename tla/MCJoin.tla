-------------------------------- MODULE MCJoin -------------------------------
(* Four nodes at fixed places of a ring of 8 ids.  One replica: rings of none,  *)
(* one and two nodes, that the others join.  Two and three: static rings.       *)
EXTENDS Join

CONSTANTS n1, n2, n3, n4

MCvid == (n1 :> 1) @@ (n2 :> 3) @@ (n3 :> 5) @@ (n4 :> 6)
MCScenarios ==
  {[size |-> 1, static |-> s] : s \in {{}, {n2}, {n1, n3}}}
    \cup {[size |-> 2, static |-> {n1, n2, n3}], [size |-> 2, static |-> {n1, n2, n3, n4}],
          [size |-> 3, static |-> {n1, n2, n3, n4}]}
MCSplit == {[size |-> 1, static |-> {n1, n3}]}
=============================================================================
