-------------------------------- MODULE Ring --------------------------------
(***************************************************************************)
(* Consistent hashing as the Manager (src/fawnkv/Manager.cpp), the front   *)
(* end and the back ends (ring.cpp, nodehandle.cpp) compute it from a list *)
(* of virtual nodes [id, n] in increasing order of id.  Identifiers are    *)
(* numbers of a ring of Space points, compared as DBIDs are (dbid.cc).     *)
(***************************************************************************)
EXTENDS Integers, Sequences, SequencesExt

CONSTANT Space         \* 2^(8 * DBID_LENGTH)
ASSUME SpaceAssumption == Space \in Nat \ {0}

Id == 0 .. Space - 1

\* Is k in (s, e], clockwise?  A range that ends where it starts is the ring.
between(s, e, k) ==
  \/ s = e
  \/ e < s /\ (s < k \/ k <= e)
  \/ s < e /\ s < k /\ k <= e

After(list, i) == (i % Len(list)) + 1
-----------------------------------------------------------------------------
(* Lookups.  The list is not empty.                                          *)

\* The last node before v; the list's last node if v is not above any.
getPredecessor_First(list, v) ==
  LET i == SelectInSeq(list, LAMBDA e : e.id >= v) IN
  list[IF i = 0 THEN Len(list) ELSE IF i = 1 THEN 1 ELSE i - 1]
getPredecessor(list, v) ==
  LET i == SelectInSeq(list, LAMBDA e : e.id >= v) IN
  list[IF i \in {0, 1} THEN Len(list) ELSE i - 1]

\* The node after v if v is a node; else the end of the range that v is in.
getSuccessor(list, v) ==
  LET i == SelectInSeq(list, LAMBDA e : e.id = v)
      In(j) == between(list[j].id, list[After(list, j)].id, v)
      j == IF i # 0 THEN i
           ELSE CHOOSE j \in DOMAIN list : In(j) /\ \A h \in 1 .. j - 1 : ~In(h) IN
  list[After(list, j)]

OwnerIndex(list, k) ==
  LET i == SelectInSeq(list, LAMBDA e : k <= e.id) IN IF i = 0 THEN 1 ELSE i

getRangeKey(list, k) == list[OwnerIndex(list, k)].id

\* The owner of k, then the next physical nodes clockwise that are not yet in
\* the group, up to R nodes.
getReplicaGroup(list, k, R) ==
  LET o == OwnerIndex(list, k)
      others == [j \in 1 .. Len(list) - 1 |-> list[((o + j - 1) % Len(list)) + 1].n]
      Add(group, n) == IF Len(group) < R /\ ~Contains(group, n) THEN Append(group, n) ELSE group IN
  FoldLeft(Add, <<list[o].n>>, others)

\* Walk i steps back, or forward, from v.
RECURSIVE Back(_, _, _), Forward(_, _, _)
Back(list, v, i) == IF i = 0 THEN v ELSE Back(list, getPredecessor(list, v).id, i - 1)
Forward(list, v, i) == IF i = 0 THEN v ELSE Forward(list, getSuccessor(list, v).id, i - 1)
NodeAt(list, v) == list[SelectInSeq(list, LAMBDA e : e.id = v)].n
-----------------------------------------------------------------------------
(* The node of a replica group <<owner, replica, ...>> that a call goes to,   *)
(* given the nodes that are valid.                                           *)

NoTarget == "no target"
Undefined == "undefined"        \* back() of an empty vector is dereferenced

\* The first valid node; none if that is the last one of several.
retrievePutTarget(group, valid) ==
  LET f == SelectInSeq(group, LAMBDA n : n \in valid) IN
  CASE Len(group) = 1 -> group[1]
    [] Len(group) > 1 /\ f \in {0, Len(group)} -> NoTarget
    [] OTHER -> group[f]

\* The last valid replica, the first replica if none is.  The owner is the target
\* only where there is no replica, or an interim tail is wanted and the only
\* replica is not valid.
LastValid(replicas, valid) ==
  LET l == SelectLastInSeq(replicas, LAMBDA n : n \in valid) IN
  replicas[IF l = 0 THEN 1 ELSE l]
retrieveGetTarget(group, valid, interimTail) ==
  LET replicas == Tail(group) IN
  CASE replicas = <<>> /\ interimTail -> Undefined
    [] replicas = <<>> /\ ~interimTail -> group[1]
    [] Len(replicas) = 1 /\ interimTail /\ Last(replicas) \notin valid -> group[1]
    [] OTHER -> LastValid(replicas, valid)

-----------------------------------------------------------------------------
(* Changes.                                                                  *)

addNodetoRing(list, e) ==
  LET i == SelectInSeq(list, LAMBDA f : f.id >= e.id) IN
  CASE i = 0 -> Append(list, e)
    [] i # 0 /\ list[i].id = e.id -> list
    [] OTHER -> InsertAt(list, i, e)

removeNodefromRing(list, n) == SelectSeq(list, LAMBDA e : e.n # n)
-----------------------------------------------------------------------------
(* What they should compute, from the distance to go clockwise.              *)

Distance(a, b) == (b - a) % Space

\* The element of S that is nearest from k, going clockwise.
Nearest(S, k) == CHOOSE i \in S : \A j \in S : Distance(k, i) <= Distance(k, j)
Furthest(S, k) == CHOOSE i \in S : \A j \in S : Distance(k, j) <= Distance(k, i)

Sorted(list) == \A i, j \in DOMAIN list : i < j => list[i].id < list[j].id
Ids(list) == {list[i].id : i \in DOMAIN list}

\* For every identifier k the lookups agree with the geometry of the ring: the
\* range of k ends at the nearest node clockwise, its group are the next nodes,
\* each once, and the neighbours of k are the nearest other points.
Geometric(list, R) ==
  \A k \in Id :
    LET group == getReplicaGroup(list, k, R)
        nodes == ToSet(group) IN
    /\ getRangeKey(list, k) = Nearest(Ids(list), k)
    /\ getSuccessor(list, k).id = Nearest(Ids(list), (k + 1) % Space)
    /\ getPredecessor(list, k).id = Furthest(Ids(list), k)
    /\ group[1] = NodeAt(list, Nearest(Ids(list), k)) /\ IsInjective(group)
    /\ Len(group) <= R
    \* nothing outside the group is nearer than a member, and it is full if it can be
    /\ \A e \in ToSet(list) : e.n \notin nodes =>
         /\ Len(group) = R
         /\ \A m \in nodes : \E f \in ToSet(list) :
              f.n = m /\ Distance(k, f.id) < Distance(k, e.id)
=============================================================================
