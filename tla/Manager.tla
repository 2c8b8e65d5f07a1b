------------------------------- MODULE Manager -------------------------------
(***************************************************************************)
(* The Manager (src/fawnkv/Manager.cpp): the ring, the nodes' membership,  *)
(* their heartbeats and their failure, and the front end's copy of the     *)
(* ring (fe.cpp, ring.cpp).  One server thread serves each back end's      *)
(* connection, the aging thread runs beside them, and two mutexes protect  *)
(* the list of physical nodes and the ring.  What the back ends do with    *)
(* the calls they get is in Join and Chain; here the calls are recorded.   *)
(***************************************************************************)
EXTENDS Ring, FiniteSets

CONSTANTS
  StaticNodes,     \* nodes started with -j, which join by static_join, in their order
  Joiners,         \* nodes that join a running ring
  vid,             \* the virtual id of a node: BobHash of its address
  ReplicaSizes,    \* the values replica_group_size is started with
  NUM_BEATS_BEFORE_FAILURE,
  OneAtATime,      \* fawnkv/README: "only one node can join/fail at a time"
  MaxLate,         \* bound: aging passes between two heartbeats of a live node
  MaxEvents        \* bound: joins, crashes, restarts and ring updates of a behaviour

Static == ToSet(StaticNodes)
Node == Static \cup Joiners
ASSUME ManagerAssumption ==
  /\ IsInjective(vid) /\ vid \in [Node -> Id]
  /\ ReplicaSizes \subseteq Nat \ {0} /\ OneAtATime \in BOOLEAN
  /\ NUM_BEATS_BEFORE_FAILURE \in Nat /\ MaxLate \in Nat

VARIABLES
  replica_group_size,
  nodeList,                  \* the ring
  phyNodeList, numJoinedPhyNodes,
  ip_node_map,               \* the nodes created so far
  valid, beats, vnodes,      \* fields of the nodes: valid ones, beats missed, with a vnode
  vid_temptail_map, vid_shorter_map,
  phy_nodelist_mutex, virtual_nodelist_mutex,
  aging,                     \* the aging thread: pc, position in phyNodeList
  conn,                      \* where the thread of a node's connection is in its join
  told,                      \* the ranges and tails of the last vnode_pre_join_response
  cmms,                      \* flush_split calls of a join that are still to return
  ranges,                    \* the intervals a node was given by neighbor_update
  repairs, extends, flushes, \* calls of a repair that back ends are working on
  up, late, crashes, restarts,
  fe, reply, refreshes       \* the front end's ring; a get_ring_state being answered

ring == <<nodeList, vnodes>>
phys == <<phyNodeList, numJoinedPhyNodes, ip_node_map>>
health == <<valid, beats, late>>
flags == <<vid_temptail_map, vid_shorter_map>>
locks == <<phy_nodelist_mutex, virtual_nodelist_mutex>>
joins == <<conn, told, cmms>>
repair == <<repairs, extends, flushes>>
faults == <<up, crashes, restarts>>
front == <<fe, reply, refreshes>>
vars == <<replica_group_size, ring, phys, health, flags, locks, aging, joins,
          ranges, repair, faults, front>>

Free == "free"
R == replica_group_size
NoReply == <<>>
Cap(n) == IF n < NUM_BEATS_BEFORE_FAILURE THEN n ELSE NUM_BEATS_BEFORE_FAILURE  \* a bound

Init ==
  /\ replica_group_size \in ReplicaSizes
  /\ nodeList = <<>> /\ vnodes = {} /\ phyNodeList = <<>> /\ numJoinedPhyNodes = 0
  /\ ip_node_map = {} /\ valid = Node
  /\ beats = [n \in Node |-> 0] /\ late = [n \in Node |-> 0]
  /\ vid_temptail_map = {} /\ vid_shorter_map = {}
  /\ phy_nodelist_mutex = Free /\ virtual_nodelist_mutex = Free
  /\ aging = [pc |-> "sleep", i |-> 1]
  /\ conn = [n \in Node |-> "out"] /\ told = [n \in Node |-> <<>>]
  /\ cmms = [n \in Node |-> 0] /\ ranges = [n \in Node |-> {}]
  /\ repairs = {} /\ extends = {} /\ flushes = {}
  /\ up = Node /\ crashes = 0 /\ restarts = 0
  /\ fe = [nodes |-> <<>>, temptail |-> {}, shorter |-> {}] /\ reply = NoReply
  /\ refreshes = 0

\* The static ring is set up, if there is one; no join, failure or repair is in
\* progress, and no node that counts as valid is listed twice.
Quiet ==
  /\ (\A n \in Static : conn[n] = "out") \/ (\A n \in Static : ranges[n] # {})
  /\ \A n \in Node : conn[n] \in {"out", "in"} /\ cmms[n] = 0
  /\ \A n \in valid : n \in up /\ Cardinality({i \in DOMAIN phyNodeList : phyNodeList[i] = n}) <= 1
  /\ repairs = {} /\ extends = {} /\ flushes = {}
Events == crashes + restarts + refreshes + Cardinality({n \in Joiners : conn[n] # "out"})
MayChange == OneAtATime => Quiet
\* The static ring is set up first, one node after the other.
MaySetUp(n) ==
  OneAtATime => /\ crashes = 0 /\ \A m \in Joiners : conn[m] = "out"
                /\ \E i \in DOMAIN StaticNodes : /\ StaticNodes[i] = n
                                               /\ \A j \in 1 .. i - 1 : conn[StaticNodes[j]] = "in"
-----------------------------------------------------------------------------
(* static_join and rejoin: createNode, the list of physical nodes, the ring.  *)

static_join(n) ==
  /\ n \in Static /\ conn[n] = "out" /\ MaySetUp(n)
  /\ ip_node_map' = ip_node_map \cup {n}
  /\ conn' = [conn EXCEPT ![n] = "physical"]
  /\ UNCHANGED <<replica_group_size, ring, phyNodeList, numJoinedPhyNodes, health,
                 flags, locks, aging, told, cmms, ranges, repair, faults, front>>

\* push_front under phy_nodelist_mutex.
AddPhysical(n) ==
  /\ conn[n] = "physical" /\ phy_nodelist_mutex = Free
  /\ phyNodeList' = <<n>> \o phyNodeList
  /\ numJoinedPhyNodes' = numJoinedPhyNodes + 1
  /\ conn' = [conn EXCEPT ![n] = "virtual"]
  /\ UNCHANGED <<replica_group_size, ring, ip_node_map, health, flags, locks, aging,
                 told, cmms, ranges, repair, faults, front>>

\* staticJoin under virtual_nodelist_mutex: addVnode, addNodetoRing.
staticJoin(n) ==
  /\ vnodes' = vnodes \cup {n}
  /\ nodeList' = addNodetoRing(nodeList, [id |-> vid[n], n |-> n])
AddVirtual(n) ==
  /\ conn[n] = "virtual" /\ virtual_nodelist_mutex = Free
  /\ staticJoin(n)
  /\ conn' = [conn EXCEPT ![n] = "in"]
  /\ UNCHANGED <<replica_group_size, phys, health, flags, locks, aging, told, cmms,
                 ranges, repair, faults, front>>

\* The thread of the connection is busy: the node's next call waits.
InHandler(n) == conn[n] \in {"physical", "virtual", "sent", "adding"}

\* A node's heartbeat, one after each aging pass: if the node was ever created it
\* is marked alive.
heartbeat(n) ==
  /\ n \in up /\ conn[n] # "out" /\ ~InHandler(n) /\ late[n] # 0
  /\ beats' = IF n \in ip_node_map THEN [beats EXCEPT ![n] = 0] ELSE beats
  /\ late' = [late EXCEPT ![n] = 0]
  /\ UNCHANGED <<replica_group_size, ring, phys, valid, flags, locks, aging,
                 joins, ranges, repair, faults, front>>

\* ringStart: when the operator says so, every node of the ring is told its
\* neighbours, and makes an interval of the range of each of its R predecessors.
Interval(i, n) == <<Back(nodeList, vid[n], R - i + 1), Back(nodeList, vid[n], R - i)>>
neighbor_update_NotOwn(n) == {Interval(i, n) : i \in 1 .. R - 1}
neighbor_update(n) == {Interval(i, n) : i \in 1 .. R}
sendNeighborUpdates ==
  /\ Static # {} /\ \A n \in Static : conn[n] = "in" /\ ranges[n] = {} /\ n \in up
  /\ \A n \in Joiners : conn[n] = "out"
  /\ ranges' = [n \in Node |-> IF n \in vnodes THEN neighbor_update(n) ELSE {}]
  /\ UNCHANGED <<replica_group_size, ring, phys, health, flags, locks, aging, joins,
                 repair, faults, front>>
-----------------------------------------------------------------------------
(* A node joins a running ring: join, vnode_pre_join, a precopy by the back   *)
(* ends, vnode_join, and a flush_split that comes back for each range.        *)

join(n) ==
  /\ n \in Joiners /\ conn[n] = "out" /\ MayChange /\ Events < MaxEvents
  /\ ip_node_map' = ip_node_map \cup {n}
  /\ conn' = [conn EXCEPT ![n] = "init"]
  /\ UNCHANGED <<replica_group_size, ring, phyNodeList, numJoinedPhyNodes, health,
                 flags, locks, aging, told, cmms, ranges, repair, faults, front>>

\* getNbrhood: the ranges n will replicate and the tail each is copied from.  The
\* first node of a ring copies nothing, and with R > 1 reads an empty list.
getNbrhood_Heads(n) ==
  [i \in 1 .. R |-> [start |-> Back(nodeList, vid[n], R - i + 1),
                     end |-> IF i = R THEN vid[n] ELSE Back(nodeList, vid[n], R - i),
                     tail |-> NodeAt(nodeList, Forward(nodeList, vid[n], 1))]]
getNbrhood(n) ==
  [i \in 1 .. R |-> [start |-> Back(nodeList, vid[n], R - i + 1),
                     end |-> IF i = R THEN vid[n] ELSE Back(nodeList, vid[n], R - i),
                     tail |-> NodeAt(nodeList, Forward(nodeList, vid[n], i))]]
vnode_pre_join(n) ==
  /\ conn[n] = "init" /\ virtual_nodelist_mutex = Free
  /\ told' = [told EXCEPT ![n] = IF nodeList = <<>> THEN <<>> ELSE getNbrhood(n)]
  /\ conn' = [conn EXCEPT ![n] = IF nodeList = <<>> /\ R > 1 THEN "undefined" ELSE "precopy"]
  /\ UNCHANGED <<replica_group_size, ring, phys, health, flags, locks, aging, cmms,
                 ranges, repair, faults, front>>

\* vnode_join takes the ring's mutex and sends a flush_split for each range;
\* temp_vnbrs is too short if a physical node is counted but not yet in the ring.
vnode_join(n) ==
  /\ conn[n] = "precopy" /\ virtual_nodelist_mutex = Free
  /\ LET short == numJoinedPhyNodes # 0 /\ nodeList = <<>> IN
     /\ conn' = [conn EXCEPT ![n] = IF short THEN "undefined" ELSE "sent"]
     /\ cmms' = [cmms EXCEPT ![n] = IF short THEN 0 ELSE IF numJoinedPhyNodes = 0 THEN 1 ELSE R]
     /\ virtual_nodelist_mutex' = IF short THEN Free ELSE n
  /\ UNCHANGED <<replica_group_size, ring, phys, health, flags, phy_nodelist_mutex,
                 aging, told, ranges, repair, faults, front>>

\* The end of the range that n becomes the tail of: temp_vnbrs[1].
TailVid(n) == IF R = 1 THEN vid[n] ELSE Back(nodeList, vid[n], R - 1)
SetTempTail(n) ==
  /\ conn[n] = "sent"
  /\ conn' = [conn EXCEPT ![n] = "adding"]
  /\ vid_temptail_map' = IF numJoinedPhyNodes = 0 THEN vid_temptail_map
                         ELSE vid_temptail_map \cup {TailVid(n)}
  /\ UNCHANGED <<replica_group_size, ring, phys, health, vid_shorter_map, locks, aging,
                 told, cmms, ranges, repair, faults, front>>

\* It waits for the other mutex while it holds the ring's.
AddJoiner(n) ==
  /\ conn[n] = "adding" /\ phy_nodelist_mutex = Free
  /\ phyNodeList' = <<n>> \o phyNodeList
  /\ numJoinedPhyNodes' = numJoinedPhyNodes + 1
  /\ staticJoin(n)
  /\ virtual_nodelist_mutex' = Free
  /\ conn' = [conn EXCEPT ![n] = "in"]
  /\ UNCHANGED <<replica_group_size, ip_node_map, health, flags, phy_nodelist_mutex,
                 aging, told, cmms, ranges, repair, faults, front>>

flush_split(n) ==
  /\ cmms[n] > 0
  /\ cmms' = [cmms EXCEPT ![n] = @ - 1]
  /\ vid_temptail_map' = vid_temptail_map \ {vid[n]}
  /\ UNCHANGED <<replica_group_size, ring, phys, health, vid_shorter_map, locks, aging,
                 conn, told, ranges, repair, faults, front>>
-----------------------------------------------------------------------------
(* The aging thread: ageNodes holds phy_nodelist_mutex for the whole pass.    *)

\* Entries i .. j of the list are visited: their nodes' beats after that.
Aged(i, j) ==
  [n \in Node |-> Cap(beats[n] + Cardinality({h \in i .. j : phyNodeList[h] = n}))]
\* The loop runs on from entry i to the first node it finds failed, at the end of
\* the list it releases the mutex.  (A heartbeat during the loop counts as one
\* before or after it.)
Walk_OneEarly(i) ==
  LET Failed(j) == /\ phyNodeList[j] \in valid
                   /\ Aged(i, j)[phyNodeList[j]] >= NUM_BEATS_BEFORE_FAILURE - 1
      failed == {j \in i .. Len(phyNodeList) : Failed(j)} IN
  /\ beats' = Aged(i, IF failed = {} THEN Len(phyNodeList) ELSE Min(failed))
  /\ aging' = IF failed = {} THEN [pc |-> "sleep", i |-> 1] ELSE [pc |-> "fail", i |-> Min(failed)]
  /\ phy_nodelist_mutex' = IF failed = {} THEN Free ELSE "aging"
Walk_KeepsMutex(i) ==
  /\ beats' = Aged(i, Len(phyNodeList))
  /\ aging' = [pc |-> "sleep", i |-> 1]
  /\ phy_nodelist_mutex' = "aging"
Walk(i) ==
  LET Failed(j) == /\ phyNodeList[j] \in valid
                   /\ Aged(i, j)[phyNodeList[j]] >= NUM_BEATS_BEFORE_FAILURE
      failed == {j \in i .. Len(phyNodeList) : Failed(j)} IN
  /\ beats' = Aged(i, IF failed = {} THEN Len(phyNodeList) ELSE Min(failed))
  /\ aging' = IF failed = {} THEN [pc |-> "sleep", i |-> 1] ELSE [pc |-> "fail", i |-> Min(failed)]
  /\ phy_nodelist_mutex' = IF failed = {} THEN Free ELSE "aging"

ageNodes ==
  /\ aging.pc = "sleep" /\ phy_nodelist_mutex = Free /\ phyNodeList # <<>>
  /\ \A n \in up \cap valid : conn[n] # "out" => late[n] < MaxLate
  /\ Walk(1)
  /\ late' = [n \in Node |-> IF n \in ip_node_map THEN Cap(late[n] + 1) ELSE 0]
  /\ UNCHANGED <<replica_group_size, ring, phys, valid, flags,
                 virtual_nodelist_mutex, joins, ranges, repair, faults, front>>

\* After failNode the loop visits the same entry again.
AgeOn ==
  /\ aging.pc = "walk" /\ Walk(aging.i)
  /\ UNCHANGED <<replica_group_size, ring, phys, valid, late, flags,
                 virtual_nodelist_mutex, joins, ranges, repair, faults, front>>

\* One replica: the successor takes the range over and the ring forgets n; then
\* removePhysicalNode locks the mutex that the aging thread holds already.
FailSingle(n) ==
  LET pred == getPredecessor(nodeList, vid[n]).id
      succ == getSuccessor(nodeList, vid[n]) IN
  /\ ranges' = [ranges EXCEPT ![succ.n] =
                  {IF r[2] = succ.id THEN <<pred, r[2]>> ELSE r : r \in @}]
  /\ nodeList' = removeNodefromRing(nodeList, n)
  /\ aging' = [aging EXCEPT !.pc = "locked out"]
  /\ UNCHANGED <<vid_shorter_map, repairs, extends, valid>>

\* More replicas: the chains n was the tail or a middle of are repaired, a new
\* tail is found for the range n was the head of, and n stays in the ring.
FailReplicated_SkipMid(n) ==
  LET Pred(i) == Back(nodeList, vid[n], i)
      Succ(i) == Forward(nodeList, vid[n], i) IN
  /\ n \in vnodes
  /\ vid_shorter_map' = vid_shorter_map \cup {Pred(i) : i \in 1 .. R - 1} \cup {Succ(1)}
  /\ repairs' = repairs \cup
       {[kind |-> "tail", to |-> NodeAt(nodeList, Pred(R - 1)), end |-> Pred(R - 1)]}
  /\ extends' = extends \cup
       {[to |-> NodeAt(nodeList, Succ(R)), from |-> NodeAt(nodeList, Succ(R - 1)),
         start |-> Pred(1), end |-> vid[n], mode |-> "MERGE"]}
  /\ valid' = valid \ {n}
  /\ aging' = [aging EXCEPT !.pc = "walk"]
  /\ UNCHANGED <<ranges, nodeList>>
FailReplicated_StaysValid(n) ==
  LET Pred(i) == Back(nodeList, vid[n], i)
      Succ(i) == Forward(nodeList, vid[n], i) IN
  /\ n \in vnodes
  /\ vid_shorter_map' = vid_shorter_map \cup {Pred(i) : i \in 1 .. R - 1} \cup {Succ(1)}
  /\ aging' = [aging EXCEPT !.pc = "walk"]
  /\ UNCHANGED <<ranges, nodeList, repairs, extends, valid>>
FailReplicated(n) ==
  LET Pred(i) == Back(nodeList, vid[n], i)
      Succ(i) == Forward(nodeList, vid[n], i) IN
  /\ n \in vnodes
  /\ vid_shorter_map' = vid_shorter_map \cup {Pred(i) : i \in 1 .. R - 1} \cup {Succ(1)}
  /\ repairs' = repairs \cup
       {[kind |-> "tail", to |-> NodeAt(nodeList, Pred(R - 1)), end |-> Pred(R - 1)]}
       \cup {[kind |-> "mid", to |-> NodeAt(nodeList, Pred(1)), end |-> Pred(i)] : i \in 1 .. R - 2}
  /\ extends' = extends \cup
       {[to |-> NodeAt(nodeList, Succ(R)), from |-> NodeAt(nodeList, Succ(R - 1)),
         start |-> Pred(1), end |-> vid[n], mode |-> "MERGE"]}
  /\ valid' = valid \ {n}
  /\ aging' = [aging EXCEPT !.pc = "walk"]
  /\ UNCHANGED <<ranges, nodeList>>

failNode ==
  /\ aging.pc = "fail" /\ virtual_nodelist_mutex = Free
  /\ \/ R = 1 /\ FailSingle(phyNodeList[aging.i])
     \/ R > 1 /\ FailReplicated(phyNodeList[aging.i])
  /\ UNCHANGED <<replica_group_size, vnodes, phys, beats, late, vid_temptail_map,
                 locks, joins, flushes, faults, front>>
-----------------------------------------------------------------------------
(* Repairs, as far as the Manager drives them.                               *)

\* A chain is repaired: the node after its R nodes is told to copy the range from
\* the last of them that is valid.
chain_repair_done(m) ==
  LET members == [i \in 1 .. R |-> NodeAt(nodeList, Forward(nodeList, m.end, i - 1))] IN
  /\ m \in repairs /\ m.to \in up /\ virtual_nodelist_mutex = Free
  /\ repairs' = repairs \ {m}
  /\ extends' = extends \cup
       {[to |-> NodeAt(nodeList, Forward(nodeList, m.end, R)),
         from |-> members[SelectLastInSeq(members, LAMBDA n : n \in valid)],
         start |-> getPredecessor(nodeList, m.end).id, end |-> m.end, mode |-> "PLAIN"]}
  /\ UNCHANGED <<replica_group_size, ring, phys, health, flags, locks, aging, joins,
                 ranges, flushes, faults, front>>

\* The copy is done: vnode_join in mode MERGE or PLAIN starts the flush, at the
\* owner of the range or, if the range is merged, at the node after it.
vnode_join_extend_chain(m) ==
  LET succ == getSuccessor(nodeList, m.start).id
      group == getReplicaGroup(nodeList, succ, R) IN
  /\ m \in extends /\ m.to \in up /\ virtual_nodelist_mutex = Free
  /\ extends' = extends \ {m}
  /\ vid_shorter_map' = vid_shorter_map \ {m.start}
  /\ flushes' = flushes \cup
       {[to |-> group[IF m.mode = "MERGE" THEN 2 ELSE 1], start |-> m.start, end |-> succ]}
  /\ UNCHANGED <<replica_group_size, ring, phys, health, vid_temptail_map, locks, aging,
                 joins, ranges, repairs, faults, front>>

flush_nosplit(m) ==
  /\ m \in flushes /\ m.to \in up
  /\ flushes' = flushes \ {m}
  /\ vid_temptail_map' = vid_temptail_map \ {m.start}
  /\ vid_shorter_map' = vid_shorter_map \ {m.start}
  /\ UNCHANGED <<replica_group_size, ring, phys, health, locks, aging, joins, ranges,
                 repairs, extends, faults, front>>
-----------------------------------------------------------------------------
(* The front end reads the ring: the nodes, and after them the flags.  The    *)
(* mutex is released before the first is read.                               *)

get_ring_state ==
  /\ reply = NoReply /\ virtual_nodelist_mutex = Free /\ Events < MaxEvents
  /\ reply' = <<nodeList>> /\ refreshes' = refreshes + 1
  /\ UNCHANGED <<replica_group_size, ring, phys, health, flags, locks, aging, joins,
                 ranges, repair, faults, fe>>

UpdateState(nodes) ==
  fe' = [nodes |-> nodes, temptail |-> vid_temptail_map, shorter |-> vid_shorter_map]
UpdateRingState ==
  /\ reply # NoReply
  /\ UpdateState(reply[1])
  /\ reply' = NoReply
  /\ UNCHANGED <<refreshes, replica_group_size, ring, phys, health, flags, locks, aging, joins,
                 ranges, repair, faults>>

\* Where FrontEnd::put and get send a key.  ring.cpp makes every node valid.
FrontEndGroup(k) == getReplicaGroup(fe.nodes, k, R)
FrontEndSuccessorID(k) == getSuccessor(fe.nodes, k).id
interim_tail(k) ==
  FrontEndSuccessorID(k) \in fe.temptail \/ getRangeKey(fe.nodes, k) \in fe.shorter
PutTarget(k) == retrievePutTarget(FrontEndGroup(k), Node)
GetTarget(k) == retrieveGetTarget(FrontEndGroup(k), Node, interim_tail(k))
-----------------------------------------------------------------------------
(* A member of a ring of more than R nodes crashes, and restarts (rejoin).  A  *)
(* second crash is out of scope: a failed node stays in the ring, and failNode *)
(* counts it among the replicas.                                             *)

Crash(n) ==
  /\ n \in up \cap valid /\ conn[n] = "in" /\ Events < MaxEvents /\ MayChange
  /\ crashes = 0 /\ Len(nodeList) > R
  /\ up' = up \ {n} /\ crashes' = crashes + 1
  /\ UNCHANGED <<replica_group_size, ring, phys, health, flags, locks, aging, joins,
                 ranges, repair, restarts, front>>

rejoin(n) ==
  /\ n \notin up /\ Events < MaxEvents
  /\ up' = up \cup {n} /\ restarts' = restarts + 1
  /\ conn' = [conn EXCEPT ![n] = "physical"]
  /\ UNCHANGED <<replica_group_size, ring, phys, health, flags, locks, aging, told,
                 cmms, ranges, repair, crashes, front>>
-----------------------------------------------------------------------------
AgingThread == ageNodes \/ AgeOn \/ failNode
Connection(n) ==
  \/ AddPhysical(n) \/ AddVirtual(n) \/ vnode_pre_join(n) \/ vnode_join(n)
  \/ SetTempTail(n) \/ AddJoiner(n) \/ flush_split(n)
Repair ==
  \/ \E m \in repairs : chain_repair_done(m)
  \/ \E m \in extends : vnode_join_extend_chain(m)
  \/ \E m \in flushes : flush_nosplit(m)
FrontEnd == get_ring_state \/ UpdateRingState

Next ==
  \/ AgingThread \/ Repair \/ FrontEnd \/ sendNeighborUpdates
  \/ \E n \in Node : Connection(n) \/ heartbeat(n) \/ static_join(n) \/ join(n) \/ Crash(n) \/ rejoin(n)

\* The aging thread's loop and the server threads run on; back ends beat while
\* they are up.
Fairness ==
  /\ WF_vars(AgingThread)
  /\ \A n \in Node : WF_vars(Connection(n)) /\ WF_vars(heartbeat(n))
Spec == Init /\ [][Next]_vars /\ Fairness
-----------------------------------------------------------------------------
(* Properties.                                                               *)

TypeOK ==
  /\ replica_group_size \in ReplicaSizes
  /\ nodeList \in Seq([id : Id, n : Node]) /\ vnodes \subseteq Node
  /\ phyNodeList \in Seq(Node) /\ numJoinedPhyNodes = Len(phyNodeList)
  /\ ip_node_map \subseteq Node /\ valid \subseteq Node /\ up \subseteq Node
  /\ beats \in [Node -> Nat] /\ late \in [Node -> Nat]
  /\ vid_temptail_map \subseteq Id /\ vid_shorter_map \subseteq Id
  /\ phy_nodelist_mutex \in {Free, "aging"}
  /\ virtual_nodelist_mutex \in {Free} \cup Node
  /\ aging \in [pc : {"sleep", "walk", "fail", "locked out"}, i : Nat \ {0}]
  /\ conn \in [Node -> {"out", "physical", "virtual", "init", "precopy", "sent",
                        "adding", "in", "undefined"}]
  /\ cmms \in [Node -> Nat] /\ ranges \in [Node -> SUBSET (Id \X Id)]

\* Whatever joins and removals interleave, the ring of the Manager and the front
\* end's copy are in increasing order (ring.cpp relies on it), and on both every
\* lookup finds what the geometry of the ring says.
RoutingGeometric ==
  \A list \in {nodeList, fe.nodes} \ {<<>>} : Sorted(list) /\ Geometric(list, R)

\* What neighbor_update gives the back ends is what the front end routes by: a node
\* holds a key exactly if it is in the key's replica group, and with one replica
\* this is still so after chain_repair_single, until the failed node comes back.  An
\* up-to-date front end sends a put to the node that made its first interval for
\* the key, and a get to the one that made its last.
Holds(n, k) == \E r \in ranges[n] : between(r[1], r[2], k)
RangesMatchRouting ==
  /\ nodeList # <<>> /\ \A e \in ToSet(nodeList) : ranges[e.n] # {}
  /\ R > 1 \/ restarts = 0
  =>
  /\ \A k \in Id, e \in ToSet(nodeList) :
       Holds(e.n, k) <=> Contains(getReplicaGroup(nodeList, k, R), e.n)
  /\ fe.nodes = nodeList /\ Len(nodeList) >= R =>
       \A k \in Id :
         LET head == vid[PutTarget(k)]
             tail == vid[GetTarget(k)] IN
         /\ between(Back(nodeList, head, 1), head, k)
         /\ between(Back(nodeList, tail, R), Back(nodeList, tail, R - 1), k)

\* A node that prepares to join is told to copy exactly the keys it will replicate,
\* each range from the tail of its chain: the tail alone has only answered puts.
PrecopyFromTails ==
  \A n \in Joiners : conn[n] = "precopy" /\ Len(nodeList) >= R =>
    LET joined == addNodetoRing(nodeList, [id |-> vid[n], n |-> n])
        Copied(k) == \E i \in 1 .. R : between(told[n][i].start, told[n][i].end, k) IN
    /\ \A i \in 1 .. R : told[n][i].tail = Last(getReplicaGroup(nodeList, told[n][i].end, R))
    /\ \A k \in Id : Copied(k) <=> Contains(getReplicaGroup(joined, k, R), n)

\* A front end that knows a joining node knows too that the node, still waiting for
\* a flush_split, may not serve the range it is the tail of: vnode_join sets the
\* flag before it changes the ring, get_ring_state reads the ring before the flags.
TempTailVisible ==
  \A n \in Joiners, k \in Id :
    /\ cmms[n] > 0 /\ Len(fe.nodes) > R
    /\ Last(getReplicaGroup(fe.nodes, k, R)) = n
    => getRangeKey(fe.nodes, k) \in fe.temptail

\* The calls of a repair go to nodes that are alive and fit for them: a chain is
\* extended by a node outside it, which copies from the chain's last valid node,
\* and the flush starts at the first valid node of the range.
RepairPlan ==
  LET Group(k) == getReplicaGroup(nodeList, k, R)
      Alive(k) == SelectSeq(Group(k), LAMBDA n : n \in valid) IN
  /\ \A m \in repairs : Contains(Alive(m.end), m.to)
  /\ \A m \in extends : /\ m.to \in valid /\ ~Contains(Group(m.end), m.to)
                        /\ m.from = Last(Alive(m.end))
  /\ \A m \in flushes : m.to = Head(Alive(m.end))

\* When a node fails, a repair or an extension starts for every range it replicated.
EveryChainRepaired ==
  [][\A n \in valid \ valid', i \in DOMAIN nodeList :
       Contains(getReplicaGroup(nodeList, nodeList[i].id, R), n) =>
         \E m \in repairs' \cup extends' : m.end = nodeList[i].id]_vars

\* No node is found failed before two aging passes began without its heartbeat, or
\* one if it rejoined: it is then in phyNodeList, and ages in a pass, twice.
NotFailedEarly ==
  [][aging.pc # "fail" /\ aging'.pc = "fail" =>
       LET n == phyNodeList[aging'.i] IN
       late'[n] >= IF Cardinality({i \in DOMAIN phyNodeList : phyNodeList[i] = n}) = 1
                   THEN 2 ELSE 1]_vars

\* With more than one replica a crashed node is found failed, or comes back.
CrashDetected == []<>(R = 1 \/ valid \subseteq up)

\* A join gets through the two mutexes, whatever the aging thread does at the same
\* time (the threads take the mutexes in opposite orders).
JoinsComplete == []<>(R = 1 \/ \A n \in Node : ~InHandler(n))

\* nodehandle.cpp: "R = 1, there is no interim tail to worry about": a get of any
\* key has a defined target.
InterimTailDefined == fe.nodes # <<>> => \A k \in Id : GetTarget(k) # Undefined
=============================================================================
