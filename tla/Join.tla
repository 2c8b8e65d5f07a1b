-------------------------------- MODULE Join --------------------------------
(***************************************************************************)
(* How the key ranges move between back ends when a node joins and when a  *)
(* chain is extended after a failure (FawnKVBackendHandler.cpp,            *)
(* node_mgr_db.cpp, node_mgr.cpp).  A back end keeps a list of interval    *)
(* stores, found by key; oneway calls between back ends and the Manager    *)
(* are in flight until some server thread handles them.  The Manager's     *)
(* own threads and mutexes are in Manager; here its handlers are atomic.   *)
(* A back end has one virtual node, as in the code.                        *)
(***************************************************************************)
EXTENDS Ring, FiniteSets

CONSTANTS
  vid,             \* the virtual id of every node
  Scenarios,       \* [size, static]: replica group size, nodes of the static ring
  Uninitialized,   \* what num_precopies may hold on a node that never joined
  JoinSizes,       \* the replica group sizes for which nodes join a running ring
  Manager,         \* the address of the Manager
  MaxFails,        \* bound: failures of nodes
  MaxPuts          \* bound: keys that are put

Node == DOMAIN vid
ASSUME JoinAssumption ==
  /\ IsInjective(vid) /\ vid \in [Node -> Id] /\ Manager \notin Node
  /\ \A c \in Scenarios : c.size \in Nat \ {0} /\ c.static \subseteq Node
  /\ Uninitialized \subseteq Nat /\ JoinSizes \subseteq Nat

SPLIT == 0
MERGE == 1
PLAIN == 2

VARIABLES
  replica_group_size, nodeList,      \* the Manager's
  up,                                \* the nodes that are running
  dbs,                               \* a node's intervals: start, end, valid, tempDS, ...
  successor, predecessor,            \* vid_sid_succIP_map, vid_pid_predIP_map
  num_precopies, vid_precopy_map, vid_extension_map,
  joined,                            \* nodes that have called the Manager's join
  calls,                             \* calls in flight, threads that are yet to run
  failed,                            \* nodes that an assert stopped, or a null pointer
  stored, answered                   \* <<node, key>> in the SILT stores; keys of answered puts

manager == <<replica_group_size, nodeList>>
links == <<successor, predecessor>>
copies == <<num_precopies, vid_precopy_map, vid_extension_map>>
data == <<stored, answered>>
vars == <<manager, up, dbs, links, copies, joined, calls, failed, data>>

R == replica_group_size
Members == {nodeList[i].n : i \in DOMAIN nodeList}
-----------------------------------------------------------------------------
(* Interval stores: node_mgr_db.cpp.                                         *)

\* init_interval_db: the name of the file is the end of the interval.
init_interval_db(s, e) ==
  [s |-> s, e |-> e, valid |-> TRUE, tempDS |-> FALSE, split |-> FALSE, precopyIP |-> Manager]

\* Nothing happens if a store of that name is listed already.
create_interval_file(list, s, e) ==
  IF \E i \in DOMAIN list : list[i].e = e THEN list ELSE Append(list, init_interval_db(s, e))

\* The first valid interval that contains k, 0 if there is none.
findIntervalDb(n, k) ==
  SelectInSeq(dbs[n], LAMBDA d : between(d.s, d.e, k) /\ d.valid)

\* The intervals of a node of a static ring, furthest predecessor first.
neighbor_update(list, size, n) ==
  LET Start(i) == Back(list, vid[n], size - i)
      Add(l, i) == create_interval_file(l, Start(i), IF i = size - 1 THEN vid[n] ELSE Start(i + 1)) IN
  FoldLeft(Add, <<>>, [i \in 1 .. size |-> i - 1])

Init ==
  \E c \in Scenarios, u \in Uninitialized :
    LET list == FoldSet(LAMBDA n, l : addNodetoRing(l, [id |-> vid[n], n |-> n]), <<>>, c.static) IN
    /\ replica_group_size = c.size /\ nodeList = list
    /\ up = Node /\ joined = {}
    /\ dbs = [n \in Node |-> IF n \in c.static THEN neighbor_update(list, c.size, n) ELSE <<>>]
    /\ successor = [n \in Node |-> IF n \in c.static THEN getSuccessor(list, vid[n]).n ELSE Manager]
    /\ predecessor = [n \in Node |-> IF n \in c.static THEN getPredecessor(list, vid[n]).n ELSE Manager]
    /\ num_precopies = [n \in Node |-> u]
    /\ vid_precopy_map = [n \in Node |-> 0]
    /\ vid_extension_map = [n \in Node |-> [k \in Id |-> SPLIT]]
    /\ calls = {} /\ failed = {} /\ stored = {} /\ answered = {}

\* fawnkv/README: only one node can join or fail at a time.
Quiet == calls = {} /\ joined \cap up \subseteq Members

Handles(c, op) ==
  c \in calls /\ c.op = op /\ c.to \in (up \ failed) \cup {Manager}
Replaced(c, more) == calls' = (calls \ {c}) \cup more

\* connect_to_backend records the neighbour under a vid; a node looks its own up.
connect_to_backend(link, n, k, m) == IF k = vid[n] THEN [link EXCEPT ![n] = m] ELSE link
get_successor_client(n) == successor[n]

\* An assert of the handler fails, or it dereferences NULL.
Aborts(c) ==
  /\ failed' = failed \cup {c.to} /\ Replaced(c, {})
  /\ UNCHANGED <<manager, up, dbs, links, copies, joined, data>>
-----------------------------------------------------------------------------
(* A node asks to join: init_response, then vnode_pre_join for its vid.  The  *)
(* Manager answers with the ranges and the tails to copy them from.          *)

init_response(n) ==
  /\ R \in JoinSizes /\ Quiet /\ n \in up \ Members
  /\ joined' = joined \cup {n}
  /\ calls' = {[to |-> Manager, op |-> "vnode_pre_join", n |-> n]}
  /\ UNCHANGED <<manager, up, dbs, links, copies, failed, data>>

\* getNbrhood: the i-th range and its tail.
getNbrhood(n) ==
  [i \in 1 .. R |-> [s |-> Back(nodeList, vid[n], R + 1 - i),
                     e |-> IF i = R THEN vid[n] ELSE Back(nodeList, vid[n], R - i),
                     tail |-> NodeAt(nodeList, Forward(nodeList, vid[n], i))]]
vnode_pre_join(c) ==
  /\ Handles(c, "vnode_pre_join")
  /\ Replaced(c, {[to |-> c.n, op |-> "vnode_pre_join_response",
                   ranges |-> IF nodeList = <<>> THEN <<>> ELSE getNbrhood(c.n)]})
  /\ UNCHANGED <<manager, up, dbs, links, copies, joined, failed, data>>

\* The first node takes the whole ring and joins at once; another one creates
\* its intervals and asks each tail for a copy.
vnode_pre_join_response(c) ==
  LET n == c.to
      r == c.ranges
      Create(l, i) == create_interval_file(l, r[i].s, r[i].e) IN
  /\ Handles(c, "vnode_pre_join_response")
  /\ IF r = <<>>
     THEN /\ dbs' = [dbs EXCEPT ![n] =
                 Append(@, [init_interval_db(vid[n], vid[n]) EXCEPT !.tempDS = TRUE])]
          /\ Replaced(c, {[to |-> Manager, op |-> "vnode_join", n |-> n, k |-> vid[n], mode |-> SPLIT]})
          /\ UNCHANGED copies
     ELSE /\ dbs' = [dbs EXCEPT ![n] = FoldLeft(Create, @, [i \in DOMAIN r |-> i])]
          /\ num_precopies' = [num_precopies EXCEPT ![n] = Len(r)]
          /\ vid_precopy_map' = [vid_precopy_map EXCEPT ![n] = 0]
          /\ vid_extension_map' = [vid_extension_map EXCEPT ![n] =
               [k \in Id |-> IF \E i \in DOMAIN r : r[i].s = k THEN SPLIT ELSE @[k]]]
          /\ Replaced(c, {[to |-> r[i].tail, op |-> "precopy_request", s |-> r[i].s, e |-> r[i].e,
                           peer |-> n] : i \in DOMAIN r})
  /\ UNCHANGED <<manager, up, links, joined, failed, data>>

\* precopy_request_thread: the FAWN-DS store that split_next walks stays empty,
\* since put_helper writes to the SILT store, so nothing is sent but the response.
precopy_request_MovesStart(c) ==
  LET n == c.to
      i == findIntervalDb(n, c.e) IN
  /\ Handles(c, "precopy_request")
  /\ dbs' = IF i = 0 THEN dbs ELSE [dbs EXCEPT ![n][i].precopyIP = c.peer, ![n][i].s = c.e]
  /\ Replaced(c, {[to |-> c.peer, op |-> "precopy_response", s |-> c.s, e |-> c.e]})
  /\ UNCHANGED <<manager, up, links, copies, joined, failed, data>>
precopy_request(c) ==
  LET n == c.to
      i == findIntervalDb(n, c.e) IN
  /\ Handles(c, "precopy_request")
  /\ dbs' = IF i = 0 THEN dbs ELSE [dbs EXCEPT ![n][i].precopyIP = c.peer]
  /\ Replaced(c, {[to |-> c.peer, op |-> "precopy_response", s |-> c.s, e |-> c.e]})
  /\ UNCHANGED <<manager, up, links, copies, joined, failed, data>>

\* A temporary store takes the updates from here on.  The extension of a chain is
\* announced range by range, a join once all the copies are there.
precopy_response(c) ==
  LET n == c.to
      i == findIntervalDb(n, c.e)
      mode == vid_extension_map[n][c.s]
      got == vid_precopy_map[n] + 1
      Joins(k, m) == [to |-> Manager, op |-> "vnode_join", n |-> n, k |-> k, mode |-> m] IN
  /\ Handles(c, "precopy_response")
  /\ IF i = 0 \/ (i # 0 /\ dbs[n][i].tempDS)
     THEN Aborts(c)
     ELSE /\ dbs' = [dbs EXCEPT ![n][i].tempDS = TRUE]
          /\ vid_precopy_map' = [vid_precopy_map EXCEPT ![n] = IF got = num_precopies[n] THEN 0 ELSE got]
          /\ Replaced(c, (IF mode # SPLIT THEN {Joins(c.s, mode)} ELSE {})
                         \cup (IF got = num_precopies[n] THEN {Joins(vid[n], SPLIT)} ELSE {}))
          /\ UNCHANGED <<manager, up, links, num_precopies, vid_extension_map, joined, failed, data>>
-----------------------------------------------------------------------------
(* vnode_join: the Manager adds the node to the ring and sends a change of    *)
(* membership along the chain of each of its ranges.                         *)

\* R predecessors, the joiner, R successors: temp_vnbrs.
Neighbors(n) ==
  [i \in 1 .. 2 * R + 1 |->
     IF i <= R THEN NodeAt(nodeList, Back(nodeList, vid[n], R + 1 - i))
     ELSE IF i = R + 1 THEN n ELSE NodeAt(nodeList, Forward(nodeList, vid[n], i - R - 1))]
Membership(n, i) ==
  LET nbr == Neighbors(n)
      chain == SubSeq(SelectSeq(SubSeq(nbr, i + 1, 2 * R + 1), LAMBDA m : m # n), 1, R) IN
  [to |-> n, op |-> "flush_split", s |-> vid[nbr[i]], e |-> vid[nbr[i + 1]], joiner |-> n,
   forwarding |-> <<n>> \o chain \o <<n>>, neighbors |-> SubSeq(nbr, i + 1, i + R + 1), hops |-> R + 2]
FirstMembership(n) ==
  [to |-> n, op |-> "flush_split", s |-> vid[n], e |-> vid[n], joiner |-> n,
   forwarding |-> <<n>>, neighbors |-> <<n>>, hops |-> 1]
vnode_join(c) ==
  /\ Handles(c, "vnode_join") /\ c.mode = SPLIT
  /\ Replaced(c, IF nodeList = <<>> THEN {FirstMembership(c.n)}
                 ELSE {Membership(c.n, i) : i \in 1 .. R})
  /\ nodeList' = addNodetoRing(nodeList, [id |-> vid[c.n], n |-> c.n])
  /\ UNCHANGED <<replica_group_size, up, dbs, links, copies, joined, failed, data>>

\* flush_split on the way through the joiner and the chain: a node learns its new
\* neighbours, and one whose interval the new node cuts in two starts to split it.
Forwarded(c) ==
  [c EXCEPT !.hops = @ - 1, !.to = c.forwarding[Len(c.forwarding) - c.hops + 2]]
PassMembership(c) ==
  LET n == c.to
      p == SelectInSeq(Front(c.neighbors), LAMBDA m : m = n)
      i == findIntervalDb(n, c.e)
      splits == c.e = vid[c.joiner] /\ ~(p # 0 /\ n = c.joiner) IN
  /\ Handles(c, "flush_split") /\ c.hops > 2
  /\ IF splits /\ i = 0
     THEN Aborts(c)
     ELSE /\ successor' = IF p = 0 THEN successor ELSE connect_to_backend(successor, n, vid[n], c.neighbors[p + 1])
          /\ predecessor' = IF p < 2 THEN predecessor ELSE connect_to_backend(predecessor, n, vid[n], c.neighbors[p - 1])
          /\ dbs' = IF splits THEN [dbs EXCEPT ![n][i].split = TRUE] ELSE dbs
          /\ Replaced(c, {Forwarded(c)} \cup
                         IF splits THEN {[to |-> n, op |-> "handle_split", k |-> c.e]} ELSE {})
          /\ UNCHANGED <<manager, up, copies, joined, failed, data>>

\* At the old tail: what is left of the copy is sent, then the message, and only
\* then does the interval start at the end of the range.
OldTail(c) ==
  LET i == findIntervalDb(c.to, c.e) IN
  /\ Handles(c, "flush_split") /\ c.hops = 2
  /\ IF i = 0
     THEN Aborts(c)
     ELSE /\ Replaced(c, {[c EXCEPT !.hops = 1, !.to = dbs[c.to][i].precopyIP],
                          [to |-> c.to, op |-> "setStartID", i |-> i, k |-> c.e]})
          /\ UNCHANGED <<manager, up, dbs, links, copies, joined, failed, data>>
setStartID(c) ==
  /\ Handles(c, "setStartID") /\ Replaced(c, {})
  /\ dbs' = [dbs EXCEPT ![c.to][c.i].s = c.k]
  /\ UNCHANGED <<manager, up, links, copies, joined, failed, data>>

\* Back at the joiner: the temporary store is merged, and the Manager is told.
Joined(c) ==
  LET i == findIntervalDb(c.to, c.e) IN
  /\ Handles(c, "flush_split") /\ c.hops = 1
  /\ IF i # 0 /\ ~dbs[c.to][i].tempDS
     THEN Aborts(c)
     ELSE /\ dbs' = IF i = 0 THEN dbs ELSE [dbs EXCEPT ![c.to][i].tempDS = FALSE]
          /\ Replaced(c, {})
          /\ UNCHANGED <<manager, up, links, copies, joined, failed, data>>

flush_split(c) == PassMembership(c) \/ OldTail(c) \/ Joined(c)

\* splitThread: the front part of the interval becomes one of its own.
handle_split(c) ==
  LET n == c.to
      i == findIntervalDb(n, c.k) IN
  /\ Handles(c, "handle_split") /\ Replaced(c, {})
  /\ dbs' = IF i = 0 THEN dbs
            ELSE [dbs EXCEPT ![n] = Append([@ EXCEPT ![i].s = c.k, ![i].split = FALSE],
                                           init_interval_db(dbs[n][i].s, c.k))]
  /\ UNCHANGED <<manager, up, links, copies, joined, failed, data>>
-----------------------------------------------------------------------------
(* A node fails.  With one replica its successor takes the range over; with   *)
(* more, its chains are repaired and then extended by one node each.         *)

Extend(cur, pred, s, e, m) ==
  [to |-> cur, op |-> "vnode_extend_chain", peer |-> pred, s |-> s, e |-> e, mode |-> m]

failNode(n) ==
  LET pred == getPredecessor(nodeList, vid[n])
      succ == getSuccessor(nodeList, vid[n])
      Mid(k) == Back(nodeList, vid[n], R - 1 - k) IN
  /\ Quiet /\ n \in up \cap Members /\ Cardinality(Node \ up) < MaxFails /\ Len(nodeList) > 1
  /\ up' = up \ {n}
  /\ IF R = 1
     THEN /\ nodeList' = removeNodefromRing(nodeList, n)
          /\ calls' = {[to |-> succ.n, op |-> "chain_repair_single", s |-> pred.id, e |-> succ.id]}
     ELSE /\ calls' =
               {[to |-> NodeAt(nodeList, Back(nodeList, vid[n], R - 1)), op |-> "chain_repair_tail",
                 k |-> Back(nodeList, vid[n], R - 1), hops |-> R - 2, peer |-> succ.n]}
               \cup {[to |-> pred.n, op |-> "chain_repair_mid", k |-> Mid(k), peer |-> succ.n] : k \in 1 .. R - 2}
               \cup {Extend(NodeAt(nodeList, Forward(nodeList, vid[n], R)),
                            NodeAt(nodeList, Forward(nodeList, vid[n], R - 1)), pred.id, vid[n], MERGE)}
          /\ UNCHANGED nodeList
  /\ UNCHANGED <<replica_group_size, dbs, links, copies, joined, failed, data>>

chain_repair_single(c) ==
  LET i == findIntervalDb(c.to, c.e) IN
  /\ Handles(c, "chain_repair_single")
  /\ IF i = 0
     THEN Aborts(c)
     ELSE /\ dbs' = [dbs EXCEPT ![c.to][i].s = c.s] /\ Replaced(c, {})
          /\ UNCHANGED <<manager, up, links, copies, joined, failed, data>>

\* What the repair does to puts and acknowledgements in progress is in Chain.
RepairDone(d) == [to |-> Manager, op |-> "chain_repair_done", s |-> d.s, e |-> d.e]
chain_repair_tail_NotConnected(c) ==
  LET n == c.to
      i == findIntervalDb(n, c.k) IN
  /\ Handles(c, "chain_repair_tail")
  /\ CASE i = 0 -> Aborts(c)
       [] i # 0 /\ c.hops <= 0 -> Replaced(c, {RepairDone(dbs[n][i])}) /\ UNCHANGED <<successor, failed>>
       [] OTHER -> /\ Replaced(c, {[c EXCEPT !.hops = @ - 1, !.to = get_successor_client(n)]})
                   /\ UNCHANGED <<successor, failed>>
  /\ UNCHANGED <<manager, up, dbs, predecessor, copies, joined, data>>
chain_repair_tail(c) ==
  LET n == c.to
      i == findIntervalDb(n, c.k) IN
  /\ Handles(c, "chain_repair_tail")
  /\ CASE i = 0 -> Aborts(c)
       [] i # 0 /\ c.hops <= 0 -> /\ successor' = connect_to_backend(successor, n, vid[n], c.peer)
                                 /\ Replaced(c, {RepairDone(dbs[n][i])}) /\ UNCHANGED failed
       [] OTHER -> /\ Replaced(c, {[c EXCEPT !.hops = @ - 1, !.to = get_successor_client(n)]})
                   /\ UNCHANGED <<successor, failed>>
  /\ UNCHANGED <<manager, up, dbs, predecessor, copies, joined, data>>

\* The successor is recorded under the key of the range, and chain_repair_mid_succ
\* records the predecessor.
chain_repair_mid(c) ==
  LET n == c.to
      i == findIntervalDb(n, c.k) IN
  /\ Handles(c, "chain_repair_mid")
  /\ IF i = 0 \/ findIntervalDb(c.peer, c.k) = 0
     THEN Aborts(c)
     ELSE /\ successor' = connect_to_backend(successor, n, c.k, c.peer)
          /\ predecessor' = connect_to_backend(predecessor, c.peer, vid[c.peer], n)
          /\ Replaced(c, {RepairDone(dbs[n][i])})
          /\ UNCHANGED <<manager, up, dbs, copies, joined, failed, data>>

\* The Manager has the node R places after the head copy from the last valid one.
chain_repair_done(c) ==
  LET At(i) == NodeAt(nodeList, Forward(nodeList, c.e, i))
      live == {i \in 0 .. R - 1 : At(i) \in up} IN
  /\ Handles(c, "chain_repair_done")
  /\ Replaced(c, {Extend(At(R), At(Max(live)), c.s, c.e, PLAIN)})
  /\ UNCHANGED <<manager, up, dbs, links, copies, joined, failed, data>>

vnode_extend_chain(c) ==
  LET n == c.to IN
  /\ Handles(c, "vnode_extend_chain")
  /\ vid_precopy_map' = [vid_precopy_map EXCEPT ![n] = 0]
  /\ vid_extension_map' = [vid_extension_map EXCEPT ![n][c.s] = c.mode]
  /\ dbs' = [dbs EXCEPT ![n] = create_interval_file(@, c.s, c.e)]
  /\ predecessor' = connect_to_backend(predecessor, n, vid[n], c.peer)
  /\ Replaced(c, {[to |-> c.peer, op |-> "precopy_request", s |-> c.s, e |-> c.e, peer |-> n]})
  /\ UNCHANGED <<manager, up, successor, num_precopies, joined, failed, data>>

\* vnode_join in mode MERGE or PLAIN, k being the start of the range: the chain is
\* flushed, from the first replica if the range is to be merged into the next one.
Flush(c, length) ==
  LET e == getSuccessor(nodeList, c.k).id
      group == getReplicaGroup(nodeList, e, R) IN
  IF c.mode = MERGE
  THEN [to |-> group[2], op |-> "flush_merge", ms |-> c.k, me |-> e,
        e |-> getSuccessor(nodeList, e).id, hops |-> length]
  ELSE [to |-> group[1], op |-> "flush", s |-> c.k, e |-> e, hops |-> length]
vnode_join_extend_chain_OneMore(c) ==
  /\ Handles(c, "vnode_join") /\ c.mode # SPLIT
  /\ Replaced(c, {Flush(c, R)})
  /\ UNCHANGED <<manager, up, dbs, links, copies, joined, failed, data>>
vnode_join_extend_chain(c) ==
  /\ Handles(c, "vnode_join") /\ c.mode # SPLIT
  /\ Replaced(c, {Flush(c, R - 1)})
  /\ UNCHANGED <<manager, up, dbs, links, copies, joined, failed, data>>

\* Down the chain to the new tail, which merges its temporary store.
flush(c) ==
  LET n == c.to
      i == findIntervalDb(n, c.e) IN
  /\ Handles(c, "flush")
  /\ IF i = 0 \/ (i # 0 /\ c.hops = 0 /\ ~dbs[n][i].tempDS)
     THEN Aborts(c)
     ELSE /\ dbs' = IF c.hops = 0 THEN [dbs EXCEPT ![n][i].tempDS = FALSE] ELSE dbs
          /\ Replaced(c, IF c.hops = 0 THEN {} ELSE {[c EXCEPT !.hops = @ - 1, !.to = get_successor_client(n)]})
          /\ UNCHANGED <<manager, up, links, copies, joined, failed, data>>

\* The same, and the range (ms, me] becomes part of the one that ends in e: its own
\* interval is invalidated before the other one is extended, without a lock.
Invalidated(d) == [d EXCEPT !.valid = FALSE]
flush_merge(c) ==
  LET n == c.to
      i == findIntervalDb(n, c.e)
      j == findIntervalDb(n, c.me) IN
  /\ Handles(c, "flush_merge")
  /\ IF i = 0 \/ j = 0
     THEN Aborts(c)
     ELSE /\ dbs' = [dbs EXCEPT ![n][j] = Invalidated(@)]
          /\ Replaced(c, {[to |-> n, op |-> "extend", c |-> c, i |-> i, j |-> j]})
          /\ UNCHANGED <<manager, up, links, copies, joined, failed, data>>
ExtendMerged(x) ==
  LET n == x.to
      c == x.c IN
  /\ Handles(x, "extend")
  /\ IF c.hops = 0 /\ ~dbs[n][x.j].tempDS
     THEN Aborts(x)
     ELSE /\ dbs' = [dbs EXCEPT ![n][x.i].s = c.ms, ![n][x.j].tempDS = c.hops # 0 /\ @]
          /\ Replaced(x, IF c.hops = 0 THEN {} ELSE {[c EXCEPT !.hops = @ - 1, !.to = get_successor_client(n)]})
          /\ UNCHANGED <<manager, up, links, copies, joined, failed, data>>
-----------------------------------------------------------------------------
\* put_helper on a ring of one replica: the key goes to the SILT store of the
\* interval, and the front end gets its answer.
put(k) ==
  LET n == nodeList[OwnerIndex(nodeList, k)].n IN
  /\ R = 1 /\ nodeList # <<>> /\ n \in up \ failed /\ findIntervalDb(n, k) # 0
  /\ k \notin answered /\ Cardinality(answered) < MaxPuts
  /\ stored' = stored \cup {<<n, k>>}
  /\ answered' = answered \cup {k}
  /\ UNCHANGED <<manager, up, dbs, links, copies, joined, calls, failed>>

Handle(c) ==
  \/ vnode_pre_join(c) \/ vnode_pre_join_response(c) \/ precopy_request(c) \/ precopy_response(c)
  \/ vnode_join(c) \/ flush_split(c) \/ setStartID(c) \/ handle_split(c)
  \/ chain_repair_single(c) \/ chain_repair_tail(c) \/ chain_repair_mid(c) \/ chain_repair_done(c)
  \/ vnode_extend_chain(c) \/ vnode_join_extend_chain(c) \/ flush(c) \/ flush_merge(c) \/ ExtendMerged(c)

Next ==
  \/ \E n \in Node : init_response(n) \/ failNode(n)
  \/ \E c \in calls : Handle(c)
  \/ \E k \in Id : put(k)

\* Every call that was sent to a running node is handled, every thread runs: weak
\* fairness of Handle, which is enabled while such a call is there.
Pending == \E c \in calls : c.to \in (up \ failed) \cup {Manager}
CallsHandled == []<>~Pending \/ []<><<\E c \in calls : Handle(c)>>_vars
Spec == Init /\ [][Next]_vars /\ CallsHandled
-----------------------------------------------------------------------------
(* Properties.                                                               *)

Interval == [s : Id, e : Id, valid : BOOLEAN, tempDS : BOOLEAN, split : BOOLEAN, precopyIP : Node \cup {Manager}]
Peer == [Node -> Node \cup {Manager}]
\* The variables stay in their types; the ring stays sorted.
TypeOK ==
  /\ replica_group_size \in {c.size : c \in Scenarios} /\ Sorted(nodeList) /\ up \subseteq Node
  /\ \A n \in Node : \A i \in DOMAIN dbs[n] : dbs[n][i] \in Interval
  /\ successor \in Peer /\ predecessor \in Peer
  /\ num_precopies \in [Node -> Nat] /\ vid_precopy_map \in [Node -> Nat]
  /\ vid_extension_map \in [Node -> [Id -> {SPLIT, MERGE, PLAIN}]]
  /\ joined \subseteq Node /\ failed \subseteq Node
  /\ \A c \in calls : c.to \in Node \cup {Manager}
  /\ stored \subseteq Node \X Id /\ answered \subseteq Id

\* The asserts of the handlers hold and they never dereference a missing
\* interval: whatever the order of the calls, the key of a call lies in an
\* interval of the node that gets it, a temporary store exists exactly when
\* flush, flush_merge and the last flush_split want to merge it, and no two
\* copies for the same interval overlap.  (After a join with several replicas the
\* repair of a later failure meets the interval that OldTail left too wide.)
StaticReplicas == R = 1 \/ joined = {}     \* no node has joined a ring of several replicas
AssertsHold == StaticReplicas \/ up = Node => failed = {}

Holds(n, k) == findIntervalDb(n, k) # 0

\* A node the ring routes a key to finds an interval for it, so that a get which
\* was answered STALE_RING is answered after the front end has fetched the ring
\* again.  A node is without one only while a takeover is on its way to it, or
\* between the two steps of flush_merge.
RoutedHeld ==
  \A k \in Id : nodeList # <<>> =>
    \A n \in ToSet(getReplicaGroup(nodeList, k, R)) \cap up :
      \/ Holds(n, k)
      \/ \E c \in calls : /\ c.to = n
                         /\ \/ c.op = "chain_repair_single" /\ between(c.s, c.e, k)
                            \/ c.op = "extend" /\ between(c.c.ms, c.c.me, k)

\* The valid intervals of a node do not overlap: findIntervalDb returns the first
\* one that contains a key, so a get would miss what a put stored in another.
IntervalsDisjoint ==
  StaticReplicas => \A n \in Node : \A i, j \in DOMAIN dbs[n] : \A k \in Id :
    (i < j /\ dbs[n][i].valid /\ dbs[n][j].valid /\ between(dbs[n][i].s, dbs[n][i].e, k))
      => ~between(dbs[n][j].s, dbs[n][j].e, k)

\* Joins and repairs finish: every key is then held by as many running nodes as
\* there are replicas (all of them, if they are fewer) and by no other, and no
\* temporary store is left.
Settled ==
  /\ \A k \in Id : LET holders == {n \in up : Holds(n, k)}
                       live == Members \cap up IN
       nodeList # <<>> => Cardinality(holders) = IF Cardinality(live) < R THEN Cardinality(live) ELSE R
  /\ \A n \in up : \A i \in DOMAIN dbs[n] : ~dbs[n][i].tempDS
ReplicasRestored == []<>(StaticReplicas => Settled)

\* A key whose put was answered is in the store of the node that owns it when no
\* join is in progress.
DataKept ==
  Quiet => \A k \in answered :
    LET n == nodeList[OwnerIndex(nodeList, k)].n IN
    n \in up => <<n, k>> \in stored
=============================================================================
