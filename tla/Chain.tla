------------------------------- MODULE Chain --------------------------------
(***************************************************************************)
(* Chain replication of one key range (src/fawnkv): the front end sends    *)
(* puts to the head, each node applies them to its store and forwards them *)
(* to its successor, the tail answers the front end and sends an           *)
(* acknowledgement back up the chain.  One node other than the head may    *)
(* crash; the Manager then repairs the chain around it.                    *)
(*                                                                         *)
(* Node n is the n-th member of the chain and 0 is the front end.  A put   *)
(* is named by its continuation, the front end's request number.  A store  *)
(* is the sequence of puts applied to it.  Connections are FIFO and each   *)
(* has a thread at its receiving end that handles one call at a time.      *)
(*                                                                         *)
(* The range is not being split (splitPoint is ""), and what replaces a    *)
(* crashed node once chain_repair_done is sent is not part of this module. *)
(***************************************************************************)
EXTENDS Integers, Sequences, FiniteSets

CONSTANTS
  R,           \* replica_group_size
  Failing,     \* nodes that may crash; at most one of them does
  Removes,     \* the puts that are removes
  Idle,
  MaxPut,      \* bound: puts the front end issues
  MaxError     \* bound: stores that refuse an operation

ASSUME ChainAssumption ==
  /\ R \in Nat \ {0} /\ Failing \subseteq 2 .. R
  /\ MaxPut \in Nat /\ MaxError \in Nat /\ Removes \subseteq 1 .. MaxPut

Node == 1 .. R
FE == 0
\* Connections between neighbours, and those that bypass one node.
Conn == {<<n - 1, n>> : n \in Node} \cup {<<n - 1, n + 1>> : n \in 2 .. R - 1}

VARIABLES
  puts,             \* FE: reqNumber
  answered,         \* FE: how often put_response came for each continuation
  db,               \* siltds of each node: the puts applied, oldest first
  last_put, last_ack, seq_msg_queue,
  sequence,         \* the head's sequence counter
  chan, ackchan,    \* calls in transit down and up each connection
  handler,          \* the put each connection's thread is handling
  pred, succ,       \* vid_pid_predIP_map, vid_sid_succIP_map
  down,             \* the crashed node, or 0
  repair,           \* where the Manager and the repairing node are, and what the
                    \* node has gone through
  held,             \* locks a failed send left locked for ever
  errors, stray     \* stores that refused; a put_ack that left the chain

store == <<db, last_put, last_ack, seq_msg_queue, sequence>>
net == <<chan, ackchan, handler>>
links == <<pred, succ>>
failure == <<down, repair, held>>
vars == <<puts, answered, store, net, links, failure, errors, stray>>

\* INT64_MAX as a sequence number: above all that are assigned.
INT64_MAX == MaxPut + 1
NoInfo == [last_ack |-> 0, last_put |-> 0]

Init ==
  /\ puts = 0 /\ answered = [p \in 1 .. MaxPut |-> 0]
  /\ db = [n \in Node |-> << >>]
  \* init_interval_db leaves last_put uninitialized
  /\ last_put \in [Node -> {0, INT64_MAX}]
  /\ last_ack = [n \in Node |-> 0]
  /\ seq_msg_queue = [n \in Node |-> << >>]
  /\ sequence = 1
  /\ chan = [c \in Conn |-> << >>] /\ ackchan = [c \in Conn |-> << >>]
  /\ handler = [c \in Conn |-> Idle]
  /\ pred = [n \in Node |-> n - 1] /\ succ = [n \in Node |-> n + 1]
  /\ down = 0 /\ repair = [pc |-> "none", info |-> NoInfo, seen |-> {}] /\ held = {}
  /\ errors = 0 /\ stray = FALSE

\* A call from n to m.  It is lost if m has crashed or is not in the chain.
SendDown(n, m, call) ==
  IF <<n, m>> \in Conn /\ m # down
  THEN chan' = [chan EXCEPT ![<<n, m>>] = Append(@, call)]
  ELSE chan' = chan
Receive(c) == chan' = [chan EXCEPT ![c] = Tail(@)]
-----------------------------------------------------------------------------
(* put_helper.                                                               *)

\* A connection's thread takes the next call when it is done with the last.
Ready_Overlap(c) == chan[c] # << >>
Ready(c) == chan[c] # << >> /\ handler[c] = Idle

\* FrontEnd::put and ::remove.  The front end never learns of a crash: its
\* Node objects are always valid, so hops stays R.
Hops_OneMore == R + 1
Hops == R

FePut ==
  /\ puts < MaxPut
  /\ puts' = puts + 1
  /\ chan' = [chan EXCEPT ![<<FE, 1>>] = Append(@,
       [type |-> "put", put |-> puts + 1, remove |-> puts + 1 \in Removes,
        hops |-> Hops, ackhops |-> Hops, seq |-> 0, ip |-> FE])]
  /\ UNCHANGED <<answered, store, ackchan, handler, links, failure, errors, stray>>

\* Up to the release of dbLock: apply, and buffer until acknowledged.
Enqueue(q, m) == Append(q, [seq |-> m.seq, put |-> m.put])

Put(c) ==
  LET n == c[2]
      m == Head(chan[c]) IN
  /\ n # down /\ <<n, "dbLock">> \notin held
  /\ Ready(c) /\ m.type = "put"
  /\ \E ok \in BOOLEAN :
       /\ ok \/ errors < MaxError
       /\ errors' = IF ok THEN errors ELSE errors + 1
       /\ db' = IF ok THEN [db EXCEPT ![n] = Append(@, <<m.put, m.remove>>)] ELSE db
       /\ handler' = [handler EXCEPT ![c] =
            [put |-> m, hops |-> m.hops - 1, pc |-> IF ok THEN "send" ELSE "error"]]
  /\ last_put' = [last_put EXCEPT ![n] = m.seq]
  /\ IF m.hops - 1 = 0
     THEN last_ack' = [last_ack EXCEPT ![n] = m.seq] /\ UNCHANGED seq_msg_queue
     ELSE seq_msg_queue' = [seq_msg_queue EXCEPT ![n] = Enqueue(@, m)] /\ UNCHANGED last_ack
  /\ Receive(c)
  /\ UNCHANGED <<puts, answered, sequence, ackchan, links, failure, stray>>

\* A response reaches the front end only if the put carries its address.
Respond(m) ==
  answered' = IF m.ip = FE THEN [answered EXCEPT ![m.put] = @ + 1] ELSE answered

\* The store refused: answer at once, forward nothing.
PutError(c) ==
  /\ handler[c] # Idle /\ handler[c].pc = "error"
  /\ Respond(handler[c].put)
  /\ handler' = [handler EXCEPT ![c] = Idle]
  /\ UNCHANGED <<puts, store, chan, ackchan, links, failure, errors, stray>>

\* The tail, where no hops are left, answers and then acknowledges.
IsTail_Early(h) == h.hops <= 1
IsTail(h) == h.hops = 0

PutRespond(c) ==
  LET h == handler[c] IN
  /\ h # Idle /\ h.pc = "send" /\ IsTail(h)
  /\ Respond(h.put)
  /\ handler' = [handler EXCEPT ![c] =
       IF h.put.ackhops - 1 > 0 THEN [h EXCEPT !.pc = "ack"] ELSE Idle]
  /\ UNCHANGED <<puts, store, chan, ackchan, links, failure, errors, stray>>

\* A call from n up to m = pred[n].
SendUp(n, m, call) ==
  IF <<m, n>> \in Conn /\ m \notin {FE, down}
  THEN ackchan' = [ackchan EXCEPT ![<<m, n>>] = Append(@, call)]
  ELSE ackchan' = ackchan

TailAckHops_Short(m) == m.ackhops - 3
TailAckHops(m) == m.ackhops - 2

PutSendAck(c) ==
  LET h == handler[c] IN
  /\ h # Idle /\ h.pc = "ack"
  /\ SendUp(c[2], pred[c[2]], [seq |-> h.put.seq, hops |-> TailAckHops(h.put)])
  /\ handler' = [handler EXCEPT ![c] = Idle]
  /\ UNCHANGED <<puts, answered, store, chan, links, failure, errors, stray>>

\* The head numbers a put when it forwards it, after dbLock was released.
\* A send to a crashed successor is lost, or throws and leaves the socket
\* lock locked for whoever sends there next.
PutForward(c) ==
  LET h == handler[c]
      n == c[2] IN
  /\ h # Idle /\ h.pc = "send" /\ ~IsTail(h)
  /\ succ[n] = down => <<n, "socket">> \notin held
  /\ sequence' = IF h.put.seq = 0 THEN sequence + 1 ELSE sequence
  /\ SendDown(n, succ[n],
       [h.put EXCEPT !.hops = h.hops, !.seq = IF @ = 0 THEN sequence ELSE @])
  /\ \/ UNCHANGED held
     \/ succ[n] = down /\ held' = held \cup {<<n, "socket">>}
  /\ handler' = [handler EXCEPT ![c] = Idle]
  /\ UNCHANGED <<puts, answered, db, last_put, last_ack, seq_msg_queue, ackchan,
                 links, down, repair, errors, stray>>
-----------------------------------------------------------------------------
(* put_ack.                                                                  *)

\* How many entries at the front of the queue the loop pops.
Popped_Extra(q, seq) ==
  CHOOSE k \in 0 .. Len(q) : /\ \A i \in 1 .. k : q[i].seq <= seq + 1
                             /\ k = Len(q) \/ q[k + 1].seq > seq + 1
Popped(q, seq) ==
  CHOOSE k \in 0 .. Len(q) : /\ \A i \in 1 .. k : q[i].seq <= seq
                             /\ k = Len(q) \/ q[k + 1].seq > seq

\* put_ack(seq, hops) at node n.  A call to a crashed predecessor may throw
\* with dbLock held; one to a node outside the chain finds no interval there
\* and fails its assertion.
Ack(n, seq, hops) ==
  LET q == seq_msg_queue[n]
      k == Popped(q, seq) IN
  /\ <<n, "dbLock">> \notin held
  /\ last_ack' = [last_ack EXCEPT ![n] = IF k = 0 THEN seq ELSE q[k].seq]
  /\ seq_msg_queue' = [seq_msg_queue EXCEPT ![n] = SubSeq(q, k + 1, Len(q))]
  /\ UNCHANGED <<db, last_put, sequence>>
  /\ stray' = (stray \/ (hops > 0 /\ pred[n] = FE))
  /\ \/ UNCHANGED held
     \/ hops > 0 /\ pred[n] = down /\ down # 0 /\ held' = held \cup {<<n, "dbLock">>}

PutAck(c) ==
  LET n == c[1]
      a == Head(ackchan[c])
      rest == [ackchan EXCEPT ![c] = Tail(@)] IN
  /\ n # FE /\ n # down
  /\ ackchan[c] # << >>
  /\ Ack(n, a.seq, a.hops)
  /\ ackchan' = IF a.hops > 0 /\ pred[n] \notin {FE, down}
                THEN [rest EXCEPT ![<<pred[n], n>>] =
                        Append(@, [seq |-> a.seq, hops |-> a.hops - 1])]
                ELSE rest
  /\ UNCHANGED <<puts, answered, chan, handler, links, down, repair, errors>>
-----------------------------------------------------------------------------
(* A crash, and its repair.                                                  *)

\* Calls the node had sent may still arrive; those it had not read are gone.
Crash(f) ==
  /\ down = 0
  /\ down' = f
  /\ chan' = [c \in Conn |-> IF c[2] = f THEN << >> ELSE chan[c]]
  /\ handler' = [c \in Conn |-> IF c[2] = f THEN Idle ELSE handler[c]]
  /\ ackchan' = [c \in Conn |-> IF c[1] = f THEN << >> ELSE ackchan[c]]
  /\ UNCHANGED <<puts, answered, store, links, repair, held, errors, stray>>

\* chain_repair_tail at node n, called with these hops.  The new tail
\* acknowledges all that is pending and links to the crashed node's successor.
RepairTail(n, hops) ==
  IF hops > 0
  THEN /\ repair' = [repair EXCEPT !.pc = "tail"]
       /\ UNCHANGED <<store, ackchan, links, held, stray>>
  ELSE LET ackhops == R - 2 - 1 IN
       /\ Ack(n, INT64_MAX, ackhops)
       /\ IF ackhops > 0
          THEN SendUp(n, pred[n], [seq |-> INT64_MAX, hops |-> ackhops - 1])
          ELSE UNCHANGED ackchan
       /\ succ' = [succ EXCEPT ![n] = R + 1] /\ UNCHANGED pred
       /\ repair' = [repair EXCEPT !.pc = "done"]

RepairTailCall(hops) == [type |-> "chain_repair_tail", hops |-> hops]

\* Manager::failNode, tail case: the call goes to the head.
FailTail ==
  /\ down = R /\ down # 0 /\ repair.pc = "none"
  /\ RepairTail(1, R - 2)
  /\ IF R - 2 > 0 THEN SendDown(1, succ[1], RepairTailCall(R - 3)) ELSE UNCHANGED chan
  /\ UNCHANGED <<puts, answered, handler, down, errors>>

ChainRepairTail(c) ==
  LET n == c[2]
      m == Head(chan[c]) IN
  /\ n # down /\ Ready(c) /\ m.type = "chain_repair_tail"
  /\ RepairTail(n, m.hops)
  /\ IF m.hops > 0
     THEN chan' = [chan EXCEPT ![c] = Tail(@),
                               ![<<n, succ[n]>>] = Append(@, RepairTailCall(m.hops - 1))]
     ELSE Receive(c)
  /\ UNCHANGED <<puts, answered, handler, down, errors>>

\* Manager::failNode, middle case: the crashed node's predecessor connects to
\* its successor and asks it what it last put and acknowledged.  The link that
\* put_helper uses is stored under the node's own id, which is the range's id
\* only at the head.
FailMid ==
  LET p == down - 1 IN
  /\ down \in 2 .. R - 1 /\ repair.pc = "none"
  /\ succ' = IF p = 1 THEN [succ EXCEPT ![p] = down + 1] ELSE succ
  /\ SendDown(p, down + 1, [type |-> "chain_repair_mid_succ"])
  /\ repair' = [repair EXCEPT !.pc = "asked"]
  /\ UNCHANGED <<puts, answered, store, ackchan, handler, pred, down, held, errors, stray>>

\* Elsewhere the link changes when the node's other ranges are repaired.
Reconnect ==
  /\ repair.pc # "none" /\ down \in 3 .. R - 1
  /\ succ[down - 1] = down
  /\ succ' = [succ EXCEPT ![down - 1] = down + 1]
  /\ UNCHANGED <<puts, answered, store, net, pred, failure, errors, stray>>

ChainRepairMidSucc(c) ==
  LET n == c[2] IN
  /\ n # down /\ Ready(c) /\ Head(chan[c]).type = "chain_repair_mid_succ"
  /\ pred' = [pred EXCEPT ![n] = c[1]]
  /\ repair' = [pc |-> "told", info |-> [last_ack |-> last_ack[n], last_put |-> last_put[n]],
                 seen |-> {}]
  /\ Receive(c)
  /\ UNCHANGED <<puts, answered, store, ackchan, handler, succ, down, held, errors, stray>>

\* Collect the acknowledgements that were missed.
RepairMidAck ==
  LET p == down - 1
      ack_hops == R - down IN
  /\ repair.pc = "told"
  /\ repair' = [repair EXCEPT !.pc = "resend"]
  /\ IF last_ack[p] # repair.info.last_ack
     THEN /\ Ack(p, repair.info.last_ack, ack_hops)
          /\ IF ack_hops > 0
             THEN SendUp(p, pred[p], [seq |-> repair.info.last_ack, hops |-> ack_hops - 1])
             ELSE UNCHANGED ackchan
     ELSE UNCHANGED <<store, ackchan, held, stray>>
  /\ UNCHANGED <<puts, answered, chan, handler, links, down, errors>>

\* What the successor has not put is resent: as a put even if it was a remove,
\* and with this node's address in place of the front end's.
Resent_ToFE(e) ==
  LET hops == (R - 2) - (R - down) IN
  [type |-> "put", put |-> e.put, remove |-> FALSE, hops |-> hops,
   ackhops |-> (R - down) + hops, seq |-> e.seq, ip |-> FE]
Resent(e) ==
  LET hops == (R - 2) - (R - down) IN
  [type |-> "put", put |-> e.put, remove |-> FALSE, hops |-> hops,
   ackhops |-> (R - down) + hops, seq |-> e.seq, ip |-> down - 1]

\* The loop over the queue takes no dbLock, so puts and acknowledgements come in
\* between; it visits what they append and skips what they pop.
RepairMidResend ==
  LET p == down - 1
      q == seq_msg_queue[p] IN
  /\ repair.pc = "resend"
  /\ \E i \in DOMAIN q :
       /\ q[i].put \notin repair.seen /\ \A j \in 1 .. i - 1 : q[j].put \in repair.seen
       /\ chan' = IF q[i].seq > repair.info.last_put
                  THEN [chan EXCEPT ![<<p, down + 1>>] = Append(@, Resent(q[i]))] ELSE chan
       /\ repair' = [repair EXCEPT !.seen = @ \cup {q[i].put}]
  /\ UNCHANGED <<puts, answered, store, ackchan, handler, links, down, held, errors, stray>>

RepairMidDone ==
  /\ repair.pc = "resend"
  /\ \A i \in DOMAIN seq_msg_queue[down - 1] : seq_msg_queue[down - 1][i].put \in repair.seen
  /\ repair' = [repair EXCEPT !.pc = "done"]
  /\ UNCHANGED <<puts, answered, store, net, links, down, held, errors, stray>>
-----------------------------------------------------------------------------
Handle(c) ==
  \/ Put(c) \/ PutError(c) \/ PutRespond(c) \/ PutSendAck(c) \/ PutForward(c)
  \/ ChainRepairTail(c) \/ ChainRepairMidSucc(c)
Repair ==
  FailTail \/ FailMid \/ Reconnect \/ RepairMidAck \/ RepairMidResend \/ RepairMidDone

Next ==
  \/ FePut
  \/ \E c \in Conn : Handle(c) \/ PutAck(c)
  \/ \E f \in Failing : Crash(f)
  \/ Repair

Spec == Init /\ [][Next]_vars
\* Every connection's thread keeps serving its calls, downwards and upwards.
FairSpec ==
  /\ Spec
  /\ \A c \in Conn : WF_vars(Handle(c)) /\ WF_vars(PutAck(c))
-----------------------------------------------------------------------------
Live == Node \ {down}
Applied(n) == {db[n][i][1] : i \in DOMAIN db[n]}
Pending(n) == {seq_msg_queue[n][i].put : i \in DOMAIN seq_msg_queue[n]}

TypeOK ==
  /\ puts \in 0 .. MaxPut /\ errors \in 0 .. MaxError /\ stray \in BOOLEAN
  /\ \A n \in Node : \A i \in DOMAIN db[n] : db[n][i] \in (1 .. puts) \X BOOLEAN
  /\ sequence \in 1 .. MaxPut + 1
  /\ \A n \in Node : last_put[n] \in 0 .. INT64_MAX /\ last_ack[n] \in 0 .. INT64_MAX

\* The replicas never disagree, they only lag: what a node has applied is a
\* prefix of what its predecessor has applied (put_helper applies before it
\* forwards, and each connection is served in order).
ReplicasArePrefixes ==
  errors = 0 =>
    \A n \in 1 .. R - 1 : /\ Len(db[n + 1]) <= Len(db[n])
                          /\ db[n + 1] = SubSeq(db[n], 1, Len(db[n + 1]))

\* A put the front end was told about is in the store of every node that is
\* up, whichever node crashes and however the chain is repaired.
AnsweredSurvives ==
  \A p \in 1 .. MaxPut : answered[p] > 0 => \A n \in Live : p \in Applied(n)

\* No put is answered twice: put_cb forgets the continuation at the first.
AnsweredOnce == \A p \in 1 .. MaxPut : answered[p] <= 1

\* Every node between head and tail buffers what the tail has not applied,
\* which is what chain_repair_mid resends from.
MiddleBuffers ==
  errors = 0 => \A n \in 2 .. R - 1 : Applied(n) \ Applied(R) \subseteq Pending(n)

\* "Any puts they have yet to receive must be in our seq_msg_queue", the
\* premise of chain_repair_mid, at any node that may run it.
MissedPutsBuffered ==
  \A n \in 1 .. R - 1 : Applied(n) \ Applied(n + 1) \subseteq Pending(n)

\* put_ack finds the range wherever it is called.
AckStaysInChain == ~stray

\* A node applies puts in the order the front end issued them, even if some
\* of them were refused on the way to it.
AppliedInOrder ==
  \A n \in Node : \A i, j \in DOMAIN db[n] : i < j => db[n][i][1] < db[n][j][1]

\* Every put is answered, by the tail or by the node whose store refused it.
PutsAnswered == \A p \in 1 .. MaxPut : puts >= p ~> answered[p] = 1

\* When the front end pauses, the acknowledgements empty every buffer.
BuffersDrain == <>[](errors > 0 \/ \A n \in Node : seq_msg_queue[n] = << >>)
=============================================================================
