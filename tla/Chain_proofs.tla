---------------------------- MODULE Chain_proofs ----------------------------
(***************************************************************************)
(* A put that the front end was told about survives, in a chain of any     *)
(* length and for any number of puts, whichever node but the head crashes  *)
(* and whenever it does, if no store refuses an operation (MaxError = 0).  *)
(***************************************************************************)
EXTENDS Chain, SequenceTheorems, NaturalsInduction, WellFoundedInduction, TLAPS

PutCall == [type : {"put"}, put : Int, remove : BOOLEAN, hops : Int, ackhops : Int,
            seq : Int, ip : Int]
DownCall == PutCall \cup [type : {"chain_repair_tail"}, hops : Int]
                    \cup [type : {"chain_repair_mid_succ"}]
AckCall == [seq : Int, hops : Int]
Entry == [seq : Int, put : Int]
HandlerRec == [put : PutCall, hops : Int, pc : {"send", "ack"}]
RepairInfo == [last_ack : Int, last_put : Int]
RepairRec(r) == r = [pc |-> r.pc, info |-> r.info, seen |-> r.seen] /\ r.info \in RepairInfo

Types ==
  /\ puts \in Int /\ errors = 0 /\ sequence \in Int /\ down \in 0 .. R
  /\ answered \in [1 .. MaxPut -> Int]
  /\ db \in [Node -> Seq(Int \X BOOLEAN)]
  /\ last_put \in [Node -> Int] /\ last_ack \in [Node -> Int]
  /\ seq_msg_queue \in [Node -> Seq(Entry)]
  /\ chan \in [Conn -> Seq(DownCall)] /\ ackchan \in [Conn -> Seq(AckCall)]
  /\ DOMAIN handler = Conn /\ \A c \in Conn : handler[c] # Idle => handler[c] \in HandlerRec
  /\ succ \in [Node -> Int] /\ RepairRec(repair)

\* What a node that is up has, every node before it that is up has.
Ordered == \A m, n \in Live : m < n => Applied(n) \subseteq Applied(m)

\* A put on its way to a node has been applied before it, and one that carries
\* the front end's address has enough hops left to reach node R.
SentOK(c, m) ==
  m.type = "put" => /\ \A n \in Live : n < c[2] => m.put \in Applied(n)
                    /\ m.ip = FE => m.hops >= R - c[2] + 1
Sent == \A c \in Conn : \A i \in 1 .. Len(chan[c]) : SentOK(c, chan[c][i])

\* The same of a put that a node is handling, which has it too.
HandledOK(c, h) ==
  /\ \A n \in Live : n <= c[2] => h.put.put \in Applied(n)
  /\ h.put.ip = FE => h.hops >= R - c[2]
Handled == \A c \in Conn : handler[c] # Idle => HandledOK(c, handler[c])

\* What a node buffers it has applied.
Queued ==
  \A n \in Node : \A i \in 1 .. Len(seq_msg_queue[n]) : seq_msg_queue[n][i].put \in Applied(n)

\* A link skips the crashed node only.
Linked ==
  \A n \in Node : succ[n] <= n + 1 \/ (succ[n] = n + 2 /\ down = n + 1) \/ succ[n] = R + 1

Inv == Types /\ Ordered /\ Sent /\ Handled /\ Queued /\ Linked /\ AnsweredSurvives
-----------------------------------------------------------------------------
(* Connections, sequences and numbers.                                       *)

LEMMA ConnFacts ==
  ASSUME NEW c \in Conn
  PROVE  /\ c = <<c[1], c[2]>> /\ c[1] \in Int /\ c[2] \in Node /\ c[2] \in Int
         /\ c[1] >= 0 /\ c[1] < c[2] /\ c[2] <= c[1] + 2
         /\ c[1] # FE => c[1] \in Node
BY ChainAssumption DEF Conn, Node, FE

LEMMA HeadConn == <<FE, 1>> \in Conn
BY ChainAssumption DEF Conn, Node, FE

LEMMA AppendFacts ==
  ASSUME NEW S, NEW s \in Seq(S), NEW x \in S
  PROVE  /\ Append(s, x) \in Seq(S)
         /\ Len(Append(s, x)) = Len(s) + 1 /\ Len(s) \in Nat
         /\ Append(s, x)[Len(s) + 1] = x
         /\ \A i \in 1 .. Len(s) : Append(s, x)[i] = s[i]
OBVIOUS

LEMMA TailFacts ==
  ASSUME NEW S, NEW s \in Seq(S), s # << >>
  PROVE  /\ Head(s) = s[1] /\ s[1] \in S /\ Len(s) \in Nat \ {0}
         /\ Tail(s) \in Seq(S)
         /\ Len(Tail(s)) = Len(s) - 1
         /\ \A i \in 1 .. Len(s) - 1 : Tail(s)[i] = s[i + 1] /\ i + 1 \in 1 .. Len(s)
OBVIOUS

Firsts(s) == {s[i][1] : i \in DOMAIN s}

LEMMA AppliedFirsts ==
  \A n : Applied(n) = Firsts(db[n]) /\ Applied(n)' = Firsts(db'[n])
BY DEF Applied, Firsts

LEMMA FirstsAppend ==
  ASSUME NEW S, NEW s \in Seq(S), NEW x \in S
  PROVE  Firsts(Append(s, x)) = Firsts(s) \cup {x[1]}
<1> DEFINE t == Append(s, x)
<1>1. /\ Len(s) \in Nat /\ DOMAIN t = 1 .. Len(s) + 1 /\ DOMAIN s = 1 .. Len(s)
      /\ t[Len(s) + 1] = x /\ \A i \in 1 .. Len(s) : t[i] = s[i]
  BY AppendFacts
<1> HIDE DEF t
<1>2. \A i \in DOMAIN t : t[i][1] \in {s[j][1] : j \in DOMAIN s} \cup {x[1]}
  <2> SUFFICES ASSUME NEW i \in DOMAIN t
               PROVE  t[i][1] \in {s[j][1] : j \in DOMAIN s} \cup {x[1]}
    OBVIOUS
  <2>1. i = Len(s) + 1 \/ i \in DOMAIN s
    BY <1>1
  <2> QED BY <2>1, <1>1
<1>3. \A j \in DOMAIN s : s[j][1] \in {t[i][1] : i \in DOMAIN t}
  <2> SUFFICES ASSUME NEW j \in DOMAIN s PROVE s[j][1] \in {t[i][1] : i \in DOMAIN t}
    OBVIOUS
  <2>1. j \in DOMAIN t /\ t[j] = s[j]
    BY <1>1
  <2> QED BY <2>1
<1>4. x[1] \in {t[i][1] : i \in DOMAIN t}
  <2>1. Len(s) + 1 \in DOMAIN t
    BY <1>1
  <2> QED BY <1>1, <2>1
<1>5. {t[i][1] : i \in DOMAIN t} = {s[i][1] : i \in DOMAIN s} \cup {x[1]}
  BY <1>2, <1>3, <1>4
<1> QED BY <1>5 DEF t, Firsts

\* The numbers below which something holds have a least exception.
LEMMA LeastNumber ==
  ASSUME NEW S \in SUBSET Nat, S # {}
  PROVE  \E m \in S : \A k \in S : m <= k
<1>1. \A a, b \in Nat : a < b => <<a, b>> \in OpToRel(<, Nat)
  BY DEF OpToRel
<1>2. PICK W : IsWellFoundedOn(W, Nat) /\ \A a, b \in Nat : a < b => <<a, b>> \in W
  BY <1>1, NatLessThanWellFounded, Zenon
<1>3. IsWellFoundedOn(W, Nat) /\ S \subseteq Nat
  BY <1>2
<1>4. PICK m \in S : \A k \in S : ~ (<<k, m>> \in W)
  BY <1>3, WFMin, Zenon
<1>5. \A k \in S : ~ (k < m)
  BY <1>2, <1>3, <1>4, Zenon
<1> QED BY <1>3, <1>5

\* put_ack's loop pops some of the entries, or none.
LEMMA PoppedType ==
  ASSUME NEW q \in Seq(Entry), NEW seq \in Int
  PROVE  Popped(q, seq) \in 0 .. Len(q)
<1> DEFINE Good(k) == /\ \A i \in 1 .. k : q[i].seq <= seq
                      /\ k = Len(q) \/ q[k + 1].seq > seq
           Late == {i \in 1 .. Len(q) : q[i].seq > seq}
<1>1. \A i \in 1 .. Len(q) : q[i].seq \in Int
  <2>1. \A e \in Entry : e.seq \in Int
    BY DEF Entry
  <2>2. \A i \in 1 .. Len(q) : q[i] \in Entry
    OBVIOUS
  <2> QED BY <2>1, <2>2
<1>2. \E k \in 0 .. Len(q) : Good(k)
  <2>1. CASE Late = {}
    <3>1. \A i \in 1 .. Len(q) : q[i].seq <= seq
      BY <1>1, <2>1
    <3> QED BY <3>1
  <2>2. CASE Late # {}
    <3>1. Late \in SUBSET Nat
      OBVIOUS
    <3>2. PICK m \in Late : \A k \in Late : m <= k
      BY <2>2, <3>1, LeastNumber
    <3>3. m - 1 \in 0 .. Len(q) /\ q[(m - 1) + 1].seq > seq
      OBVIOUS
    <3>4. \A i \in 1 .. m - 1 : q[i].seq <= seq
      BY <1>1, <3>2
    <3> QED BY <3>3, <3>4
  <2> QED BY <2>1, <2>2
<1>3. Popped(q, seq) = CHOOSE k \in 0 .. Len(q) : Good(k)
  BY DEF Popped
<1> HIDE DEF Good
<1> QED BY <1>2, <1>3

LEMMA SuffixFacts ==
  ASSUME NEW S, NEW s \in Seq(S), NEW k \in 0 .. Len(s)
  PROVE  /\ SubSeq(s, k + 1, Len(s)) \in Seq(S)
         /\ \A i \in 1 .. Len(SubSeq(s, k + 1, Len(s))) :
              i + k \in 1 .. Len(s) /\ SubSeq(s, k + 1, Len(s))[i] = s[i + k]
OBVIOUS
-----------------------------------------------------------------------------
(* What keeps each conjunct.                                                 *)

\* No node that is up loses anything, and none comes back.
Grows == \A n \in Live' : n \in Live /\ Applied(n) \subseteq Applied(n)'

LEMMA SameGrows ==
  ASSUME UNCHANGED <<db, down>>
  PROVE  Grows /\ (\A n \in Node : Applied(n)' = Applied(n)) /\ Live' = Live
BY DEF Grows, Live, Applied, Node

LEMMA SentStep ==
  ASSUME Sent, Grows,
         \A d \in Conn : \A i \in 1 .. Len(chan'[d]) :
           (\E j \in 1 .. Len(chan[d]) : chan'[d][i] = chan[d][j]) \/ SentOK(d, chan'[d][i])
  PROVE  Sent'
<1> SUFFICES ASSUME NEW d \in Conn, NEW i \in 1 .. Len(chan'[d])
             PROVE  SentOK(d, chan[d][i])'
  BY DEF Sent
<1>1. SentOK(d, chan'[d][i])
  BY DEF Sent
<1> QED BY <1>1 DEF SentOK, Grows

LEMMA HandledStep ==
  ASSUME Handled, Grows,
         \A d \in Conn : handler'[d] # Idle =>
           \/ /\ handler[d] # Idle /\ handler'[d].put = handler[d].put
              /\ handler'[d].hops = handler[d].hops
           \/ HandledOK(d, handler[d])'
  PROVE  Handled'
<1> SUFFICES ASSUME NEW d \in Conn, handler'[d] # Idle
             PROVE  HandledOK(d, handler[d])'
  BY DEF Handled
<1>1. CASE /\ handler[d] # Idle /\ handler'[d].put = handler[d].put
           /\ handler'[d].hops = handler[d].hops
  <2>1. HandledOK(d, handler[d])
    BY <1>1 DEF Handled
  <2> QED BY <1>1, <2>1 DEF HandledOK, Grows
<1> QED BY <1>1

LEMMA QueuedStep ==
  ASSUME Queued, \A n \in Node : Applied(n) \subseteq Applied(n)',
         \A n \in Node : \A i \in 1 .. Len(seq_msg_queue'[n]) :
           \/ \E j \in 1 .. Len(seq_msg_queue[n]) : seq_msg_queue'[n][i] = seq_msg_queue[n][j]
           \/ seq_msg_queue'[n][i].put \in Applied(n)'
  PROVE  Queued'
<1> SUFFICES ASSUME NEW n \in Node, NEW i \in 1 .. Len(seq_msg_queue'[n])
             PROVE  seq_msg_queue'[n][i].put \in Applied(n)'
  BY DEF Queued
<1> QED BY DEF Queued

LEMMA AnsweredStep ==
  ASSUME AnsweredSurvives, Grows, UNCHANGED answered
  PROVE  AnsweredSurvives'
BY DEF AnsweredSurvives, Grows

LEMMA OrderedStep ==
  ASSUME Ordered, UNCHANGED db, Live' \subseteq Live
  PROVE  Ordered'
BY DEF Ordered, Applied

\* A call appended to a connection, or taken from one.
LEMMA ChanAppend ==
  ASSUME Types, NEW x \in Conn, NEW m \in DownCall, SentOK(x, m),
         chan' = [chan EXCEPT ![x] = Append(@, m)]
  PROVE  /\ chan' \in [Conn -> Seq(DownCall)]
         /\ \A d \in Conn : \A i \in 1 .. Len(chan'[d]) :
              (\E j \in 1 .. Len(chan[d]) : chan'[d][i] = chan[d][j]) \/ SentOK(d, chan'[d][i])
<1>1. chan \in [Conn -> Seq(DownCall)] /\ chan[x] \in Seq(DownCall)
  BY DEF Types
<1>2. /\ Append(chan[x], m) \in Seq(DownCall) /\ Len(chan[x]) \in Nat
      /\ Len(Append(chan[x], m)) = Len(chan[x]) + 1
      /\ Append(chan[x], m)[Len(chan[x]) + 1] = m
      /\ \A i \in 1 .. Len(chan[x]) : Append(chan[x], m)[i] = chan[x][i]
  BY <1>1, AppendFacts
<1>3. chan' \in [Conn -> Seq(DownCall)] /\ chan'[x] = Append(chan[x], m)
      /\ \A d \in Conn : d # x => chan'[d] = chan[d]
  BY <1>1, <1>2
<1>4. ASSUME NEW d \in Conn, NEW i \in 1 .. Len(chan'[d])
      PROVE  (\E j \in 1 .. Len(chan[d]) : chan'[d][i] = chan[d][j]) \/ SentOK(d, chan'[d][i])
  <2>1. CASE d # x
    BY <2>1, <1>3
  <2>2. CASE d = x /\ i = Len(chan[x]) + 1
    BY <2>2, <1>2, <1>3
  <2>3. CASE d = x /\ i \in 1 .. Len(chan[x])
    BY <2>3, <1>2, <1>3
  <2>4. d = x => i = Len(chan[x]) + 1 \/ i \in 1 .. Len(chan[x])
    BY <1>2, <1>3
  <2> QED BY <2>1, <2>2, <2>3, <2>4
<1> QED BY <1>3, <1>4

LEMMA ChanTail ==
  ASSUME Types, NEW x \in Conn, chan[x] # << >>, chan' = [chan EXCEPT ![x] = Tail(@)]
  PROVE  /\ Head(chan[x]) \in DownCall /\ 1 \in 1 .. Len(chan[x]) /\ Head(chan[x]) = chan[x][1]
         /\ chan' \in [Conn -> Seq(DownCall)]
         /\ \A d \in Conn : \A i \in 1 .. Len(chan'[d]) :
              \E j \in 1 .. Len(chan[d]) : chan'[d][i] = chan[d][j]
<1>1. chan \in [Conn -> Seq(DownCall)] /\ chan[x] \in Seq(DownCall)
  BY DEF Types
<1>2. /\ Head(chan[x]) = chan[x][1] /\ chan[x][1] \in DownCall /\ Len(chan[x]) \in Nat \ {0}
      /\ Tail(chan[x]) \in Seq(DownCall)
      /\ Len(Tail(chan[x])) = Len(chan[x]) - 1
      /\ \A i \in 1 .. Len(chan[x]) - 1 :
           Tail(chan[x])[i] = chan[x][i + 1] /\ i + 1 \in 1 .. Len(chan[x])
  BY <1>1, TailFacts
<1>3. chan' \in [Conn -> Seq(DownCall)] /\ chan'[x] = Tail(chan[x])
      /\ \A d \in Conn : d # x => chan'[d] = chan[d]
  BY <1>1, <1>2
<1>4. ASSUME NEW d \in Conn, NEW i \in 1 .. Len(chan'[d])
      PROVE  \E j \in 1 .. Len(chan[d]) : chan'[d][i] = chan[d][j]
  <2>1. CASE d # x
    BY <2>1, <1>3
  <2>2. CASE d = x
    BY <2>2, <1>2, <1>3
  <2> QED BY <2>1, <2>2
<1> QED BY <1>2, <1>3, <1>4

LEMMA SendDownFacts ==
  ASSUME Types, NEW n, NEW m, NEW call \in DownCall, SendDown(n, m, call),
         <<n, m>> \in Conn => SentOK(<<n, m>>, call)
  PROVE  /\ chan' \in [Conn -> Seq(DownCall)]
         /\ \A d \in Conn : \A i \in 1 .. Len(chan'[d]) :
              (\E j \in 1 .. Len(chan[d]) : chan'[d][i] = chan[d][j]) \/ SentOK(d, chan'[d][i])
<1>1. CASE <<n, m>> \in Conn /\ m # down
  BY <1>1, ChanAppend DEF SendDown
<1>2. CASE ~(<<n, m>> \in Conn /\ m # down)
  BY <1>2 DEF SendDown, Types
<1> QED BY <1>1, <1>2

\* put_ack pops entries, and sends a number.
LEMMA AckFacts ==
  ASSUME Types, NEW n, NEW seq \in Int, NEW hops, Ack(n, seq, hops)
  PROVE  /\ last_ack' \in [Node -> Int] /\ seq_msg_queue' \in [Node -> Seq(Entry)]
         /\ UNCHANGED <<db, last_put, sequence>>
         /\ \A m \in Node : \A i \in 1 .. Len(seq_msg_queue'[m]) :
              \E j \in 1 .. Len(seq_msg_queue[m]) : seq_msg_queue'[m][i] = seq_msg_queue[m][j]
<1> DEFINE q == seq_msg_queue[n]
           k == Popped(q, seq)
<1>1. /\ last_ack' = [last_ack EXCEPT ![n] = IF k = 0 THEN seq ELSE q[k].seq]
      /\ seq_msg_queue' = [seq_msg_queue EXCEPT ![n] = SubSeq(q, k + 1, Len(q))]
      /\ UNCHANGED <<db, last_put, sequence>>
  BY DEF Ack
<1>2. seq_msg_queue \in [Node -> Seq(Entry)] /\ last_ack \in [Node -> Int]
  BY DEF Types
<1>3. CASE n \notin Node
  BY <1>1, <1>2, <1>3
<1>4. CASE n \in Node
  <2>1. q \in Seq(Entry)
    BY <1>2, <1>4
  <2>2. k \in 0 .. Len(q)
    BY <2>1, PoppedType
  <2>3. /\ SubSeq(q, k + 1, Len(q)) \in Seq(Entry)
        /\ \A i \in 1 .. Len(SubSeq(q, k + 1, Len(q))) :
             i + k \in 1 .. Len(q) /\ SubSeq(q, k + 1, Len(q))[i] = q[i + k]
    BY <2>1, <2>2, SuffixFacts
  <2> HIDE DEF k, q
  <2>4. k # 0 => q[k].seq \in Int
    <3>1. k # 0 => q[k] \in Entry
      BY <2>1, <2>2
    <3>2. \A e \in Entry : e.seq \in Int
      BY DEF Entry
    <3> QED BY <3>1, <3>2
  <2>5. last_ack' \in [Node -> Int]
    BY <1>1, <1>2, <2>4
  <2>6. /\ seq_msg_queue' \in [Node -> Seq(Entry)]
        /\ seq_msg_queue'[n] = SubSeq(q, k + 1, Len(q))
        /\ \A m \in Node : m # n => seq_msg_queue'[m] = seq_msg_queue[m]
    BY <1>1, <1>2, <1>4, <2>3 DEF q
  <2>7. \A m \in Node : \A i \in 1 .. Len(seq_msg_queue'[m]) :
          \E j \in 1 .. Len(seq_msg_queue[m]) : seq_msg_queue'[m][i] = seq_msg_queue[m][j]
    BY <2>3, <2>6 DEF q
  <2> QED BY <1>1, <2>5, <2>6, <2>7
<1> QED BY <1>3, <1>4

LEMMA SendUpFacts ==
  ASSUME Types, NEW n, NEW m, NEW call \in AckCall, SendUp(n, m, call)
  PROVE  ackchan' \in [Conn -> Seq(AckCall)]
<1>1. ackchan \in [Conn -> Seq(AckCall)]
  BY DEF Types
<1>2. ASSUME <<m, n>> \in Conn PROVE Append(ackchan[<<m, n>>], call) \in Seq(AckCall)
  BY <1>1, <1>2, AppendFacts
<1> QED BY <1>1, <1>2 DEF SendUp

\* Steps that apply nothing and take no node away: what is sent, handled and
\* buffered only has to satisfy the invariant as it stands.
LEMMA SameStores ==
  ASSUME Inv, Types', UNCHANGED <<db, down, answered>>, Linked',
         \A d \in Conn : \A i \in 1 .. Len(chan'[d]) :
           (\E j \in 1 .. Len(chan[d]) : chan'[d][i] = chan[d][j]) \/ SentOK(d, chan'[d][i]),
         \A d \in Conn : handler'[d] # Idle =>
           /\ handler[d] # Idle /\ handler'[d].put = handler[d].put
           /\ handler'[d].hops = handler[d].hops,
         \A n \in Node : \A i \in 1 .. Len(seq_msg_queue'[n]) :
           \E j \in 1 .. Len(seq_msg_queue[n]) : seq_msg_queue'[n][i] = seq_msg_queue[n][j]
  PROVE  Inv'
<1>1. Grows /\ (\A n \in Node : Applied(n)' = Applied(n)) /\ Live' = Live
  BY SameGrows
<1>2. Sent'
  BY <1>1, SentStep DEF Inv
<1>3. Handled'
  BY <1>1, HandledStep DEF Inv
<1>4. Queued'
  BY <1>1, QueuedStep DEF Inv
<1>5. AnsweredSurvives' /\ Ordered'
  BY <1>1, AnsweredStep, OrderedStep DEF Inv
<1> QED BY <1>2, <1>3, <1>4, <1>5 DEF Inv

LEMMA SameLinks ==
  ASSUME Linked, UNCHANGED <<succ, down>>
  PROVE  Linked'
BY DEF Linked

\* What a step leaves alone satisfies the hypotheses above.
LEMMA SameChan ==
  ASSUME UNCHANGED chan
  PROVE  \A d \in Conn : \A i \in 1 .. Len(chan'[d]) :
           (\E j \in 1 .. Len(chan[d]) : chan'[d][i] = chan[d][j]) \/ SentOK(d, chan'[d][i])
OBVIOUS

LEMMA SameQueue ==
  ASSUME UNCHANGED seq_msg_queue
  PROVE  \A n \in Node : \A i \in 1 .. Len(seq_msg_queue'[n]) :
           \E j \in 1 .. Len(seq_msg_queue[n]) : seq_msg_queue'[n][i] = seq_msg_queue[n][j]
OBVIOUS
-----------------------------------------------------------------------------
(* The actions.                                                              *)

LEMMA InvInit == Init => Inv
<1> SUFFICES ASSUME Init PROVE Inv
  OBVIOUS
<1>1. Types
  <2>1. /\ puts \in Int /\ errors = 0 /\ sequence \in Int /\ down \in 0 .. R
        /\ answered \in [1 .. MaxPut -> Int] /\ last_ack \in [Node -> Int]
        /\ succ \in [Node -> Int] /\ DOMAIN handler = Conn
        /\ \A c \in Conn : handler[c] = Idle
    BY ChainAssumption DEF Init, Node
  <2>2. last_put \in [Node -> Int]
    BY ChainAssumption DEF Init, INT64_MAX
  <2>3. /\ db \in [Node -> Seq(Int \X BOOLEAN)] /\ seq_msg_queue \in [Node -> Seq(Entry)]
        /\ chan \in [Conn -> Seq(DownCall)] /\ ackchan \in [Conn -> Seq(AckCall)]
    BY DEF Init
  <2>4. RepairRec(repair)
    <3>1. NoInfo \in RepairInfo
      BY DEF NoInfo, RepairInfo
    <3>2. repair = [pc |-> "none", info |-> NoInfo, seen |-> {}]
      BY DEF Init
    <3> QED BY <3>1, <3>2 DEF RepairRec
  <2> QED BY <2>1, <2>2, <2>3, <2>4 DEF Types
<1>2. /\ \A n \in Node : db[n] = << >> /\ seq_msg_queue[n] = << >> /\ succ[n] = n + 1
      /\ \A c \in Conn : chan[c] = << >> /\ handler[c] = Idle
      /\ \A p \in 1 .. MaxPut : answered[p] = 0
  BY DEF Init
<1>3. \A n \in Node : Applied(n) = {}
  BY <1>2 DEF Applied
<1>4. Ordered /\ Sent /\ Handled /\ Queued
  BY <1>2, <1>3 DEF Ordered, Sent, Handled, Queued, Live
<1>5. Linked /\ AnsweredSurvives
  BY <1>2 DEF Linked, AnsweredSurvives, Node
<1> QED BY <1>1, <1>4, <1>5 DEF Inv

LEMMA FePutStep ==
  ASSUME Inv, FePut
  PROVE  Inv'
<1> DEFINE m == [type |-> "put", put |-> puts + 1, remove |-> puts + 1 \in Removes,
                 hops |-> Hops, ackhops |-> Hops, seq |-> 0, ip |-> FE]
<1>1. /\ puts' = puts + 1 /\ chan' = [chan EXCEPT ![<<FE, 1>>] = Append(@, m)]
      /\ UNCHANGED <<answered, db, last_put, last_ack, seq_msg_queue, sequence, ackchan, handler,
                     succ, down, repair, errors>>
  BY DEF FePut, store, links, failure
<1>2. m \in DownCall
  <2>1. puts + 1 \in Int /\ Hops \in Int /\ FE \in Int
    BY ChainAssumption DEF Inv, Types, Hops, FE
  <2>2. (puts + 1 \in Removes) \in BOOLEAN
    OBVIOUS
  <2> QED BY <2>1, <2>2 DEF DownCall, PutCall
<1>3. SentOK(<<FE, 1>>, m)
  BY ChainAssumption DEF SentOK, Hops, Live, Node
<1> HIDE DEF m
<1>4. /\ chan' \in [Conn -> Seq(DownCall)]
      /\ \A d \in Conn : \A i \in 1 .. Len(chan'[d]) :
           (\E j \in 1 .. Len(chan[d]) : chan'[d][i] = chan[d][j]) \/ SentOK(d, chan'[d][i])
  BY <1>1, <1>2, <1>3, HeadConn, ChanAppend DEF Inv
<1>5. Types'
  BY <1>1, <1>4 DEF Inv, Types
<1>6. Linked'
  BY <1>1, SameLinks DEF Inv
<1>7. \A d \in Conn : handler'[d] # Idle =>
        /\ handler[d] # Idle /\ handler'[d].put = handler[d].put
        /\ handler'[d].hops = handler[d].hops
  BY <1>1
<1> QED BY <1>1, <1>4, <1>5, <1>6, <1>7, SameQueue, SameStores

\* A node applies the put it takes from a connection; those before it have it.
LEMMA PutStep ==
  ASSUME Inv, MaxError = 0, NEW c \in Conn, Put(c)
  PROVE  Inv'
<1> DEFINE n == c[2]
           m == Head(chan[c])
           h == [put |-> m, hops |-> m.hops - 1, pc |-> "send"]
           e == [seq |-> m.seq, put |-> m.put]
<1>1. n \in Node /\ n # down /\ c[2] \in Int /\ n \in Int
  BY ConnFacts DEF Put
<1>2. chan[c] # << >> /\ m.type = "put" /\ chan' = [chan EXCEPT ![c] = Tail(@)]
  BY DEF Put, Ready, Receive
<1>3. /\ m \in DownCall /\ 1 \in 1 .. Len(chan[c]) /\ m = chan[c][1]
      /\ chan' \in [Conn -> Seq(DownCall)]
      /\ \A d \in Conn : \A i \in 1 .. Len(chan'[d]) :
           \E j \in 1 .. Len(chan[d]) : chan'[d][i] = chan[d][j]
  BY <1>2, ChanTail DEF Inv
<1>4. m \in PutCall
  BY <1>2, <1>3 DEF DownCall
<1>5. /\ m.put \in Int /\ m.remove \in BOOLEAN /\ m.hops \in Int /\ m.seq \in Int
  BY <1>4 DEF PutCall
<1>6. /\ errors' = errors /\ db' = [db EXCEPT ![n] = Append(@, <<m.put, m.remove>>)]
      /\ handler' = [handler EXCEPT ![c] = h]
      /\ last_put' = [last_put EXCEPT ![n] = m.seq]
      /\ \/ last_ack' = [last_ack EXCEPT ![n] = m.seq] /\ UNCHANGED seq_msg_queue
         \/ seq_msg_queue' = [seq_msg_queue EXCEPT ![n] = Append(@, e)] /\ UNCHANGED last_ack
      /\ UNCHANGED <<puts, answered, sequence, ackchan, succ, down, repair>>
  <2>1. ~(errors < MaxError)
    BY DEF Inv, Types
  <2> QED BY <2>1 DEF Put, Enqueue, links, failure
<1>7. SentOK(c, m)
  BY <1>3 DEF Inv, Sent
<1> HIDE DEF m
<1>8. h \in HandlerRec /\ h.put = m /\ h.hops = m.hops - 1
  BY <1>4, <1>5 DEF HandlerRec
<1>9. e \in Entry /\ e.put = m.put
  BY <1>5 DEF Entry
<1> HIDE DEF h, e
<1>10. /\ db' \in [Node -> Seq(Int \X BOOLEAN)]
       /\ Applied(n)' = Applied(n) \cup {m.put}
       /\ \A k \in Node : k # n => Applied(k)' = Applied(k)
  <2>1. db \in [Node -> Seq(Int \X BOOLEAN)] /\ db[n] \in Seq(Int \X BOOLEAN)
    BY <1>1 DEF Inv, Types
  <2>2. <<m.put, m.remove>> \in Int \X BOOLEAN
    BY <1>5
  <2> DEFINE x == <<m.put, m.remove>>
             s == db[n]
  <2>3. x[1] = m.put /\ x \in Int \X BOOLEAN
    BY <2>2
  <2>4. db' = [db EXCEPT ![n] = Append(s, x)] /\ s \in Seq(Int \X BOOLEAN)
    BY <1>6, <2>1
  <2> HIDE DEF x
  <2>5. Append(s, x) \in Seq(Int \X BOOLEAN)
    BY <2>3, <2>4, AppendFacts
  <2>6. Firsts(Append(s, x)) = Firsts(s) \cup {x[1]}
    BY <2>3, <2>4, FirstsAppend
  <2>7. /\ db' \in [Node -> Seq(Int \X BOOLEAN)] /\ db'[n] = Append(s, x)
        /\ \A k \in Node : k # n => db'[k] = db[k]
    BY <1>1, <2>1, <2>4, <2>5
  <2>8. Applied(n)' = Applied(n) \cup {m.put}
    BY <2>3, <2>6, <2>7, AppliedFirsts
  <2>9. \A k \in Node : k # n => Applied(k)' = Applied(k)
    BY <2>7 DEF Applied
  <2> QED BY <2>7, <2>8, <2>9
<1>11. Live' = Live /\ Live \subseteq Node /\ n \in Live /\ Live \subseteq Int
  BY <1>1, <1>6 DEF Live, Node
<1>12. \A k \in Live : k < n => m.put \in Applied(k)
  BY <1>2, <1>7 DEF SentOK, m
<1>13. Grows
  BY <1>10, <1>11 DEF Grows
<1>14. Types'
  <2>1. seq_msg_queue' \in [Node -> Seq(Entry)]
    <3>1. seq_msg_queue \in [Node -> Seq(Entry)]
      BY DEF Inv, Types
    <3>2. Append(seq_msg_queue[n], e) \in Seq(Entry)
      BY <1>1, <1>9, <3>1, AppendFacts
    <3> QED BY <1>6, <3>1, <3>2
  <2>2. last_ack' \in [Node -> Int] /\ last_put' \in [Node -> Int]
    BY <1>1, <1>5, <1>6 DEF Inv, Types
  <2>3. DOMAIN handler' = Conn /\ \A d \in Conn : handler'[d] # Idle => handler'[d] \in HandlerRec
    BY <1>6, <1>8 DEF Inv, Types
  <2> QED BY <1>3, <1>6, <1>10, <2>1, <2>2, <2>3 DEF Inv, Types
<1>15. Ordered'
  <2> SUFFICES ASSUME NEW i \in Live, NEW j \in Live, i < j PROVE Applied(j)' \subseteq Applied(i)'
    BY <1>11 DEF Ordered
  <2>1. Applied(j) \subseteq Applied(i)
    BY DEF Inv, Ordered
  <2>2. CASE j = n
    <3>1. i # n /\ m.put \in Applied(i)
      BY <1>11, <1>12, <2>2
    <3> QED BY <1>10, <1>11, <2>1, <2>2, <3>1
  <2>3. CASE j # n
    BY <1>10, <1>11, <2>1, <2>3
  <2> QED BY <2>2, <2>3
<1>16. Sent'
  BY <1>3, <1>13, SentStep DEF Inv
<1>17. Handled'
  <2>1. \A d \in Conn : handler'[d] = IF d = c THEN h ELSE handler[d]
    BY <1>6 DEF Inv, Types
  <2>2. HandledOK(c, handler[c])'
    <3>1. \A k \in Live' : k <= c[2] => m.put \in Applied(k)'
      <4> SUFFICES ASSUME NEW k \in Live, k <= n PROVE m.put \in Applied(k)'
        BY <1>11
      <4>1. k = n \/ k < n
        BY <1>1, <1>11
      <4> QED BY <4>1, <1>10, <1>11, <1>12
    <3>2. m.ip = FE => m.hops - 1 >= R - c[2]
      BY <1>1, <1>2, <1>5, <1>7, ChainAssumption DEF SentOK, m
    <3>3. handler'[c].put = m /\ handler'[c].hops = m.hops - 1
      BY <1>8, <2>1
    <3> QED BY <3>1, <3>2, <3>3 DEF HandledOK
  <2>3. \A d \in Conn : handler'[d] # Idle =>
          \/ /\ handler[d] # Idle /\ handler'[d].put = handler[d].put
             /\ handler'[d].hops = handler[d].hops
          \/ HandledOK(d, handler[d])'
    BY <2>1, <2>2
  <2> QED BY <1>13, <2>3, HandledStep DEF Inv
<1>18. Queued'
  <2>1. \A k \in Node : Applied(k) \subseteq Applied(k)'
    BY <1>10
  <2>2. CASE UNCHANGED seq_msg_queue
    BY <2>1, <2>2, QueuedStep DEF Inv
  <2>3. CASE seq_msg_queue' = [seq_msg_queue EXCEPT ![n] = Append(@, e)]
    <3>1. seq_msg_queue \in [Node -> Seq(Entry)] /\ seq_msg_queue[n] \in Seq(Entry)
      BY <1>1 DEF Inv, Types
    <3>2. /\ Len(Append(seq_msg_queue[n], e)) = Len(seq_msg_queue[n]) + 1
          /\ Len(seq_msg_queue[n]) \in Nat
          /\ Append(seq_msg_queue[n], e)[Len(seq_msg_queue[n]) + 1] = e
          /\ \A i \in 1 .. Len(seq_msg_queue[n]) :
               Append(seq_msg_queue[n], e)[i] = seq_msg_queue[n][i]
      BY <1>9, <3>1, AppendFacts
    <3>3. /\ seq_msg_queue'[n] = Append(seq_msg_queue[n], e)
          /\ \A k \in Node : k # n => seq_msg_queue'[k] = seq_msg_queue[k]
      BY <1>1, <2>3, <3>1
    <3>4. ASSUME NEW k \in Node, NEW i \in 1 .. Len(seq_msg_queue'[k])
          PROVE  \/ \E j \in 1 .. Len(seq_msg_queue[k]) : seq_msg_queue'[k][i] = seq_msg_queue[k][j]
                 \/ seq_msg_queue'[k][i].put \in Applied(k)'
      <4>1. CASE k # n
        BY <3>3, <4>1
      <4>2. CASE k = n /\ i = Len(seq_msg_queue[n]) + 1
        BY <1>9, <1>10, <3>2, <3>3, <4>2
      <4>3. CASE k = n /\ i \in 1 .. Len(seq_msg_queue[n])
        BY <3>2, <3>3, <4>3
      <4>4. k = n => i = Len(seq_msg_queue[n]) + 1 \/ i \in 1 .. Len(seq_msg_queue[n])
        BY <3>2, <3>3
      <4> QED BY <4>1, <4>2, <4>3, <4>4
    <3> QED BY <2>1, <3>4, QueuedStep DEF Inv
  <2> QED BY <1>6, <2>2, <2>3
<1>19. Linked' /\ AnsweredSurvives'
  BY <1>6, <1>13, SameLinks, AnsweredStep DEF Inv
<1> QED BY <1>14, <1>15, <1>16, <1>17, <1>18, <1>19 DEF Inv

LEMMA NoPutError ==
  ASSUME Inv, NEW c \in Conn, PutError(c)
  PROVE  FALSE
BY DEF Inv, Types, PutError, HandlerRec

\* A handler that is done, or that goes on to acknowledge.
LEMMA HandlerDone ==
  ASSUME Types, NEW c \in Conn, NEW x, handler[c] # Idle, handler' = [handler EXCEPT ![c] = x],
         x # Idle => x = [handler[c] EXCEPT !.pc = "ack"]
  PROVE  /\ DOMAIN handler' = Conn /\ \A d \in Conn : handler'[d] # Idle => handler'[d] \in HandlerRec
         /\ \A d \in Conn : handler'[d] # Idle =>
              /\ handler[d] # Idle /\ handler'[d].put = handler[d].put
              /\ handler'[d].hops = handler[d].hops
<1>1. /\ DOMAIN handler' = Conn
      /\ \A d \in Conn : handler'[d] = IF d = c THEN x ELSE handler[d]
  BY DEF Types
<1>2. handler[c] \in HandlerRec
  BY DEF Types
<1>3. x # Idle => x \in HandlerRec /\ x.put = handler[c].put /\ x.hops = handler[c].hops
  BY <1>2 DEF HandlerRec
<1> QED BY <1>1, <1>3 DEF Types

\* Only node R has no hops left for a put of the front end, and then every node
\* that is up has the put.
LEMMA PutRespondStep ==
  ASSUME Inv, NEW c \in Conn, PutRespond(c)
  PROVE  Inv'
<1> DEFINE h == handler[c]
           x == IF h.put.ackhops - 1 > 0 THEN [h EXCEPT !.pc = "ack"] ELSE Idle
<1>1. /\ h # Idle /\ h.hops = 0 /\ Respond(h.put) /\ handler' = [handler EXCEPT ![c] = x]
      /\ UNCHANGED <<puts, db, last_put, last_ack, seq_msg_queue, sequence, chan, ackchan, succ,
                     down, repair, errors>>
  BY DEF PutRespond, IsTail, store, links, failure
<1>2. h \in HandlerRec /\ h.put \in PutCall /\ h.put.put \in Int
  BY <1>1 DEF Inv, Types, HandlerRec, PutCall
<1>3. HandledOK(c, h)
  BY <1>1 DEF Inv, Handled
<1>4. c[2] \in Node /\ c[2] \in Int
  BY ConnFacts
<1> HIDE DEF h
<1>5. x # Idle => x = [h EXCEPT !.pc = "ack"]
  OBVIOUS
<1> HIDE DEF x
<1>6. /\ DOMAIN handler' = Conn /\ \A d \in Conn : handler'[d] # Idle => handler'[d] \in HandlerRec
      /\ \A d \in Conn : handler'[d] # Idle =>
           /\ handler[d] # Idle /\ handler'[d].put = handler[d].put
           /\ handler'[d].hops = handler[d].hops
  BY <1>1, <1>5, HandlerDone DEF Inv, h
<1>7. ASSUME h.put.ip = FE PROVE \A n \in Live : h.put.put \in Applied(n)
  <2>1. 0 >= R - c[2]
    BY <1>1, <1>3, <1>7 DEF HandledOK
  <2>2. c[2] = R
    BY <1>4, <2>1, ChainAssumption DEF Node
  <2>3. \A n \in Live : n <= c[2]
    BY <2>2, ChainAssumption DEF Live, Node
  <2> QED BY <1>3, <2>3 DEF HandledOK
<1>8. answered' \in [1 .. MaxPut -> Int]
  <2> DEFINE p == h.put.put
  <2>1. answered \in [1 .. MaxPut -> Int]
    BY DEF Inv, Types
  <2>2. p \in 1 .. MaxPut => answered[p] + 1 \in Int
    BY <2>1
  <2>3. answered' = answered \/ answered' = [answered EXCEPT ![p] = answered[p] + 1]
    BY <1>1 DEF Respond
  <2> HIDE DEF p
  <2> QED BY <2>1, <2>2, <2>3
<1>9. Types'
  BY <1>1, <1>6, <1>8 DEF Inv, Types
<1>10. Grows /\ (\A n \in Node : Applied(n)' = Applied(n)) /\ Live' = Live
  BY <1>1, SameGrows
<1>11. Sent' /\ Queued' /\ Ordered' /\ Linked'
  <2>1. Sent'
    BY <1>1, <1>10, SameChan, SentStep DEF Inv
  <2>2. Queued'
    BY <1>1, <1>10, SameQueue, QueuedStep DEF Inv
  <2> QED BY <1>1, <1>10, <2>1, <2>2, OrderedStep, SameLinks DEF Inv
<1>12. Handled'
  BY <1>6, <1>10, HandledStep DEF Inv
<1>13. AnsweredSurvives'
  <2> SUFFICES ASSUME NEW p \in 1 .. MaxPut, answered'[p] > 0, NEW n \in Live
               PROVE  p \in Applied(n)'
    BY <1>10 DEF AnsweredSurvives
  <2>1. n \in Node
    BY DEF Live
  <2>2. CASE answered[p] > 0
    BY <1>10, <2>1, <2>2 DEF Inv, AnsweredSurvives
  <2>3. CASE ~(answered[p] > 0)
    <3>1. h.put.ip = FE /\ p = h.put.put
      BY <1>1, <2>3 DEF Respond, Inv, Types
    <3> QED BY <1>7, <1>10, <2>1, <3>1
  <2> QED BY <2>2, <2>3
<1> QED BY <1>9, <1>11, <1>12, <1>13 DEF Inv

LEMMA PutSendAckStep ==
  ASSUME Inv, NEW c \in Conn, PutSendAck(c)
  PROVE  Inv'
<1> DEFINE h == handler[c]
           a == [seq |-> h.put.seq, hops |-> TailAckHops(h.put)]
<1>1. /\ h # Idle /\ SendUp(c[2], pred[c[2]], a) /\ handler' = [handler EXCEPT ![c] = Idle]
      /\ UNCHANGED <<puts, answered, db, last_put, last_ack, seq_msg_queue, sequence, chan, succ,
                     down, repair, errors>>
  BY DEF PutSendAck, store, links, failure
<1>2. h.put \in PutCall
  BY <1>1 DEF Inv, Types, HandlerRec
<1>3. a \in AckCall
  BY <1>2 DEF PutCall, AckCall, TailAckHops
<1> HIDE DEF a, h
<1>4. ackchan' \in [Conn -> Seq(AckCall)]
  BY <1>1, <1>3, SendUpFacts DEF Inv
<1>5. /\ DOMAIN handler' = Conn /\ \A d \in Conn : handler'[d] # Idle => handler'[d] \in HandlerRec
      /\ \A d \in Conn : handler'[d] # Idle =>
           /\ handler[d] # Idle /\ handler'[d].put = handler[d].put
           /\ handler'[d].hops = handler[d].hops
  BY <1>1, HandlerDone DEF Inv, h
<1>6. Types'
  BY <1>1, <1>4, <1>5 DEF Inv, Types
<1>7. Linked'
  BY <1>1, SameLinks DEF Inv
<1> QED BY <1>1, <1>5, <1>6, <1>7, SameChan, SameQueue, SameStores

\* A put is forwarded to the next node that is up, with one hop less.
LEMMA PutForwardStep ==
  ASSUME Inv, NEW c \in Conn, PutForward(c)
  PROVE  Inv'
<1> DEFINE h == handler[c]
           n == c[2]
           m == [h.put EXCEPT !.hops = h.hops, !.seq = IF @ = 0 THEN sequence ELSE @]
<1>1. /\ h # Idle /\ SendDown(n, succ[n], m) /\ handler' = [handler EXCEPT ![c] = Idle]
      /\ sequence' = IF h.put.seq = 0 THEN sequence + 1 ELSE sequence
      /\ UNCHANGED <<puts, answered, db, last_put, last_ack, seq_msg_queue, ackchan, succ,
                     down, repair, errors>>
  BY DEF PutForward, links
<1>2. h.put \in PutCall /\ h.hops \in Int /\ sequence \in Int
  BY <1>1 DEF Inv, Types, HandlerRec
<1>3. HandledOK(c, h)
  BY <1>1 DEF Inv, Handled
<1> HIDE DEF h
<1>4. m \in PutCall
  BY <1>2 DEF PutCall
<1>5. m \in DownCall /\ m.put = h.put.put /\ m.hops = h.hops /\ m.ip = h.put.ip
  <2>1. m.put = h.put.put
    BY <1>2 DEF PutCall
  <2>2. m.hops = h.hops
    BY <1>2 DEF PutCall
  <2>3. m.ip = h.put.ip
    BY <1>2 DEF PutCall
  <2> QED BY <1>4, <2>1, <2>2, <2>3 DEF DownCall
<1> HIDE DEF m
<1>6. n \in Node /\ n \in Int /\ R \in Int
  BY ConnFacts, ChainAssumption
<1>7. ASSUME <<n, succ[n]>> \in Conn PROVE SentOK(<<n, succ[n]>>, m)
  <2> DEFINE s == succ[n]
  <2>1. s \in Int /\ s > n /\ s <= R
    <3>1. <<n, s>>[1] = n /\ <<n, s>>[2] = s
      OBVIOUS
    <3>2. s \in Node /\ s \in Int /\ n < s
      BY <1>7, <3>1, ConnFacts
    <3> QED BY <1>6, <3>2 DEF Node
  <2>2. s <= n + 1 \/ (s = n + 2 /\ down = n + 1) \/ s = R + 1
    BY <1>6 DEF Inv, Linked
  <2> HIDE DEF s
  <2>3. \A k \in Live : k < s => k <= n
    BY <1>6, <2>1, <2>2 DEF Live, Node
  <2>4. \A k \in Live : k < s => m.put \in Applied(k)
    BY <1>3, <1>5, <2>3 DEF HandledOK
  <2>5. m.ip = FE => m.hops >= R - s + 1
    BY <1>2, <1>3, <1>5, <1>6, <2>1 DEF HandledOK
  <2> QED BY <2>4, <2>5 DEF SentOK, s
<1>8. /\ chan' \in [Conn -> Seq(DownCall)]
      /\ \A d \in Conn : \A i \in 1 .. Len(chan'[d]) :
           (\E j \in 1 .. Len(chan[d]) : chan'[d][i] = chan[d][j]) \/ SentOK(d, chan'[d][i])
  BY <1>1, <1>5, <1>7, SendDownFacts DEF Inv
<1>9. /\ DOMAIN handler' = Conn /\ \A d \in Conn : handler'[d] # Idle => handler'[d] \in HandlerRec
      /\ \A d \in Conn : handler'[d] # Idle =>
           /\ handler[d] # Idle /\ handler'[d].put = handler[d].put
           /\ handler'[d].hops = handler[d].hops
  BY <1>1, HandlerDone DEF Inv, h
<1>10. Types'
  <2>1. sequence' \in Int
    BY <1>1, <1>2
  <2> QED BY <1>1, <1>8, <1>9, <2>1 DEF Inv, Types
<1>11. Linked'
  BY <1>1, SameLinks DEF Inv
<1> QED BY <1>1, <1>8, <1>9, <1>10, <1>11, SameQueue, SameStores

\* The repair record stays one when a step moves it on.
LEMMA RepairPcType ==
  ASSUME Types, NEW pc, repair' = [repair EXCEPT !.pc = pc]
  PROVE  RepairRec(repair')
BY DEF Types, RepairRec

\* The tail repair at a node: the new tail acknowledges everything it buffers.
LEMMA RepairTailFacts ==
  ASSUME Types, Linked, NEW n, NEW hops, RepairTail(n, hops), UNCHANGED down
  PROVE  /\ last_ack' \in [Node -> Int] /\ seq_msg_queue' \in [Node -> Seq(Entry)]
         /\ UNCHANGED <<db, last_put, sequence>>
         /\ \A m \in Node : \A i \in 1 .. Len(seq_msg_queue'[m]) :
              \E j \in 1 .. Len(seq_msg_queue[m]) : seq_msg_queue'[m][i] = seq_msg_queue[m][j]
         /\ ackchan' \in [Conn -> Seq(AckCall)] /\ succ' \in [Node -> Int]
         /\ RepairRec(repair') /\ Linked'
<1> DEFINE a == [seq |-> INT64_MAX, hops |-> (R - 2 - 1) - 1]
<1>1. CASE hops > 0
  <2>1. /\ repair' = [repair EXCEPT !.pc = "tail"]
        /\ UNCHANGED <<db, last_put, last_ack, seq_msg_queue, sequence, ackchan, succ>>
    BY <1>1 DEF RepairTail, store, links
  <2>2. RepairRec(repair')
    BY <2>1, RepairPcType
  <2>3. Linked'
    BY <2>1, SameLinks
  <2> QED BY <2>1, <2>2, <2>3, SameQueue DEF Types
<1>2. CASE ~(hops > 0)
  <2>1. /\ Ack(n, INT64_MAX, R - 2 - 1) /\ repair' = [repair EXCEPT !.pc = "done"]
        /\ SendUp(n, pred[n], a) \/ UNCHANGED ackchan
        /\ succ' = [succ EXCEPT ![n] = R + 1]
    BY <1>2 DEF RepairTail
  <2>2. INT64_MAX \in Int /\ R \in Int
    BY ChainAssumption DEF INT64_MAX
  <2>3. a \in AckCall
    BY <2>2 DEF AckCall
  <2> HIDE DEF a
  <2>4. ackchan' \in [Conn -> Seq(AckCall)]
    <3>1. CASE SendUp(n, pred[n], a)
      BY <2>3, <3>1, SendUpFacts
    <3> QED BY <2>1, <3>1 DEF Types
  <2>5. RepairRec(repair')
    BY <2>1, RepairPcType
  <2>6. succ' \in [Node -> Int] /\ Linked'
    <3>1. succ \in [Node -> Int]
      BY DEF Types
    <3>2. succ' = [succ EXCEPT ![n] = R + 1]
      BY <2>1
    <3>3. R + 1 \in Int
      BY <2>2
    <3>4. succ' \in [Node -> Int]
      BY <3>1, <3>2, <3>3
    <3>5. \A k \in Node : succ'[k] = R + 1 \/ succ'[k] = succ[k]
      BY <3>1, <3>2
    <3> QED BY <3>4, <3>5 DEF Linked
  <2> QED BY <2>1, <2>2, <2>4, <2>5, <2>6, AckFacts
<1> QED BY <1>1, <1>2

LEMMA TailCallFacts ==
  ASSUME NEW hops \in Int
  PROVE  RepairTailCall(hops) \in DownCall /\ \A c \in Conn : SentOK(c, RepairTailCall(hops))
BY DEF RepairTailCall, DownCall, SentOK

LEMMA FailTailStep ==
  ASSUME Inv, FailTail
  PROVE  Inv'
<1>1. /\ RepairTail(1, R - 2) /\ UNCHANGED <<puts, answered, handler, down, errors>>
      /\ SendDown(1, succ[1], RepairTailCall(R - 3)) \/ UNCHANGED chan
  BY DEF FailTail
<1>2. R - 3 \in Int
  BY ChainAssumption
<1>3. /\ chan' \in [Conn -> Seq(DownCall)]
      /\ \A d \in Conn : \A i \in 1 .. Len(chan'[d]) :
           (\E j \in 1 .. Len(chan[d]) : chan'[d][i] = chan[d][j]) \/ SentOK(d, chan'[d][i])
  <2>1. CASE SendDown(1, succ[1], RepairTailCall(R - 3))
    BY <1>2, <2>1, TailCallFacts, SendDownFacts DEF Inv
  <2>2. CASE UNCHANGED chan
    BY <2>2, SameChan DEF Inv, Types
  <2> QED BY <1>1, <2>1, <2>2
<1>4. /\ last_ack' \in [Node -> Int] /\ seq_msg_queue' \in [Node -> Seq(Entry)]
      /\ UNCHANGED <<db, last_put, sequence>>
      /\ \A m \in Node : \A i \in 1 .. Len(seq_msg_queue'[m]) :
           \E j \in 1 .. Len(seq_msg_queue[m]) : seq_msg_queue'[m][i] = seq_msg_queue[m][j]
      /\ ackchan' \in [Conn -> Seq(AckCall)] /\ succ' \in [Node -> Int]
      /\ RepairRec(repair') /\ Linked'
  BY <1>1, RepairTailFacts DEF Inv
<1>5. Types'
  BY <1>1, <1>3, <1>4 DEF Inv, Types
<1> QED BY <1>1, <1>3, <1>4, <1>5, SameStores

LEMMA ChainRepairTailStep ==
  ASSUME Inv, NEW c \in Conn, ChainRepairTail(c)
  PROVE  Inv'
<1> DEFINE n == c[2]
           m == Head(chan[c])
           x == <<n, succ[n]>>
           y == RepairTailCall(m.hops - 1)
<1>1. /\ chan[c] # << >> /\ m.type = "chain_repair_tail" /\ RepairTail(n, m.hops)
      /\ UNCHANGED <<puts, answered, handler, down, errors>>
      /\ \/ chan' = [chan EXCEPT ![c] = Tail(@), ![x] = Append(@, y)]
         \/ chan' = [chan EXCEPT ![c] = Tail(@)]
  BY DEF ChainRepairTail, Ready, Receive
<1>2. chan \in [Conn -> Seq(DownCall)] /\ chan[c] \in Seq(DownCall)
  BY DEF Inv, Types
<1>3. /\ m = chan[c][1] /\ m \in DownCall /\ Len(chan[c]) \in Nat \ {0}
      /\ Tail(chan[c]) \in Seq(DownCall)
      /\ Len(Tail(chan[c])) = Len(chan[c]) - 1
      /\ \A i \in 1 .. Len(chan[c]) - 1 :
           Tail(chan[c])[i] = chan[c][i + 1] /\ i + 1 \in 1 .. Len(chan[c])
  BY <1>1, <1>2, TailFacts
<1>4. y \in DownCall /\ \A d \in Conn : SentOK(d, y)
  <2>1. m.hops \in Int
    BY <1>1, <1>3 DEF DownCall, PutCall
  <2>2. m.hops - 1 \in Int
    BY <2>1
  <2> QED BY <2>2, TailCallFacts
<1>5. x # c
  <2>1. c[1] < c[2] /\ c[1] \in Int /\ c[2] \in Int
    BY ConnFacts
  <2>2. x = c => c[1] = c[2]
    OBVIOUS
  <2> QED BY <2>1, <2>2
<1> HIDE DEF x, y
<1>6. /\ chan'[c] = Tail(chan[c]) /\ DOMAIN chan' = Conn
      /\ \A d \in Conn : d # c => chan'[d] = chan[d] \/ (d = x /\ chan'[d] = Append(chan[d], y))
  <2>1. CASE chan' = [chan EXCEPT ![c] = Tail(@), ![x] = Append(@, y)]
    BY <1>2, <1>5, <2>1
  <2>2. CASE chan' = [chan EXCEPT ![c] = Tail(@)]
    BY <1>2, <2>2
  <2> QED BY <1>1, <2>1, <2>2
<1>7. ASSUME NEW d \in Conn
      PROVE  /\ chan'[d] \in Seq(DownCall)
             /\ \A i \in 1 .. Len(chan'[d]) :
                  (\E j \in 1 .. Len(chan[d]) : chan'[d][i] = chan[d][j]) \/ SentOK(d, chan'[d][i])
  <2>1. CASE d = c
    <3>1. chan'[d] = Tail(chan[d])
      BY <1>6, <2>1
    <3> QED BY <1>3, <2>1, <3>1
  <2>2. CASE d # c /\ chan'[d] = chan[d]
    BY <1>2, <2>2
  <2>3. CASE d # c /\ d = x /\ chan'[d] = Append(chan[d], y)
    <3>1. chan[d] \in Seq(DownCall)
      BY <1>2
    <3>2. /\ Append(chan[d], y) \in Seq(DownCall) /\ Len(chan[d]) \in Nat
          /\ Len(Append(chan[d], y)) = Len(chan[d]) + 1
          /\ Append(chan[d], y)[Len(chan[d]) + 1] = y
          /\ \A i \in 1 .. Len(chan[d]) : Append(chan[d], y)[i] = chan[d][i]
      BY <1>4, <3>1, AppendFacts
    <3>3. ASSUME NEW i \in 1 .. Len(chan[d]) + 1
          PROVE  (\E j \in 1 .. Len(chan[d]) : chan'[d][i] = chan[d][j]) \/ SentOK(d, chan'[d][i])
      <4>1. CASE i = Len(chan[d]) + 1
        BY <1>4, <2>3, <3>2, <4>1
      <4>2. CASE i \in 1 .. Len(chan[d])
        BY <2>3, <3>2, <4>2
      <4> QED BY <3>2, <4>1, <4>2
    <3> QED BY <2>3, <3>2, <3>3
  <2> QED BY <1>6, <2>1, <2>2, <2>3
<1>8. chan' \in [Conn -> Seq(DownCall)]
  <2>1. chan' = [d \in Conn |-> chan'[d]]
    BY <1>1, <1>2
  <2> QED BY <1>7, <2>1
<1>9. /\ last_ack' \in [Node -> Int] /\ seq_msg_queue' \in [Node -> Seq(Entry)]
      /\ UNCHANGED <<db, last_put, sequence>>
      /\ \A k \in Node : \A i \in 1 .. Len(seq_msg_queue'[k]) :
           \E j \in 1 .. Len(seq_msg_queue[k]) : seq_msg_queue'[k][i] = seq_msg_queue[k][j]
      /\ ackchan' \in [Conn -> Seq(AckCall)] /\ succ' \in [Node -> Int]
      /\ RepairRec(repair') /\ Linked'
  BY <1>1, RepairTailFacts DEF Inv
<1>10. Types'
  BY <1>1, <1>8, <1>9 DEF Inv, Types
<1> QED BY <1>1, <1>7, <1>9, <1>10, SameStores

LEMMA ChainRepairMidSuccStep ==
  ASSUME Inv, NEW c \in Conn, ChainRepairMidSucc(c)
  PROVE  Inv'
<1> DEFINE n == c[2]
<1>1. /\ chan[c] # << >> /\ chan' = [chan EXCEPT ![c] = Tail(@)]
      /\ repair' = [pc |-> "told", info |-> [last_ack |-> last_ack[n], last_put |-> last_put[n]],
                    seen |-> {}]
      /\ UNCHANGED <<puts, answered, db, last_put, last_ack, seq_msg_queue, sequence, ackchan,
                     handler, succ, down, errors>>
  BY DEF ChainRepairMidSucc, Ready, Receive, store
<1>2. /\ chan' \in [Conn -> Seq(DownCall)]
      /\ \A d \in Conn : \A i \in 1 .. Len(chan'[d]) :
           \E j \in 1 .. Len(chan[d]) : chan'[d][i] = chan[d][j]
  BY <1>1, ChanTail DEF Inv
<1>3. RepairRec(repair')
  <2>1. last_ack[n] \in Int /\ last_put[n] \in Int
    BY ConnFacts DEF Inv, Types
  <2>2. repair'.info \in RepairInfo
    BY <1>1, <2>1 DEF RepairInfo
  <2> QED BY <1>1, <2>2 DEF RepairRec
<1>4. Types'
  BY <1>1, <1>2, <1>3 DEF Inv, Types
<1>5. Linked'
  BY <1>1, SameLinks DEF Inv
<1>6. \A d \in Conn : handler'[d] # Idle =>
        /\ handler[d] # Idle /\ handler'[d].put = handler[d].put
        /\ handler'[d].hops = handler[d].hops
  BY <1>1
<1> QED BY <1>1, <1>2, <1>4, <1>5, <1>6, SameQueue, SameStores

LEMMA PutAckStep ==
  ASSUME Inv, NEW c \in Conn, PutAck(c)
  PROVE  Inv'
<1> DEFINE n == c[1]
           a == Head(ackchan[c])
           b == [seq |-> a.seq, hops |-> a.hops - 1]
           rest == [ackchan EXCEPT ![c] = Tail(@)]
           x == <<pred[n], n>>
<1>1. /\ ackchan[c] # << >> /\ Ack(n, a.seq, a.hops)
      /\ ackchan' = rest \/ ackchan' = [rest EXCEPT ![x] = Append(@, b)]
      /\ UNCHANGED <<puts, answered, chan, handler, succ, down, repair, errors>>
  BY DEF PutAck, links
<1>2. ackchan \in [Conn -> Seq(AckCall)] /\ ackchan[c] \in Seq(AckCall)
  BY DEF Inv, Types
<1>3. a \in AckCall /\ Tail(ackchan[c]) \in Seq(AckCall)
  <2>1. ackchan[c] \in Seq(AckCall) /\ ackchan[c] # << >>
    BY <1>1, <1>2
  <2> QED BY <2>1, TailFacts
<1>4. a.seq \in Int /\ b \in AckCall
  BY <1>3 DEF AckCall
<1>5. rest \in [Conn -> Seq(AckCall)]
  BY <1>2, <1>3
<1> HIDE DEF a, b, rest, x
<1>6. ackchan' \in [Conn -> Seq(AckCall)]
  <2>1. ASSUME x \in Conn PROVE Append(rest[x], b) \in Seq(AckCall)
    BY <1>4, <1>5, <2>1, AppendFacts
  <2> QED BY <1>1, <1>5, <2>1
<1>7. /\ last_ack' \in [Node -> Int] /\ seq_msg_queue' \in [Node -> Seq(Entry)]
      /\ UNCHANGED <<db, last_put, sequence>>
      /\ \A m \in Node : \A i \in 1 .. Len(seq_msg_queue'[m]) :
           \E j \in 1 .. Len(seq_msg_queue[m]) : seq_msg_queue'[m][i] = seq_msg_queue[m][j]
  BY <1>1, <1>4, AckFacts DEF Inv
<1>8. Types'
  BY <1>1, <1>6, <1>7 DEF Inv, Types
<1>9. Linked'
  BY <1>1, SameLinks DEF Inv
<1>10. \A d \in Conn : handler'[d] # Idle =>
         /\ handler[d] # Idle /\ handler'[d].put = handler[d].put
         /\ handler'[d].hops = handler[d].hops
  BY <1>1
<1> QED BY <1>1, <1>7, <1>8, <1>9, <1>10, SameChan, SameStores

\* A crash takes one node away and, with it, what was on its way to it.
LEMMA CrashStep ==
  ASSUME Inv, NEW f \in Failing, Crash(f)
  PROVE  Inv'
<1>1. /\ down = 0 /\ down' = f
      /\ chan' = [c \in Conn |-> IF c[2] = f THEN << >> ELSE chan[c]]
      /\ handler' = [c \in Conn |-> IF c[2] = f THEN Idle ELSE handler[c]]
      /\ ackchan' = [c \in Conn |-> IF c[1] = f THEN << >> ELSE ackchan[c]]
      /\ UNCHANGED <<puts, answered, db, last_put, last_ack, seq_msg_queue, sequence, succ,
                     repair, errors>>
  BY DEF Crash, store, links
<1>2. f \in 2 .. R /\ R \in Nat \ {0}
  BY ChainAssumption
<1>3. Live' \subseteq Live /\ (\A n \in Node : Applied(n)' = Applied(n))
  BY <1>1 DEF Live, Applied, Node
<1>4. Grows
  BY <1>3 DEF Grows, Live
<1>5. /\ chan' \in [Conn -> Seq(DownCall)]
      /\ \A d \in Conn : \A i \in 1 .. Len(chan'[d]) :
           (\E j \in 1 .. Len(chan[d]) : chan'[d][i] = chan[d][j]) \/ SentOK(d, chan'[d][i])
  <2>1. \A d \in Conn : chan'[d] = << >> \/ chan'[d] = chan[d]
    BY <1>1
  <2>2. chan \in [Conn -> Seq(DownCall)] /\ << >> \in Seq(DownCall)
    BY DEF Inv, Types
  <2>3. chan' \in [Conn -> Seq(DownCall)]
    BY <1>1, <2>2
  <2> QED BY <2>1, <2>3
<1>6. ackchan' \in [Conn -> Seq(AckCall)]
  <2>1. ackchan \in [Conn -> Seq(AckCall)] /\ << >> \in Seq(AckCall)
    BY DEF Inv, Types
  <2> QED BY <1>1, <2>1
<1>7. DOMAIN handler' = Conn /\ \A d \in Conn : handler'[d] = Idle \/ handler'[d] = handler[d]
  BY <1>1
<1>8. Types'
  BY <1>1, <1>2, <1>5, <1>6, <1>7 DEF Inv, Types
<1>9. Sent'
  BY <1>4, <1>5, SentStep DEF Inv
<1>10. Handled'
  <2>1. \A d \in Conn : handler'[d] # Idle =>
          /\ handler[d] # Idle /\ handler'[d].put = handler[d].put
          /\ handler'[d].hops = handler[d].hops
    BY <1>7
  <2> QED BY <1>4, <2>1, HandledStep DEF Inv
<1>11. Queued'
  BY <1>1, <1>3, SameQueue, QueuedStep DEF Inv
<1>12. Ordered' /\ AnsweredSurvives'
  BY <1>1, <1>3, <1>4, OrderedStep, AnsweredStep DEF Inv
<1>13. Linked'
  BY <1>1 DEF Inv, Linked, Node
<1> QED BY <1>8, <1>9, <1>10, <1>11, <1>12, <1>13 DEF Inv

\* A link that skips the crashed node.
LEMMA SkipFacts ==
  ASSUME Types, Linked, down \in 2 .. R - 1, UNCHANGED down,
         succ' = [succ EXCEPT ![down - 1] = down + 1]
  PROVE  succ' \in [Node -> Int] /\ Linked'
<1>1. succ \in [Node -> Int] /\ down + 1 \in Int
  BY ChainAssumption DEF Types
<1>2. succ' \in [Node -> Int]
  BY <1>1
<1>3. \A k \in Node : (k = down - 1 /\ succ'[k] = k + 2) \/ succ'[k] = succ[k]
  BY <1>1, ChainAssumption DEF Node
<1>4. \A k \in Node : k = down - 1 => down = k + 1
  BY ChainAssumption DEF Node
<1> QED BY <1>2, <1>3, <1>4 DEF Linked

LEMMA FailMidStep ==
  ASSUME Inv, FailMid
  PROVE  Inv'
<1> DEFINE m == [type |-> "chain_repair_mid_succ"]
           p == down - 1
<1>1. /\ down \in 2 .. R - 1 /\ SendDown(p, down + 1, m)
      /\ succ' = [succ EXCEPT ![down - 1] = down + 1] \/ succ' = succ
      /\ repair' = [repair EXCEPT !.pc = "asked"]
      /\ UNCHANGED <<puts, answered, db, last_put, last_ack, seq_msg_queue, sequence, ackchan,
                     handler, down, errors>>
  BY DEF FailMid, store
<1>2. m \in DownCall /\ \A c \in Conn : SentOK(c, m)
  BY DEF DownCall, SentOK
<1> HIDE DEF m, p
<1>3. /\ chan' \in [Conn -> Seq(DownCall)]
      /\ \A d \in Conn : \A i \in 1 .. Len(chan'[d]) :
           (\E j \in 1 .. Len(chan[d]) : chan'[d][i] = chan[d][j]) \/ SentOK(d, chan'[d][i])
  BY <1>1, <1>2, SendDownFacts DEF Inv
<1>4. RepairRec(repair')
  BY <1>1, RepairPcType DEF Inv
<1>5. succ' \in [Node -> Int] /\ Linked'
  <2>1. CASE succ' = [succ EXCEPT ![down - 1] = down + 1]
    BY <1>1, <2>1, SkipFacts DEF Inv
  <2>2. CASE succ' = succ
    BY <1>1, <2>2, SameLinks DEF Inv, Types
  <2> QED BY <1>1, <2>1, <2>2
<1>6. Types'
  BY <1>1, <1>3, <1>4, <1>5 DEF Inv, Types
<1>7. \A d \in Conn : handler'[d] # Idle =>
        /\ handler[d] # Idle /\ handler'[d].put = handler[d].put
        /\ handler'[d].hops = handler[d].hops
  BY <1>1
<1> QED BY <1>1, <1>3, <1>5, <1>6, <1>7, SameQueue, SameStores

LEMMA ReconnectStep ==
  ASSUME Inv, Reconnect
  PROVE  Inv'
<1>1. /\ down \in 2 .. R - 1 /\ succ' = [succ EXCEPT ![down - 1] = down + 1]
      /\ UNCHANGED <<puts, answered, db, last_put, last_ack, seq_msg_queue, sequence, chan,
                     ackchan, handler, down, repair, errors>>
  BY DEF Reconnect, store, net, failure
<1>2. succ' \in [Node -> Int] /\ Linked'
  BY <1>1, SkipFacts DEF Inv
<1>3. Types'
  BY <1>1, <1>2 DEF Inv, Types
<1>4. \A d \in Conn : handler'[d] # Idle =>
        /\ handler[d] # Idle /\ handler'[d].put = handler[d].put
        /\ handler'[d].hops = handler[d].hops
  BY <1>1
<1> QED BY <1>1, <1>2, <1>3, <1>4, SameChan, SameQueue, SameStores

LEMMA RepairMidAckStep ==
  ASSUME Inv, RepairMidAck
  PROVE  Inv'
<1> DEFINE p == down - 1
           s == repair.info.last_ack
           a == [seq |-> s, hops |-> (R - down) - 1]
<1>1. /\ repair' = [repair EXCEPT !.pc = "resend"]
      /\ UNCHANGED <<puts, answered, chan, handler, succ, down, errors>>
      /\ \/ /\ Ack(p, s, R - down)
            /\ SendUp(p, pred[p], a) \/ UNCHANGED ackchan
         \/ UNCHANGED <<db, last_put, last_ack, seq_msg_queue, sequence, ackchan>>
  BY DEF RepairMidAck, store, links
<1>2. s \in Int /\ a \in AckCall
  <2>1. s \in Int
    BY DEF Inv, Types, RepairRec, RepairInfo
  <2>2. (R - down) - 1 \in Int
    BY ChainAssumption DEF Inv, Types
  <2> HIDE DEF s
  <2> QED BY <2>1, <2>2 DEF AckCall
<1> HIDE DEF a, s, p
<1>3. ackchan' \in [Conn -> Seq(AckCall)]
  <2>1. CASE SendUp(p, pred[p], a)
    BY <1>2, <2>1, SendUpFacts DEF Inv
  <2>2. CASE UNCHANGED ackchan
    BY <2>2 DEF Inv, Types
  <2> QED BY <1>1, <2>1, <2>2
<1>4. /\ last_ack' \in [Node -> Int] /\ seq_msg_queue' \in [Node -> Seq(Entry)]
      /\ UNCHANGED <<db, last_put, sequence>>
      /\ \A m \in Node : \A i \in 1 .. Len(seq_msg_queue'[m]) :
           \E j \in 1 .. Len(seq_msg_queue[m]) : seq_msg_queue'[m][i] = seq_msg_queue[m][j]
  <2>1. CASE Ack(p, s, R - down)
    BY <1>2, <2>1, AckFacts DEF Inv
  <2>2. CASE UNCHANGED <<db, last_put, last_ack, seq_msg_queue, sequence>>
    BY <2>2, SameQueue DEF Inv, Types
  <2> QED BY <1>1, <2>1, <2>2
<1>5. RepairRec(repair')
  BY <1>1, RepairPcType DEF Inv
<1>6. Types'
  BY <1>1, <1>3, <1>4, <1>5 DEF Inv, Types
<1>7. Linked'
  BY <1>1, SameLinks DEF Inv
<1>8. \A d \in Conn : handler'[d] # Idle =>
        /\ handler[d] # Idle /\ handler'[d].put = handler[d].put
        /\ handler'[d].hops = handler[d].hops
  BY <1>1
<1> QED BY <1>1, <1>4, <1>6, <1>7, <1>8, SameChan, SameStores

\* The loop of chain_repair_mid resends, one at a time and with its own address,
\* entries that the node has applied, and so has every node before it.
LEMMA RepairMidResendStep ==
  ASSUME Inv, RepairMidResend
  PROVE  Inv'
<1> DEFINE p == down - 1
           q == seq_msg_queue[p]
           x == <<p, down + 1>>
<1>1. PICK i \in DOMAIN q :
        /\ chan' = [chan EXCEPT ![x] = Append(@, Resent(q[i]))] \/ chan' = chan
        /\ repair' = [repair EXCEPT !.seen = @ \cup {q[i].put}]
  BY DEF RepairMidResend
<1>2. UNCHANGED <<puts, answered, db, last_put, last_ack, seq_msg_queue, sequence, ackchan,
                  handler, succ, down, errors>>
  BY DEF RepairMidResend, store, links
<1> DEFINE e == q[i]
           m == Resent(e)
<1>3. R \in Int /\ down \in Int
  BY ChainAssumption DEF Inv, Types
<1>4. ASSUME x \in Conn
      PROVE  m \in DownCall /\ SentOK(x, m)
  <2>1. p \in Node /\ p \in Int /\ x[2] = down + 1 /\ p # FE
    BY <1>3, <1>4, ConnFacts, ChainAssumption DEF Conn, Node, FE
  <2>2. q \in Seq(Entry)
    BY <2>1 DEF Inv, Types
  <2>3. i \in 1 .. Len(q) /\ e \in Entry
    BY <2>2
  <2>4. e.put \in Int /\ e.seq \in Int
    BY <2>3 DEF Entry
  <2>5. e.put \in Applied(p)
    BY <2>1, <2>3 DEF Inv, Queued
  <2> HIDE DEF e
  <2>6. /\ m = [type |-> "put", put |-> e.put, remove |-> FALSE,
                hops |-> (R - 2) - (R - down), ackhops |-> (R - down) + ((R - 2) - (R - down)),
                seq |-> e.seq, ip |-> p]
    BY DEF Resent
  <2>7. (R - 2) - (R - down) \in Int /\ (R - down) + ((R - 2) - (R - down)) \in Int
    BY <1>3
  <2> HIDE DEF m, p
  <2>8. m \in DownCall /\ m.put = e.put /\ m.ip # FE
    BY <2>1, <2>4, <2>6, <2>7 DEF DownCall, PutCall
  <2>9. \A n \in Live : n < down + 1 => e.put \in Applied(n)
    <3> SUFFICES ASSUME NEW n \in Live, n < down + 1 PROVE e.put \in Applied(n)
      OBVIOUS
    <3>1. p \in Live /\ n \in Int /\ (n = p \/ n < p)
      BY <1>3, <2>1 DEF Live, Node, p
    <3> QED BY <2>5, <3>1 DEF Inv, Ordered
  <2> QED BY <2>1, <2>8, <2>9 DEF SentOK
<1>5. /\ chan' \in [Conn -> Seq(DownCall)]
      /\ \A d \in Conn : \A k \in 1 .. Len(chan'[d]) :
           (\E j \in 1 .. Len(chan[d]) : chan'[d][k] = chan[d][j]) \/ SentOK(d, chan'[d][k])
  <2> HIDE DEF x
  <2>1. CASE x \in Conn /\ chan' = [chan EXCEPT ![x] = Append(@, m)]
    <3> HIDE DEF m
    <3> QED BY <1>4, <2>1, ChanAppend DEF Inv
  <2>2. CASE chan' = chan
    BY <2>2, SameChan DEF Inv, Types
  <2>3. chan' = chan \/ (x \in Conn /\ chan' = [chan EXCEPT ![x] = Append(@, m)])
    <3> HIDE DEF m
    <3>1. chan' = [chan EXCEPT ![x] = Append(@, m)] \/ chan' = chan
      BY <1>1 DEF m
    <3>2. chan \in [Conn -> Seq(DownCall)]
      BY DEF Inv, Types
    <3> QED BY <3>1, <3>2
  <2> QED BY <2>1, <2>2, <2>3
<1>6. RepairRec(repair')
  BY <1>1 DEF Inv, Types, RepairRec
<1>7. Types'
  BY <1>2, <1>5, <1>6 DEF Inv, Types
<1>8. Linked'
  BY <1>2, SameLinks DEF Inv
<1>9. \A d \in Conn : handler'[d] # Idle =>
        /\ handler[d] # Idle /\ handler'[d].put = handler[d].put
        /\ handler'[d].hops = handler[d].hops
  BY <1>2
<1> QED BY <1>2, <1>5, <1>7, <1>8, <1>9, SameQueue, SameStores

LEMMA RepairMidDoneStep ==
  ASSUME Inv, RepairMidDone
  PROVE  Inv'
<1>1. /\ repair' = [repair EXCEPT !.pc = "done"]
      /\ UNCHANGED <<puts, answered, db, last_put, last_ack, seq_msg_queue, sequence, chan,
                     ackchan, handler, succ, down, errors>>
  BY DEF RepairMidDone, store, net, links
<1>2. RepairRec(repair')
  BY <1>1, RepairPcType DEF Inv
<1>3. Types'
  BY <1>1, <1>2 DEF Inv, Types
<1>4. Linked'
  BY <1>1, SameLinks DEF Inv
<1>5. \A d \in Conn : handler'[d] # Idle =>
        /\ handler[d] # Idle /\ handler'[d].put = handler[d].put
        /\ handler'[d].hops = handler[d].hops
  BY <1>1
<1> QED BY <1>1, <1>3, <1>4, <1>5, SameChan, SameQueue, SameStores

LEMMA StutterStep ==
  ASSUME Inv, UNCHANGED vars
  PROVE  Inv'
<1>1. UNCHANGED <<puts, answered, db, last_put, last_ack, seq_msg_queue, sequence, chan, ackchan,
                  handler, succ, down, repair, errors>>
  BY DEF vars, store, net, links, failure
<1>2. Types'
  BY <1>1 DEF Inv, Types
<1>3. Linked'
  BY <1>1, SameLinks DEF Inv
<1>4. \A d \in Conn : handler'[d] # Idle =>
        /\ handler[d] # Idle /\ handler'[d].put = handler[d].put
        /\ handler'[d].hops = handler[d].hops
  BY <1>1
<1> QED BY <1>1, <1>2, <1>3, <1>4, SameChan, SameQueue, SameStores

LEMMA InvNext ==
  ASSUME Inv, MaxError = 0, [Next]_vars
  PROVE  Inv'
<1>1. CASE FePut
  BY <1>1, FePutStep
<1>2. ASSUME NEW c \in Conn, Handle(c) PROVE Inv'
  BY <1>2, PutStep, NoPutError, PutRespondStep, PutSendAckStep, PutForwardStep,
     ChainRepairTailStep, ChainRepairMidSuccStep DEF Handle
<1>3. ASSUME NEW c \in Conn, PutAck(c) PROVE Inv'
  BY <1>3, PutAckStep
<1>4. ASSUME NEW f \in Failing, Crash(f) PROVE Inv'
  BY <1>4, CrashStep
<1>5. CASE Repair
  BY <1>5, FailTailStep, FailMidStep, ReconnectStep, RepairMidAckStep, RepairMidResendStep,
     RepairMidDoneStep DEF Repair
<1>6. CASE UNCHANGED vars
  BY <1>6, StutterStep
<1> QED BY <1>1, <1>2, <1>3, <1>4, <1>5, <1>6 DEF Next
-----------------------------------------------------------------------------
\* A put that the tail answered (put_cb, FawnKVBackendHandler.cpp put) is on
\* every node that is up, from then on and through a crash of any node but the
\* head and the repair that follows, if no store refuses an operation.
THEOREM AnsweredPutsSurvive ==
  ASSUME MaxError = 0
  PROVE  Spec => []AnsweredSurvives
<1>1. Init => Inv
  BY InvInit
<1>2. Inv /\ [Next]_vars => Inv'
  BY InvNext
<1>3. Inv => AnsweredSurvives
  BY DEF Inv
<1> QED BY <1>1, <1>2, <1>3, PTL DEF Spec
=============================================================================
