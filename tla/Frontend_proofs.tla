-------------------------- MODULE Frontend_proofs ---------------------------
(***************************************************************************)
(* Proofs about the front end's cache, for any clients, keys, capacity,    *)
(* request numbers and numbers of faults: what a hit answers with, and     *)
(* how many entries the two tables hold.                                   *)
(***************************************************************************)
EXTENDS Frontend, FiniteSetTheorems, TLAPS

Cell == Value \cup {Nil}
Message ==
  {m \in [op : {"get", "put", "remove"}, key : Key, value : Cell, cont : Nat] :
     m.op = "put" => m.value # Nil}
UpdateMessage ==
  [op : {"put", "remove"}, key : Key, value : Cell, req : Int, by : Client]

Types ==
  /\ ops \in [Client -> Nat] /\ calls \in [Client -> Seq(Message)] /\ reqNumber \in Int
  /\ DOMAIN removing = Client
  /\ \A c \in Client : removing[c] # Nil => removing[c].key \in Key /\ removing[c].req \in Int
  /\ updates \in Seq(UpdateMessage)
  /\ cur \in [Key -> Cell] /\ old \in [Key -> Cell]
  /\ store \in [Key -> Cell] /\ newest \in [Key -> Cell] /\ latest \in [Key -> Cell]

\* Each table holds the newest put of a key unless the other shadows it, and
\* what the chain holds is the latest update, or will be once the updates that
\* are under way have arrived: the last of them for a key carries it.
Coherence ==
  /\ sizeMax > 0 => \A k \in Key : /\ cur[k] # Nil => cur[k] = newest[k]
                                   /\ cur[k] = Nil /\ old[k] # Nil => old[k] = newest[k]
  /\ \A k \in Key : latest[k] # Nil => latest[k] = newest[k]
  /\ \A i \in 1 .. Len(updates) :
       (\A j \in i + 1 .. Len(updates) : updates[j].key # updates[i].key)
         => updates[i].value = latest[updates[i].key]
  /\ \A k \in Key : (\A i \in 1 .. Len(updates) : updates[i].key # k) /\ k \notin refused
                      => store[k] = latest[k]

cohered == <<cur, old, newest, latest, updates, store, refused>>
typed == <<cohered, ops, calls, reqNumber, removing>>
-----------------------------------------------------------------------------
(* Sequences.                                                                *)

LEMMA AppendFacts ==
  ASSUME NEW S, NEW s \in Seq(S), NEW x \in S
  PROVE  /\ Append(s, x) \in Seq(S)
         /\ Len(Append(s, x)) = Len(s) + 1
         /\ Append(s, x)[Len(s) + 1] = x
         /\ \A i \in 1 .. Len(s) : Append(s, x)[i] = s[i]
OBVIOUS

LEMMA TailFacts ==
  ASSUME NEW S, NEW s \in Seq(S), s # << >>
  PROVE  /\ Head(s) = s[1] /\ s[1] \in S /\ Len(s) \in Nat \ {0}
         /\ Tail(s) \in Seq(S)
         /\ Len(Tail(s)) = Len(s) - 1
         /\ \A i \in 1 .. Len(s) - 1 : Tail(s)[i] = s[i + 1]
OBVIOUS

\* An update that the front end appends becomes the latest of its key.
LEMMA CoherentAppend ==
  ASSUME Types, Coherence, NEW m \in UpdateMessage,
         updates' = Append(updates, m), latest' = [latest EXCEPT ![m.key] = m.value],
         UNCHANGED <<store, refused>>
  PROVE  /\ \A i \in 1 .. Len(updates') :
              (\A j \in i + 1 .. Len(updates') : updates'[j].key # updates'[i].key)
                => updates'[i].value = latest'[updates'[i].key]
         /\ \A k \in Key : (\A i \in 1 .. Len(updates') : updates'[i].key # k) /\ k \notin refused'
                             => store'[k] = latest'[k]
<1> DEFINE n == Len(updates)
<1>1. updates \in Seq(UpdateMessage) /\ n \in Nat /\ latest \in [Key -> Cell]
  BY DEF Types
<1>2. /\ Len(updates') = n + 1 /\ updates'[n + 1] = m
      /\ \A i \in 1 .. n : updates'[i] = updates[i]
  BY <1>1, AppendFacts
<1>3. m.key \in Key /\ m.value \in Cell /\ \A i \in 1 .. n : updates[i].key \in Key
  <2>1. m.key \in Key /\ m.value \in Cell
    BY DEF UpdateMessage
  <2>2. \A i \in 1 .. n : updates[i] \in UpdateMessage
    BY <1>1
  <2>3. \A u \in UpdateMessage : u.key \in Key
    BY DEF UpdateMessage
  <2> QED BY <2>1, <2>2, <2>3
<1>4. \A k \in Key : latest'[k] = IF k = m.key THEN m.value ELSE latest[k]
  BY <1>1
<1> HIDE DEF n
<1>5. ASSUME NEW i \in 1 .. n + 1,
             \A j \in i + 1 .. n + 1 : updates'[j].key # updates'[i].key
      PROVE  updates'[i].value = latest'[updates'[i].key]
  <2>1. CASE i = n + 1
    BY <2>1, <1>2, <1>3, <1>4
  <2>2. CASE i \in 1 .. n
    <3>1. updates'[i] = updates[i] /\ updates[i].key # m.key
      BY <2>2, <1>1, <1>2, <1>5
    <3>2. \A j \in i + 1 .. n : updates[j].key # updates[i].key
      BY <2>2, <1>1, <1>2, <1>5, <3>1
    <3>3. updates[i].value = latest[updates[i].key]
      BY <3>2, <2>2 DEF Coherence, n
    <3> QED BY <3>1, <3>3, <1>3, <1>4, <2>2
  <2>3. i = n + 1 \/ i \in 1 .. n
    BY <1>1
  <2> QED BY <2>1, <2>2, <2>3
<1>6. ASSUME NEW k \in Key, \A i \in 1 .. n + 1 : updates'[i].key # k, k \notin refused'
      PROVE  store'[k] = latest'[k]
  <2>1. k # m.key
    BY <1>1, <1>2, <1>6
  <2>2. \A i \in 1 .. n : updates[i].key # k
    BY <1>1, <1>2, <1>6
  <2>3. store[k] = latest[k]
    BY <2>2, <1>6 DEF Coherence, n
  <2> QED BY <2>1, <2>3, <1>4
<1> QED BY <1>2, <1>5, <1>6

\* The chain's store catches up with the oldest update.
LEMMA CoherentTail ==
  ASSUME Types, Coherence, updates # << >>, updates' = Tail(updates), UNCHANGED latest,
         \/ store' = [store EXCEPT ![Head(updates).key] = Head(updates).value]
              /\ UNCHANGED refused
         \/ refused' = refused \cup {Head(updates).key} /\ UNCHANGED store
  PROVE  /\ \A i \in 1 .. Len(updates') :
              (\A j \in i + 1 .. Len(updates') : updates'[j].key # updates'[i].key)
                => updates'[i].value = latest'[updates'[i].key]
         /\ \A k \in Key : (\A i \in 1 .. Len(updates') : updates'[i].key # k) /\ k \notin refused'
                             => store'[k] = latest'[k]
<1> DEFINE n == Len(updates)
<1>1. updates \in Seq(UpdateMessage) /\ store \in [Key -> Cell]
  BY DEF Types
<1>2. /\ n \in Nat \ {0} /\ Head(updates) = updates[1] /\ updates[1] \in UpdateMessage
      /\ Len(updates') = n - 1
      /\ \A i \in 1 .. n - 1 : updates'[i] = updates[i + 1]
  BY <1>1, TailFacts
<1>3. updates[1].key \in Key
  BY <1>2 DEF UpdateMessage
<1> HIDE DEF n
<1>4. ASSUME NEW i \in 1 .. n - 1,
             \A j \in i + 1 .. n - 1 : updates'[j].key # updates'[i].key
      PROVE  updates'[i].value = latest'[updates'[i].key]
  <2>1. \A j \in (i + 1) + 1 .. n : updates[j].key # updates[i + 1].key
    <3> SUFFICES ASSUME NEW j \in (i + 1) + 1 .. n PROVE updates[j].key # updates[i + 1].key
      OBVIOUS
    <3>1. j - 1 \in i + 1 .. n - 1 /\ (j - 1) + 1 = j /\ j - 1 \in 1 .. n - 1
      BY <1>2
    <3>2. updates'[j - 1] = updates[j] /\ updates'[i] = updates[i + 1]
      BY <3>1, <1>2
    <3> QED BY <3>1, <3>2, <1>4
  <2>2. i + 1 \in 1 .. n
    BY <1>2
  <2>3. updates[i + 1].value = latest[updates[i + 1].key]
    BY <2>1, <2>2 DEF Coherence, n
  <2> QED BY <2>3, <1>2
<1>5. ASSUME NEW k \in Key, \A i \in 1 .. n - 1 : updates'[i].key # k, k \notin refused'
      PROVE  store'[k] = latest'[k]
  <2>1. \A j \in 2 .. n : updates[j].key # k
    <3> SUFFICES ASSUME NEW j \in 2 .. n PROVE updates[j].key # k
      OBVIOUS
    <3>1. j - 1 \in 1 .. n - 1 /\ (j - 1) + 1 = j
      BY <1>2
    <3> QED BY <3>1, <1>2, <1>5
  <2>2. CASE updates[1].key = k
    <3>1. updates[1].value = latest[k]
      BY <2>1, <2>2, <1>2 DEF Coherence, n
    <3>2. store' = [store EXCEPT ![k] = updates[1].value]
      BY <2>2, <1>2, <1>5
    <3> QED BY <3>1, <3>2, <1>1
  <2>3. CASE updates[1].key # k
    <3>1. \A j \in 1 .. n : updates[j].key # k
      BY <2>1, <2>3, <1>2
    <3>2. k \notin refused
      BY <1>5
    <3>3. store[k] = latest[k]
      BY <3>1, <3>2 DEF Coherence, n
    <3> QED BY <3>3, <2>3, <1>1, <1>2
  <2> QED BY <2>2, <2>3
<1>6. \A i \in 1 .. Len(updates') :
        (\A j \in i + 1 .. Len(updates') : updates'[j].key # updates'[i].key)
          => updates'[i].value = latest'[updates'[i].key]
  <2> SUFFICES ASSUME NEW i \in 1 .. Len(updates'),
                      \A j \in i + 1 .. Len(updates') : updates'[j].key # updates'[i].key
               PROVE  updates'[i].value = latest'[updates'[i].key]
    OBVIOUS
  <2>1. i \in 1 .. n - 1 /\ \A j \in i + 1 .. n - 1 : updates'[j].key # updates'[i].key
    BY <1>2
  <2> QED BY <2>1, <1>4
<1>7. \A k \in Key : (\A i \in 1 .. Len(updates') : updates'[i].key # k) /\ k \notin refused'
                        => store'[k] = latest'[k]
  <2> SUFFICES ASSUME NEW k \in Key, \A i \in 1 .. Len(updates') : updates'[i].key # k,
                      k \notin refused'
               PROVE  store'[k] = latest'[k]
    OBVIOUS
  <2>1. \A i \in 1 .. n - 1 : updates'[i].key # k
    BY <1>2
  <2> QED BY <2>1, <1>5
<1> QED BY <1>6, <1>7
-----------------------------------------------------------------------------
(* The invariants.                                                           *)

LEMMA TypesInit == Init => Types
BY FrontendAssumption DEF Init, Types, Empty, Cell

LEMMA MessagesFacts ==
  ASSUME Types, NEW c \in Client, calls[c] # << >>
  PROVE  /\ Head(calls[c]) \in Message /\ Head(calls[c]).key \in Key
         /\ Head(calls[c]).value \in Cell
         /\ [calls EXCEPT ![c] = Tail(@)] \in [Client -> Seq(Message)]
<1>1. calls[c] \in Seq(Message) /\ calls \in [Client -> Seq(Message)]
  BY DEF Types
<1>2. Head(calls[c]) \in Message /\ Tail(calls[c]) \in Seq(Message)
  BY <1>1, TailFacts
<1>3. Head(calls[c]).key \in Key /\ Head(calls[c]).value \in Cell
  BY <1>2 DEF Message
<1> QED BY <1>1, <1>2, <1>3

LEMMA CallTypes ==
  ASSUME Types, NEW c \in Client, Call(c)
  PROVE  Types' /\ UNCHANGED cohered
<1>1. PICK op \in {"get", "put", "remove"}, k \in Key, v \in Value \cup {Nil} :
        /\ (op = "put") = (v # Nil)
        /\ calls' = [calls EXCEPT ![c] = Append(@,
          [op |-> op, key |-> WireKey(c, op, k), value |-> v, cont |-> ops[c]])]
  BY DEF Call
<1> DEFINE m == [op |-> op, key |-> WireKey(c, op, k), value |-> v, cont |-> ops[c]]
<1>2. WireKey(c, op, k) \in Key
  BY FrontendAssumption DEF WireKey
<1>3. m \in Message
  BY <1>1, <1>2 DEF Message, Cell, Types
<1>4. calls \in [Client -> Seq(Message)] /\ calls' = [calls EXCEPT ![c] = Append(@, m)]
  BY <1>1 DEF Types
<1> HIDE DEF m
<1>5. calls' \in [Client -> Seq(Message)]
  BY <1>3, <1>4
<1>6. UNCHANGED <<cohered, reqNumber, removing>> /\ ops' = [ops EXCEPT ![c] = @ + 1]
  BY DEF Call, cohered, cache, backend
<1> QED BY <1>5, <1>6 DEF Types, cohered

LEMMA InsertTypes ==
  ASSUME Types, NEW k \in Key, NEW v \in Cell, insert(k, v)
  PROVE  cur' \in [Key -> Cell] /\ old' \in [Key -> Cell]
BY DEF insert, Types, Empty, Cell

\* An insertion into a full table starts a new one and keeps the last.
LEMMA InsertFacts ==
  ASSUME Types, NEW k \in Key, NEW v \in Cell, insert(k, v)
  PROVE  \/ /\ old' = cur /\ sizeCur' = 1
            /\ \A j \in Key : cur'[j] = IF j = k THEN v ELSE Nil
         \/ /\ old' = old /\ sizeCur' = sizeCur + 1 /\ ~(sizeCur >= sizeMax \div 2)
            /\ \A j \in Key : cur'[j] = IF j = k THEN v ELSE cur[j]
BY DEF insert, Types, Empty

LEMMA PutTypes ==
  ASSUME Types, Coherence, NEW c \in Client, Put(c)
  PROVE  Types' /\ Coherence'
<1> DEFINE h == Head(calls[c])
           u == Update(c, "put", h.key, h.value, reqNumber)
<1>1. /\ h \in Message /\ h.key \in Key /\ h.value \in Cell
      /\ [calls EXCEPT ![c] = Tail(@)] \in [Client -> Seq(Message)]
  BY MessagesFacts DEF Put, Incoming
<1>2. u \in UpdateMessage /\ u.key = h.key /\ u.value = h.value /\ h.value # Nil
  BY <1>1 DEF UpdateMessage, Update, Types, Put, Incoming, Message
<1>3. /\ updates' = Append(updates, u)
      /\ newest' = [newest EXCEPT ![h.key] = h.value]
      /\ latest' = [latest EXCEPT ![h.key] = h.value]
      /\ UNCHANGED <<store, refused, ops, removing>>
      /\ reqNumber' = reqNumber + 1
      /\ calls' = [calls EXCEPT ![c] = Tail(@)]
      /\ IF sizeMax > 0 THEN insert(h.key, h.value) ELSE UNCHANGED <<cur, old, sizeCur>>
  BY DEF Put, Received, client, backend, cache
<1> HIDE DEF h, u
<1>4. updates' \in Seq(UpdateMessage)
  BY <1>2, <1>3, AppendFacts DEF Types
<1>5. cur' \in [Key -> Cell] /\ old' \in [Key -> Cell]
  BY <1>1, <1>3, InsertTypes DEF Types
<1>6. Types'
  <2>1. newest' \in [Key -> Cell] /\ latest' \in [Key -> Cell] /\ store' \in [Key -> Cell]
    BY <1>1, <1>3 DEF Types
  <2>2. ops' \in [Client -> Nat] /\ calls' \in [Client -> Seq(Message)] /\ reqNumber' \in Int
    BY <1>1, <1>3 DEF Types
  <2>3. /\ DOMAIN removing' = Client
        /\ \A d \in Client : removing'[d] # Nil =>
             removing'[d].key \in Key /\ removing'[d].req \in Int
    BY <1>3 DEF Types
  <2> QED BY <1>4, <1>5, <2>1, <2>2, <2>3 DEF Types
<1>7. sizeMax > 0 => \A k \in Key : /\ cur'[k] # Nil => cur'[k] = newest'[k]
                                    /\ cur'[k] = Nil /\ old'[k] # Nil => old'[k] = newest'[k]
  <2> SUFFICES ASSUME sizeMax > 0, NEW k \in Key
               PROVE  /\ cur'[k] # Nil => cur'[k] = newest'[k]
                      /\ cur'[k] = Nil /\ old'[k] # Nil => old'[k] = newest'[k]
    OBVIOUS
  <2>1. newest'[k] = IF k = h.key THEN h.value ELSE newest[k]
    BY <1>1, <1>3 DEF Types
  <2>2. /\ cur[k] # Nil => cur[k] = newest[k]
        /\ cur[k] = Nil /\ old[k] # Nil => old[k] = newest[k]
    BY DEF Coherence
  <2>3. insert(h.key, h.value)
    BY <1>3
  <2>4. \/ old' = cur /\ cur'[k] = IF k = h.key THEN h.value ELSE Nil
        \/ old' = old /\ cur'[k] = IF k = h.key THEN h.value ELSE cur[k]
    BY <2>3, <1>1, InsertFacts
  <2> QED BY <2>1, <2>2, <2>4, <1>2
<1>8. \A k \in Key : latest'[k] # Nil => latest'[k] = newest'[k]
  BY <1>1, <1>3 DEF Types, Coherence
<1>9. UNCHANGED <<store, refused>> /\ latest' = [latest EXCEPT ![u.key] = u.value]
  BY <1>2, <1>3
<1> QED BY <1>2, <1>3, <1>6, <1>7, <1>8, <1>9, CoherentAppend DEF Coherence

LEMMA RemoveSendTypes ==
  ASSUME Types, Coherence, NEW c \in Client, RemoveSend(c)
  PROVE  Types' /\ Coherence'
<1> DEFINE u == Update(c, "remove", removing[c].key, Nil, removing[c].req)
<1>1. removing[c] # Nil /\ removing[c].key \in Key /\ removing[c].req \in Int
  BY DEF RemoveSend, Types
<1>2. u \in UpdateMessage /\ u.key = removing[c].key /\ u.value = Nil
  BY <1>1 DEF UpdateMessage, Update, Cell
<1>3. /\ updates' = Append(updates, u)
      /\ latest' = [latest EXCEPT ![removing[c].key] = Nil]
      /\ removing' = [removing EXCEPT ![c] = Nil]
      /\ UNCHANGED <<store, refused, ops, calls, reqNumber, cur, old, newest>>
  BY DEF RemoveSend, client, backend, cache
<1> HIDE DEF u
<1>4. updates' \in Seq(UpdateMessage)
  BY <1>2, <1>3, AppendFacts DEF Types
<1>5. Types'
  BY <1>1, <1>3, <1>4 DEF Types, Cell
<1>6. \A k \in Key : latest'[k] # Nil => latest'[k] = newest'[k]
  BY <1>1, <1>3 DEF Types, Coherence
<1>7. UNCHANGED <<store, refused>> /\ latest' = [latest EXCEPT ![u.key] = u.value]
  BY <1>2, <1>3
<1>8. sizeMax > 0 => \A k \in Key : /\ cur'[k] # Nil => cur'[k] = newest'[k]
                                    /\ cur'[k] = Nil /\ old'[k] # Nil => old'[k] = newest'[k]
  BY <1>3 DEF Coherence
<1> QED BY <1>2, <1>3, <1>5, <1>6, <1>7, <1>8, CoherentAppend DEF Coherence

LEMMA BackendUpdateTypes ==
  ASSUME Types, Coherence, BackendUpdate
  PROVE  Types' /\ Coherence'
<1>1. /\ updates # << >> /\ updates' = Tail(updates)
      /\ UNCHANGED <<ops, calls, reqNumber, removing, cur, old, newest, latest>>
      /\ \/ store' = [store EXCEPT ![Head(updates).key] = Head(updates).value]
              /\ UNCHANGED refused
         \/ refused' = refused \cup {Head(updates).key} /\ UNCHANGED store
  BY DEF BackendUpdate, client, cache
<1>2. Head(updates) \in UpdateMessage /\ updates' \in Seq(UpdateMessage)
  BY <1>1, TailFacts DEF Types
<1>3. Head(updates).key \in Key /\ Head(updates).value \in Cell
  BY <1>2 DEF UpdateMessage
<1>4. store' \in [Key -> Cell]
  BY <1>1, <1>3 DEF Types
<1>5. Types'
  BY <1>1, <1>2, <1>4 DEF Types
<1>6. UNCHANGED latest
  BY <1>1
<1>7. /\ sizeMax > 0 => \A k \in Key : /\ cur'[k] # Nil => cur'[k] = newest'[k]
                                       /\ cur'[k] = Nil /\ old'[k] # Nil => old'[k] = newest'[k]
      /\ \A k \in Key : latest'[k] # Nil => latest'[k] = newest'[k]
  BY <1>1 DEF Coherence
<1> QED BY <1>1, <1>5, <1>6, <1>7, CoherentTail DEF Coherence

\* The other steps leave what the invariants speak of alone, but for the calls
\* in transit and the registration of a remove.
LEMMA OtherTypes ==
  ASSUME Types, Coherence, UNCHANGED cohered, ops' \in [Client -> Nat],
         calls' \in [Client -> Seq(Message)], reqNumber' \in Int,
         DOMAIN removing' = Client,
         \A c \in Client :
           removing'[c] # Nil => removing'[c].key \in Key /\ removing'[c].req \in Int
  PROVE  Types' /\ Coherence'
BY DEF Types, Coherence, cohered

LEMMA RemoveRegisterTypes ==
  ASSUME Types, Coherence, NEW c \in Client, RemoveRegister(c)
  PROVE  Types' /\ Coherence'
<1> DEFINE h == Head(calls[c])
           x == [key |-> h.key, req |-> reqNumber, seen |-> req_client_map]
<1>1. h.key \in Key /\ [calls EXCEPT ![c] = Tail(@)] \in [Client -> Seq(Message)]
  BY MessagesFacts DEF RemoveRegister, Incoming
<1>2. /\ reqNumber' = reqNumber + 1 /\ calls' = [calls EXCEPT ![c] = Tail(@)]
      /\ removing' = [removing EXCEPT ![c] = x]
      /\ UNCHANGED cohered /\ UNCHANGED ops
  BY DEF RemoveRegister, Received, client, backend, cache, cohered
<1>3. x.key \in Key /\ x.req \in Int
  BY <1>1 DEF Types
<1> HIDE DEF x
<1>4. /\ DOMAIN removing' = Client
      /\ \A d \in Client :
           removing'[d] # Nil => removing'[d].key \in Key /\ removing'[d].req \in Int
  BY <1>2, <1>3 DEF Types
<1>5. ops' \in [Client -> Nat] /\ calls' \in [Client -> Seq(Message)] /\ reqNumber' \in Int
  BY <1>1, <1>2 DEF Types
<1> QED BY <1>2, <1>4, <1>5, OtherTypes

LEMMA GetTypes ==
  ASSUME Types, Coherence, NEW c \in Client, GetHit(c) \/ GetMiss(c)
  PROVE  Types' /\ Coherence'
<1>1. /\ calls[c] # << >> /\ reqNumber' = reqNumber + 1
      /\ calls' = [calls EXCEPT ![c] = Tail(@)]
      /\ UNCHANGED cohered /\ UNCHANGED <<ops, removing>>
  BY DEF GetHit, GetMiss, Incoming, Received, client, backend, cache, cohered
<1>2. ops' \in [Client -> Nat] /\ calls' \in [Client -> Seq(Message)] /\ reqNumber' \in Int
  BY <1>1, MessagesFacts DEF Types
<1>3. /\ DOMAIN removing' = Client
      /\ \A d \in Client :
           removing'[d] # Nil => removing'[d].key \in Key /\ removing'[d].req \in Int
  BY <1>1 DEF Types
<1> QED BY <1>1, <1>2, <1>3, OtherTypes

\* A step is one of these, or leaves the front end's requests alone.
LEMMA NextCases ==
  ASSUME [Next]_vars
  PROVE  \/ \E c \in Client : Call(c) \/ GetHit(c) \/ GetMiss(c) \/ Put(c)
                               \/ RemoveRegister(c) \/ RemoveSend(c)
         \/ BackendUpdate
         \/ UNCHANGED typed /\ UNCHANGED sizeCur
<1>1. ASSUME NEW c \in Client, Wait(c) \/ Return(c) \/ Signal(c)
      PROVE  UNCHANGED typed /\ UNCHANGED sizeCur
  BY <1>1 DEF Wait, Return, Signal, typed, cohered, cache, backend
<1>2. ASSUME NEW r \in Req, ServeGet(r) \/ Answer(r)
      PROVE  UNCHANGED typed /\ UNCHANGED sizeCur
  BY <1>2 DEF ServeGet, Answer, get_handler, put_response, get_response, typed, cohered,
              cache, backend, client
<1>3. ASSUME UNCHANGED vars PROVE UNCHANGED typed /\ UNCHANGED sizeCur
  BY <1>3 DEF vars, typed, cohered, cache, backend, client
<1> QED BY <1>1, <1>2, <1>3 DEF Next, Server

LEMMA CoherenceStep ==
  ASSUME Types, Coherence, [Next]_vars
  PROVE  Types' /\ Coherence'
<1>1. ASSUME NEW c \in Client, Call(c) PROVE Types' /\ Coherence'
  <2>1. Types' /\ UNCHANGED cohered
    BY <1>1, CallTypes
  <2> QED BY <2>1 DEF Coherence, cohered
<1>2. CASE UNCHANGED typed
  <2>1. UNCHANGED cohered /\ UNCHANGED <<ops, calls, reqNumber, removing>>
    BY <1>2 DEF typed
  <2>2. Coherence'
    BY <2>1 DEF Coherence, cohered
  <2>3. Types'
    BY <2>1 DEF Types, cohered
  <2> QED BY <2>2, <2>3
<1> QED BY <1>1, <1>2, NextCases, GetTypes, PutTypes, RemoveRegisterTypes, RemoveSendTypes,
           BackendUpdateTypes

LEMMA CoherenceInit == Init => Coherence
<1> SUFFICES ASSUME Init PROVE Coherence
  OBVIOUS
<1>1. updates = << >> /\ cur = Empty /\ old = Empty /\ newest = Empty /\ latest = Empty
      /\ store = Empty
  BY DEF Init
<1>2. \A k \in Key : Empty[k] = Nil
  BY DEF Empty
<1>3. 1 .. Len(updates) = {}
  BY <1>1
<1> QED BY <1>1, <1>2, <1>3, Zenon DEF Coherence

LEMMA CoherenceSuffices == Types /\ Coherence => CacheCoherent
<1> SUFFICES ASSUME Types, Coherence, NEW k \in Key, sizeMax > 0, lookup(k) # Nil
             PROVE  /\ lookup(k) = newest[k]
                    /\ Quiet(k) /\ k \notin refused /\ latest[k] # Nil => store[k] = lookup(k)
  BY DEF CacheCoherent
<1>1. lookup(k) = newest[k]
  BY DEF lookup, Coherence
<1>2. ASSUME Quiet(k), k \notin refused, latest[k] # Nil PROVE store[k] = lookup(k)
  <2>1. DOMAIN updates = 1 .. Len(updates)
    BY DEF Types
  <2>2. \A i \in 1 .. Len(updates) : updates[i].key # k
    BY <1>2, <2>1 DEF Quiet, Elements
  <2>3. store[k] = latest[k] /\ latest[k] = newest[k]
    BY <1>2, <2>2 DEF Coherence
  <2> QED BY <2>3, <1>1
<1> QED BY <1>1, <1>2

\* A hit in the cache answers with the newest put of its key that the front end
\* has handled, and the chain holds the same value once it has caught up (lookup
\* and insert of fe_cache.cpp, put, get and remove of FawnKVServerHandler.cpp).
THEOREM CacheCoherence == Spec => []CacheCoherent
<1>1. Init => Types /\ Coherence
  BY TypesInit, CoherenceInit
<1>2. Types /\ Coherence /\ [Next]_vars => (Types /\ Coherence)'
  BY CoherenceStep
<1> QED BY <1>1, <1>2, CoherenceSuffices, PTL DEF Spec
-----------------------------------------------------------------------------
(* The size of the cache.                                                    *)

Held(f) == {k \in Key : f[k] # Nil}
Half == IF sizeMax \div 2 = 0 THEN 1 ELSE sizeMax \div 2

\* sizeCur counts insertions, so it bounds the keys of the newer table; the older
\* table was the newer one when it was full.
Bounded ==
  /\ sizeCur \in Nat /\ sizeCur <= Half
  /\ IsFiniteSet(Held(cur)) /\ Cardinality(Held(cur)) <= sizeCur
  /\ IsFiniteSet(Held(old)) /\ Cardinality(Held(old)) <= Half
  /\ sizeMax = 0 => Held(cur) = {} /\ Held(old) = {}

LEMMA HalfFacts ==
  /\ Half \in Nat /\ 1 <= Half /\ sizeMax \div 2 <= Half
  /\ sizeMax > 0 => 2 * Half <= IF sizeMax = 1 THEN 2 ELSE sizeMax
BY FrontendAssumption DEF Half

\* A table has at most one key more than before.
LEMMA OneMore ==
  ASSUME NEW f, NEW g, NEW k \in Key, NEW n \in Nat,
         IsFiniteSet(Held(f)), Cardinality(Held(f)) <= n,
         \A j \in Key : j # k => g[j] = f[j]
  PROVE  IsFiniteSet(Held(g)) /\ Cardinality(Held(g)) <= n + 1
<1>1. /\ IsFiniteSet(Held(f) \cup {k}) /\ Cardinality(Held(f)) \in Nat
      /\ Cardinality(Held(f) \cup {k}) <= Cardinality(Held(f)) + 1
  BY FS_AddElement, FS_CardinalityType
<1>2. Held(g) \in SUBSET (Held(f) \cup {k})
  BY DEF Held
<1>3. /\ IsFiniteSet(Held(g)) /\ Cardinality(Held(g)) <= Cardinality(Held(f) \cup {k})
      /\ Cardinality(Held(g)) \in Nat /\ Cardinality(Held(f) \cup {k}) \in Nat
  BY <1>1, <1>2, FS_Subset, FS_CardinalityType
<1> QED BY <1>1, <1>3

LEMMA BoundedInit == Init => Bounded
<1> SUFFICES ASSUME Init PROVE Bounded
  OBVIOUS
<1>1. Held(cur) = {} /\ Held(old) = {} /\ sizeCur = 0
  BY DEF Init, Held, Empty
<1> QED BY <1>1, HalfFacts, FS_EmptySet DEF Bounded

LEMMA BoundedInsert ==
  ASSUME Types, Bounded, sizeMax > 0, NEW k \in Key, NEW v \in Cell, insert(k, v)
  PROVE  Bounded'
<1>1. CASE /\ old' = cur /\ sizeCur' = 1
           /\ \A j \in Key : cur'[j] = IF j = k THEN v ELSE Nil
  <2>1. Held(Empty) = {}
    BY DEF Held, Empty
  <2>2. IsFiniteSet(Held(Empty)) /\ Cardinality(Held(Empty)) <= 0
    BY <2>1, FS_EmptySet
  <2>3. \A j \in Key : j # k => cur'[j] = Empty[j]
    BY <1>1 DEF Empty
  <2>4. IsFiniteSet(Held(cur')) /\ Cardinality(Held(cur')) <= 0 + 1
    BY <2>2, <2>3, OneMore
  <2>5. /\ IsFiniteSet(Held(old')) /\ Cardinality(Held(old')) <= sizeCur
        /\ Cardinality(Held(old')) \in Nat
    BY <1>1, FS_CardinalityType DEF Bounded
  <2>6. Cardinality(Held(old')) <= Half
    BY <2>5, HalfFacts DEF Bounded
  <2>7. Held(cur)' = Held(cur') /\ Held(old)' = Held(old') /\ Half' = Half
    BY DEF Held, Half
  <2> QED BY <1>1, <2>4, <2>5, <2>6, <2>7, HalfFacts, FrontendAssumption DEF Bounded
<1>2. CASE /\ old' = old /\ sizeCur' = sizeCur + 1 /\ ~(sizeCur >= sizeMax \div 2)
           /\ \A j \in Key : cur'[j] = IF j = k THEN v ELSE cur[j]
  <2>1. IsFiniteSet(Held(cur')) /\ Cardinality(Held(cur')) <= sizeCur + 1
    BY <1>2, OneMore DEF Bounded
  <2>2. sizeCur + 1 <= Half
    BY <1>2, HalfFacts, FrontendAssumption DEF Bounded
  <2>3. Held(cur)' = Held(cur') /\ Held(old)' = Held(old') /\ Half' = Half
    BY DEF Held, Half
  <2> QED BY <1>2, <2>1, <2>2, <2>3, FrontendAssumption DEF Bounded
<1> QED BY <1>1, <1>2, InsertFacts

LEMMA BoundedStep ==
  ASSUME Types, Bounded, [Next]_vars
  PROVE  Bounded'
<1>1. ASSUME NEW c \in Client, Put(c), sizeMax > 0 PROVE Bounded'
  <2>1. Head(calls[c]).key \in Key /\ Head(calls[c]).value \in Cell
    BY <1>1, MessagesFacts DEF Put, Incoming
  <2>2. insert(Head(calls[c]).key, Head(calls[c]).value)
    BY <1>1 DEF Put
  <2> QED BY <2>1, <2>2, <1>1, BoundedInsert
<1>2. ASSUME UNCHANGED <<cur, old, sizeCur>> PROVE Bounded'
  BY <1>2 DEF Bounded, Held, Half
<1>3. ASSUME NEW c \in Client, Put(c), ~(sizeMax > 0) PROVE UNCHANGED <<cur, old, sizeCur>>
  BY <1>3 DEF Put, cache
<1>4. ASSUME NEW c \in Client,
             Call(c) \/ GetHit(c) \/ GetMiss(c) \/ RemoveRegister(c) \/ RemoveSend(c)
      PROVE  UNCHANGED <<cur, old, sizeCur>>
  BY <1>4 DEF Call, GetHit, GetMiss, RemoveRegister, RemoveSend, cache
<1>5. ASSUME BackendUpdate PROVE UNCHANGED <<cur, old, sizeCur>>
  BY <1>5 DEF BackendUpdate, cache
<1>6. ASSUME UNCHANGED typed /\ UNCHANGED sizeCur PROVE UNCHANGED <<cur, old, sizeCur>>
  BY <1>6 DEF typed, cohered
<1> QED BY <1>1, <1>2, <1>3, <1>4, <1>5, <1>6, NextCases

LEMMA BoundedSuffices == Bounded => CacheBounded
<1> SUFFICES ASSUME Bounded PROVE CacheBounded
  OBVIOUS
<1> DEFINE a == Cardinality(Held(cur))
           b == Cardinality(Held(old))
<1>1. a \in Nat /\ b \in Nat /\ sizeCur \in Nat /\ a <= sizeCur /\ sizeCur <= Half /\ b <= Half
  BY FS_CardinalityType DEF Bounded
<1>2. sizeMax = 0 => a = 0 /\ b = 0
  BY FS_EmptySet DEF Bounded
<1>3. SUFFICES a + b <= IF sizeMax = 1 THEN 2 ELSE sizeMax
  BY DEF CacheBounded, Held
<1> HIDE DEF a, b
<1>4. CASE sizeMax = 0
  BY <1>2, <1>4
<1>5. CASE sizeMax > 0
  <2>1. Half \in Nat /\ 2 * Half <= IF sizeMax = 1 THEN 2 ELSE sizeMax
    BY <1>5, HalfFacts
  <2>2. a <= Half
    BY <1>1, <2>1
  <2>3. a + b <= 2 * Half
    BY <1>1, <2>1, <2>2
  <2> QED BY <1>1, <2>1, <2>3, FrontendAssumption
<1> QED BY <1>4, <1>5, FrontendAssumption

\* The two tables together never hold more than sizeMax entries, or two when
\* sizeMax is one (insert of fe_cache.cpp).
THEOREM CacheSize == Spec => []CacheBounded
<1>1. Init => Types /\ Coherence /\ Bounded
  BY TypesInit, CoherenceInit, BoundedInit
<1>2. Types /\ Coherence /\ Bounded /\ [Next]_vars => (Types /\ Coherence /\ Bounded)'
  BY CoherenceStep, BoundedStep
<1> QED BY <1>1, <1>2, BoundedSuffices, PTL DEF Spec
=============================================================================
