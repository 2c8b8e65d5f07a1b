------------------------------ MODULE Frontend ------------------------------
(***************************************************************************)
(* The front end (src/fawnkv/FawnKVServerHandler.cpp, fe.cpp, fe_cache.cpp)*)
(* between blocking clients (src/lib) and the back ends.                   *)
(*                                                                         *)
(* A client has one call outstanding.  Its connection has a thread in the  *)
(* front end, which gives the call a number, remembers which client and    *)
(* which of the client's continuations the number stands for, and sends it *)
(* to a back end.  The answer comes back on a back end's connection, whose *)
(* thread maps the number back.  The threads share p_mutex, so get, put    *)
(* and the callbacks are one step each; remove takes p_mutex only to send. *)
(*                                                                         *)
(* The back ends are one chain: updates reach it in the order they were    *)
(* sent and are answered once, gets are served by a pool of threads.  A    *)
(* get's answer never carries a value, because get_handler leaves the      *)
(* value it read in a local variable.                                      *)
(***************************************************************************)
EXTENDS Integers, Sequences, FiniteSets, Functions

CONSTANTS
  Client,
  Cpp,         \* clients of lib/cpp, which hash the keys they get and put
  BobHash,     \* their hash function
  Ruby,        \* clients of lib/rb, which wait without a flag
  Key, Value,
  sizeMax,     \* capacity of the cache, 0 for none
  Wrap,        \* 2^32: request numbers come back as unsigned int
  FirstReq,    \* reqNumber when the model starts
  Overlap,     \* whether insertions into req_client_map may overlap
  Nil,
  MaxOp,       \* bound: calls that the clients make
  MaxStale,    \* bound: gets answered with STALE_RING
  MaxError     \* bound: updates that the store refuses

ASSUME FrontendAssumption ==
  /\ Cpp \subseteq Client /\ Ruby \subseteq Client \ Cpp /\ BobHash \in [Key -> Key]
  /\ sizeMax \in Nat /\ Wrap \in Nat \ {0} /\ FirstReq \in 0 .. Wrap /\ Overlap \in BOOLEAN
  /\ MaxOp \in Nat /\ MaxStale \in Nat /\ MaxError \in Nat

VARIABLES
  pc, call,         \* a client's thread, and the operation it is blocked in
  has_data,         \* its flag
  ops,              \* its continuation counter
  calls, replies,   \* in transit on the client's two connections
  removing,         \* a remove whose registration has begun
  reqNumber, req_client_map, req_cont_map,
  cur, old, sizeCur,
  updates, gets,    \* sent to the back ends
  responses,        \* sent by the back ends
  store,            \* what the chain holds
  stales, errors,
  crashed,          \* the front end has followed a null pointer
  newest, latest, refused  \* the newest put and the latest update handled for
                           \* each key, and the keys with a refused update

client == <<pc, call, has_data, ops>>
maps == <<req_client_map, req_cont_map>>
cache == <<cur, old, sizeCur>>
backend == <<store, stales, errors, refused>>
vars == <<client, calls, replies, removing, reqNumber, maps, cache, updates, gets,
          responses, backend, crashed, newest, latest>>

Empty == [k \in Key |-> Nil]

Init ==
  /\ pc = [c \in Client |-> "idle"] /\ call = [c \in Client |-> Nil]
  /\ has_data = [c \in Client |-> FALSE]
  /\ ops = [c \in Client |-> 0]
  /\ calls = [c \in Client |-> << >>] /\ replies = [c \in Client |-> << >>]
  /\ removing = [c \in Client |-> Nil]
  /\ reqNumber = FirstReq
  \* numbers stay in the map when they are answered
  /\ req_client_map = [r \in 0 .. Wrap - 1 |->
       IF r < FirstReq THEN CHOOSE c \in Client : TRUE ELSE Nil]
  /\ req_cont_map = [c \in Client |-> << >>]
  /\ cur = Empty /\ old = Empty /\ sizeCur = 0
  /\ updates = << >> /\ gets = {} /\ responses = {}
  /\ store = Empty /\ stales = 0 /\ errors = 0 /\ crashed = FALSE
  /\ newest = Empty /\ latest = Empty /\ refused = {}
-----------------------------------------------------------------------------
(* The clients.                                                              *)

\* get and put of lib/cpp hash the key, remove does not.
WireKey(c, op, k) == IF c \in Cpp /\ op # "remove" THEN BobHash[k] ELSE k

Made == SumFunction(ops)

Call(c) ==
  /\ pc[c] = "idle" /\ Made < MaxOp
  /\ \E op \in {"get", "put", "remove"}, k \in Key, v \in Value \cup {Nil} :
       /\ (op = "put") = (v # Nil)
       /\ op = "remove" => c \notin Ruby
       /\ LET m == [op |-> op, key |-> WireKey(c, op, k), value |-> v, cont |-> ops[c]] IN
            /\ call' = [call EXCEPT ![c] = op]
            /\ calls' = [calls EXCEPT ![c] = Append(@, m)]
  /\ ops' = [ops EXCEPT ![c] = @ + 1]
  /\ pc' = [pc EXCEPT ![c] = "sent"]
  /\ UNCHANGED <<has_data, replies, removing, reqNumber, maps, cache, updates,
                 gets, responses, backend, crashed, newest, latest>>

\* lib/rb: cv.wait, with nothing that says whether the answer is there.
Wait(c) ==
  /\ c \in Ruby /\ pc[c] = "sent"
  /\ pc' = [pc EXCEPT ![c] = "waiting"]
  /\ UNCHANGED <<call, has_data, ops, calls, replies, removing, reqNumber, maps,
                 cache, updates, gets, responses, backend, crashed, newest, latest>>

Return(c) ==
  /\ pc[c] # "idle"
  /\ IF c \in Ruby THEN pc[c] = "woken" ELSE has_data[c]
  /\ has_data' = [has_data EXCEPT ![c] = FALSE]
  /\ pc' = [pc EXCEPT ![c] = "idle"] /\ call' = [call EXCEPT ![c] = Nil]
  /\ UNCHANGED <<ops, calls, replies, removing, reqNumber, maps, cache, updates,
                 gets, responses, backend, crashed, newest, latest>>

\* get_response and put_response: the value is what the client's call returns,
\* the continuation is ignored.
Signal(c) ==
  /\ replies[c] # << >>
  /\ IF c \in Ruby
     THEN /\ pc' = [pc EXCEPT ![c] = IF @ = "waiting" THEN "woken" ELSE @]
          /\ UNCHANGED has_data
     ELSE has_data' = [has_data EXCEPT ![c] = TRUE] /\ UNCHANGED pc
  /\ replies' = [replies EXCEPT ![c] = Tail(@)]
  /\ UNCHANGED <<call, ops, calls, removing, reqNumber, maps, cache, updates, gets,
                 responses, backend, crashed, newest, latest>>
-----------------------------------------------------------------------------
(* The cache: two tables.  When cur is full it becomes old.                  *)

lookup_OldFirst(k) == IF old[k] # Nil THEN old[k] ELSE cur[k]
lookup(k) == IF cur[k] # Nil THEN cur[k] ELSE old[k]

insert(k, v) ==
  LET full == sizeCur >= sizeMax \div 2 IN
  /\ cur' = [IF full THEN Empty ELSE cur EXCEPT ![k] = v]
  /\ old' = IF full THEN cur ELSE old
  /\ sizeCur' = IF full THEN 1 ELSE sizeCur + 1
-----------------------------------------------------------------------------
(* The threads of the clients' connections.                                  *)

\* std::map::insert on the maps below is safe unless two overlap.
MayInsert(c) == Overlap \/ \A d \in Client \ {c} : removing[d] = Nil

\* What a client's thread is to handle next.
Incoming(c, op) ==
  /\ ~crashed /\ calls[c] # << >> /\ removing[c] = Nil
  /\ Head(calls[c]).op = op
Received(c) == calls' = [calls EXCEPT ![c] = Tail(@)]

addContinuation(c, cont, req) ==
  [req_cont_map EXCEPT ![c] = [r \in DOMAIN @ \cup {req} |-> IF r = req THEN cont ELSE @[r]]]

GetHit(c) ==
  LET m == Head(calls[c]) IN
  /\ Incoming(c, "get")
  /\ sizeMax > 0 /\ lookup(m.key) # Nil
  /\ reqNumber' = reqNumber + 1
  /\ replies' = [replies EXCEPT ![c] =
       Append(@, [op |-> "get", value |-> lookup(m.key), cont |-> m.cont])]
  /\ Received(c)
  /\ UNCHANGED <<client, removing, maps, cache, updates, gets, responses, backend,
                 crashed, newest, latest>>

GetMiss(c) ==
  LET m == Head(calls[c]) IN
  /\ Incoming(c, "get") /\ MayInsert(c)
  /\ sizeMax > 0 => lookup(m.key) = Nil
  /\ reqNumber' = reqNumber + 1
  /\ req_cont_map' = addContinuation(c, m.cont, reqNumber)
  /\ req_client_map' = [req_client_map EXCEPT ![reqNumber % Wrap] = c]
  /\ gets' = gets \cup {[op |-> "get", key |-> m.key, req |-> reqNumber, by |-> c]}
  /\ Received(c)
  /\ UNCHANGED <<client, replies, removing, cache, updates, responses, backend, crashed,
                 newest, latest>>

Update(c, op, key, value, req) ==
  [op |-> op, key |-> key, value |-> value, req |-> req, by |-> c]

Put(c) ==
  LET m == Head(calls[c]) IN
  /\ Incoming(c, "put") /\ MayInsert(c)
  /\ reqNumber' = reqNumber + 1
  /\ req_cont_map' = addContinuation(c, m.cont, reqNumber)
  /\ req_client_map' = [req_client_map EXCEPT ![reqNumber % Wrap] = c]
  /\ updates' = Append(updates, Update(c, "put", m.key, m.value, reqNumber))
  /\ IF sizeMax > 0 THEN insert(m.key, m.value) ELSE UNCHANGED cache
  /\ newest' = [newest EXCEPT ![m.key] = m.value]
  /\ latest' = [latest EXCEPT ![m.key] = m.value]
  /\ Received(c)
  /\ UNCHANGED <<client, replies, removing, gets, responses, backend, crashed>>

\* remove registers without p_mutex, then takes it to send.  Of two insertions
\* that overlap, either may be lost.
RemoveRegister(c) ==
  LET m == Head(calls[c]) IN
  /\ Incoming(c, "remove") /\ MayInsert(c)
  /\ reqNumber' = reqNumber + 1
  /\ req_cont_map' = addContinuation(c, m.cont, reqNumber)
  /\ removing' = [removing EXCEPT ![c] =
       [key |-> m.key, req |-> reqNumber, seen |-> req_client_map]]
  /\ Received(c)
  /\ UNCHANGED <<client, replies, req_client_map, cache, updates, gets, responses, backend,
                 crashed, newest, latest>>

RemoveInserted(c) ==
  LET m == removing[c]
      Registered(map) == [map EXCEPT ![m.req % Wrap] = c] IN
  {Registered(req_client_map)}
    \cup IF m.seen = req_client_map THEN {} ELSE {Registered(m.seen), req_client_map}

RemoveSend(c) ==
  LET m == removing[c] IN
  /\ ~crashed /\ m # Nil
  /\ req_client_map' \in RemoveInserted(c)
  /\ updates' = Append(updates, Update(c, "remove", m.key, Nil, m.req))
  /\ latest' = [latest EXCEPT ![m.key] = Nil]
  /\ removing' = [removing EXCEPT ![c] = Nil]
  /\ UNCHANGED <<client, calls, replies, reqNumber, req_cont_map, cache, gets, responses,
                 backend, crashed, newest>>
-----------------------------------------------------------------------------
(* The back ends.                                                            *)

\* A chain applies an update, or refuses it, and answers.
BackendUpdate ==
  LET m == Head(updates) IN
  /\ updates # << >>
  /\ \/ store' = [store EXCEPT ![m.key] = m.value] /\ UNCHANGED <<errors, refused>>
     \/ /\ errors < MaxError
        /\ errors' = errors + 1 /\ refused' = refused \cup {m.key}
        /\ UNCHANGED store
  /\ updates' = Tail(updates)
  /\ responses' = responses \cup {[op |-> "put", key |-> m.key, req |-> m.req,
                                   status |-> "SUCCESS", by |-> m.by]}
  /\ UNCHANGED <<client, calls, replies, removing, reqNumber, maps, cache, gets, stales,
                 crashed, newest, latest>>

\* get_handler.  The status is STALE_RING when the node does not have the key's
\* range.  Otherwise it is never set, and may be STALE_RING as well.
get_handler(m) ==
  /\ m \in gets
  /\ \E status \in {"SUCCESS", "STALE_RING"} :
       /\ status = "STALE_RING" => stales < MaxStale
       /\ stales' = IF status = "STALE_RING" THEN stales + 1 ELSE stales
       /\ responses' = responses \cup {[op |-> "get", key |-> m.key, req |-> m.req,
                                        status |-> status, by |-> m.by]}
  /\ gets' = gets \ {m}
  /\ UNCHANGED <<client, calls, replies, removing, reqNumber, maps, cache, updates, store,
                 errors, refused, crashed, newest, latest>>
-----------------------------------------------------------------------------
(* The threads of the back ends' connections.                                *)

\* put_cb and get_cb, after the conversion of the number to unsigned int.
Callback(m) ==
  LET req == m.req % Wrap
      cd == req_client_map[req] IN
  IF cd = Nil
  THEN crashed' = TRUE /\ UNCHANGED <<replies, req_cont_map>>
  ELSE /\ replies' = [replies EXCEPT ![cd] = Append(@,
            [op |-> m.op, value |-> Nil,
             cont |-> IF req \in DOMAIN req_cont_map[cd] THEN req_cont_map[cd][req] ELSE 0])]
       /\ req_cont_map' = [req_cont_map EXCEPT ![cd] =
            [r \in DOMAIN @ \ {req} |-> @[r]]]
       /\ UNCHANGED crashed

put_response(m) ==
  /\ ~crashed /\ m \in responses /\ m.op = "put"
  /\ Callback(m)
  /\ responses' = responses \ {m}
  /\ UNCHANGED <<client, calls, removing, reqNumber, req_client_map, cache, updates, gets,
                 backend, newest, latest>>

\* A stale ring is fetched anew and the get sent again.
Retry_Dropped(m) == gets' = gets
Retry(m) == gets' = gets \cup {[op |-> "get", key |-> m.key, req |-> m.req, by |-> m.by]}

StaleDone_FallsThrough(m) == Callback(m)
StaleDone(m) == UNCHANGED <<replies, req_cont_map, crashed>>

get_response(m) ==
  /\ ~crashed /\ m \in responses /\ m.op = "get"
  /\ IF m.status = "STALE_RING"
     THEN Retry(m) /\ StaleDone(m)
     ELSE Callback(m) /\ UNCHANGED gets
  /\ responses' = responses \ {m}
  /\ UNCHANGED <<client, calls, removing, reqNumber, req_client_map, cache, updates,
                 backend, newest, latest>>

Server(c) == GetHit(c) \/ GetMiss(c) \/ Put(c) \/ RemoveRegister(c) \/ RemoveSend(c)
Answer(r) == \E m \in responses : m.req = r /\ (put_response(m) \/ get_response(m))
ServeGet(r) == \E m \in gets : m.req = r /\ get_handler(m)
Req == FirstReq .. FirstReq + MaxOp - 1

Next ==
  \/ \E c \in Client : Call(c) \/ Wait(c) \/ Return(c) \/ Signal(c) \/ Server(c)
  \/ BackendUpdate
  \/ \E r \in Req : ServeGet(r) \/ Answer(r)

\* Every thread runs; the back ends answer what they are sent.  A client need
\* not call.
Fairness ==
  /\ \A c \in Client : WF_vars(Wait(c)) /\ WF_vars(Return(c)) /\ WF_vars(Signal(c))
                       /\ WF_vars(Server(c))
  /\ WF_vars(BackendUpdate)
  /\ \A r \in Req : WF_vars(ServeGet(r)) /\ WF_vars(Answer(r))

Spec == Init /\ [][Next]_vars /\ Fairness
-----------------------------------------------------------------------------
(* Properties.                                                               *)

Reply == [op : {"get", "put"}, value : Value \cup {Nil}, cont : 0 .. MaxOp - 1]

\* Types and bounds of the front end's state.  In particular no callback finds
\* a request number that leads to no client (which would be a null pointer).
TypeOK ==
  /\ pc \in [Client -> {"idle", "sent", "waiting", "woken"}]
  /\ has_data \in [Client -> BOOLEAN]
  /\ replies \in [Client -> Seq(Reply)]
  /\ reqNumber \in FirstReq .. FirstReq + MaxOp
  /\ req_client_map \in [0 .. Wrap - 1 -> Client \cup {Nil}]
  /\ cur \in [Key -> Value \cup {Nil}] /\ old \in [Key -> Value \cup {Nil}]
  /\ store \in [Key -> Value \cup {Nil}]
  /\ ~crashed

Count(c, S) == Cardinality({m \in S : m.by = c})
Elements(s) == {s[i] : i \in DOMAIN s}
One(P) == IF P THEN 1 ELSE 0

\* Where the answer to the call of client c may be.
Tokens(c) ==
  Len(calls[c]) + One(removing[c] # Nil) + Count(c, Elements(updates)) + Count(c, gets)
    + Count(c, responses) + Len(replies[c]) + One(has_data[c]) + One(pc[c] = "woken")

\* The numbering, the two maps, the retry of a stale get and the cache's short
\* cut give every call one answer, of its own kind and to its own client: a
\* client whose flag is up is blocked in the call that the flag is for.  (A
\* Ruby client may miss its answer.)
OneAnswerPerCall ==
  \A c \in Client :
    /\ pc[c] = "idle" => Tokens(c) = 0
    /\ pc[c] # "idle" => Tokens(c) <= 1 /\ (c \notin Ruby => Tokens(c) = 1)
    /\ \A i \in DOMAIN replies[c] : (replies[c][i].op = "get") = (call[c] = "get")

Quiet(k) ==
  /\ \A m \in Elements(updates) : m.key # k
  /\ \A c \in Client : removing[c] # Nil => removing[c].key # k

\* A get that hits the cache answers with the newest put of its key that the
\* front end has handled, whichever of the two tables has it; once the chain
\* has caught up it holds the same value, unless it refused the put or the key
\* was removed since (remove leaves the cache alone).
CacheCoherent ==
  \A k \in Key : sizeMax > 0 /\ lookup(k) # Nil =>
    /\ lookup(k) = newest[k]
    /\ Quiet(k) /\ k \notin refused /\ latest[k] # Nil => store[k] = lookup(k)

\* The two tables together stay within sizeMax entries ("able to cache up to"),
\* except that a cache for one entry keeps two.
CacheBounded ==
  Cardinality({k \in Key : cur[k] # Nil}) + Cardinality({k \in Key : old[k] # Nil})
    <= IF sizeMax = 1 THEN 2 ELSE sizeMax

\* "Need to map back to client continuation": while a request is with the back
\* ends, its number leads back to the client that made it.
MapsBack ==
  \A m \in Elements(updates) \cup gets \cup responses : req_client_map[m.req % Wrap] = m.by

\* Every call of a client that waits with a flag returns.
CallsReturn == \A c \in Client \ Ruby : pc[c] # "idle" ~> pc[c] = "idle"
=============================================================================
