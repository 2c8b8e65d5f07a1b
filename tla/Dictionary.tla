----------------------------- MODULE Dictionary -----------------------------
(***************************************************************************)
(* What a key-value store of this repository promises to its caller: one   *)
(* value per key, every Get returns the last value put and not deleted.    *)
(* FawnDS (src/fawnds) and FawnDS_Combi (src/siltds) are shown to          *)
(* implement this specification.  An insert may be refused, and a refused  *)
(* insert changes nothing.  Steps that only reorganise a store (convert,   *)
(* merge, rewrite) are stuttering steps here.                              *)
(***************************************************************************)
CONSTANTS
  Key, Value, NotFound,
  AbsentDelete   \* what the store answers to a Delete of a key it does not hold

VARIABLES
  dict,   \* the value of every key, NotFound where there is none
  resp    \* the operation answered last: [op, key, ret]

vars == <<dict, resp>>

Answer(op, k, r) == resp' = [op |-> op, key |-> k, ret |-> r]

Init ==
  /\ dict = [k \in Key |-> NotFound]
  /\ resp = [op |-> "none", key |-> NotFound, ret |-> NotFound]

Put(k, v) ==
  /\ Answer("Put", k, "OK")
  /\ dict' = [dict EXCEPT ![k] = v]

\* A store that has no room refuses the operation and keeps what it has.
Refuse(op, k) ==
  /\ Answer(op, k, "ERROR")
  /\ UNCHANGED dict

Delete(k) ==
  /\ Answer("Delete", k, IF dict[k] = NotFound THEN AbsentDelete ELSE "OK")
  /\ dict' = [dict EXCEPT ![k] = NotFound]

Get(k) ==
  /\ Answer("Get", k, dict[k])
  /\ UNCHANGED dict

Next ==
  \E k \in Key :
    \/ \E v \in Value : Put(k, v)
    \/ \E op \in {"Put", "Delete"} : Refuse(op, k)
    \/ Delete(k)
    \/ Get(k)

Spec == Init /\ [][Next]_vars
=============================================================================
