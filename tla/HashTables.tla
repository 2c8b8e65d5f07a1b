----------------------------- MODULE HashTables -----------------------------
(***************************************************************************)
(* The two hash tables a FawnDS_SF store may have: the cuckoo table, with  *)
(* or without explicit offsets (hash_table_cuckoo.cc), and the default     *)
(* table of open addressing (hash_table_default.cc).  Both map a key to    *)
(* the ids of the entries that may be its own: a slot holds a fragment of  *)
(* the key, and the store compares the full key of the entry itself.       *)
(*                                                                         *)
(* A table is a record, an operation an operator on tables.  Where the     *)
(* code calls rand(), the operator returns the set of possible outcomes.   *)
(***************************************************************************)
EXTENDS Integers, Sequences, FiniteSets

CONSTANTS
  max_index_, ASSOCIATIVITY, MAX_CUCKOO_COUNT,
  keyfrag,                   \* keyfrag[k][i] % max_index_ of a key k, for i in 0 .. 1
  hash_table_size_, PROBES_BEFORE_REHASH, HASH_COUNT,
  hashes,                    \* hashes[i][k] & (hash_table_size_ - 1)
  keyfragment_from_key,
  NoKey                      \* an empty cached_lookup_key_

NUMHASH == 2
Index == 0 .. max_index_ - 1
Way == 0 .. ASSOCIATIVITY - 1
Unused == [valid |-> FALSE, tag |-> 0, id |-> 0]
Used(tag, id) == [valid |-> TRUE, tag |-> tag, id |-> id]
-----------------------------------------------------------------------------
(* HashTableCuckoo.  "offset" tells hash_table_ from fpf_table_, in which    *)
(* the place of a slot is the id of its entry.                               *)

Cuckoo(offset) ==
  [kind |-> "cuckoo", offset |-> offset, current_entries_ |-> 0,
   slots |-> [s \in Index \X Way |-> Unused]]

val(t, s) == IF t.offset THEN t.slots[s].id ELSE s[1] * ASSOCIATIVITY + s[2]
store(t, s, tag, id) == [t EXCEPT !.slots[s] = Used(tag, id)]
Added(t) == [t EXCEPT !.current_entries_ = t.current_entries_ + 1]

free(t, i) == {w \in Way : ~t.slots[<<i, w>>].valid}
freeslot(t, i) == CHOOSE w \in free(t, i) : \A x \in free(t, i) : w <= x

OK(t) == [ret |-> "OK", table |-> t, val |-> 0]
INSUFFICIENT_SPACE(t, id) == [ret |-> "INSUFFICIENT_SPACE", table |-> t, val |-> id]

\* Put the victims back, the last one first.  "path" has the slots taken, the
\* latest first; an entry pushed out of a slot came from the one before it.
\* What is left over must be the value that was to be put.
RECURSIVE Undo_KeepsTag(_, _, _, _)
Undo_KeepsTag(t, path, tag, id) ==
  IF path = <<>> THEN INSUFFICIENT_SPACE(t, id)
  ELSE LET s == Head(path)
       IN Undo_KeepsTag(store(t, s, t.slots[s].tag, id), Tail(path), s[1], t.slots[s].id)
RECURSIVE Undo(_, _, _, _)
Undo(t, path, tag, id) ==
  IF path = <<>> THEN INSUFFICIENT_SPACE(t, id)
  ELSE LET s == Head(path)
       IN Undo(store(t, s, tag, id), Tail(path), s[1], t.slots[s].id)

\* The loop of Put: an entry (tag, id) looks for room at index i.  A victim
\* moves to the index its tag names, with the index it leaves as its tag.
RECURSIVE Displace(_, _, _, _, _)
Displace(t, i, tag, id, path) ==
  IF Len(path) = MAX_CUCKOO_COUNT THEN {Undo(t, path, i, id)}
  ELSE IF free(t, i) # {} THEN {OK(Added(store(t, <<i, freeslot(t, i)>>, tag, id)))}
  ELSE UNION {LET v == t.slots[<<i, w>>]
              IN Displace(store(t, <<i, w>>, tag, id), v.tag, i, v.id, <<<<i, w>>>> \o path) :
              w \in Way}

\* The first index is drawn; with no room there the entry goes to the other.
CuckooPut(t, k, id) ==
  UNION {LET i == keyfrag[k][fn] j == keyfrag[k][1 - fn]
         IN IF free(t, i) # {} THEN {OK(Added(store(t, <<i, freeslot(t, i)>>, j, id)))}
            ELSE Displace(t, j, i, id, <<>>) : fn \in {0, 1}}

\* The slots the iterator of Find stops at, in its order: row by row.
CuckooNext(t, k, i) ==
  SelectSeq([n \in 1 .. ASSOCIATIVITY |-> <<keyfrag[k][i], n - 1>>],
            LAMBDA s : t.slots[s].valid /\ t.slots[s].tag = keyfrag[k][1 - i])
CuckooFind(t, k) == CuckooNext(t, k, 0) \o CuckooNext(t, k, 1)

CuckooEnumerate(t) ==
  SelectSeq([n \in 1 .. max_index_ * ASSOCIATIVITY |->
               <<(n - 1) \div ASSOCIATIVITY, (n - 1) % ASSOCIATIVITY>>],
            LAMBDA s : t.slots[s].valid)

\* A table without offsets cannot become one with offsets.
CuckooConvertTo(t, new) ==
  IF ~t.offset /\ new.offset THEN [ret |-> "ERROR", table |-> new, val |-> 0]
  ELSE OK([new EXCEPT !.slots = [s \in Index \X Way |->
                                   [t.slots[s] EXCEPT !.id = IF new.offset THEN @ ELSE 0]],
                      !.current_entries_ = t.current_entries_])

CuckooWriteToFile(t) == [slots |-> t.slots, current_entries_ |-> t.current_entries_]
\* A table without offsets cannot be read back.
CuckooReadFromFile(new, file) ==
  IF new.offset
  THEN OK([new EXCEPT !.slots = file.slots, !.current_entries_ = file.current_entries_])
  ELSE [ret |-> "ERROR", table |-> new, val |-> 0]
-----------------------------------------------------------------------------
(* HashTableDefault, with the slot that the last lookup found unused.        *)

NoCache == [key |-> NoKey, index |-> -1]
Default(quadratic) ==
  [kind |-> "default", offset |-> TRUE, quadratic |-> quadratic,
   current_entries_ |-> 0, cached |-> NoCache,
   slots |-> [s \in 0 .. hash_table_size_ - 1 |-> Unused]]

\* The slot of the n-th probe from "first".
Probe(t, first, n) ==
  (first + IF t.quadratic THEN (n + n * n) \div 2 ELSE n) % hash_table_size_
\* The slots of all the probes for a key.
Probes(t, k) ==
  [n \in 1 .. HASH_COUNT * PROBES_BEFORE_REHASH |->
     Probe(t, hashes[(n - 1) \div PROBES_BEFORE_REHASH][k], ((n - 1) % PROBES_BEFORE_REHASH) + 1)]
\* How many probes meet a used slot before the first unused one.
UsedProbes(t, k) ==
  LET unused == {n \in DOMAIN Probes(t, k) : ~t.slots[Probes(t, k)[n]].valid}
  IN IF unused = {} THEN Len(Probes(t, k)) ELSE (CHOOSE n \in unused : \A m \in unused : n <= m) - 1
Exhausted(t, k) == UsedProbes(t, k) = Len(Probes(t, k))

DefaultFind(t, k) ==
  SelectSeq(SubSeq(Probes(t, k), 1, UsedProbes(t, k)),
            LAMBDA s : t.slots[s].tag = keyfragment_from_key[k])
\* An iterator that reaches an unused slot remembers it for Put.
AtEnd(t, k) ==
  IF Exhausted(t, k) THEN t
  ELSE [t EXCEPT !.cached = [key |-> k, index |-> Probes(t, k)[UsedProbes(t, k) + 1]]]

Fill(t, s, k, id) == [Added(t) EXCEPT !.slots[s] = Used(keyfragment_from_key[k], id)]
\* The remembered slot is used once.
DefaultPut(t, k, id) ==
  IF t.cached.index # -1 /\ t.cached.key = k
  THEN OK([Fill(t, t.cached.index, k, id) EXCEPT !.cached = NoCache])
  ELSE IF Exhausted(t, k) THEN INSUFFICIENT_SPACE(t, id)
  ELSE LET u == AtEnd(t, k) IN OK(Fill(u, u.cached.index, k, id))

\* Enumerate probes hash_table_size_ times from slot 0.
DefaultEnumerate(t) ==
  SelectSeq([n \in 1 .. hash_table_size_ |-> Probe(t, 0, n)], LAMBDA s : t.slots[s].valid)

DefaultConvertTo(t, new) ==
  OK([new EXCEPT !.slots = t.slots, !.current_entries_ = t.current_entries_])

DefaultWriteToFile(t) == [slots |-> t.slots, current_entries_ |-> t.current_entries_]
DefaultReadFromFile(new, file) ==
  OK([new EXCEPT !.slots = file.slots, !.current_entries_ = file.current_entries_])
-----------------------------------------------------------------------------
(* The virtual functions of FawnDS that a store calls.                       *)

Find(t, k) == IF t.kind = "cuckoo" THEN CuckooFind(t, k) ELSE DefaultFind(t, k)
FoundNone(t, k) == IF t.kind = "cuckoo" THEN t ELSE AtEnd(t, k)
Put(t, k, id) == IF t.kind = "cuckoo" THEN CuckooPut(t, k, id) ELSE {DefaultPut(t, k, id)}
Enumerate(t) == IF t.kind = "cuckoo" THEN CuckooEnumerate(t) ELSE DefaultEnumerate(t)
Id(t, s) == IF t.kind = "cuckoo" THEN val(t, s) ELSE t.slots[s].id
Replace(t, s, id) == [t EXCEPT !.slots[s].id = id]
ConvertTo(t, new) ==
  IF t.kind # new.kind THEN [ret |-> "UNSUPPORTED", table |-> new, val |-> 0]
  ELSE IF t.kind = "cuckoo" THEN CuckooConvertTo(t, new) ELSE DefaultConvertTo(t, new)

\* Flush and Close write the file of a table, Open creates a table and reads it.
FlushTable(t) == IF t.kind = "cuckoo" THEN CuckooWriteToFile(t) ELSE DefaultWriteToFile(t)
OpenTable(new, file) ==
  IF new.kind = "cuckoo" THEN CuckooReadFromFile(new, file) ELSE DefaultReadFromFile(new, file)
=============================================================================
