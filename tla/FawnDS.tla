------------------------------- MODULE FawnDS -------------------------------
(***************************************************************************)
(* FAWN-DS, the log-structured store of src/fawnds: an append-only log of  *)
(* data and delete records, and an in-memory hash table whose slots hold   *)
(* two state bits, a fragment of the key and the offset of a record.       *)
(*                                                                         *)
(* A key is looked for in PROBES_BEFORE_REHASH consecutive slots for each  *)
(* of HASH_COUNT hash functions.  Nothing in a slot names its key: every   *)
(* match is confirmed by reading the record the slot points to.            *)
(*                                                                         *)
(* Offsets count records, not bytes; the first record has offset 0.        *)
(***************************************************************************)
EXTENDS Integers, Sequences, FiniteSets

CONSTANTS
  Key, Value, NotFound,
  Fragment,               \* the KEYFRAGBITS-bit fragments of keys
  hashtable_size,
  PROBES_BEFORE_REHASH,
  HASH_COUNT,
  hashes,                 \* hashes[k][f]: hash function f of k, masked to the table
  keyfragment_from_key,   \* keyfragment_from_key[k] \in Fragment
  Extensions,             \* Extensions[k]: the keys that k is a byte prefix of (k too)
  Mangled,                \* bytes that are no value: the tail of a key and part of a value
  OFFSET_RANGE,           \* number of offsets a slot can hold (uint32_t in HashEntry)
  MaxLog                  \* bound on the records in the log

Slot == 0 .. hashtable_size - 1
Probes == 1 .. HASH_COUNT * PROBES_BEFORE_REHASH

\* The i-th slot the search loops visit for key k: hash function by hash
\* function, from the hash rounded down to a multiple of PROBES_BEFORE_REHASH.
Probe(k, i) ==
  LET h == hashes[k][((i - 1) \div PROBES_BEFORE_REHASH) + 1]
  IN  (h - (h % PROBES_BEFORE_REHASH)) + ((i - 1) % PROBES_BEFORE_REHASH)

\* The hash table has a power of two of slots and a whole number of groups,
\* so no probe leaves it.
ASSUME TableAssumption == \A k \in Key, i \in Probes : Probe(k, i) \in Slot
ASSUME SizeAssumption ==
  /\ hashtable_size \in Nat \ {0}
  /\ HASH_COUNT * PROBES_BEFORE_REHASH \in Nat
ASSUME FragmentAssumption ==
  Fragment # {} /\ \A k \in Key : keyfragment_from_key[k] \in Fragment
ASSUME OffsetAssumption ==
  MaxLog \in Nat /\ OFFSET_RANGE \in Nat \ {0} /\ MaxLog <= OFFSET_RANGE
ASSUME ValueAssumption ==
  /\ NotFound \notin Value
  /\ Mangled \notin Value
  /\ Mangled # NotFound

VARIABLES
  hash_table,         \* [Slot -> HashEntry]
  log,                \* the records of the data file, in order
  number_elements,    \* DbHeader
  deleted_elements,   \* DbHeader
  resp                \* the operation answered last

vars == <<hash_table, log, number_elements, deleted_elements, resp>>

\* present_key's D and V bits: "empty" is V = 0, "taken" V = 1 and D = 0,
\* "deleted" V = 1 and D = 1.
HashEntry ==
  [bits : {"empty", "taken", "deleted"}, vkey : Fragment, offset : 0 .. OFFSET_RANGE - 1]

Record == [key : Key, data : Value \cup {NotFound}, deleteLog : BOOLEAN]

data_insertion_point == Len(log)

valid(s) == hash_table[s].bits # "empty"
deleted(s) == hash_table[s].bits = "deleted"
exists(s) == hash_table[s].bits = "taken"

\* The record a slot points to, as ReadIntoHeader reads it.
RecordAt(s) == log[hash_table[s].offset + 1]

\* The search loops' test: equal fragments, then the whole key from the log.
Holds(s, k) ==
  /\ hash_table[s].vkey = keyfragment_from_key[k]
  /\ RecordAt(s).key = k

\* FawnDS_Flash::Read compares only as many bytes as the requested key has,
\* so it accepts the record of any key that extends the requested one.
Read(s, k) ==
  /\ hash_table[s].vkey = keyfragment_from_key[k]
  /\ RecordAt(s).key \in Extensions[k]

\* ... and takes the value from where it would start in a record of key k.
ReadData(s, k) == IF RecordAt(s).key = k THEN RecordAt(s).data ELSE Mangled

\* Probe i is reached by a search that stops at empty slots.
Reached(k, i) == \A j \in 1 .. i - 1 : valid(Probe(k, j))

\* FindHashIndexInsert stops at the first slot that is free or holds k.
InsertStops(k, i) == ~exists(Probe(k, i)) \/ Holds(Probe(k, i), k)
FindHashIndexInsert(k) ==
  {i \in Probes : InsertStops(k, i) /\ \A j \in 1 .. i - 1 : ~InsertStops(k, j)}

\* The slots successive calls of FindHashIndex return while each is marked
\* deleted in turn.
FindHashIndex(k) ==
  {i \in Probes : Reached(k, i) /\ exists(Probe(k, i)) /\ Holds(Probe(k, i), k)}

Answer(op, k, r) == resp' = [op |-> op, key |-> k, ret |-> r]

EmptyEntry == [bits |-> "empty", vkey |-> CHOOSE f \in Fragment : TRUE, offset |-> 0]

Init ==
  /\ hash_table = [s \in Slot |-> EmptyEntry]
  /\ log = << >>
  /\ number_elements = 0
  /\ deleted_elements = 0
  /\ resp = [op |-> "none", key |-> NotFound, ret |-> NotFound]

\* Insert's first check, "Error: hash table full!".
Full == number_elements = hashtable_size

\* Insert counts an element when the slot it takes is empty or deleted.
newObj_EmptyOnly(s) == ~valid(s)
newObj(s) == ~exists(s)

\* Insert's early returns: the table is full, or no probe stops.
InsertRefused(k) ==
  /\ Full \/ FindHashIndexInsert(k) = {}
  /\ Answer("Put", k, "ERROR")
  /\ UNCHANGED <<hash_table, log, number_elements, deleted_elements>>

Insert(k, v) ==
  /\ data_insertion_point < MaxLog
  /\ ~Full
  /\ \E i \in FindHashIndexInsert(k) :
       LET s == Probe(k, i) IN
       /\ hash_table' = [hash_table EXCEPT ![s] =
            [bits |-> "taken", vkey |-> keyfragment_from_key[k],
             offset |-> data_insertion_point % OFFSET_RANGE]]
       /\ number_elements' = IF newObj(s) THEN number_elements + 1 ELSE number_elements
  /\ log' = Append(log, [key |-> k, data |-> v, deleteLog |-> FALSE])
  /\ Answer("Put", k, "OK")
  /\ UNCHANGED deleted_elements

DeleteAbsent(k) ==
  /\ FindHashIndex(k) = {}
  /\ Answer("Delete", k, "KEY_NOT_FOUND")
  /\ UNCHANGED <<hash_table, log, number_elements, deleted_elements>>

\* Delete's table update: the entry found first, and every stale entry of
\* the key behind it, get the deleted bit and keep the valid bit.
MarkDeleted_FirstOnly(k) ==
  [s \in Slot |->
     IF \E i \in FindHashIndex(k) : Probe(k, i) = s /\ \A j \in FindHashIndex(k) : i <= j
     THEN [hash_table[s] EXCEPT !.bits = "deleted"]
     ELSE hash_table[s]]
MarkDeleted(k) ==
  [s \in Slot |->
     IF \E i \in FindHashIndex(k) : Probe(k, i) = s
     THEN [hash_table[s] EXCEPT !.bits = "deleted"]
     ELSE hash_table[s]]

\* Callers outside the store pass writeLog = TRUE; Rewrite and Split pass
\* FALSE for the delete records they replay before their checkpoint.
Delete(k, writeLog) ==
  /\ writeLog => data_insertion_point < MaxLog
  /\ FindHashIndex(k) # {}
  /\ log' = IF writeLog
            THEN Append(log, [key |-> k, data |-> NotFound, deleteLog |-> TRUE])
            ELSE log
  /\ hash_table' = MarkDeleted(k)
  /\ deleted_elements' = deleted_elements + 1
  /\ Answer("Delete", k, "OK")
  /\ UNCHANGED number_elements

\* The probes at which Get's loop would return, were it not to stop at the first.
GetHits(k) ==
  {i \in Probes : Reached(k, i) /\ exists(Probe(k, i)) /\ Read(Probe(k, i), k)}

Get(k) ==
  /\ \/ /\ GetHits(k) = {}
        /\ Answer("Get", k, NotFound)
     \/ \E i \in GetHits(k) :
          /\ \A j \in GetHits(k) : i <= j
          /\ Answer("Get", k, ReadData(Probe(k, i), k))
  /\ UNCHANGED <<hash_table, log, number_elements, deleted_elements>>

Next ==
  \E k \in Key :
    \/ InsertRefused(k)
    \/ \E v \in Value : Insert(k, v)
    \/ DeleteAbsent(k)
    \/ \E writeLog \in BOOLEAN : Delete(k, writeLog)
    \/ Get(k)

Spec == Init /\ [][Next]_vars
-----------------------------------------------------------------------------
\* Type correctness.  The element count never exceeds the table: Insert's
\* "hash table full!" check is an equality test and must not be jumped over.
TypeOK ==
  /\ hash_table \in [Slot -> HashEntry]
  /\ log \in Seq(Record)
  /\ Len(log) <= MaxLog
  /\ number_elements \in 0 .. hashtable_size
  /\ deleted_elements \in Nat

\* Every entry that exists points to a data record of the log, carries that
\* record's key fragment, and lies on the probe path of that key with no empty
\* slot before it.  Searches stop at the first empty slot: an entry behind one
\* would be lost, and would come back with an old value once the slot is filled.
EntriesReachable ==
  \A s \in Slot : exists(s) =>
    /\ hash_table[s].offset < Len(log)
    /\ RecordAt(s) \in [key : Key, data : Value, deleteLog : {FALSE}]
    /\ hash_table[s].vkey = keyfragment_from_key[RecordAt(s).key]
    /\ \E i \in Probes : Probe(RecordAt(s).key, i) = s /\ Reached(RecordAt(s).key, i)

\* The value a key has: that of the first entry FindHashIndex reaches.
First(I) == CHOOSE i \in I : \A j \in I : i <= j
Lookup(k) ==
  LET I == FindHashIndex(k)
  IN  IF I = {} THEN NotFound ELSE RecordAt(Probe(k, First(I))).data

\* A Get served from a record whose key merely extends the requested one
\* returns bytes that are no value; it happens only if keys are prefixes of
\* one another (the backend stores DBIDs, all of one length).
PrefixFree == \A k \in Key : Extensions[k] = {k}

\* FAWN-DS is a dictionary: an insert that is refused or that reuses a
\* deleted slot, the stale entries left behind by it, fragment collisions and
\* lazily deleted slots never show in what Get, Delete and Insert answer.
KV == INSTANCE Dictionary WITH dict <- [k \in Key |-> Lookup(k)],
                               AbsentDelete <- "KEY_NOT_FOUND"
IsDictionary == KV!Spec

\* Rewrite sizes the new table from number_elements - deleted_elements,
\* computed in unsigned arithmetic: the difference never goes below zero and
\* never counts fewer elements than there are live keys, although one Delete
\* counts once and may mark several entries.
SizeEstimateSafe ==
  /\ deleted_elements <= number_elements
  /\ Cardinality({k \in Key : FindHashIndex(k) # {}}) <= number_elements - deleted_elements

\* Get never answers with bytes taken from another key's record: Read compares
\* "the full key" (fawnds_flash.cc).
FullKeyCompared == resp.op = "Get" => resp.ret # Mangled
=============================================================================
