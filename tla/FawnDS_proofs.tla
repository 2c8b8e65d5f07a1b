---------------------------- MODULE FawnDS_proofs ----------------------------
(* Proofs about FAWN-DS for every table size, probe count and hash function. *)
EXTENDS FawnDS, WellFoundedInduction, TLAPS

(* An offset below the range is stored in a slot unchanged. *)
LEMMA ModSmall ==
  ASSUME NEW a \in Nat, NEW b \in Nat, a < b
  PROVE  a % b = a
  OBVIOUS

IInv == TypeOK /\ EntriesReachable

(* The inductive invariant holds of a freshly created, empty store. *)
LEMMA InitIInv == Init => IInv
  <1> SUFFICES ASSUME Init PROVE IInv
    OBVIOUS
  <1>1. EmptyEntry \in HashEntry
    BY FragmentAssumption, OffsetAssumption DEF EmptyEntry, HashEntry
  <1>2. TypeOK
    BY <1>1, OffsetAssumption, SizeAssumption DEF Init, TypeOK
  <1>3. EntriesReachable
    BY DEF Init, EntriesReachable, exists, EmptyEntry
  <1> QED
    BY <1>2, <1>3 DEF IInv
(* What EntriesReachable says of one slot. *)
Reachable(s) ==
  /\ hash_table[s].offset < Len(log)
  /\ RecordAt(s) \in [key : Key, data : Value, deleteLog : {FALSE}]
  /\ hash_table[s].vkey = keyfragment_from_key[RecordAt(s).key]
  /\ \E i \in Probes : Probe(RecordAt(s).key, i) = s /\ Reached(RecordAt(s).key, i)

(* Slots never become empty again, so a reached probe stays reached. *)
LEMMA ReachedStable ==
  ASSUME \A t \in Slot : valid(t) => valid(t)',
         NEW k \in Key, NEW i \in Probes, Reached(k, i)
  PROVE  Reached(k, i)'
  <1>1. \A j \in 1 .. i - 1 : j \in Probes
    BY SizeAssumption DEF Probes
  <1>2. \A j \in 1 .. i - 1 : Probe(k, j) \in Slot
    BY <1>1, TableAssumption
  <1> QED
    BY <1>2 DEF Reached

(* An entry that a step leaves alone stays reachable: the log only grows. *)
LEMMA ReachableStable ==
  ASSUME TypeOK, EntriesReachable,
         \A t \in Slot : valid(t) => valid(t)',
         Len(log') >= Len(log), Len(log') \in Nat,
         \A n \in 1 .. Len(log) : log'[n] = log[n],
         NEW s \in Slot, exists(s), hash_table'[s] = hash_table[s]
  PROVE  Reachable(s)'
  <1>1. Reachable(s)
    BY DEF EntriesReachable, Reachable
  <1>2. hash_table[s].offset \in Nat /\ Len(log) \in Nat
    BY DEF TypeOK, HashEntry
  <1>3. RecordAt(s)' = RecordAt(s)
    BY <1>1, <1>2 DEF Reachable, RecordAt
  <1>4. PICK k \in Key : k = RecordAt(s).key
    BY <1>1 DEF Reachable
  <1>5. PICK i \in Probes : Probe(k, i) = s /\ Reached(k, i)
    BY <1>1, <1>4 DEF Reachable
  <1>6. Reached(k, i)'
    BY <1>5, ReachedStable
  <1>7. Len(log') > hash_table'[s].offset
    BY <1>1, <1>2 DEF Reachable
  <1>8. \E j \in Probes : Probe(RecordAt(s)'.key, j) = s /\ Reached(RecordAt(s).key, j)'
    BY <1>3, <1>4, <1>5, <1>6
  <1> QED
    BY <1>1, <1>3, <1>7, <1>8 DEF Reachable
(* What an accepted insert does: one slot of k's probe path, the first that  *)
(* is free or holds k, now points to the new last record.                    *)
Inserted(k, v, i) ==
  LET s == Probe(k, i) IN
  /\ i \in Probes
  /\ s \in Slot
  /\ InsertStops(k, i)
  /\ \A j \in 1 .. i - 1 : ~InsertStops(k, j)
  /\ hash_table'[s].bits = "taken"
  /\ hash_table'[s].vkey = keyfragment_from_key[k]
  /\ hash_table'[s].offset = Len(log)
  /\ \A t \in Slot \ {s} : hash_table'[t] = hash_table[t]
  /\ Len(log') = Len(log) + 1
  /\ log'[Len(log) + 1] = [key |-> k, data |-> v, deleteLog |-> FALSE]
  /\ \A n \in 1 .. Len(log) : log'[n] = log[n]

(* What a successful Insert does to the table: it fills one slot on k's path. *)
LEMMA InsertEffect ==
  ASSUME TypeOK, NEW k \in Key, NEW v \in Value, Insert(k, v)
  PROVE  TypeOK' /\ \E i \in Probes : Inserted(k, v, i)
  <1> DEFINE e == [bits |-> "taken", vkey |-> keyfragment_from_key[k],
                   offset |-> Len(log) % OFFSET_RANGE]
             r == [key |-> k, data |-> v, deleteLog |-> FALSE]
  <1>1. PICK i \in FindHashIndexInsert(k) :
          /\ hash_table' = [hash_table EXCEPT ![Probe(k, i)] = e]
          /\ number_elements' = IF newObj(Probe(k, i)) THEN number_elements + 1 ELSE number_elements
    BY DEF Insert, data_insertion_point
  <1>2. /\ i \in Probes
        /\ InsertStops(k, i)
        /\ \A j \in 1 .. i - 1 : ~InsertStops(k, j)
    BY <1>1 DEF FindHashIndexInsert
  <1>3. Probe(k, i) \in Slot
    BY <1>2, TableAssumption
  <1>4. Len(log) \in Nat /\ Len(log) < MaxLog
    BY DEF TypeOK, Insert, data_insertion_point
  <1>5. Len(log) % OFFSET_RANGE = Len(log)
    BY <1>4, OffsetAssumption, ModSmall
  <1>6. e \in HashEntry
    BY <1>4, <1>5, FragmentAssumption, OffsetAssumption DEF HashEntry
  <1>7. hash_table' \in [Slot -> HashEntry]
    BY <1>1, <1>6 DEF TypeOK
  <1>8. r \in Record /\ log' = Append(log, r)
    BY DEF Record, Insert
  <1>9. /\ log' \in Seq(Record)
        /\ Len(log') = Len(log) + 1
        /\ log'[Len(log) + 1] = r
        /\ \A n \in 1 .. Len(log) : log'[n] = log[n]
    BY <1>8 DEF TypeOK
  <1>10. number_elements' \in 0 .. hashtable_size
    BY <1>1, SizeAssumption DEF TypeOK, Insert, Full
  <1>11. TypeOK'
    BY <1>4, <1>7, <1>9, <1>10, OffsetAssumption DEF TypeOK, Insert
  <1>12. hash_table'[Probe(k, i)] = e /\ \A t \in Slot \ {Probe(k, i)} : hash_table'[t] = hash_table[t]
    BY <1>1, <1>3 DEF TypeOK
  <1>13. Inserted(k, v, i)
    BY <1>2, <1>3, <1>5, <1>9, <1>12 DEF Inserted
  <1> QED
    BY <1>2, <1>11, <1>13

(* Insert leaves every entry reachable, the one it writes included. *)
LEMMA InsertKeepsReachable ==
  ASSUME TypeOK, TypeOK', EntriesReachable,
         NEW k \in Key, NEW v \in Value, NEW i \in Probes, Inserted(k, v, i)
  PROVE  EntriesReachable' /\ \A t \in Slot : valid(t) => valid(t)'
  <1>1. \A t \in Slot : valid(t) => valid(t)'
    BY DEF Inserted, valid
  <1>2. Len(log) \in Nat
    BY DEF TypeOK
  <1>3. ASSUME NEW t \in Slot, exists(t)' PROVE Reachable(t)'
    <2>1. CASE t = Probe(k, i)
      <3>1. RecordAt(t)' = [key |-> k, data |-> v, deleteLog |-> FALSE]
        BY <1>2, <2>1 DEF Inserted, RecordAt
      <3>2. \A j \in 1 .. i - 1 : exists(Probe(k, j))
        BY DEF Inserted, InsertStops
      <3>3. Reached(k, i)
        BY <3>2 DEF Reached, exists, valid
      <3>4. Reached(k, i)'
        BY <1>1, <3>3, ReachedStable
      <3>5. Probe(k, i) = t /\ RecordAt(t)'.key = k
        BY <2>1, <3>1
      <3>6. \E j \in Probes : Probe(RecordAt(t)'.key, j) = t /\ Reached(RecordAt(t).key, j)'
        BY <3>4, <3>5
      <3>7. /\ hash_table'[t].offset < Len(log')
            /\ RecordAt(t)' \in [key : Key, data : Value, deleteLog : {FALSE}]
            /\ hash_table'[t].vkey = keyfragment_from_key[RecordAt(t)'.key]
        BY <1>2, <2>1, <3>1 DEF Inserted
      <3> QED
        BY <3>6, <3>7 DEF Reachable
    <2>2. CASE t # Probe(k, i)
      <3>1. hash_table'[t] = hash_table[t] /\ exists(t)
        BY <1>3, <2>2 DEF Inserted, exists
      <3>2. Len(log') >= Len(log) /\ Len(log') \in Nat /\ \A n \in 1 .. Len(log) : log'[n] = log[n]
        BY <1>2 DEF Inserted
      <3> QED
        BY <1>1, <3>1, <3>2, ReachableStable
    <2> QED
      BY <2>1, <2>2
  <1> QED
    BY <1>1, <1>3 DEF EntriesReachable, Reachable
(* What a delete does: exactly the entries found for k get the deleted bit.  *)
Deleted(k) ==
  /\ \A t \in Slot :
       IF \E i \in FindHashIndex(k) : Probe(k, i) = t
       THEN hash_table'[t].bits = "deleted"
       ELSE hash_table'[t] = hash_table[t]
  /\ Len(log') \in Nat /\ Len(log') >= Len(log)
  /\ \A n \in 1 .. Len(log) : log'[n] = log[n]

(* What a successful Delete does to the table and to the counters. *)
LEMMA DeleteEffect ==
  ASSUME TypeOK, NEW k \in Key, NEW w \in BOOLEAN, Delete(k, w)
  PROVE  TypeOK' /\ Deleted(k)
  <1> DEFINE r == [key |-> k, data |-> NotFound, deleteLog |-> TRUE]
  <1>1. r \in Record
    BY DEF Record
  <1>2. \A t \in Slot : [hash_table[t] EXCEPT !.bits = "deleted"] \in HashEntry
    BY DEF TypeOK, HashEntry
  <1>3. hash_table' \in [Slot -> HashEntry]
    BY <1>2 DEF TypeOK, Delete, MarkDeleted
  <1>4. /\ log' \in Seq(Record)
        /\ Len(log') \in Nat /\ Len(log') >= Len(log) /\ Len(log') <= MaxLog
        /\ \A n \in 1 .. Len(log) : log'[n] = log[n]
    <2>1. CASE w
      BY <1>1, <2>1, OffsetAssumption DEF TypeOK, Delete, data_insertion_point
    <2>2. CASE ~w
      BY <2>2, OffsetAssumption DEF TypeOK, Delete
    <2> QED
      BY <2>1, <2>2
  <1>5. TypeOK'
    BY <1>3, <1>4 DEF TypeOK, Delete
  <1>6. \A t \in Slot : hash_table[t] \in HashEntry
    BY DEF TypeOK
  <1>7. \A t \in Slot : [hash_table[t] EXCEPT !.bits = "deleted"].bits = "deleted"
    BY <1>6 DEF HashEntry
  <1>8. Deleted(k)
    BY <1>4, <1>7 DEF Delete, MarkDeleted, Deleted
  <1> QED
    BY <1>5, <1>8

(* Delete keeps the valid bit of every slot. *)
LEMMA DeleteKeepsValid ==
  ASSUME TypeOK, NEW k \in Key, Deleted(k)
  PROVE  \A t \in Slot : valid(t)' <=> valid(t)
  <1>1. \A i \in FindHashIndex(k) : exists(Probe(k, i))
    BY DEF FindHashIndex
  <1> QED
    BY <1>1 DEF Deleted, valid, exists

(* Delete leaves every entry that still exists reachable. *)
LEMMA DeleteKeepsReachable ==
  ASSUME TypeOK, EntriesReachable, NEW k \in Key, Deleted(k)
  PROVE  EntriesReachable'
  <1>1. ASSUME NEW t \in Slot, exists(t)' PROVE Reachable(t)'
    <2>1. hash_table'[t] = hash_table[t] /\ exists(t)
      BY <1>1 DEF Deleted, exists
    <2>2. \A u \in Slot : valid(u) => valid(u)'
      BY DeleteKeepsValid
    <2> QED
      BY <2>1, <2>2, ReachableStable DEF Deleted
  <1> QED
    BY <1>1 DEF EntriesReachable, Reachable

(* Every operation of the store preserves the inductive invariant. *)
LEMMA NextIInv == IInv /\ [Next]_vars => IInv'
  <1> SUFFICES ASSUME IInv, [Next]_vars PROVE IInv'
    OBVIOUS
  <1> USE DEF IInv
  <1>1. ASSUME UNCHANGED <<hash_table, log, number_elements, deleted_elements>> PROVE IInv'
    BY <1>1 DEF TypeOK, EntriesReachable, exists, valid, RecordAt, Reached
  <1>2. ASSUME NEW k \in Key, InsertRefused(k) \/ DeleteAbsent(k) \/ Get(k) PROVE IInv'
    BY <1>1, <1>2 DEF InsertRefused, DeleteAbsent, Get
  <1>3. ASSUME NEW k \in Key, NEW v \in Value, Insert(k, v) PROVE IInv'
    BY <1>3, InsertEffect, InsertKeepsReachable
  <1>4. ASSUME NEW k \in Key, NEW w \in BOOLEAN, Delete(k, w) PROVE IInv'
    BY <1>4, DeleteEffect, DeleteKeepsReachable
  <1>5. CASE UNCHANGED vars
    BY <1>1, <1>5 DEF vars
  <1> QED
    BY <1>2, <1>3, <1>4, <1>5 DEF Next

(* The header counts and the table stay well-formed whatever the operations; *)
(* in particular Insert's equality test for a full table is never jumped.    *)
THEOREM TypeCorrect == Spec => []TypeOK
  BY InitIInv, NextIInv, PTL DEF Spec, IInv

(* No operation ever leaves an entry behind an empty slot of its key's probe *)
(* path, or pointing to anything but a data record of its own key.           *)
THEOREM EntriesStayReachable == Spec => []EntriesReachable
  BY InitIInv, NextIInv, PTL DEF Spec, IInv
-----------------------------------------------------------------------------
(* Every non-empty set of naturals has a least element, and First is it.     *)
LEMMA MinExists ==
  ASSUME NEW I \in SUBSET Nat, I # {}
  PROVE  \E i \in I : \A j \in I : i <= j
  <1> DEFINE R == {ss \in Nat \X Nat : ss[1] < ss[2]}
  <1>1. IsWellFoundedOn(R, Nat)
    BY NatLessThanWellFounded, Zenon DEF OpToRel
  <1>2. \E i \in I : \A j \in I : ~ (<<j, i>> \in R)
    BY <1>1, WFMin
  <1>3. \A i, j \in Nat : j < i => <<j, i>> \in R
    OBVIOUS
  <1> HIDE DEF R
  <1>4. \A i, j \in Nat : ~(j < i) => i <= j
    OBVIOUS
  <1> QED BY <1>2, <1>3, <1>4

(* First picks a member of the set that is below all others. *)
LEMMA FirstIs ==
  ASSUME NEW I \in SUBSET Nat, NEW i \in I, \A j \in I : i <= j
  PROVE  First(I) = i
  <1>1. \A n \in I : (\A j \in I : n <= j) => n = i
    OBVIOUS
  <1> QED
    BY <1>1 DEF First

(* Two sets of probes have the same first element when one contains the      *)
(* other and adds nothing before it.                                         *)
LEMMA SameFirst ==
  ASSUME NEW I \in SUBSET Nat, NEW J \in SUBSET Nat,
         I \subseteq J, \A n \in J : \E m \in I : m <= n,
         I # {}
  PROVE  J # {} /\ First(J) = First(I) /\ First(I) \in I
  <1>1. PICK i \in I : \A j \in I : i <= j
    BY MinExists
  <1>2. \A n \in J : i <= n
    BY <1>1
  <1> QED
    BY <1>1, <1>2, FirstIs

(* Probe numbers are naturals, and no probe before a probe is skipped. *)
LEMMA ProbesNat == Probes \subseteq Nat /\ \A i \in Probes : \A j \in 1 .. i - 1 : j \in Probes
  BY SizeAssumption DEF Probes

(* FindHashIndex returns probe numbers. *)
LEMMA FindHashIndexNat ==
  ASSUME NEW k \in Key
  PROVE  FindHashIndex(k) \in SUBSET Nat /\ FindHashIndex(k)' \in SUBSET Nat
  BY ProbesNat DEF FindHashIndex

(* An entry holding k, wherever it is found, is on k's path without a gap.   *)
LEMMA EntryFound ==
  ASSUME TypeOK, EntriesReachable, NEW k \in Key, NEW n \in Probes,
         exists(Probe(k, n)), Holds(Probe(k, n), k)
  PROVE  \E m \in FindHashIndex(k) : m <= n /\ Probe(k, m) = Probe(k, n)
  <1>1. Probe(k, n) \in Slot
    BY TableAssumption
  <1>2. PICK m \in Probes : Probe(k, m) = Probe(k, n) /\ Reached(k, m)
    BY <1>1 DEF EntriesReachable, Holds
  <1>3. m \in FindHashIndex(k)
    BY <1>2 DEF FindHashIndex
  <1>4. CASE m <= n
    BY <1>2, <1>3, <1>4
  <1>5. CASE n < m
    <2>1. Reached(k, n)
      BY <1>2, <1>5, ProbesNat DEF Reached
    <2>2. n \in FindHashIndex(k)
      BY <2>1 DEF FindHashIndex
    <2> QED
      BY <2>2, ProbesNat
  <1> QED
    BY <1>4, <1>5, ProbesNat

(* The record of an entry that exists does not change while the log grows.   *)
LEMMA RecordStable ==
  ASSUME TypeOK, EntriesReachable,
         \A n \in 1 .. Len(log) : log'[n] = log[n],
         NEW t \in Slot, exists(t), hash_table'[t] = hash_table[t]
  PROVE  RecordAt(t)' = RecordAt(t)
  <1>1. hash_table[t].offset \in Nat /\ Len(log) \in Nat
    BY DEF TypeOK, HashEntry
  <1>2. hash_table[t].offset < Len(log)
    BY DEF EntriesReachable
  <1> QED
    BY <1>1, <1>2 DEF RecordAt

(* An insert gives its key the new value ...                                 *)
LEMMA InsertLookupSame ==
  ASSUME TypeOK, EntriesReachable,
         NEW k \in Key, NEW v \in Value, NEW i \in Probes, Inserted(k, v, i)
  PROVE  Lookup(k)' = v
  <1> DEFINE s == Probe(k, i)
  <1>1. Len(log) \in Nat /\ s \in Slot
    BY DEF TypeOK, Inserted
  <1>2. RecordAt(s)' = [key |-> k, data |-> v, deleteLog |-> FALSE]
    BY <1>1 DEF Inserted, RecordAt
  <1>3. exists(s)' /\ Holds(s, k)'
    BY <1>2 DEF Inserted, exists, Holds
  <1>4. ASSUME NEW j \in 1 .. i - 1
        PROVE  /\ Probe(k, j) \in Slot /\ exists(Probe(k, j)) /\ Probe(k, j) # s
               /\ hash_table'[Probe(k, j)] = hash_table[Probe(k, j)]
               /\ ~Holds(Probe(k, j), k)
    <2>1. Probe(k, j) \in Slot
      BY ProbesNat, TableAssumption
    <2>2. ~InsertStops(k, j) /\ InsertStops(k, i)
      BY DEF Inserted
    <2> QED
      BY <2>1, <2>2 DEF Inserted, InsertStops
  <1>5. \A j \in 1 .. i - 1 : valid(Probe(k, j))' /\ ~Holds(Probe(k, j), k)'
    <2> TAKE j \in 1 .. i - 1
    <2>1. RecordAt(Probe(k, j))' = RecordAt(Probe(k, j))
      BY <1>4, RecordStable DEF Inserted
    <2> QED
      BY <1>4, <2>1 DEF valid, exists, Holds
  <1>6. i \in FindHashIndex(k)' /\ \A j \in FindHashIndex(k)' : i <= j
    <2>1. i \in FindHashIndex(k)'
      BY <1>3, <1>5 DEF FindHashIndex, Reached
    <2>2. ASSUME NEW j \in FindHashIndex(k)' PROVE i <= j
      <3>1. j \in Probes /\ Holds(Probe(k, j), k)'
        BY <2>2 DEF FindHashIndex
      <3>2. j \notin 1 .. i - 1
        BY <1>5, <3>1
      <3> QED
        BY <3>1, <3>2, SizeAssumption DEF Probes
    <2> QED
      BY <2>1, <2>2
  <1>7. First(FindHashIndex(k)') = i
    BY <1>6, FindHashIndexNat, FirstIs
  <1>8. FindHashIndex(k)' # {} /\ RecordAt(Probe(k, i))'.data = v
    BY <1>2, <1>6
  <1> QED
    BY <1>7, <1>8 DEF Lookup
(* ... and leaves every other key's value alone.  The set of probes found    *)
(* for another key may grow, when filling an empty slot opens the way to a    *)
(* slot already found earlier on the path, but not at its front.             *)
LEMMA InsertLookupOther ==
  ASSUME TypeOK, EntriesReachable,
         NEW k \in Key, NEW v \in Value, NEW i \in Probes, Inserted(k, v, i),
         \A t \in Slot : valid(t) => valid(t)',
         NEW j \in Key, j # k
  PROVE  Lookup(j)' = Lookup(j)
  <1> DEFINE s == Probe(k, i)
             I == FindHashIndex(j)
             J == FindHashIndex(j)'
  <1>1. Len(log) \in Nat /\ s \in Slot
    BY DEF TypeOK, Inserted
  <1>2. RecordAt(s)'.key = k
    BY <1>1 DEF Inserted, RecordAt
  <1>3. \A n \in 1 .. Len(log) : log'[n] = log[n]
    BY DEF Inserted
  <1>4. ASSUME NEW n \in I
        PROVE  n \in J /\ RecordAt(Probe(j, n))' = RecordAt(Probe(j, n))
    <2>1. n \in Probes /\ Reached(j, n) /\ exists(Probe(j, n)) /\ Holds(Probe(j, n), j)
      BY DEF FindHashIndex
    <2>2. Probe(j, n) \in Slot
      BY <2>1, TableAssumption
    <2>3. Probe(j, n) # s
      BY <2>1 DEF Inserted, InsertStops, Holds
    <2>4. hash_table'[Probe(j, n)] = hash_table[Probe(j, n)]
      BY <2>2, <2>3 DEF Inserted
    <2>5. RecordAt(Probe(j, n))' = RecordAt(Probe(j, n))
      BY <1>3, <2>1, <2>2, <2>4, RecordStable
    <2>6. Reached(j, n)'
      BY <2>1, ReachedStable
    <2>7. exists(Probe(j, n))' /\ Holds(Probe(j, n), j)'
      BY <2>1, <2>4, <2>5 DEF exists, Holds
    <2> QED
      BY <2>1, <2>5, <2>6, <2>7 DEF FindHashIndex
  <1>5. ASSUME NEW n \in J PROVE \E m \in I : m <= n
    <2>1. n \in Probes /\ exists(Probe(j, n))' /\ Holds(Probe(j, n), j)'
      BY DEF FindHashIndex
    <2>2. Probe(j, n) \in Slot
      BY <2>1, TableAssumption
    <2>3. Probe(j, n) # s
      BY <1>2, <2>1 DEF Holds
    <2>4. hash_table'[Probe(j, n)] = hash_table[Probe(j, n)]
      BY <2>2, <2>3 DEF Inserted
    <2>5. exists(Probe(j, n))
      BY <2>1, <2>4 DEF exists
    <2>6. RecordAt(Probe(j, n))' = RecordAt(Probe(j, n))
      BY <1>3, <2>2, <2>4, <2>5, RecordStable
    <2>7. Holds(Probe(j, n), j)
      BY <2>1, <2>4, <2>6 DEF Holds
    <2> QED
      BY <2>1, <2>5, <2>7, EntryFound
  <1> HIDE DEF I, J
  <1>6. I \in SUBSET Nat /\ J \in SUBSET Nat
    BY FindHashIndexNat DEF I, J
  <1>7. I \subseteq J /\ \A n \in J : \E m \in I : m <= n
    BY <1>4, <1>5
  <1>8. CASE I = {}
    <2>1. J = {}
      BY <1>7, <1>8
    <2> QED
      BY <1>8, <2>1 DEF Lookup, I, J
  <1>9. CASE I # {}
    <2>1. J # {} /\ First(J) = First(I) /\ First(I) \in I
      BY <1>6, <1>7, <1>9, SameFirst
    <2>2. PICK n \in I : n = First(I)
      BY <2>1
    <2>3. RecordAt(Probe(j, n))' = RecordAt(Probe(j, n))
      BY <1>4
    <2>4. Lookup(j) = RecordAt(Probe(j, n)).data
      BY <1>9, <2>2 DEF Lookup, I
    <2>5. Lookup(j)' = RecordAt(Probe(j, n))'.data
      BY <2>1, <2>2 DEF Lookup, J
    <2> QED
      BY <2>3, <2>4, <2>5
  <1> QED
    BY <1>8, <1>9
(* A delete leaves no entry of its key: every entry that holds the key was   *)
(* found, stale ones included ...                                            *)
LEMMA DeleteLookupSame ==
  ASSUME TypeOK, EntriesReachable, NEW k \in Key, Deleted(k)
  PROVE  Lookup(k)' = NotFound
  <1>1. ASSUME NEW n \in FindHashIndex(k)' PROVE FALSE
    <2>1. n \in Probes /\ exists(Probe(k, n))' /\ Holds(Probe(k, n), k)'
      BY DEF FindHashIndex
    <2>2. Probe(k, n) \in Slot
      BY <2>1, TableAssumption
    <2>3. /\ ~ \E m \in FindHashIndex(k) : Probe(k, m) = Probe(k, n)
          /\ hash_table'[Probe(k, n)] = hash_table[Probe(k, n)]
      BY <2>1, <2>2 DEF Deleted, exists
    <2>4. exists(Probe(k, n))
      BY <2>1, <2>3 DEF exists
    <2>5. RecordAt(Probe(k, n))' = RecordAt(Probe(k, n))
      BY <2>2, <2>3, <2>4, RecordStable DEF Deleted
    <2>6. Holds(Probe(k, n), k)
      BY <2>1, <2>3, <2>5 DEF Holds
    <2> QED
      BY <2>1, <2>3, <2>4, <2>6, EntryFound
  <1>2. FindHashIndex(k)' = {}
    BY <1>1
  <1> QED
    BY <1>2 DEF Lookup

(* ... and touches no entry of another key.                                  *)
LEMMA DeleteLookupOther ==
  ASSUME TypeOK, EntriesReachable, NEW k \in Key, Deleted(k), NEW j \in Key, j # k
  PROVE  Lookup(j)' = Lookup(j)
  <1> DEFINE I == FindHashIndex(j)
             J == FindHashIndex(j)'
  <1>1. \A t \in Slot : valid(t)' <=> valid(t)
    BY DeleteKeepsValid
  <1>2. ASSUME NEW n \in Probes PROVE Reached(j, n)' <=> Reached(j, n)
    BY <1>1, ProbesNat, TableAssumption DEF Reached
  <1>3. ASSUME NEW n \in I
        PROVE  n \in J /\ RecordAt(Probe(j, n))' = RecordAt(Probe(j, n))
    <2>1. n \in Probes /\ Reached(j, n) /\ exists(Probe(j, n)) /\ Holds(Probe(j, n), j)
      BY DEF FindHashIndex
    <2>2. Probe(j, n) \in Slot
      BY <2>1, TableAssumption
    <2>3. \A m \in FindHashIndex(k) : Probe(k, m) # Probe(j, n)
      BY <2>1 DEF FindHashIndex, Holds
    <2>4. hash_table'[Probe(j, n)] = hash_table[Probe(j, n)]
      BY <2>2, <2>3 DEF Deleted
    <2>5. RecordAt(Probe(j, n))' = RecordAt(Probe(j, n))
      BY <2>1, <2>2, <2>4, RecordStable DEF Deleted
    <2>6. exists(Probe(j, n))' /\ Holds(Probe(j, n), j)'
      BY <2>1, <2>4, <2>5 DEF exists, Holds
    <2> QED
      BY <1>2, <2>1, <2>5, <2>6 DEF FindHashIndex
  <1>4. ASSUME NEW n \in J PROVE n \in I
    <2>1. n \in Probes /\ Reached(j, n)' /\ exists(Probe(j, n))' /\ Holds(Probe(j, n), j)'
      BY DEF FindHashIndex
    <2>2. Probe(j, n) \in Slot
      BY <2>1, TableAssumption
    <2>3. hash_table'[Probe(j, n)] = hash_table[Probe(j, n)]
      BY <2>1, <2>2 DEF Deleted, exists
    <2>4. exists(Probe(j, n))
      BY <2>1, <2>3 DEF exists
    <2>5. RecordAt(Probe(j, n))' = RecordAt(Probe(j, n))
      BY <2>2, <2>3, <2>4, RecordStable DEF Deleted
    <2>6. Holds(Probe(j, n), j)
      BY <2>1, <2>3, <2>5 DEF Holds
    <2> QED
      BY <1>2, <2>1, <2>4, <2>6 DEF FindHashIndex
  <1> HIDE DEF I, J
  <1>5. I = J
    BY <1>3, <1>4
  <1>6. CASE I = {}
    BY <1>5, <1>6 DEF Lookup, I, J
  <1>7. CASE I # {}
    <2>1. I \in SUBSET Nat
      BY FindHashIndexNat DEF I
    <2>2. First(I) \in I
      BY <1>7, <2>1, SameFirst
    <2>3. PICK n \in I : n = First(I)
      BY <2>2
    <2>4. RecordAt(Probe(j, n))' = RecordAt(Probe(j, n))
      BY <1>3
    <2>5. Lookup(j) = RecordAt(Probe(j, n)).data
      BY <1>7, <2>3 DEF Lookup, I
    <2>6. Lookup(j)' = RecordAt(Probe(j, n))'.data
      BY <1>5, <1>7, <2>3 DEF Lookup, J
    <2> QED
      BY <2>4, <2>5, <2>6
  <1> QED
    BY <1>6, <1>7

(* What Lookup returns for a key that is found, and what Get answers.        *)
LEMMA LookupFound ==
  ASSUME EntriesReachable, NEW k \in Key, FindHashIndex(k) # {}
  PROVE  /\ First(FindHashIndex(k)) \in FindHashIndex(k)
         /\ Lookup(k) = RecordAt(Probe(k, First(FindHashIndex(k)))).data
         /\ Lookup(k) \in Value
  <1> DEFINE n == First(FindHashIndex(k))
  <1>1. n \in FindHashIndex(k)
    BY FindHashIndexNat, SameFirst
  <1> HIDE DEF n
  <1>2. Probe(k, n) \in Slot /\ exists(Probe(k, n))
    BY <1>1, TableAssumption DEF FindHashIndex
  <1>3. RecordAt(Probe(k, n)).data \in Value
    BY <1>2 DEF EntriesReachable
  <1>4. Lookup(k) = RecordAt(Probe(k, n)).data
    BY DEF Lookup, n
  <1> QED
    BY <1>1, <1>3, <1>4 DEF n

(* With no key a prefix of another, Get answers the value Lookup defines. *)
LEMMA GetAnswersLookup ==
  ASSUME PrefixFree, EntriesReachable, NEW k \in Key, Get(k)
  PROVE  Answer("Get", k, Lookup(k))
  <1>1. \A s : Read(s, k) <=> Holds(s, k)
    BY DEF PrefixFree, Read, Holds
  <1>2. GetHits(k) = FindHashIndex(k)
    BY <1>1 DEF GetHits, FindHashIndex
  <1>3. CASE GetHits(k) = {}
    BY <1>2, <1>3 DEF Get, Lookup
  <1>4. CASE GetHits(k) # {}
    <2>1. PICK i \in FindHashIndex(k) :
            /\ \A j \in FindHashIndex(k) : i <= j
            /\ Answer("Get", k, ReadData(Probe(k, i), k))
      BY <1>2, <1>4 DEF Get
    <2>2. i = First(FindHashIndex(k))
      BY <2>1, FirstIs, FindHashIndexNat
    <2>3. ReadData(Probe(k, i), k) = RecordAt(Probe(k, i)).data
      BY <2>1 DEF ReadData, FindHashIndex, Holds
    <2>4. Lookup(k) = RecordAt(Probe(k, i)).data
      BY <1>2, <1>4, <2>2, LookupFound
    <2> QED
      BY <2>1, <2>3, <2>4
  <1> QED
    BY <1>3, <1>4
(* Every step of the store is a step of the dictionary it implements.        *)
LEMMA StepRefines ==
  ASSUME PrefixFree, IInv, [Next]_vars
  PROVE  [KV!Next]_(KV!vars)
  <1> DEFINE d == [k \in Key |-> Lookup(k)]
  <1>1. TypeOK /\ EntriesReachable
    BY DEF IInv
  <1>2. ASSUME UNCHANGED <<hash_table, log>> PROVE d' = d
    BY <1>2 DEF Lookup, FindHashIndex, Reached, Holds, RecordAt, exists, valid
  <1>3. ASSUME NEW k \in Key, InsertRefused(k) PROVE KV!Next
    <2>1. d' = d
      BY <1>2, <1>3 DEF InsertRefused
    <2>2. KV!Refuse("Put", k)
      BY <1>3, <2>1 DEF InsertRefused, KV!Refuse, Answer, KV!Answer
    <2> QED
      BY <2>2 DEF KV!Next
  <1>4. ASSUME NEW k \in Key, NEW v \in Value, Insert(k, v) PROVE KV!Next
    <2>1. PICK i \in Probes : Inserted(k, v, i)
      BY <1>1, <1>4, InsertEffect
    <2>2. TypeOK'
      BY <1>1, <1>4, InsertEffect
    <2>3. Lookup(k)' = v
      BY <1>1, <2>1, InsertLookupSame
    <2>4. \A t \in Slot : valid(t) => valid(t)'
      BY <1>1, <2>1, <2>2, InsertKeepsReachable
    <2>5. \A j \in Key : j # k => Lookup(j)' = Lookup(j)
      BY <1>1, <2>1, <2>4, InsertLookupOther
    <2>6. d' = [d EXCEPT ![k] = v]
      BY <2>3, <2>5
    <2>7. KV!Put(k, v)
      BY <1>4, <2>6 DEF Insert, KV!Put, Answer, KV!Answer
    <2> QED
      BY <2>7 DEF KV!Next
  <1>5. ASSUME NEW k \in Key, DeleteAbsent(k) PROVE KV!Next
    <2>1. d' = d
      BY <1>2, <1>5 DEF DeleteAbsent
    <2>2. d[k] = NotFound
      BY <1>5 DEF DeleteAbsent, Lookup
    <2>3. KV!Delete(k)
      BY <1>5, <2>1, <2>2 DEF DeleteAbsent, KV!Delete, Answer, KV!Answer
    <2> QED
      BY <2>3 DEF KV!Next
  <1>6. ASSUME NEW k \in Key, NEW w \in BOOLEAN, Delete(k, w) PROVE KV!Next
    <2>1. Deleted(k)
      BY <1>1, <1>6, DeleteEffect
    <2>2. Lookup(k)' = NotFound
      BY <1>1, <2>1, DeleteLookupSame
    <2>3. \A j \in Key : j # k => Lookup(j)' = Lookup(j)
      BY <1>1, <2>1, DeleteLookupOther
    <2>4. d' = [d EXCEPT ![k] = NotFound]
      BY <2>2, <2>3
    <2>5. d[k] # NotFound
      BY <1>1, <1>6, LookupFound, ValueAssumption DEF Delete
    <2>6. KV!Delete(k)
      BY <1>6, <2>4, <2>5 DEF Delete, KV!Delete, Answer, KV!Answer
    <2> QED
      BY <2>6 DEF KV!Next
  <1>7. ASSUME NEW k \in Key, Get(k) PROVE KV!Next
    <2>1. d' = d
      BY <1>2, <1>7 DEF Get
    <2>2. Answer("Get", k, d[k])
      BY <1>1, <1>7, GetAnswersLookup
    <2>3. KV!Get(k)
      BY <2>1, <2>2 DEF KV!Get, Answer, KV!Answer
    <2> QED
      BY <2>3 DEF KV!Next
  <1>8. CASE UNCHANGED vars
    BY <1>2, <1>8 DEF vars, KV!vars
  <1> QED
    BY <1>3, <1>4, <1>5, <1>6, <1>7, <1>8 DEF Next

(* For every table geometry, hash function and key fragment, FAWN-DS answers  *)
(* Insert, Delete and Get as a dictionary would, if no key is a proper prefix  *)
(* of another (FawnDS_Flash::Read compares only the requested key's bytes).  *)
THEOREM FawnDSIsDictionary ==
  ASSUME PrefixFree
  PROVE  Spec => IsDictionary
  <1>1. Init => KV!Init
    <2> SUFFICES ASSUME Init PROVE KV!Init
      OBVIOUS
    <2>1. \A s \in Slot : ~exists(s)
      BY DEF Init, EmptyEntry, exists
    <2>2. \A k \in Key : FindHashIndex(k) = {}
      BY <2>1, TableAssumption DEF FindHashIndex
    <2> QED
      BY <2>2 DEF Init, KV!Init, Lookup
  <1>2. IInv /\ [Next]_vars => [KV!Next]_(KV!vars)
    BY StepRefines
  <1> QED
    BY <1>1, <1>2, InitIInv, NextIInv, PTL DEF Spec, IsDictionary, KV!Spec
=============================================================================
