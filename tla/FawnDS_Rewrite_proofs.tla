------------------------ MODULE FawnDS_Rewrite_proofs ------------------------
(***************************************************************************)
(* Proofs about copying a store while it is in use, for every set of keys, *)
(* range and length of log.                                                *)
(***************************************************************************)
EXTENDS FawnDS_Rewrite, TLAPS

\* Where the last record of a key is, if it has any.
LastIsDelete(k) ==
  \E j \in 1 .. Len(log) : /\ log[j].key = k /\ log[j].type = "deleteLog"
                           /\ \A i \in j + 1 .. Len(log) : log[i].key # k
Unseen(k, n) == \A i \in 1 .. n : log[i].key # k

\* The source: an entry points to the last record of its key; a key without
\* an entry has no records, or a delete record is its last.
SourceInv ==
  \A k \in Key :
    /\ table[k] # 0 => /\ log[table[k]] = [key |-> k, type |-> "data"]
                       /\ \A i \in table[k] + 1 .. Len(log) : log[i].key # k
    /\ table[k] = 0 => Unseen(k, Len(log)) \/ LastIsDelete(k)

\* The copy: what has been scanned is in the new store as in the source.
CopyInv ==
  /\ op = None <=> pc = "none"
  /\ op = None => current_offset = 0 /\ ~checkpointed /\ new_log = << >>
  /\ pc = "done" => writer = None /\ current_offset = Len(log)
  /\ pc = "copy" => current_offset <= ending_offset /\ start <= ending_offset
  /\ checkpointed => start <= current_offset
  /\ \A j \in 1 .. Len(new_log) :
       new_log[j] <= Len(log) /\ (log[new_log[j]].type = "deleteLog" => new_log[j] > start)
  /\ pc # "failed" =>
       \A k \in Key : Wanted(k) /\ table[k] \in 1 .. current_offset => new_table[k] = table[k]

IInv == TypeOK /\ SourceInv /\ CopyInv

\* The constants that a proof needs: the new store refuses no Insert unless it
\* is that of a Rewrite, which then fails.
RoomForCopies == Refusing \subseteq {"Rewrite"}
-----------------------------------------------------------------------------
\* The store starts empty with no copy under way.
LEMMA InitInv == Init => IInv
<1> SUFFICES ASSUME Init PROVE IInv
  OBVIOUS
<1>1. Len(log) = 0 /\ log \in Seq(Record) /\ new_log \in Seq(Nat \ {0})
  BY DEF Init
<1>2. TypeOK
  <2>1. checkpointed \in BOOLEAN /\ writer \in Key \cup {None} /\ op \in Copies \cup {None}
    BY DEF Init
  <2>2. pc \in {"none", "check", "copy", "done", "failed"}
    BY DEF Init
  <2>3. /\ table \in [Key -> 0 .. Len(log)] /\ new_table \in [Key -> Base .. Len(log)]
        /\ start \in 0 .. Len(log) /\ current_offset \in 0 .. Len(log)
        /\ ending_offset \in 0 .. Len(log)
    BY <1>1 DEF Init, NoEntries, Base
  <2> QED
    BY <1>1, <2>1, <2>2, <2>3 DEF TypeOK
<1>3. SourceInv
  BY <1>1 DEF Init, SourceInv, NoEntries, Unseen
<1>4. CopyInv
  BY <1>1 DEF Init, CopyInv, NoEntries
<1> QED
  BY <1>2, <1>3, <1>4 DEF IInv

\* One more record in the log leaves the earlier ones where they are.
LEMMA AppendRecord ==
  ASSUME NEW r, NEW s, s \in Seq(Record),
         r \in Record, NEW t, t = Append(s, r)
  PROVE  /\ t \in Seq(Record)
         /\ Len(t) = Len(s) + 1 /\ Len(s) \in Nat
         /\ \A i \in 1 .. Len(s) : t[i] = s[i]
         /\ t[Len(s) + 1] = r
OBVIOUS

\* An operation on the source appends one record, r, and changes its key's entry.
SourceOp(r, e) ==
  /\ log' = Append(log, r)
  /\ table' = [table EXCEPT ![r.key] = e]
  /\ pc # "done"
  /\ UNCHANGED <<op, pc, start, current_offset, ending_offset, checkpointed, new>>

\* Such an operation keeps the invariant, wherever the copy is: it changes
\* only what the copy has not scanned yet.
LEMMA SourceOpInv ==
  ASSUME IInv, NEW r \in Record, NEW e, SourceOp(r, e), writer' \in Key \cup {None},
         \/ r.type = "data" /\ e = Len(log) + 1
         \/ r.type = "deleteLog" /\ e = 0
  PROVE  IInv'
<1> USE DEF SourceOp, new
<1>1. /\ log \in Seq(Record) /\ log' \in Seq(Record)
      /\ Len(log') = Len(log) + 1 /\ Len(log) \in Nat
      /\ \A i \in 1 .. Len(log) : log'[i] = log[i]
      /\ log'[Len(log) + 1] = r
  BY AppendRecord DEF IInv, TypeOK
<1>2. r.key \in Key /\ table \in [Key -> 0 .. Len(log)] /\ e \in 0 .. Len(log) + 1
  BY <1>1 DEF IInv, TypeOK, Record
<1>3. table' \in [Key -> 0 .. Len(log')]
  BY <1>1, <1>2
<1>4. TypeOK'
  <2>1. new_table' \in [Key -> Base .. Len(log')]
    BY <1>1 DEF IInv, TypeOK, Base
  <2>2. /\ start' \in 0 .. Len(log') /\ current_offset' \in 0 .. Len(log')
        /\ ending_offset' \in 0 .. Len(log')
    BY <1>1 DEF IInv, TypeOK
  <2> QED
    BY <1>1, <1>3, <2>1, <2>2 DEF IInv, TypeOK
<1>5. SourceInv'
  <2> SUFFICES ASSUME NEW k \in Key
               PROVE  /\ table'[k] # 0 =>
                           /\ log'[table'[k]] = [key |-> k, type |-> "data"]
                           /\ \A i \in table'[k] + 1 .. Len(log') : log'[i].key # k
                      /\ table'[k] = 0 => Unseen(k, Len(log))' \/ LastIsDelete(k)'
    BY DEF SourceInv
  <2>1. CASE k = r.key
    <3>1. table'[k] = e
      BY <1>2, <2>1
    <3>2. CASE r.type = "data" /\ e = Len(log) + 1
      <4>1. r = [key |-> k, type |-> "data"]
        BY <2>1, <3>2 DEF Record
      <4> QED
        BY <1>1, <3>1, <3>2, <4>1
    <3>3. CASE r.type = "deleteLog" /\ e = 0
      <4>1. LastIsDelete(k)'
        BY <1>1, <2>1, <3>3 DEF LastIsDelete
      <4> QED
        BY <3>1, <3>3, <4>1
    <3> QED
      BY <3>2, <3>3
  <2>2. CASE k # r.key
    <3>1. table'[k] = table[k]
      BY <1>2, <2>2
    <3>2. \A i \in 1 .. Len(log') : i > Len(log) => log'[i].key # k
      BY <1>1, <2>2
    <3>3. CASE table[k] # 0
      <4>1. /\ log[table[k]] = [key |-> k, type |-> "data"]
            /\ \A i \in table[k] + 1 .. Len(log) : log[i].key # k
            /\ table[k] \in 1 .. Len(log)
        BY <3>3, <1>2 DEF IInv, SourceInv
      <4> QED
        BY <1>1, <3>1, <3>2, <3>3, <4>1
    <3>4. CASE table[k] = 0
      <4>1. CASE Unseen(k, Len(log))
        BY <4>1, <1>1, <3>1, <3>2, <3>4 DEF Unseen
      <4>2. CASE LastIsDelete(k)
        <5>1. PICK j \in 1 .. Len(log) : /\ log[j].key = k /\ log[j].type = "deleteLog"
                                         /\ \A i \in j + 1 .. Len(log) : log[i].key # k
          BY <4>2 DEF LastIsDelete
        <5>2. /\ j \in 1 .. Len(log') /\ log'[j].key = k /\ log'[j].type = "deleteLog"
              /\ \A i \in j + 1 .. Len(log') : log'[i].key # k
          BY <5>1, <1>1, <3>2
        <5> QED
          BY <5>2, <3>1, <3>4 DEF LastIsDelete
      <4> QED
        BY <4>1, <4>2, <3>4 DEF IInv, SourceInv
    <3> QED
      BY <3>3, <3>4
  <2> QED
    BY <2>1, <2>2
<1>6. CopyInv'
  <2>1. ASSUME NEW k \in Key, Wanted(k)', table'[k] \in 1 .. current_offset, pc # "failed"
        PROVE  new_table[k] = table'[k]
    <3>1. k # r.key
      BY <1>1, <1>2, <2>1 DEF IInv, TypeOK
    <3>2. table'[k] = table[k]
      BY <3>1, <1>2
    <3> QED
      BY <2>1, <3>2 DEF IInv, CopyInv, Wanted
  <2>2. ASSUME NEW j \in 1 .. Len(new_log)
        PROVE  /\ new_log[j] <= Len(log')
               /\ log'[new_log[j]].type = "deleteLog" => new_log[j] > start
    <3>1. new_log[j] \in 1 .. Len(log)
      BY <1>1 DEF IInv, TypeOK, CopyInv
    <3> QED
      BY <1>1, <3>1 DEF IInv, CopyInv
  <2> QED
    BY <2>1, <2>2, <1>1 DEF IInv, CopyInv
<1> QED
  BY <1>4, <1>5, <1>6 DEF IInv

\* The source's invariant is about nothing but its log and its table.
LEMMA SourceUnchanged ==
  ASSUME SourceInv, log' = log, table' = table
  PROVE  SourceInv'
<1>1. ASSUME NEW k \in Key
      PROVE  Unseen(k, Len(log))' = Unseen(k, Len(log)) /\ LastIsDelete(k)' = LastIsDelete(k)
  BY DEF Unseen, LastIsDelete
<1> QED
  BY <1>1 DEF SourceInv

\* Scanning a record leaves the source alone, and the new store afterwards has
\* that key's newest record if it was this one.
LEMMA CopyRecordInv ==
  ASSUME IInv, CopyRecord, RoomForCopies
  PROVE  IInv'
<1> DEFINE i == current_offset + 1
           k == log[i].key
<1>1. /\ pc = "copy" /\ current_offset' = i
      /\ i \in 1 .. Len(log) /\ i <= ending_offset /\ k \in Key
      /\ log \in Seq(Record) /\ log[i] \in Record
      /\ current_offset \in Nat /\ Len(log) \in Nat
  <2>1. pc = "copy" /\ ~(current_offset >= ending_offset) /\ current_offset' = i
    BY DEF CopyRecord, CaughtUp
  <2>2. /\ log \in Seq(Record) /\ Len(log) \in Nat
        /\ current_offset \in 0 .. Len(log) /\ ending_offset \in 0 .. Len(log)
    BY DEF IInv, TypeOK
  <2>3. i \in 1 .. Len(log) /\ i <= ending_offset
    BY <2>1, <2>2
  <2>4. log[i] \in Record
    BY <2>2, <2>3
  <2> QED
    BY <2>1, <2>2, <2>3, <2>4 DEF Record
<1>2. UNCHANGED <<log, table, writer, op, start, ending_offset, checkpointed>>
  BY DEF CopyRecord, source
<1>3. op # None
  BY <1>1 DEF IInv, CopyInv
\* What a scanned record can do to the new store.
<1>4. \/ UNCHANGED <<pc, new_log, new_table>> /\ ~(Wanted(k) /\ table[k] = i)
      \/ pc' = "failed" /\ UNCHANGED <<new_log, new_table>>
      \/ /\ new_table' = [new_table EXCEPT ![k] = i] /\ new_log' = Append(new_log, i)
         /\ pc' = pc /\ log[i].type # "deleteLog"
      \/ /\ new_table' = [new_table EXCEPT ![k] = 0] /\ pc' = pc
         /\ log[i].type = "deleteLog"
         /\ new_log' = new_log \/ (checkpointed /\ new_log' = Append(new_log, i))
  <2>1. log[i].type = "deleteLog" => table[k] # i
    <3>1. table[k] = i => log[i] = [key |-> k, type |-> "data"]
      BY <1>1 DEF IInv, SourceInv
    <3> QED
      BY <3>1
  <2>2. CASE op = "Rewrite"
    <3>1. RewriteRecord(k, i)
      BY <2>2 DEF CopyRecord
    <3>2. CASE k \notin InRange
      BY <3>1, <3>2, <2>2 DEF RewriteRecord, Skip, new, Wanted
    <3>3. CASE k \in InRange
      <4>1. PICK e \in FindHashIndex(k) :
              IF e = 0 THEN Skip
              ELSE IF log[i].type = "deleteLog" THEN CopyDelete(k, i)
              ELSE IF Newest(e, i) THEN CopyInsert(k, i) ELSE Skip
        BY <3>1, <3>3 DEF RewriteRecord
      <4>2. table[k] = i => e = i
        BY <1>1 DEF FindHashIndex
      <4>3. CASE e = 0
        BY <4>1, <4>2, <4>3, <1>1 DEF Skip, new
      <4>4. CASE e # 0 /\ log[i].type = "deleteLog"
        BY <4>1, <4>4 DEF CopyDelete, Fail, new, writeLog
      <4>5. CASE e # 0 /\ log[i].type # "deleteLog" /\ e = i
        BY <4>1, <4>5, <2>2 DEF CopyInsert, Fail, new, Newest
      <4>6. CASE e # 0 /\ log[i].type # "deleteLog" /\ e # i
        BY <4>1, <4>2, <4>6 DEF Skip, new, Newest
      <4> QED
        BY <4>3, <4>4, <4>5, <4>6
    <3> QED
      BY <3>2, <3>3
  <2>3. CASE op # "Rewrite"
    <3>1. SplitMergeRecord(k, i)
      BY <2>3 DEF CopyRecord
    <3>2. op \notin Refusing
      BY <2>3 DEF RoomForCopies
    <3>3. CASE log[i].type = "deleteLog"
      BY <3>1, <3>3 DEF SplitMergeRecord, CopyDelete, Fail, new, writeLog
    <3>4. CASE log[i].type # "deleteLog" /\ Wanted(k)
      BY <3>1, <3>2, <3>4 DEF SplitMergeRecord, CopyInsert, new
    <3>5. CASE log[i].type # "deleteLog" /\ ~Wanted(k)
      BY <3>1, <3>5 DEF SplitMergeRecord, Skip, new
    <3> QED
      BY <3>3, <3>4, <3>5
  <2> QED
    BY <2>2, <2>3
<1> HIDE DEF i, k
<1>5. TypeOK'
  <2>1. new_table' \in [Key -> Base .. Len(log)]
    <3>1. i \in Base .. Len(log) /\ 0 \in Base .. Len(log)
      BY <1>1 DEF Base
    <3>2. new_table \in [Key -> Base .. Len(log)]
      BY DEF IInv, TypeOK
    <3> QED
      BY <1>1, <1>4, <3>1, <3>2
  <2>2. new_log' \in Seq(Nat \ {0})
    <3>1. i \in Nat \ {0} /\ new_log \in Seq(Nat \ {0})
      BY <1>1 DEF IInv, TypeOK
    <3>2. Append(new_log, i) \in Seq(Nat \ {0})
      BY <3>1
    <3> QED
      BY <1>4, <3>1, <3>2
  <2>3. pc' \in {"none", "check", "copy", "done", "failed"}
    BY <1>1, <1>4
  <2>4. current_offset' \in 0 .. Len(log)
    BY <1>1
  <2> QED
    BY <1>2, <2>1, <2>2, <2>3, <2>4 DEF IInv, TypeOK
<1>6. SourceInv'
  BY <1>2, SourceUnchanged DEF IInv
<1>7. CopyInv'
  <2>1. ASSUME NEW m \in Key, Wanted(m)', table[m] \in 1 .. i, pc' # "failed"
        PROVE  new_table'[m] = table[m]
    <3>1. Wanted(m) /\ new_table \in [Key -> Base .. Len(log)]
      BY <2>1, <1>2 DEF Wanted, IInv, TypeOK
    <3>2. CASE table[m] = i
      <4>1. m = k /\ log[i].type # "deleteLog"
        <5>1. log[i] = [key |-> m, type |-> "data"]
          BY <3>2, <1>1 DEF IInv, SourceInv
        <5> QED
          BY <5>1 DEF k
      <4> QED
        BY <3>1, <3>2, <4>1, <1>1, <1>4, <2>1
    <3>3. CASE table[m] # i
      <4>1. table[m] \in 1 .. current_offset
        BY <2>1, <3>3, <1>1 DEF i
      <4>2. new_table[m] = table[m]
        BY <1>1, <3>1, <4>1 DEF IInv, CopyInv
      <4>3. m # k
        <5>1. i \in table[m] + 1 .. Len(log) /\ table[m] # 0
          BY <1>1, <4>1 DEF i
        <5> QED
          BY <5>1 DEF IInv, SourceInv, k
      <4> QED
        BY <3>1, <4>2, <4>3, <1>4
    <3> QED
      BY <3>2, <3>3
  <2>2. ASSUME NEW j \in 1 .. Len(new_log')
        PROVE  /\ new_log'[j] <= Len(log)
               /\ log[new_log'[j]].type = "deleteLog" => new_log'[j] > start
    <3>1. CASE new_log' = new_log
      BY <3>1 DEF IInv, CopyInv
    <3>2. CASE new_log' = Append(new_log, i) /\ (log[i].type = "deleteLog" => checkpointed)
      <4>1. CASE j \in 1 .. Len(new_log)
        BY <3>2, <4>1, <1>1 DEF IInv, TypeOK, CopyInv
      <4>2. CASE j = Len(new_log) + 1
        <5>1. new_log'[j] = i
          BY <3>2, <4>2 DEF IInv, TypeOK
        <5>2. checkpointed => i > start
          BY DEF IInv, CopyInv, TypeOK, i
        <5> QED
          BY <5>1, <5>2, <3>2, <1>1
      <4> QED
        BY <3>2, <4>1, <4>2 DEF IInv, TypeOK
    <3> QED
      BY <1>4, <3>1, <3>2
  <2>3. checkpointed => start <= i
    BY DEF IInv, CopyInv, TypeOK, i
  <2> QED
    BY <1>1, <1>2, <1>3, <1>4, <2>1, <2>2, <2>3 DEF IInv, CopyInv
<1> QED
  BY <1>5, <1>6, <1>7 DEF IInv

\* Every step keeps the invariant.
LEMMA NextInv ==
  ASSUME IInv, [Next]_vars, RoomForCopies
  PROVE  IInv'
<1>1. ASSUME NEW k \in Key, InsertBegin(k)
      PROVE  IInv'
  <2>1. UNCHANGED <<log, table, op, pc, start, current_offset, ending_offset,
                    checkpointed, new_log, new_table>>
    BY <1>1 DEF InsertBegin, new
  <2>2. writer' \in Key /\ pc # "done"
    BY <1>1 DEF InsertBegin, Unlocked
  <2> QED
    BY <2>1, <2>2, SourceUnchanged DEF IInv, TypeOK, CopyInv, Wanted
<1>2. CASE InsertEnd
  <2>1. writer \in Key /\ Len(log) \in Nat /\ Len(log') = Len(log) + 1
    BY <1>2 DEF InsertEnd, IInv, TypeOK
  <2>2. pc # "done"
    BY <1>2 DEF InsertEnd, IInv, CopyInv
  <2>3. SourceOp([key |-> writer, type |-> "data"], Len(log) + 1)
    BY <1>2, <2>1, <2>2 DEF InsertEnd, SourceOp
  <2>4. [key |-> writer, type |-> "data"] \in Record /\ writer' \in Key \cup {None}
    BY <1>2, <2>1 DEF Record, InsertEnd
  <2> QED
    BY <2>3, <2>4, SourceOpInv
<1>3. ASSUME NEW k \in Key, Delete(k)
      PROVE  IInv'
  <2>1. SourceOp([key |-> k, type |-> "deleteLog"], 0)
    BY <1>3 DEF Delete, SourceOp, Unlocked
  <2>2. [key |-> k, type |-> "deleteLog"] \in Record /\ writer' \in Key \cup {None}
    BY <1>3 DEF Record, Delete, IInv, TypeOK
  <2> QED
    BY <2>1, <2>2, SourceOpInv
<1>4. ASSUME NEW o \in Copies, Begin(o)
      PROVE  IInv'
  <2>1. /\ UNCHANGED <<log, table, writer, current_offset, ending_offset, checkpointed, new_log>>
        /\ op' = o /\ pc = "none" /\ pc' = "check" /\ start' = Len(log)
    BY <1>4 DEF Begin, source
  <2>2. new_table' \in [Key -> Base .. Len(log)]
    <3>1. 0 \in Base .. Len(log) /\ Base \in Base .. Len(log)
      BY DEF Base, IInv, TypeOK
    <3>2. CASE o = "Merge"
      <4>1. new_table' \in [Key -> {0, Base}]
        BY <1>4, <3>2 DEF Begin
      <4> QED
        BY <3>1, <4>1
    <3>3. CASE o # "Merge"
      <4>1. new_table' = NoEntries
        BY <1>4, <3>3 DEF Begin
      <4> QED
        BY <3>1, <4>1 DEF NoEntries
    <3> QED
      BY <3>2, <3>3
  <2>3. current_offset = 0 /\ new_log = << >> /\ checkpointed = FALSE
    BY <2>1 DEF IInv, CopyInv, TypeOK
  <2>4. o # None
    BY CopyAssumption
  <2>5. TypeOK'
    BY <2>1, <2>2 DEF IInv, TypeOK
  <2>6. SourceInv'
    BY <2>1, SourceUnchanged DEF IInv
  <2>7. CopyInv'
    BY <2>1, <2>3, <2>4 DEF CopyInv
  <2> QED
    BY <2>5, <2>6, <2>7 DEF IInv
<1>5. CASE Check
  <2>1. /\ UNCHANGED <<log, table, writer, op, start, current_offset, checkpointed,
                       new_log, new_table>>
        /\ ending_offset' = Len(log) /\ pc = "check" /\ writer = None
        /\ pc' = IF current_offset >= Len(log) THEN "done" ELSE "copy"
    BY <1>5 DEF Check, source, new, CaughtUp
  <2>2. Len(log) \in Nat /\ current_offset \in 0 .. Len(log) /\ start \in 0 .. Len(log)
    BY DEF IInv, TypeOK
  <2>3. TypeOK'
    BY <2>1, <2>2 DEF IInv, TypeOK
  <2>4. SourceInv'
    BY <2>1, SourceUnchanged DEF IInv
  <2>5. CopyInv'
    BY <2>1, <2>2 DEF IInv, CopyInv, Wanted
  <2> QED
    BY <2>3, <2>4, <2>5 DEF IInv
<1>6. CASE CopyRecord
  BY <1>6, CopyRecordInv
<1>7. CASE PassEnd
  <2>1. /\ UNCHANGED <<log, table, writer, op, start, current_offset, ending_offset,
                       new_log, new_table>>
        /\ checkpointed' = TRUE /\ pc = "copy" /\ pc' = "check"
        /\ current_offset >= ending_offset
    BY <1>7 DEF PassEnd, source, new, CaughtUp
  <2>2. start <= current_offset
    BY <2>1 DEF IInv, TypeOK, CopyInv
  <2>3. TypeOK'
    BY <2>1 DEF IInv, TypeOK
  <2>4. SourceInv'
    BY <2>1, SourceUnchanged DEF IInv
  <2>5. CopyInv'
    BY <2>1, <2>2 DEF IInv, CopyInv, Wanted
  <2> QED
    BY <2>3, <2>4, <2>5 DEF IInv
<1>8. CASE UNCHANGED vars
  BY <1>8, SourceUnchanged DEF vars, source, new, IInv, TypeOK, CopyInv, Wanted
<1> QED
  BY <1>1, <1>2, <1>3, <1>4, <1>5, <1>6, <1>7, <1>8 DEF Next, Copier
-----------------------------------------------------------------------------
\* What a split or merged store holds after n records: nothing of a key whose
\* last record so far is a delete record, and no record of a key not yet seen.
DeletedAt(k, n) ==
  \E j \in 1 .. n : /\ log[j].key = k /\ log[j].type = "deleteLog"
                    /\ \A i \in j + 1 .. n : log[i].key # k
ExactUpTo(n) ==
  \A k \in Key : /\ ~Wanted(k) => new_table[k] = 0
                 /\ Unseen(k, n) => new_table[k] \in {0, Base}
                 /\ DeletedAt(k, n) => new_table[k] = 0
ExactInv == op \in {"Split", "Merge"} /\ pc # "failed" => ExactUpTo(current_offset)

\* Steps that leave the new store and the scanned part of the log alone.
LEMMA ExactUnchanged ==
  ASSUME IInv, ExactInv, UNCHANGED <<op, current_offset, new_table>>,
         pc' # "failed" => pc # "failed",
         \A i \in 1 .. Len(log) : log'[i] = log[i]
  PROVE  ExactInv'
<1>1. current_offset \in 0 .. Len(log) /\ Len(log) \in Nat
  BY DEF IInv, TypeOK
<1>2. \A i \in 1 .. current_offset : log'[i] = log[i]
  BY <1>1
<1>3. ASSUME NEW k \in Key
      PROVE  /\ Unseen(k, current_offset)' => Unseen(k, current_offset)
             /\ DeletedAt(k, current_offset)' => DeletedAt(k, current_offset)
             /\ Wanted(k)' <=> Wanted(k)
  <2>1. Unseen(k, current_offset)' => Unseen(k, current_offset)
    BY <1>2 DEF Unseen
  <2>2. DeletedAt(k, current_offset)' => DeletedAt(k, current_offset)
    <3> SUFFICES ASSUME DeletedAt(k, current_offset)' PROVE DeletedAt(k, current_offset)
      OBVIOUS
    <3>1. PICK j \in 1 .. current_offset :
            /\ log'[j].key = k /\ log'[j].type = "deleteLog"
            /\ \A i \in j + 1 .. current_offset : log'[i].key # k
      BY DEF DeletedAt
    <3>2. \A i \in j + 1 .. current_offset : i \in 1 .. current_offset
      BY <1>1, <3>1
    <3> QED
      BY <1>2, <3>1, <3>2 DEF DeletedAt
  <2> QED
    BY <2>1, <2>2 DEF Wanted
<1> QED
  BY <1>3 DEF ExactInv, ExactUpTo

\* Every step of a split or a merge keeps the new store exact.
LEMMA ExactStep ==
  ASSUME IInv, ExactInv, [Next]_vars, RoomForCopies
  PROVE  ExactInv'
<1>1. CASE InsertEnd \/ \E k \in Key : InsertBegin(k) \/ Delete(k)
  <2>1. UNCHANGED <<op, pc, current_offset, new_table>>
    BY <1>1 DEF InsertEnd, InsertBegin, Delete, new
  <2>2. \A i \in 1 .. Len(log) : log'[i] = log[i]
    <3>1. log \in Seq(Record) /\ writer \in Key \cup {None}
      BY DEF IInv, TypeOK
    <3>2. ASSUME NEW r \in Record, log' = Append(log, r)
          PROVE  \A i \in 1 .. Len(log) : log'[i] = log[i]
      BY <3>1, <3>2
    <3>3. CASE InsertEnd
      <4>1. [key |-> writer, type |-> "data"] \in Record
        BY <3>1, <3>3 DEF InsertEnd, Record
      <4> QED
        BY <3>2, <3>3, <4>1 DEF InsertEnd
    <3>4. ASSUME NEW k \in Key, InsertBegin(k)
          PROVE  \A i \in 1 .. Len(log) : log'[i] = log[i]
      BY <3>4 DEF InsertBegin
    <3>5. ASSUME NEW k \in Key, Delete(k)
          PROVE  \A i \in 1 .. Len(log) : log'[i] = log[i]
      <4>1. [key |-> k, type |-> "deleteLog"] \in Record
        BY DEF Record
      <4> QED
        BY <3>2, <3>5, <4>1 DEF Delete
    <3> QED
      BY <1>1, <3>3, <3>4, <3>5
  <2> QED
    BY <2>1, <2>2, ExactUnchanged
<1>2. ASSUME NEW o \in Copies, Begin(o)
      PROVE  ExactInv'
  <2>1. /\ current_offset' = current_offset /\ op' = o
        /\ new_table' \in IF o = "Merge" THEN [Key -> {0, Base}] ELSE {NoEntries}
    BY <1>2 DEF Begin
  <2>2. current_offset = 0
    BY <1>2 DEF Begin, IInv, CopyInv
  <2>3. \A k \in Key : ~DeletedAt(k, current_offset)'
    BY <2>1, <2>2 DEF DeletedAt
  <2>4. CASE o = "Merge"
    <3>1. \A k \in Key : new_table'[k] \in {0, Base} /\ Wanted(k)'
      BY <2>1, <2>4 DEF Wanted
    <3> QED
      BY <2>3, <3>1 DEF ExactInv, ExactUpTo
  <2>5. CASE o # "Merge"
    <3>1. \A k \in Key : new_table'[k] = 0
      BY <2>1, <2>5 DEF NoEntries
    <3> QED
      BY <3>1 DEF ExactInv, ExactUpTo
  <2> QED
    BY <2>4, <2>5
<1>3. CASE Check \/ PassEnd \/ UNCHANGED vars
  <2>1. UNCHANGED <<log, op, current_offset, new_table>> /\ (pc' # "failed" => pc # "failed")
    BY <1>3 DEF Check, PassEnd, vars, source, new
  <2> QED
    BY <2>1, ExactUnchanged
<1>4. CASE CopyRecord
  <2> SUFFICES ASSUME op \in {"Split", "Merge"}, pc' # "failed"
               PROVE  ExactUpTo(current_offset)'
    BY <1>4 DEF CopyRecord, ExactInv
  <2>i. PICK i : i = current_offset + 1
    OBVIOUS
  <2>k. PICK k : k = log[i].key
    OBVIOUS
  <2>1. /\ UNCHANGED <<log, op>> /\ current_offset' = i /\ pc = "copy"
        /\ SplitMergeRecord(k, i)
    BY <1>4, <2>i, <2>k DEF CopyRecord, source
  <2>2. /\ current_offset \in Nat /\ k \in Key /\ new_table \in [Key -> Base .. Len(log)]
        /\ i \in Nat
    <3>1. i \in 1 .. Len(log) /\ log \in Seq(Record) /\ Len(log) \in Nat
      BY <1>4, <2>i DEF CopyRecord, CaughtUp, IInv, TypeOK
    <3>2. log[i] \in Record
      BY <3>1
    <3>3. k \in Key
      BY <3>2, <2>k DEF Record
    <3>4. new_table \in [Key -> Base .. Len(log)] /\ current_offset \in Nat
      BY <3>1 DEF IInv, TypeOK
    <3> QED
      BY <3>1, <3>3, <3>4
  <2>3. ExactUpTo(current_offset)
    BY <2>1 DEF ExactInv
  <2>4. \/ new_table' = new_table /\ ~Wanted(k) /\ log[i].type # "deleteLog"
        \/ new_table' = [new_table EXCEPT ![k] = i] /\ Wanted(k) /\ log[i].type # "deleteLog"
        \/ new_table' = [new_table EXCEPT ![k] = 0] /\ log[i].type = "deleteLog"
    <3>1. op \notin Refusing
      BY DEF RoomForCopies
    <3>2. CASE log[i].type = "deleteLog"
      BY <2>1, <3>2 DEF SplitMergeRecord, CopyDelete, Fail
    <3>3. CASE log[i].type # "deleteLog" /\ Wanted(k)
      BY <2>1, <3>1, <3>3 DEF SplitMergeRecord, CopyInsert
    <3>4. CASE log[i].type # "deleteLog" /\ ~Wanted(k)
      BY <2>1, <3>4 DEF SplitMergeRecord, Skip, new
    <3> QED
      BY <3>2, <3>3, <3>4
  <2>5. ASSUME NEW m \in Key
        PROVE  /\ ~Wanted(m)' => new_table'[m] = 0
               /\ Unseen(m, i)' => new_table'[m] \in {0, Base}
               /\ DeletedAt(m, i)' => new_table'[m] = 0
    <3>1. Wanted(m)' <=> Wanted(m)
      BY <2>1 DEF Wanted
    <3>2. CASE m = k
      <4>1. ~Unseen(m, i)'
        <5>1. i \in 1 .. i /\ log'[i].key = m
          BY <2>1, <2>2, <2>i, <2>k, <3>2
        <5> QED
          BY <5>1 DEF Unseen
      <4>2. DeletedAt(m, i)' => log[i].type = "deleteLog"
        <5> SUFFICES ASSUME DeletedAt(m, i)' PROVE log[i].type = "deleteLog"
          OBVIOUS
        <5>1. PICK j \in 1 .. i : /\ log[j].key = m /\ log[j].type = "deleteLog"
                                  /\ \A x \in j + 1 .. i : log[x].key # m
          BY <2>1, <2>2 DEF DeletedAt
        <5>2. j = i
          BY <5>1, <3>2, <2>2, <2>k
        <5> QED
          BY <5>1, <5>2
      <4> QED
        BY <2>2, <2>3, <2>4, <3>1, <3>2, <4>1, <4>2 DEF ExactUpTo
    <3>3. CASE m # k
      <4>1. new_table'[m] = new_table[m]
        BY <2>2, <2>4, <3>3
      <4>2. Unseen(m, i)' => Unseen(m, current_offset)
        BY <2>1, <2>2, <2>i DEF Unseen
      <4>3. DeletedAt(m, i)' => DeletedAt(m, current_offset)
        <5> SUFFICES ASSUME DeletedAt(m, i)' PROVE DeletedAt(m, current_offset)
          OBVIOUS
        <5>1. PICK j \in 1 .. i : /\ log[j].key = m /\ log[j].type = "deleteLog"
                                  /\ \A x \in j + 1 .. i : log[x].key # m
          BY <2>1, <2>2 DEF DeletedAt
        <5>2. j \in 1 .. current_offset
          BY <5>1, <3>3, <2>2, <2>i, <2>k
        <5> QED
          BY <5>1, <5>2, <2>2, <2>i DEF DeletedAt
      <4> QED
        BY <2>3, <3>1, <4>1, <4>2, <4>3 DEF ExactUpTo
    <3> QED
      BY <3>2, <3>3
  <2> QED
    BY <2>1, <2>5 DEF ExactUpTo
<1> QED
  BY <1>1, <1>2, <1>3, <1>4 DEF Next, Copier
-----------------------------------------------------------------------------
\* The invariant holds throughout.
LEMMA InvHolds ==
  ASSUME RoomForCopies
  PROVE  Spec => [](IInv /\ ExactInv)
<1>1. Init => IInv /\ ExactInv
  <2>1. Init => \A k \in Key : new_table[k] = 0
    BY DEF Init, NoEntries
  <2> QED
    BY <2>1, InitInv DEF ExactInv, ExactUpTo
<1>2. IInv /\ ExactInv /\ [Next]_vars => IInv' /\ ExactInv'
  BY NextInv, ExactStep
<1> QED
  BY <1>1, <1>2, PTL DEF Spec

\* The copy keeps its types, and the offsets it scans stay within the log.
THEOREM CopyTypeCorrect ==
  ASSUME RoomForCopies
  PROVE  Spec => []TypeOK
<1>1. IInv => TypeOK
  BY DEF IInv
<1> QED
  BY <1>1, InvHolds, PTL

\* A Rewrite, Split or Merge that returns has lost nothing of what it was to
\* copy, although the log was scanned without the lock (SplitMergeHelper,
\* Rewrite).  Assumes that the new store has room, except in a Rewrite.
THEOREM CopiesLoseNothing ==
  ASSUME RoomForCopies
  PROVE  Spec => []NothingLost
<1>1. IInv => NothingLost
  <2> SUFFICES ASSUME IInv, pc = "done", NEW k \in Key, Wanted(k), table[k] # 0
               PROVE  new_table[k] = table[k]
    BY DEF NothingLost
  <2>1. table[k] \in 1 .. current_offset
    BY DEF IInv, TypeOK, CopyInv
  <2> QED
    BY <2>1 DEF IInv, CopyInv
<1> QED
  BY <1>1, InvHolds, PTL

\* A Split or Merge that returns leaves nothing deleted and nothing of another
\* range in the store it filled (SplitMergeHelper).
THEOREM SplitMergeIsExact ==
  ASSUME RoomForCopies
  PROVE  Spec => []SplitMergeExact
<1>1. IInv /\ ExactInv => SplitMergeExact
  <2> SUFFICES ASSUME IInv, ExactInv, pc = "done", op # "Rewrite", NEW k \in Key
               PROVE  /\ ~Wanted(k) => new_table[k] = 0
                      /\ (\E i \in DOMAIN log : log[i].key = k) /\ table[k] = 0
                           => new_table[k] = 0
                      /\ (\A i \in DOMAIN log : log[i].key # k) => new_table[k] \in {0, Base}
    BY DEF SplitMergeExact
  <2>1. op \in {"Split", "Merge"} /\ current_offset = Len(log) /\ DOMAIN log = 1 .. Len(log)
    BY CopyAssumption DEF IInv, TypeOK, CopyInv
  <2>2. ExactUpTo(Len(log))
    BY <2>1 DEF ExactInv
  <2>3. table[k] = 0 => Unseen(k, Len(log)) \/ DeletedAt(k, Len(log))
    BY DEF IInv, SourceInv, LastIsDelete, DeletedAt
  <2> QED
    BY <2>1, <2>2, <2>3 DEF ExactUpTo, Unseen
<1> QED
  BY <1>1, InvHolds, PTL

\* No delete record older than the copy is copied (the checkpointed flag of
\* Rewrite and SplitMergeHelper), so delete records do disappear.
THEOREM OldDeletesAreDropped ==
  ASSUME RoomForCopies
  PROVE  Spec => []OldDeleteLogsDisappear
<1>1. IInv => OldDeleteLogsDisappear
  <2> SUFFICES ASSUME IInv PROVE OldDeleteLogsDisappear
    OBVIOUS
  <2>1. DOMAIN new_log = 1 .. Len(new_log)
    BY DEF IInv, TypeOK
  <2> QED
    BY <2>1 DEF IInv, CopyInv, OldDeleteLogsDisappear
<1> QED
  BY <1>1, InvHolds, PTL
=============================================================================
