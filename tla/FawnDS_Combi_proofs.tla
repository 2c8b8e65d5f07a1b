------------------------ MODULE FawnDS_Combi_proofs -------------------------
(***************************************************************************)
(* Proofs about the SILT pipeline, for any number of clients and keys and  *)
(* any watermarks.  First the tasks: at most one of a kind, no lost        *)
(* wake-up, assertions that hold.  Then the data: the pipeline implements  *)
(* Dictionary, if middle stores do not keep their data log                 *)
(* (keep_datastore = FALSE, the default).                                  *)
(***************************************************************************)
EXTENDS FawnDS_Combi, SequenceTheorems, TLAPS

Store == [id : Nat, mem : Map, logged : Map]

MergeRec == [pc : {"idle", "sorting", "merged", "swapped"}, sorted : Nat, map : Map]

Types ==
  /\ stage0 \in Seq(Store) /\ stage1 \in Seq(Store)
  /\ back \in [Key -> Value \cup {NotFound}] /\ created \in Nat
  /\ convert_task_running_ \in BOOLEAN /\ merge_task_running_ \in BOOLEAN
  /\ convert_queue \in Nat /\ merge_queue \in Nat
  /\ convert \in [pc : {"idle", "converted", "swapped"}, sorted : Nat, map : Map \cup Store]
  /\ convert.pc = "converted" => convert.map \in Store
  /\ merge \in MergeRec
  /\ merge.pc = "merged" => merge.map \in [Key -> Value \cup {NotFound}]

ClientRec ==
  [pc : {"idle", "put", "upgrade", "flush"}, key : Key \cup {NotFound},
   data : Value \cup {NotFound}, front : Nat]
Putting(r) == r.pc \in {"put", "upgrade"} => r.key \in Key /\ r.data \in Value
Clients == client \in [Client -> ClientRec] /\ \A c \in Client : Putting(client[c])

Tasks ==
  /\ OneTask /\ NoLostWakeup /\ AssertsHold
  /\ Len(stage0) > 0

-----------------------------------------------------------------------------
\* Sequences of stores: what the steps do to their lengths.
LEMMA PrependFacts ==
  ASSUME NEW S, NEW s \in Seq(S), NEW x \in S
  PROVE  /\ <<x>> \o s \in Seq(S)
         /\ Len(<<x>> \o s) = Len(s) + 1
         /\ (<<x>> \o s)[1] = x
         /\ \A i \in 1 .. Len(s) : (<<x>> \o s)[i + 1] = s[i]
OBVIOUS

LEMMA PrefixFacts ==
  ASSUME NEW S, NEW s \in Seq(S), NEW n \in 0 .. Len(s)
  PROVE  /\ SubSeq(s, 1, n) \in Seq(S)
         /\ Len(SubSeq(s, 1, n)) = n
         /\ \A i \in 1 .. n : SubSeq(s, 1, n)[i] = s[i]
OBVIOUS

LEMMA EmptyTypes ==
  /\ Empty \in Map
  /\ \A i \in Nat : NewStore(i) \in Store
BY DEF Empty, Map, NewStore, Store

\* A step of the front store touches its first store only.
Entry == Value \cup {Deleted}

LEMMA InsertFacts ==
  ASSUME stage0 \in Seq(Store), Len(stage0) > 0, NEW k \in Key, NEW e \in Entry,
         InsertEntry(k, e) \/ InsertOrphan(k, e)
  PROVE  /\ stage0' \in Seq(Store) /\ Len(stage0') = Len(stage0)
         /\ \A i \in 2 .. Len(stage0) : stage0'[i] = stage0[i]
         /\ InsertEntry(k, e) => stage0'[1].mem = [stage0[1].mem EXCEPT ![k] = e]
         /\ InsertOrphan(k, e) => stage0'[1].mem = stage0[1].mem
<1>1. 1 \in DOMAIN stage0 /\ stage0[1] \in Store /\ stage0[1].mem \in Map /\ stage0[1].logged \in Map
  <2>1. 1 \in DOMAIN stage0 /\ stage0[1] \in Store
    OBVIOUS
  <2> QED
    BY <2>1 DEF Store
<1>2. CASE InsertEntry(k, e)
  <2>1. PICK s \in Store : s = [stage0[1] EXCEPT !.mem[k] = e, !.logged[k] = e]
    BY <1>1 DEF Store, Map, Entry
  <2>2. stage0' = [stage0 EXCEPT ![1] = s]
    BY <1>1, <1>2, <2>1 DEF InsertEntry
  <2>3. s.mem = [stage0[1].mem EXCEPT ![k] = e]
    BY <1>1, <2>1 DEF Store
  <2>4. InsertOrphan(k, e) => stage0'[1].mem = stage0[1].mem
    BY <1>1 DEF InsertOrphan, Store
  <2> QED
    BY <1>1, <2>2, <2>3, <2>4
<1>3. CASE InsertOrphan(k, e) /\ ~InsertEntry(k, e)
  <2>1. PICK s \in Store : s = [stage0[1] EXCEPT !.logged[k] = e]
    BY <1>1 DEF Store, Map, Entry
  <2>2. stage0' = [stage0 EXCEPT ![1] = s] /\ s.mem = stage0[1].mem
    BY <1>1, <1>3, <2>1 DEF InsertOrphan, Store
  <2> QED
    BY <1>1, <1>3, <2>2
<1> QED
  BY <1>2, <1>3
-----------------------------------------------------------------------------
\* The clients: a thread in Put has a key and a value.

LEMMA ClientSet ==
  ASSUME Clients, NEW c \in Client, NEW r \in ClientRec, Putting(r),
         client' = [client EXCEPT ![c] = r]
  PROVE  Clients'
<1>1. client' \in [Client -> ClientRec]
  BY DEF Clients
<1>2. \A d \in Client : client'[d] = IF d = c THEN r ELSE client[d]
  BY DEF Clients
<1> QED
  BY <1>1, <1>2 DEF Clients

LEMMA ClientsStep ==
  ASSUME Types, Clients, Len(stage0) > 0, NEW c \in Client, ClientStep(c)
  PROVE  Clients'
<1>0. client[c] \in ClientRec /\ Putting(client[c]) /\ client \in [Client -> ClientRec]
  BY DEF Clients
<1>1. IdleClient \in ClientRec /\ Putting(IdleClient)
  BY DEF IdleClient, ClientRec, Putting
<1>2. ASSUME NEW k \in Key, NEW v \in Value, PutCall(c, k, v)
      PROVE  Clients'
  <2>1. PICK r \in ClientRec : r = [pc |-> "put", key |-> k, data |-> v, front |-> 0]
    BY DEF ClientRec
  <2> QED
    BY <1>2, <2>1, ClientSet DEF PutCall, Putting
<1>3. CASE PutOK(c) \/ FlushReturn(c)
  BY <1>1, <1>3, ClientSet DEF PutOK, FlushReturn
<1>4. CASE PutInsufficientSpace(c)
  <2>1. front_store.id \in Nat
    <3>1. stage0[1] \in Store
      BY DEF Types
    <3> QED
      BY <3>1 DEF front_store, Store
  <2>2. PICK r \in ClientRec : r = [pc |-> "upgrade", key |-> client[c].key,
                                    data |-> client[c].data, front |-> front_store.id]
    BY <1>0, <2>1 DEF ClientRec
  <2>3. client' = [client EXCEPT ![c] = r]
    BY <1>4, <2>2 DEF PutInsufficientSpace
  <2>4. Putting(r)
    BY <1>0, <1>4, <2>2 DEF PutInsufficientSpace, Putting
  <2> QED
    BY <2>3, <2>4, ClientSet
<1>5. CASE PutRetry(c) \/ PutNewStore(c)
  <2>1. PICK r \in ClientRec : r = [pc |-> "put", key |-> client[c].key,
                                    data |-> client[c].data, front |-> 0]
    BY <1>0 DEF ClientRec
  <2>2. client' = [client EXCEPT ![c] = r]
    BY <1>0, <1>5, <2>1 DEF PutRetry, PutNewStore, ClientRec
  <2>3. Putting(r)
    BY <1>0, <1>5, <2>1 DEF PutRetry, PutNewStore, Putting
  <2> QED
    BY <2>2, <2>3, ClientSet
<1>6. CASE FlushCall(c)
  <2>1. PICK r \in ClientRec : r = [pc |-> "flush", key |-> client[c].key,
                                    data |-> client[c].data, front |-> client[c].front]
    BY <1>0 DEF ClientRec
  <2>2. client' = [client EXCEPT ![c] = r]
    <3>1. r = [client[c] EXCEPT !.pc = "flush"]
      BY <1>0, <2>1 DEF ClientRec
    <3> QED
      BY <1>6, <3>1 DEF FlushCall
  <2>3. Putting(r)
    BY <2>1 DEF Putting
  <2> QED
    BY <2>2, <2>3, ClientSet
<1>7. CASE \E k \in Key : Delete(c, k) \/ Get(c, k)
  BY <1>7 DEF Delete, Get, Clients
<1> QED
  BY <1>2, <1>3, <1>4, <1>5, <1>6, <1>7 DEF ClientStep
-----------------------------------------------------------------------------
\* The tasks.

LEMMA TasksInit == Init => Types /\ Clients /\ Tasks
<1> SUFFICES ASSUME Init PROVE Types /\ Clients /\ Tasks
  OBVIOUS
<1>1. NewStore(1) \in Store /\ Empty \in Map
  BY EmptyTypes
<1>2. stage0 \in Seq(Store) /\ Len(stage0) = 1 /\ stage1 \in Seq(Store) /\ Len(stage1) = 0
  BY <1>1 DEF Init
<1>3. back \in [Key -> Value \cup {NotFound}]
  BY DEF Init, Empty
<1>4. Types
  BY <1>1, <1>2, <1>3 DEF Init, Types, IdleTask, MergeRec
<1>5. Clients
  BY DEF Init, Clients, ClientRec, Putting, IdleClient
<1>6. Tasks
  BY <1>2, WatermarkAssumption
     DEF Init, Tasks, OneTask, NoLostWakeup, AssertsHold, IdleTask, Running
<1> QED
  BY <1>4, <1>5, <1>6

\* A step that leaves flags, tasks and the lengths of the stages alone.
LEMMA TasksUnchanged ==
  ASSUME Types, Tasks, UNCHANGED <<stage1, back, created, flags, convert, merge>>,
         stage0' \in Seq(Store), Len(stage0') = Len(stage0)
  PROVE  Types' /\ Tasks'
<1>1. Types'
  BY DEF Types, flags
<1>2. Tasks'
  BY DEF Tasks, OneTask, NoLostWakeup, AssertsHold, Running, flags
<1> QED
  BY <1>1, <1>2

LEMMA ClientTasks ==
  ASSUME Types, Clients, Tasks, NEW c \in Client, ClientStep(c)
  PROVE  Types' /\ Tasks'
<1>0. client[c] \in ClientRec /\ Putting(client[c])
  BY DEF Clients
<1>1. CASE PutOK(c) \/ PutInsufficientSpace(c)
  <2>1. client[c].key \in Key /\ client[c].data \in Entry
    BY <1>0, <1>1 DEF PutOK, PutInsufficientSpace, Putting, Entry
  <2>2. stage0' \in Seq(Store) /\ Len(stage0') = Len(stage0)
    BY <1>1, <2>1, InsertFacts DEF PutOK, PutInsufficientSpace, Types, Tasks
  <2> QED
    BY <1>1, <2>2, TasksUnchanged DEF PutOK, PutInsufficientSpace
<1>2. CASE PutNewStore(c)
  <2>1. NewStore(created + 1) \in Store
    BY EmptyTypes DEF Types
  <2>2. stage0' \in Seq(Store) /\ Len(stage0') = Len(stage0) + 1 /\ Len(stage0) \in Nat
    BY <1>2, <2>1, PrependFacts DEF PutNewStore, Types
  <2>3. UNCHANGED <<stage1, back, merge_task_running_, merge_queue, convert, merge>>
    BY <1>2 DEF PutNewStore
  <2>4. CASE StartConvert(Len(stage0'))
    <3>1. convert_task_running_' = TRUE /\ convert_queue' = convert_queue + 1
      BY <1>2, <2>4 DEF PutNewStore
    <3>2. ~convert_task_running_ /\ Len(stage0') >= store0_high_watermark_
      BY <2>4 DEF StartConvert
    <3>3. Types'
      BY <1>2, <2>2, <2>3, <3>1 DEF PutNewStore, Types
    <3>4. Tasks'
      BY <2>2, <2>3, <3>1, <3>2, WatermarkAssumption
         DEF Types, Tasks, OneTask, NoLostWakeup, AssertsHold, Running
    <3> QED
      BY <3>3, <3>4
  <2>5. CASE ~StartConvert(Len(stage0'))
    <3>1. convert_task_running_' = convert_task_running_ /\ convert_queue' = convert_queue
      BY <1>2, <2>5 DEF PutNewStore, Types
    <3>2. convert_task_running_ \/ Len(stage0') < store0_high_watermark_
      BY <2>5, <2>2, WatermarkAssumption DEF StartConvert
    <3>3. Types'
      BY <1>2, <2>2, <2>3, <3>1 DEF PutNewStore, Types
    <3>4. Tasks'
      BY <2>2, <2>3, <3>1, <3>2, WatermarkAssumption
         DEF Types, Tasks, OneTask, NoLostWakeup, AssertsHold, Running
    <3> QED
      BY <3>3, <3>4
  <2> QED
    BY <2>4, <2>5
<1>3. CASE \E k \in Key : Delete(c, k)
  <2>1. \E k \in Key : InsertEntry(k, Deleted) \/ InsertOrphan(k, Deleted)
    BY <1>3 DEF Delete
  <2>2. stage0' \in Seq(Store) /\ Len(stage0') = Len(stage0)
    BY <2>1, InsertFacts DEF Types, Tasks, Entry
  <2> QED
    BY <1>3, <2>2, TasksUnchanged DEF Delete
<1>4. CASE \/ PutRetry(c) \/ FlushCall(c) \/ FlushReturn(c)
           \/ \E k \in Key : Get(c, k) \/ \E v \in Value : PutCall(c, k, v)
  <2>1. UNCHANGED <<stores, flags, convert, merge>>
    BY <1>4 DEF PutRetry, FlushCall, FlushReturn, Get, PutCall
  <2> QED
    BY <2>1, TasksUnchanged DEF stores, Types
<1> QED
  BY <1>1, <1>2, <1>3, <1>4 DEF ClientStep

LEMMA ConvertTasks ==
  ASSUME Types, Tasks, ConvertTask
  PROVE  Types' /\ Tasks'
<1>0. /\ Len(stage0) \in Nat /\ Len(stage1) \in Nat
      /\ convert.pc \in {"idle", "converted", "swapped"} /\ merge.sorted \in Nat
  BY DEF Types, MergeRec
<1>1. CASE ConvertStart
  <2>1. stage0[Len(stage0)] \in Store
    BY <1>0 DEF Types, Tasks
  <2>2. ConvertTo(stage0[Len(stage0)]) \in Store
    BY <2>1 DEF ConvertTo, Store
  <2>3. /\ convert' = [pc |-> "converted", sorted |-> 0, map |-> ConvertTo(stage0[Len(stage0)])]
        /\ convert_queue > 0 /\ convert.pc = "idle" /\ convert_queue' = convert_queue - 1
        /\ UNCHANGED <<stores, convert_task_running_, merge_task_running_, merge_queue, merge>>
    BY <1>1 DEF ConvertStart
  <2>4. Types'
    BY <2>2, <2>3 DEF Types, stores
  <2>5. Tasks'
    BY <2>3 DEF Types, Tasks, OneTask, NoLostWakeup, AssertsHold, Running, stores
  <2> QED
    BY <2>4, <2>5
<1>2. CASE ConvertSwap
  <2>1. /\ convert.pc = "converted" /\ convert'.pc = "swapped"
        /\ stage0' = SubSeq(stage0, 1, Len(stage0) - 1)
        /\ stage1' = <<convert.map>> \o stage1
        /\ UNCHANGED <<back, created, convert_task_running_, convert_queue, merge>>
    BY <1>2 DEF ConvertSwap, ConvertInsert, IdleTask
  <2>2. stage0' \in Seq(Store) /\ Len(stage0') = Len(stage0) - 1
    <3>1. Len(stage0) - 1 \in 0 .. Len(stage0)
      BY <1>0 DEF Tasks
    <3> QED
      BY <2>1, <3>1, PrefixFacts DEF Types
  <2>3. stage1' \in Seq(Store) /\ Len(stage1') = Len(stage1) + 1
    BY <2>1, PrependFacts DEF Types
  <2>4. convert' \in [pc : {"idle", "converted", "swapped"}, sorted : Nat, map : Map \cup Store]
    BY <1>2, EmptyTypes DEF ConvertSwap, IdleTask
  <2>5. CASE StartMerge
    <3>1. merge_task_running_' = TRUE /\ merge_queue' = merge_queue + 1
      BY <1>2, <2>5 DEF ConvertSwap
    <3>2. Types'
      BY <2>1, <2>2, <2>3, <2>4, <3>1 DEF Types
    <3>3. Tasks'
      BY <1>0, <2>1, <2>2, <2>3, <2>5, <3>1, WatermarkAssumption
         DEF Types, Tasks, OneTask, NoLostWakeup, AssertsHold, Running, StartMerge
    <3> QED
      BY <3>2, <3>3
  <2>6. CASE ~StartMerge
    <3>1. merge_task_running_' = merge_task_running_ /\ merge_queue' = merge_queue
      BY <1>2, <2>6 DEF ConvertSwap, Types
    <3>2. Types'
      BY <2>1, <2>2, <2>3, <2>4, <3>1 DEF Types
    <3>3. Tasks'
      BY <1>0, <2>1, <2>2, <2>3, <2>6, <3>1, WatermarkAssumption
         DEF Types, Tasks, OneTask, NoLostWakeup, AssertsHold, Running, StartMerge
    <3> QED
      BY <3>2, <3>3
  <2> QED
    BY <2>5, <2>6
<1>3. CASE ConvertEnd
  <2>1. convert.pc = "swapped" /\ convert' = IdleTask
        /\ UNCHANGED <<stores, merge_task_running_, merge_queue, merge>>
    BY <1>3 DEF ConvertEnd
  <2>2. IdleTask \in [pc : {"idle", "converted", "swapped"}, sorted : Nat, map : Map \cup Store]
        /\ IdleTask.pc = "idle"
    BY EmptyTypes DEF IdleTask
  <2>3. CASE ConvertMore
    <3>1. convert_task_running_' = TRUE /\ convert_queue' = convert_queue + 1
      BY <1>3, <2>3 DEF ConvertEnd
    <3>2. Types'
      BY <2>1, <2>2, <3>1 DEF Types, stores
    <3>3. Tasks'
      BY <1>0, <2>1, <2>2, <2>3, <3>1, WatermarkAssumption
         DEF Types, Tasks, OneTask, NoLostWakeup, AssertsHold, Running, ConvertMore, stores
    <3> QED
      BY <3>2, <3>3
  <2>4. CASE ~ConvertMore
    <3>1. convert_task_running_' = FALSE /\ convert_queue' = convert_queue
      BY <1>3, <2>4 DEF ConvertEnd
    <3>2. Types'
      BY <2>1, <2>2, <3>1 DEF Types, stores
    <3>3. Tasks'
      BY <1>0, <2>1, <2>2, <2>4, <3>1, WatermarkAssumption
         DEF Types, Tasks, OneTask, NoLostWakeup, AssertsHold, Running, ConvertMore, stores
    <3> QED
      BY <3>2, <3>3
  <2> QED
    BY <2>3, <2>4
<1> QED
  BY <1>1, <1>2, <1>3 DEF ConvertTask

LEMMA MergeTasks ==
  ASSUME Types, Tasks, MergeTask
  PROVE  Types' /\ Tasks'
<1>0. /\ Len(stage0) \in Nat /\ Len(stage1) \in Nat
      /\ merge.pc \in {"idle", "sorting", "merged", "swapped"}
      /\ merge.sorted \in Nat /\ merge.map \in Map
  BY DEF Types, MergeRec
<1>1. CASE MergeStart
  <2>1. merge' = [pc |-> "sorting", sorted |-> 0, map |-> Empty]
    BY <1>1 DEF MergeStart, IdleTask
  <2>2. merge' \in MergeRec
    BY <2>1, EmptyTypes DEF MergeRec
  <2>3. /\ merge_queue > 0 /\ merge.pc = "idle" /\ merge_queue' = merge_queue - 1
        /\ UNCHANGED <<stores, convert_task_running_, merge_task_running_, convert_queue, convert>>
    BY <1>1 DEF MergeStart
  <2>4. Types'
    BY <2>1, <2>2, <2>3 DEF Types, stores
  <2>5. Tasks'
    BY <1>0, <2>1, <2>3 DEF Types, Tasks, OneTask, NoLostWakeup, AssertsHold, Running, stores
  <2> QED
    BY <2>4, <2>5
<1>2. CASE MergeSort
  <2>1. merge.pc = "sorting" /\ merge.sorted < Len(stage1) /\ UNCHANGED <<stores, flags, convert>>
    BY <1>0, <1>2, WatermarkAssumption DEF MergeSort, MoreToSort
  <2>2. Len(stage1) - merge.sorted \in DOMAIN stage1
    BY <1>0, <2>1 DEF Types
  <2>3. PICK s \in Store : s = stage1[Len(stage1) - merge.sorted]
    BY <2>2 DEF Types
  <2>4. Over(s.logged, merge.map) \in Map
    BY <1>0, <2>3 DEF Over, Map, Store
  <2>5. PICK m \in MergeRec : m = [pc |-> "sorting", sorted |-> merge.sorted + 1, map |-> Over(s.logged, merge.map)]
    <3>1. merge.sorted + 1 \in Nat
      BY <1>0
    <3> QED
      BY <2>4, <3>1 DEF MergeRec
  <2>6. merge' = m
    BY <1>2, <2>3, <2>5 DEF MergeSort
  <2>7. Types'
    BY <2>1, <2>5, <2>6 DEF Types, stores, flags
  <2>8. Tasks'
    BY <1>0, <2>1, <2>5, <2>6 DEF Types, Tasks, OneTask, NoLostWakeup, AssertsHold, Running, stores, flags
  <2> QED
    BY <2>7, <2>8
<1>3. CASE MergeMerge
  <2>1. merge.pc = "sorting" /\ UNCHANGED <<stores, flags, convert>>
    BY <1>3 DEF MergeMerge
  <2>2. MergeInto(merge.map) \in Map
    BY <1>0 DEF MergeInto, Over, Map, Types
  <2>3. PICK m \in MergeRec : m = [pc |-> "merged", sorted |-> merge.sorted, map |-> MergeInto(merge.map)]
    BY <1>0, <2>2 DEF MergeRec
  <2>4. merge' = m
    BY <1>3, <2>3 DEF MergeMerge
  <2>5. MergeInto(merge.map) \in [Key -> Value \cup {NotFound}]
    BY <1>0 DEF MergeInto, Over, Map, Types
  <2>6. Types'
    BY <2>1, <2>3, <2>4, <2>5 DEF Types, stores, flags
  <2>7. Tasks'
    BY <1>0, <2>1, <2>3, <2>4 DEF Types, Tasks, OneTask, NoLostWakeup, AssertsHold, Running, stores, flags
  <2> QED
    BY <2>6, <2>7
<1>4. CASE MergeSwap
  <2>1. /\ merge.pc = "merged" /\ stage1' = SubSeq(stage1, 1, Len(stage1) - merge.sorted)
        /\ back' = merge.map /\ merge' = [pc |-> "swapped", sorted |-> 0, map |-> Empty]
        /\ UNCHANGED <<stage0, created, flags, convert>>
    BY <1>4 DEF MergeSwap, IdleTask
  <2>2. Len(stage1) - merge.sorted \in 0 .. Len(stage1)
    BY <1>0 DEF Tasks, AssertsHold
  <2>3. stage1' \in Seq(Store) /\ Len(stage1') \in Nat
    BY <2>1, <2>2, PrefixFacts DEF Types
  <2>4. merge' \in MergeRec
    BY <2>1, EmptyTypes DEF MergeRec
  <2>5. Types'
    BY <2>1, <2>3, <2>4 DEF Types, flags
  <2>6. merge_task_running_ = TRUE /\ merge_queue = 0
    BY <1>0, <2>1 DEF Tasks, OneTask, Running, Types
  <2>7. Tasks'
    BY <1>0, <2>1, <2>3, <2>6 DEF Types, Tasks, OneTask, NoLostWakeup, AssertsHold, Running, flags
  <2> QED
    BY <2>5, <2>7
<1>5. CASE MergeEnd
  <2>1. /\ merge.pc = "swapped" /\ merge' = IdleTask
        /\ UNCHANGED <<stores, convert_task_running_, convert_queue, convert>>
    BY <1>5 DEF MergeEnd
  <2>2. IdleTask \in MergeRec /\ IdleTask.pc = "idle" /\ IdleTask.sorted = 0
    BY EmptyTypes DEF IdleTask, MergeRec
  <2>3. CASE MergeMore
    <3>1. merge_task_running_' = TRUE /\ merge_queue' = merge_queue + 1
      BY <1>5, <2>3 DEF MergeEnd
    <3>2. Types'
      BY <2>1, <2>2, <3>1 DEF Types, stores
    <3>3. Tasks'
      BY <1>0, <2>1, <2>2, <2>3, <3>1, WatermarkAssumption
         DEF Types, Tasks, OneTask, NoLostWakeup, AssertsHold, Running, MergeMore, stores
    <3> QED
      BY <3>2, <3>3
  <2>4. CASE ~MergeMore
    <3>1. merge_task_running_' = FALSE /\ merge_queue' = merge_queue
      BY <1>5, <2>4 DEF MergeEnd
    <3>2. Types'
      BY <2>1, <2>2, <3>1 DEF Types, stores
    <3>3. Tasks'
      BY <1>0, <2>1, <2>2, <2>4, <3>1, WatermarkAssumption
         DEF Types, Tasks, OneTask, NoLostWakeup, AssertsHold, Running, MergeMore, stores
    <3> QED
      BY <3>2, <3>3
  <2> QED
    BY <2>3, <2>4
<1> QED
  BY <1>1, <1>2, <1>3, <1>4, <1>5 DEF MergeTask

LEMMA TasksStep ==
  ASSUME Types, Clients, Tasks, [Next]_vars
  PROVE  Types' /\ Clients' /\ Tasks'
<1>1. CASE ConvertTask
  BY <1>1, ConvertTasks
     DEF ConvertTask, ConvertStart, ConvertSwap, ConvertEnd, Clients
<1>2. CASE MergeTask
  BY <1>2, MergeTasks
     DEF MergeTask, MergeStart, MergeSort, MergeMerge, MergeSwap, MergeEnd, Clients
<1>3. ASSUME NEW c \in Client, ClientStep(c)
      PROVE  Types' /\ Clients' /\ Tasks'
  BY <1>3, ClientTasks, ClientsStep DEF Tasks
<1>4. CASE UNCHANGED vars
  BY <1>4, TasksUnchanged DEF vars, stores, Types, Clients
<1> QED
  BY <1>1, <1>2, <1>3, <1>4 DEF Next

LEMMA TasksAlways == Spec => [](Types /\ Clients /\ Tasks)
<1>1. Init => Types /\ Clients /\ Tasks
  BY TasksInit
<1>2. Types /\ Clients /\ Tasks /\ [Next]_vars => (Types /\ Clients /\ Tasks)'
  BY TasksStep
<1> QED
  BY <1>1, <1>2, PTL DEF Spec

\* A running flag is set exactly while one task of its kind is queued or
\* running (FawnDS_Combi::Put, ConvertTask::Run, MergeTask::Run).
THEOREM AtMostOneTask == Spec => []OneTask
<1>1. Types /\ Clients /\ Tasks => OneTask
  BY DEF Tasks
<1> QED
  BY <1>1, TasksAlways, PTL

\* Whenever no task of a kind runs, its stage is below the high watermark.
THEOREM WakeupsAreNotLost == Spec => []NoLostWakeup
<1>1. Types /\ Clients /\ Tasks => NoLostWakeup
  BY DEF Tasks
<1> QED
  BY <1>1, TasksAlways, PTL

\* The assertions in ConvertTask::Run and MergeTask::Run never fail.
THEOREM TaskAssertions == Spec => []AssertsHold
<1>1. Types /\ Clients /\ Tasks => AssertsHold
  BY DEF Tasks
<1> QED
  BY <1>1, TasksAlways, PTL
=============================================================================
