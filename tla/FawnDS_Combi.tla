---------------------------- MODULE FawnDS_Combi ----------------------------
(***************************************************************************)
(* The SILT pipeline of src/siltds: writable front stores (stage 0), their *)
(* read-only conversions (stage 1), and one sorted back store (stage 2).   *)
(* Client threads put, delete and get; a convert thread and a merge thread *)
(* move stores down the stages while the clients go on.                    *)
(*                                                                         *)
(* A step holds mutex_ for its whole length, or works on data no other     *)
(* step changes.  Get and Delete hold the lock in read mode throughout and *)
(* only the first front store changes under it, so each is one step.  The  *)
(* upgrade in Put may release the lock, so it separates two steps.         *)
(*                                                                         *)
(* A store is two maps.  "mem" is what the store's index finds: a value,   *)
(* Deleted for a delete record, or NotFound.  "logged" is the last entry   *)
(* for the key in the store's data log, where an insert leaves its entry   *)
(* even if the index then has no room for it (FawnDS_SF::InsertEntry).     *)
(***************************************************************************)
EXTENDS Integers, Sequences, FiniteSets

CONSTANTS
  Client, Key, Value, NotFound, Deleted,
  StoreCapacity,           \* keys the index of a front store has room for
  store0_high_watermark_, store0_low_watermark_,
  store1_high_watermark_, store1_low_watermark_,
  keep_datastore,          \* <keep-datastore-on-conversion> of the middle stores
  MaxStores                \* bound: no Put or Delete starts once this many front stores were made

\* Create refuses other settings; stage_limit_ is 2, its default.
ASSUME WatermarkAssumption ==
  /\ store0_low_watermark_ \in Nat \ {0} /\ store0_high_watermark_ \in Nat
  /\ store1_low_watermark_ \in Nat /\ store1_high_watermark_ \in Nat
  /\ store0_low_watermark_ < store0_high_watermark_
  /\ store1_low_watermark_ < store1_high_watermark_
ASSUME ConstantsAssumption ==
  /\ StoreCapacity \in Nat \ {0} /\ MaxStores \in Nat
  /\ keep_datastore \in BOOLEAN
  /\ NotFound \notin Value /\ Deleted \notin Value /\ Deleted # NotFound

VARIABLES
  stage0, stage1,          \* all_stores_[0], all_stores_[1]: newest store first
  back,                    \* all_stores_[2]: the back store's map, empty if there is none
  created,                 \* next_ids_[0]: front stores created so far
  convert_task_running_, merge_task_running_,
  convert_queue, merge_queue,   \* tasks of this store waiting in the schedulers
  convert, merge,          \* the task each scheduler thread is running
  client,                  \* where each client thread is in its operation
  resp                     \* the operation answered last

stores == <<stage0, stage1, back, created>>
flags == <<convert_task_running_, merge_task_running_, convert_queue, merge_queue>>
vars == <<stores, flags, convert, merge, client, resp>>

Map == [Key -> Value \cup {NotFound, Deleted}]
Empty == [k \in Key |-> NotFound]
NewStore(id) == [id |-> id, mem |-> Empty, logged |-> Empty]

\* Entries of "new" hide entries of "old".
Over(new, old) == [k \in Key |-> IF new[k] = NotFound THEN old[k] ELSE new[k]]

IdleTask == [pc |-> "idle", sorted |-> 0, map |-> Empty]
IdleClient == [pc |-> "idle", key |-> NotFound, data |-> NotFound, front |-> 0]

Answer(op, k, r) == resp' = [op |-> op, key |-> k, ret |-> r]

Init ==
  /\ stage0 = <<NewStore(1)>>
  /\ stage1 = << >>
  /\ back = Empty
  /\ created = 1
  /\ convert_task_running_ = FALSE /\ merge_task_running_ = FALSE
  /\ convert_queue = 0 /\ merge_queue = 0
  /\ convert = IdleTask /\ merge = IdleTask
  /\ client = [c \in Client |-> IdleClient]
  /\ resp = [op |-> "none", key |-> NotFound, ret |-> NotFound]
-----------------------------------------------------------------------------
(* The front store: FawnDS_SF::InsertEntry and its cuckoo hash table.        *)

front_store == stage0[1]

Keys(m) == {k \in Key : m[k] # NotFound}

\* A key already indexed is replaced in place.  A new one may find no free
\* bucket in a table that is not empty, and finds none in a full one.
InsertOK(k) ==
  \/ front_store.mem[k] # NotFound
  \/ Cardinality(Keys(front_store.mem)) < StoreCapacity
InsertFails(k) ==
  /\ front_store.mem[k] = NotFound
  /\ Keys(front_store.mem) # {}

InsertEntry(k, e) ==
  stage0' = [stage0 EXCEPT ![1].mem[k] = e, ![1].logged[k] = e]

\* The entry is appended to the log before the index turns out to be full.
InsertOrphan(k, e) == stage0' = [stage0 EXCEPT ![1].logged[k] = e]
-----------------------------------------------------------------------------
(* Client threads.                                                           *)

PutCall(c, k, v) ==
  /\ client[c].pc = "idle"
  /\ created < MaxStores
  /\ client' = [client EXCEPT ![c] = [pc |-> "put", key |-> k, data |-> v, front |-> 0]]
  /\ UNCHANGED <<stores, flags, convert, merge, resp>>

\* One turn of Put's loop up to the upgrade, under the read lock.
PutOK(c) ==
  LET k == client[c].key IN
  /\ client[c].pc = "put"
  /\ InsertOK(k)
  /\ InsertEntry(k, client[c].data)
  /\ client' = [client EXCEPT ![c] = IdleClient]
  /\ Answer("Put", k, "OK")
  /\ UNCHANGED <<stage1, back, created, flags, convert, merge>>

PutInsufficientSpace(c) ==
  LET k == client[c].key IN
  /\ client[c].pc = "put"
  /\ InsertFails(k)
  /\ InsertOrphan(k, client[c].data)
  /\ client' = [client EXCEPT ![c] = [pc |-> "upgrade", key |-> k, data |-> client[c].data,
                                      front |-> front_store.id]]
  /\ UNCHANGED <<stage1, back, created, flags, convert, merge, resp>>

\* After upgrade_to_writer: another thread may have made a new front store
\* while the lock was released.
PutRetry(c) ==
  /\ client[c].pc = "upgrade"
  /\ client[c].front # front_store.id
  /\ client' = [client EXCEPT ![c].pc = "put", ![c].front = 0]
  /\ UNCHANGED <<stores, flags, convert, merge, resp>>

\* Enqueue a ConvertTask if stage 0 has reached its high watermark.
StartConvert(n) == n >= store0_high_watermark_ /\ ~convert_task_running_

PutNewStore(c) ==
  /\ client[c].pc = "upgrade"
  /\ client[c].front = front_store.id
  /\ stage0' = <<NewStore(created + 1)>> \o stage0
  /\ created' = created + 1
  /\ convert_task_running_' = (convert_task_running_ \/ StartConvert(Len(stage0'))) 
  /\ convert_queue' = IF StartConvert(Len(stage0')) THEN convert_queue + 1 ELSE convert_queue
  /\ client' = [client EXCEPT ![c].pc = "put", ![c].front = 0]
  /\ UNCHANGED <<stage1, back, merge_task_running_, merge_queue, convert, merge, resp>>

\* Delete writes a delete record to the front store.  It answers OK whether
\* or not the key was there, and makes no room when there is none.
Delete(c, k) ==
  /\ client[c].pc = "idle"
  /\ created < MaxStores
  /\ \/ /\ InsertOK(k)
        /\ InsertEntry(k, Deleted)
        /\ Answer("Delete", k, "OK")
     \/ /\ InsertFails(k)
        /\ InsertOrphan(k, Deleted)
        /\ Answer("Delete", k, "ERROR")
  /\ UNCHANGED <<stage1, back, created, flags, convert, merge, client>>

\* The first store, newest first, whose index knows the key decides.
FirstHit(s, k) ==
  IF \A i \in DOMAIN s : s[i].mem[k] = NotFound
  THEN NotFound
  ELSE s[CHOOSE i \in DOMAIN s : s[i].mem[k] # NotFound
                                 /\ \A j \in 1 .. i - 1 : s[j].mem[k] = NotFound].mem[k]
Search(k) ==
  LET hit == FirstHit(stage0 \o stage1, k) IN IF hit = NotFound THEN back[k] ELSE hit

\* KEY_DELETED and KEY_NOT_FOUND are the same to the caller.
Get(c, k) ==
  /\ client[c].pc = "idle"
  /\ Answer("Get", k, IF Search(k) = Deleted THEN NotFound ELSE Search(k))
  /\ UNCHANGED <<stores, flags, convert, merge, client>>

FlushCall(c) ==
  /\ client[c].pc = "idle"
  /\ client' = [client EXCEPT ![c].pc = "flush"]
  /\ UNCHANGED <<stores, flags, convert, merge, resp>>

\* Flush polls until no task runs and no watermark calls for one.
FlushReturn(c) ==
  /\ client[c].pc = "flush"
  /\ ~convert_task_running_ /\ ~merge_task_running_
  /\ Len(stage0) < store0_high_watermark_
  /\ Len(stage1) < store1_high_watermark_
  /\ client' = [client EXCEPT ![c] = IdleClient]
  /\ UNCHANGED <<stores, flags, convert, merge, resp>>
-----------------------------------------------------------------------------
(* ConvertTask::Run, on the scheduler's only convert thread.                 *)

\* Take the oldest front store and convert it, without the lock.
ConvertTo(s) == [s EXCEPT !.logged = IF keep_datastore THEN s.logged ELSE s.mem]

ConvertStart ==
  /\ convert_queue > 0 /\ convert.pc = "idle"
  /\ convert_queue' = convert_queue - 1
  /\ convert' = [pc |-> "converted", sorted |-> 0, map |-> ConvertTo(stage0[Len(stage0)])]
  /\ UNCHANGED <<stores, convert_task_running_, merge_task_running_, merge_queue,
                 merge, client, resp>>

\* Swap the stores, and enqueue a MergeTask if stage 1 has reached its mark.
ConvertInsert(m) == <<m>> \o stage1
StartMerge == Len(stage1) + 1 >= store1_high_watermark_ /\ ~merge_task_running_

ConvertSwap ==
  /\ convert.pc = "converted"
  /\ stage0' = SubSeq(stage0, 1, Len(stage0) - 1)
  /\ stage1' = ConvertInsert(convert.map)
  /\ merge_task_running_' = (merge_task_running_ \/ StartMerge)
  /\ merge_queue' = IF StartMerge THEN merge_queue + 1 ELSE merge_queue
  /\ convert' = [IdleTask EXCEPT !.pc = "swapped"]
  /\ UNCHANGED <<back, created, convert_task_running_, convert_queue, merge, client, resp>>

\* Requeue the task, or clear the flag.
ConvertMore_Equal == Len(stage0) >= store0_low_watermark_
ConvertMore_Once == FALSE
ConvertMore == Len(stage0) > store0_low_watermark_

ConvertEnd ==
  /\ convert.pc = "swapped"
  /\ convert_task_running_' = ConvertMore
  /\ convert_queue' = IF ConvertMore THEN convert_queue + 1 ELSE convert_queue
  /\ convert' = IdleTask
  /\ UNCHANGED <<stores, merge_task_running_, merge_queue, merge, client, resp>>
-----------------------------------------------------------------------------
(* MergeTask::Run, on the scheduler's only merge thread.                     *)

MergeStart ==
  /\ merge_queue > 0 /\ merge.pc = "idle"
  /\ merge_queue' = merge_queue - 1
  /\ merge' = [IdleTask EXCEPT !.pc = "sorting"]
  /\ UNCHANGED <<stores, convert_task_running_, merge_task_running_, convert_queue,
                 convert, client, resp>>

\* Feed the oldest middle store not yet sorted to the sorter, all the entries
\* of its log.  The sorter keeps entries of equal keys in the order they came,
\* and the merge takes the last.
MoreToSort == merge.sorted + store1_low_watermark_ < Len(stage1)

MergeSort ==
  /\ merge.pc = "sorting"
  /\ MoreToSort
  /\ merge' = [pc |-> "sorting", sorted |-> merge.sorted + 1,
               map |-> Over(stage1[Len(stage1) - merge.sorted].logged, merge.map)]
  /\ UNCHANGED <<stores, flags, convert, client, resp>>

\* The new back store: middle entries hide back entries, deletes are dropped.
MergeInto_BackWins(sorted) ==
  [k \in Key |-> IF back[k] # NotFound THEN back[k]
                 ELSE IF sorted[k] = Deleted THEN NotFound ELSE sorted[k]]
MergeInto(sorted) ==
  LET m == Over(sorted, back) IN [k \in Key |-> IF m[k] = Deleted THEN NotFound ELSE m[k]]

MergeMerge ==
  /\ merge.pc = "sorting"
  /\ ~MoreToSort
  /\ merge' = [pc |-> "merged", sorted |-> merge.sorted, map |-> MergeInto(merge.map)]
  /\ UNCHANGED <<stores, flags, convert, client, resp>>

\* Drop as many middle stores as were sorted, from the old end.
MergeSwap ==
  /\ merge.pc = "merged"
  /\ stage1' = SubSeq(stage1, 1, Len(stage1) - merge.sorted)
  /\ back' = merge.map
  /\ merge' = [IdleTask EXCEPT !.pc = "swapped"]
  /\ UNCHANGED <<stage0, created, flags, convert, client, resp>>

MergeMore_Equal == Len(stage1) >= store1_low_watermark_
MergeMore == Len(stage1) > store1_low_watermark_

MergeEnd ==
  /\ merge.pc = "swapped"
  /\ merge_task_running_' = MergeMore
  /\ merge_queue' = IF MergeMore THEN merge_queue + 1 ELSE merge_queue
  /\ merge' = IdleTask
  /\ UNCHANGED <<stores, convert_task_running_, convert_queue, convert, client, resp>>
-----------------------------------------------------------------------------
ClientStep(c) ==
  \/ \E k \in Key, v \in Value : PutCall(c, k, v)
  \/ PutOK(c)
  \/ PutInsufficientSpace(c)
  \/ PutRetry(c)
  \/ PutNewStore(c)
  \/ \E k \in Key : Delete(c, k)
  \/ \E k \in Key : Get(c, k)
  \/ FlushCall(c)
  \/ FlushReturn(c)

ConvertTask == ConvertStart \/ ConvertSwap \/ ConvertEnd
MergeTask == MergeStart \/ MergeSort \/ MergeMerge \/ MergeSwap \/ MergeEnd

Next == ConvertTask \/ MergeTask \/ \E c \in Client : ClientStep(c)

\* The scheduler threads keep running, and Flush polls for ever.
Fairness ==
  /\ WF_vars(ConvertTask)
  /\ WF_vars(MergeTask)
  /\ \A c \in Client : WF_vars(FlushReturn(c))

Spec == Init /\ [][Next]_vars
FairSpec == Spec /\ Fairness
-----------------------------------------------------------------------------
\* Type correctness; a back store holds no delete records.
TypeOK ==
  /\ \A s \in {stage0[i] : i \in DOMAIN stage0} \cup {stage1[i] : i \in DOMAIN stage1} :
       s \in [id : 1 .. created, mem : Map, logged : Map]
  /\ stage0 # << >>
  /\ back \in [Key -> Value \cup {NotFound}]
  /\ created \in Nat
  /\ convert_task_running_ \in BOOLEAN /\ merge_task_running_ \in BOOLEAN
  /\ convert_queue \in 0 .. 1 /\ merge_queue \in 0 .. 1

\* The pipeline is a dictionary: whatever conversion, sort, merge or store
\* roll-over runs in between, Get answers the last value put and not deleted.
KV == INSTANCE Dictionary
        WITH dict <- [k \in Key |-> IF Search(k) = Deleted THEN NotFound ELSE Search(k)],
             AbsentDelete <- "OK"
IsDictionary == KV!Spec

\* A task's running flag is set exactly while one task of the kind is queued
\* or running: never two, which would convert or merge the same store twice.
Running(task) == IF task.pc = "idle" THEN 0 ELSE 1
OneTask ==
  /\ convert_queue + Running(convert) = IF convert_task_running_ THEN 1 ELSE 0
  /\ merge_queue + Running(merge) = IF merge_task_running_ THEN 1 ELSE 0

\* No wake-up is lost: while no task runs, its stage is below the watermark
\* that calls for one.  A roll-over that sees the flag still set relies on the
\* ending task to look at the stage again.
NoLostWakeup ==
  /\ ~convert_task_running_ => Len(stage0) < store0_high_watermark_
  /\ ~merge_task_running_ => Len(stage1) < store1_high_watermark_

\* The assertions of the two Run methods: a task finds a store above the low
\* watermark when it starts (so the front store clients write to is never the
\* one converted), and the middle stores it sorted are still there to remove.
AssertsHold ==
  /\ convert_queue > 0 \/ convert.pc = "converted" => Len(stage0) > store0_low_watermark_
  /\ merge_queue > 0 => Len(stage1) > store1_low_watermark_
  /\ merge.sorted <= Len(stage1)

\* Flush returns: with the clients' operations bounded, the tasks come to an
\* end and every waiting Flush sees it.
FlushReturns == \A c \in Client : client[c].pc = "flush" ~> client[c].pc # "flush"
=============================================================================
