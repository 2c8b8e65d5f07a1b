------------------------------ MODULE BackStore ------------------------------
(* The SILT back store and what feeds it: FawnDS_Partition routes a key to   *)
(* one of several FawnDS_Combi stores; the merge thread that all of them     *)
(* share sorts a store's middle stores (Sorter), merges them with the old    *)
(* back store into a new one (FawnDS_SF_Ordered_Trie), and swaps it in.      *)
(*                                                                           *)
(* FawnDS_Combi models the front and the middle stage and the races of the   *)
(* clients with the tasks; here a front store is the log of its entries and  *)
(* converting it is one step, and the back stage is modelled in full.        *)
(* Entries have fixed length, as the trie store requires.  A fixed-length    *)
(* data store refuses delete records, so no entry here is one.               *)
EXTENDS TrieIndex

CONSTANTS
  Key,                    \* the keys the clients put
  NotFound, NoStore,
  partition_bits_,        \* log2 of the number of partitions
  store1_high_watermark_, store1_low_watermark_,
  Start,                  \* << layout, keys >>: the index's table of offsets, and
                          \* the keys that the back stores hold at the start
  MaxFront,               \* bound: entries of a front store
  MaxPuts                 \* bound: puts

ASSUME BackStoreAssumption ==
  /\ Key \subseteq Keys
  /\ partition_bits_ \in 0 .. KeyBits
  /\ skip_bits_ <= partition_bits_
  /\ store1_low_watermark_ \in Nat /\ store1_low_watermark_ < store1_high_watermark_
  /\ Start \subseteq Layout \X SUBSET Keys
  /\ MaxFront \in Nat \ {0} /\ MaxPuts \in Nat

VARIABLES
  index_type,             \* the layout bucketing_index was compiled with
  front,                  \* per partition: the entries of its front store
  stage1,                 \* per partition: the middle stores, newest first
  back,                   \* per partition: the back store, or NoStore
  back_store_size_,       \* per partition: entries of the back store
  merge_task_running_,    \* per partition
  queue,                  \* task_scheduler_merge_: partitions with a task, oldest first
  task,                   \* the merge thread
  dict,                   \* history: what was put last for each key
  puts                    \* number of puts; also the next datum

vars == <<index_type, front, stage1, back, back_store_size_, merge_task_running_, queue, task, dict, puts>>
stores == <<front, stage1, back, back_store_size_>>
-----------------------------------------------------------------------------
(* FawnDS_Partition.  alloc_stores reads "skip_bits", which no configuration *)
(* names (they say "skip-bits"), so its own skip_bits_ is always 0.          *)

Partition == 0 .. 2 ^ partition_bits_ - 1

\* The first partition_bits_ bits of the key.
get_partition(key) == key \div 2 ^ (KeyBits - partition_bits_)
-----------------------------------------------------------------------------
(* FawnDS_SF_Ordered_Trie: the index and the data store it points into.      *)

NewTrieStore(size) == [index |-> bucketing_index(index_type, size), data_store |-> << >>]

TriePutOK(s, key) == ~finalized(s.index) /\ Sorted(s.index, key)
TriePut(s, key, data) ==
  [index |-> insert(s.index, key), data_store |-> Append(s.data_store, << key, data >>)]

TrieFlush(s) == IF finalized(s.index) THEN s ELSE [s EXCEPT !.index = flush(@)]

\* Get scans the block the index points to, up to the end of the data store.
TrieGet(s, key) ==
  LET base == (locate(s.index, key) \div dest_keys_per_block_) * dest_keys_per_block_
      match == {i \in base .. base + dest_keys_per_block_ - 1 :
                  i < Len(s.data_store) /\ s.data_store[i + 1][1] = key}
  IN IF match = {} THEN NotFound ELSE s.data_store[Min(match) + 1][2]

\* A back store built from sorted keys, as a merge builds it.
Built(keys) ==
  LET seq == SetToSortSeq(keys, <)
  IN TrieFlush(FoldLeft(LAMBDA s, k : TriePut(s, k, 0), NewTrieStore(Len(seq)), seq))
-----------------------------------------------------------------------------
(* FawnDS_Partition::Put, Get and Enumerate over FawnDS_Combi.               *)

\* The newest entry of a key in a log.
Newest(entries, key) ==
  LET match == {i \in DOMAIN entries : entries[i][1] = key}
  IN IF match = {} THEN NotFound ELSE entries[Max(match)][2]

\* Get looks in the front store, the middle stores newest first, the back store.
Get(key) ==
  LET p == get_partition(key)
      found == SelectSeq(<<Newest(front[p], key)>>
                           \o [i \in DOMAIN stage1[p] |-> Newest(stage1[p][i], key)]
                           \o (IF back[p] = NoStore THEN << >> ELSE << TrieGet(back[p], key) >>),
                         LAMBDA d : d # NotFound)
  IN IF found = << >> THEN NotFound ELSE Head(found)

\* Enumerate: partition by partition, stage by stage, store by store.
CombiEnumerate(p) ==
  front[p] \o FlattenSeq(stage1[p]) \o (IF back[p] = NoStore THEN << >> ELSE back[p].data_store)
Enumerate == FlattenSeq([i \in 1 .. 2 ^ partition_bits_ |-> CombiEnumerate(i - 1)])

Put(key) ==
  LET p == get_partition(key)
  IN /\ puts < MaxPuts
     /\ Len(front[p]) < MaxFront
     /\ front' = [front EXCEPT ![p] = Append(@, << key, puts + 1 >>)]
     /\ dict' = [dict EXCEPT ![key] = puts + 1]
     /\ puts' = puts + 1
     /\ UNCHANGED <<stage1, back, back_store_size_, merge_task_running_, queue, task>>

\* ConvertTask: the front store becomes the newest middle store, and a merge
\* is queued unless one is.
Convert(p) ==
  LET middle == << front[p] >> \o stage1[p]
      merge == ~merge_task_running_[p] /\ Len(middle) >= store1_high_watermark_
  IN /\ front[p] # << >>
     /\ front' = [front EXCEPT ![p] = << >>]
     /\ stage1' = [stage1 EXCEPT ![p] = middle]
     /\ merge_task_running_' = [merge_task_running_ EXCEPT ![p] = @ \/ merge]
     /\ queue' = IF merge THEN Append(queue, p) ELSE queue
     /\ UNCHANGED <<back, back_store_size_, task, dict, puts>>
-----------------------------------------------------------------------------
(* MergeTask::Run on the only thread of task_scheduler_merge_.  "sorter" is  *)
(* the sorter's entries, in order once its input has ended; "it_m" and       *)
(* "it_b" are the next entries of the sorter and of the old back store.      *)

\* Sorter::Create and Sorter::Put: entries wait in the order they come.
NewSorter == << >>
SorterPut(entries, more) == entries \o more

IdleTask ==
  [pc |-> "idle", p |-> 0, sorted_middle_stores |-> 0, sorter |-> NewSorter,
   new_back_store |-> NoStore, it_m |-> 1, it_b |-> 1, num_adds |-> 0]

MergeStart ==
  /\ task.pc = "idle" /\ queue # << >>
  /\ task' = [IdleTask EXCEPT !.pc = "sort", !.p = Head(queue)]
  /\ queue' = Tail(queue)
  /\ UNCHANGED <<stores, merge_task_running_, dict, puts>>

MoreToSort == task.sorted_middle_stores + store1_low_watermark_ < Len(stage1[task.p])

\* sort: all entries of the oldest middle store that was not sorted yet.
OldestUnsorted == stage1[task.p][Len(stage1[task.p]) - task.sorted_middle_stores]

MergeSort ==
  /\ task.pc = "sort"
  /\ MoreToSort
  /\ task' = [task EXCEPT !.sorted_middle_stores = @ + 1,
                          !.sorter = SorterPut(@, OldestUnsorted),
                          !.num_adds = @ + Len(OldestUnsorted)]
  /\ UNCHANGED <<stores, merge_task_running_, queue, dict, puts>>

\* Sorter::Flush: by key, and by arrival among equal keys.
SorterFlush_Unstable(entries) ==
  LET refs == SetToSortSeq(DOMAIN entries,
                LAMBDA i, j : \/ entries[i][1] < entries[j][1]
                              \/ entries[i][1] = entries[j][1] /\ i > j)
  IN [i \in DOMAIN refs |-> entries[refs[i]]]
SorterFlush(entries) ==
  LET refs == SetToSortSeq(DOMAIN entries,
                LAMBDA i, j : \/ entries[i][1] < entries[j][1]
                              \/ entries[i][1] = entries[j][1] /\ i < j)
  IN [i \in DOMAIN refs |-> entries[refs[i]]]

\* The size the new back store is created for counts a key once per entry.
MergeCreate ==
  /\ task.pc = "sort"
  /\ ~MoreToSort
  /\ task' = [task EXCEPT !.pc = "merge", !.num_adds = 0,
                          !.sorter = SorterFlush(@),
                          !.new_back_store = NewTrieStore(back_store_size_[task.p] + task.num_adds)]
  /\ UNCHANGED <<stores, merge_task_running_, queue, dict, puts>>

OldEntries == IF back[task.p] = NoStore THEN << >> ELSE back[task.p].data_store
MiddleLeft == task.it_m <= Len(task.sorter)
BackLeft == task.it_b <= Len(OldEntries)
MiddleKey == task.sorter[task.it_m][1]
BackKey == OldEntries[task.it_b][1]

\* The last of the sorter's entries with the key at it_m.
LastDuplicate ==
  Max({i \in task.it_m .. Len(task.sorter) : task.sorter[i][1] = MiddleKey})

\* An assert of the table of offsets ends the process.
Aborted(s) == s.index.bucketing.failed

\* new_back_store->Put, and assert(ret == OK).
PutEntry(e, it_m, it_b) ==
  LET put == TriePut(task.new_back_store, e[1], e[2])
  IN task' = IF TriePutOK(task.new_back_store, e[1]) /\ ~Aborted(put)
             THEN [task EXCEPT !.new_back_store = put, !.num_adds = @ + 1,
                               !.it_m = it_m, !.it_b = it_b]
             ELSE [task EXCEPT !.pc = "aborted"]

\* A middle entry hides the back store's entry with its key.
MergeMiddle_KeepBack ==
  /\ task.pc = "merge"
  /\ MiddleLeft /\ (BackLeft => MiddleKey <= BackKey)
  /\ PutEntry(task.sorter[LastDuplicate], LastDuplicate + 1, task.it_b)
  /\ UNCHANGED <<stores, merge_task_running_, queue, dict, puts>>
MergeMiddle ==
  /\ task.pc = "merge"
  /\ MiddleLeft /\ (BackLeft => MiddleKey <= BackKey)
  /\ PutEntry(task.sorter[LastDuplicate], LastDuplicate + 1,
              IF BackLeft /\ MiddleKey = BackKey THEN task.it_b + 1 ELSE task.it_b)
  /\ UNCHANGED <<stores, merge_task_running_, queue, dict, puts>>

MergeBack ==
  /\ task.pc = "merge"
  /\ BackLeft /\ (MiddleLeft => BackKey < MiddleKey)
  /\ PutEntry(OldEntries[task.it_b], task.it_m, task.it_b + 1)
  /\ UNCHANGED <<stores, merge_task_running_, queue, dict, puts>>

\* Both iterators are at the end: Flush the new store and note its size.
NewSize == task.num_adds

MergeFlush ==
  /\ task.pc = "merge"
  /\ ~MiddleLeft /\ ~BackLeft
  /\ LET flushed == TrieFlush(task.new_back_store)
     IN task' = [task EXCEPT !.pc = IF Aborted(flushed) THEN "aborted" ELSE "swap",
                             !.new_back_store = flushed]
  /\ back_store_size_' = [back_store_size_ EXCEPT ![task.p] = NewSize]
  /\ UNCHANGED <<front, stage1, back, merge_task_running_, queue, dict, puts>>

\* The sorted middle stores go, from the old end, and the back store is replaced.
MergeSwap ==
  /\ task.pc = "swap"
  /\ stage1' = [stage1 EXCEPT ![task.p] = SubSeq(@, 1, Len(@) - task.sorted_middle_stores)]
  /\ back' = [back EXCEPT ![task.p] = task.new_back_store]
  /\ task' = [IdleTask EXCEPT !.pc = "end", !.p = task.p]
  /\ UNCHANGED <<front, back_store_size_, merge_task_running_, queue, dict, puts>>

Requeue_Never(more) == queue
Requeue(more) == IF more THEN Append(queue, task.p) ELSE queue

MergeEnd ==
  LET more == Len(stage1[task.p]) > store1_low_watermark_
  IN /\ task.pc = "end"
     /\ merge_task_running_' = [merge_task_running_ EXCEPT ![task.p] = more]
     /\ queue' = Requeue(more)
     /\ task' = IdleTask
     /\ UNCHANGED <<stores, dict, puts>>
-----------------------------------------------------------------------------
Init ==
  /\ front = [p \in Partition |-> << >>]
  /\ stage1 = [p \in Partition |-> << >>]
  /\ \E start \in Start :
       LET keys == start[2]
           of == [p \in Partition |-> {k \in keys : get_partition(k) = p}]
       IN /\ index_type = start[1]
          /\ back = [p \in Partition |-> IF of[p] = {} THEN NoStore ELSE Built(of[p])]
          /\ back_store_size_ = [p \in Partition |-> Cardinality(of[p])]
          /\ dict = [k \in Keys |-> IF k \in keys THEN 0 ELSE NotFound]
  /\ merge_task_running_ = [p \in Partition |-> FALSE]
  /\ queue = << >>
  /\ task = IdleTask
  /\ puts = 0

MergeTask ==
  \/ MergeStart \/ MergeSort \/ MergeCreate
  \/ MergeMiddle \/ MergeBack
  \/ MergeFlush \/ MergeSwap \/ MergeEnd

Next ==
  /\ \/ \E k \in Key : Put(k)
     \/ \E p \in Partition : Convert(p)
     \/ MergeTask
  /\ UNCHANGED index_type

\* The merge thread keeps running.
MergePending == task.pc \notin {"idle", "aborted"} \/ queue # << >>
Fairness == []<>~MergePending \/ []<><<MergeTask>>_vars

Spec == Init /\ [][Next]_vars
FairSpec == Spec /\ Fairness
-----------------------------------------------------------------------------
Data == 0 .. MaxPuts

\* Type correctness; one merge task per partition, queued or running.
TypeOK ==
  /\ \A p \in Partition :
       /\ \A i \in DOMAIN front[p] : front[p][i] \in Key \X Data
       /\ back_store_size_[p] \in Nat
       /\ merge_task_running_[p] =
            (p \in ToSet(queue) \/ (task.pc # "idle" /\ task.p = p))
  /\ IsInjective(queue) /\ ToSet(queue) \subseteq Partition
  /\ dict \in [Keys -> Data \cup {NotFound}]

\* At every moment of every merge, Get finds the newest datum put for a key and
\* does not find a key that was never put.  The whole read path is behind it:
\* partition, stage order, bucket, trie code, block scan.
GetExact == \A k \in Keys : Get(k) = dict[k]

\* No assert ends a merge.  "assert(ret == OK)": the new back store takes every
\* entry, because the two iterators give keys in increasing order, each once.
\* "assert(this->index_offset(current_i_) == index_offset)" and its like: every
\* layout of the table of offsets reads back the offsets of uneven buckets, also
\* those whose deltas do not fit their fields.
EntriesAccepted == task.pc # "aborted"

\* The offset table reads back what it was given, also after later inserts.  The
\* code asserts it at each insert, except in twolevel_absoff_bucketing, where the
\* asserts are commented out.
OffsetsReadBack ==
  \A p \in Partition :
    back[p] # NoStore =>
      \A i \in DOMAIN back[p].index.inserted :
        Offsets(back[p].index.bucketing, i - 1) = back[p].index.inserted[i]

\* Enumerate meets the newest datum of every key, and a back store holds each
\* of its keys once, in order, and as many as back_store_size_ says (while no
\* merge is about to replace it).
EnumerateComplete ==
  /\ \A k \in Keys : dict[k] # NotFound => Contains(Enumerate, << k, dict[k] >>)
  /\ \A p \in Partition :
       LET old == IF back[p] = NoStore THEN << >> ELSE back[p].data_store
       IN /\ \A i \in 1 .. Len(old) - 1 : old[i][1] < old[i + 1][1]
          /\ ~(task.pc = "swap" /\ task.p = p) => back_store_size_[p] = Len(old)

\* The merge thread, one for all partitions, always gets round to every queued
\* merge, and leaves no partition with more middle stores than the watermark
\* that calls for a merge.
MergesFinish ==
  []<>(\A p \in Partition : Len(stage1[p]) < store1_high_watermark_)
==============================================================================
