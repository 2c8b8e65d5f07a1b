--------------------------- MODULE FawnDS_Rewrite ---------------------------
(***************************************************************************)
(* Copying a FAWN-DS store (src/fawnds) while it is in use: Rewrite        *)
(* compacts it, Split moves part of its range to a new store, and Merge    *)
(* adds it to another store.  All three scan the log from its start        *)
(* without a lock, look under the lock whether it has grown, and scan on   *)
(* until they have caught up; then they return with the lock held.         *)
(*                                                                         *)
(* The hash table is the map from each key to the record Get reads, 0 if   *)
(* there is none (module FawnDS shows that it behaves as one).  A record   *)
(* is named by its place in the source's log, also where it was copied to. *)
(***************************************************************************)
EXTENDS Integers, Sequences, FiniteSets

CONSTANTS
  Key,
  InRange,    \* keys in the range of the store that is rewritten or split off
  Copies,     \* which of "Rewrite", "Split", "Merge" may run
  Refusing,   \* those whose new store may refuse an Insert
  None,
  MaxLog      \* bound on the records of the source's log

ASSUME CopyAssumption ==
  /\ InRange \subseteq Key /\ None \notin Key \cup Copies /\ MaxLog \in Nat
  /\ Copies \subseteq {"Rewrite", "Split", "Merge"} /\ Refusing \subseteq Copies

VARIABLES
  log, table,               \* the source store
  writer,                   \* the key being inserted, half written, or None
  op, pc,                   \* the copy under way and where it is
  start,                    \* the source's records when it began
  current_offset, ending_offset, checkpointed,
  new_log, new_table        \* the store copied to

source == <<log, table, writer>>
new == <<new_log, new_table>>
vars == <<source, op, pc, start, current_offset, ending_offset, checkpointed, new>>

\* An entry that the target of a Merge had before.
Base == -1
NoEntries == [k \in Key |-> 0]

Record == [key : Key, type : {"data", "deleteLog"}]

Init ==
  /\ log = << >> /\ table = NoEntries /\ writer = None
  /\ op = None /\ pc = "none" /\ start = 0
  /\ current_offset = 0 /\ ending_offset = 0 /\ checkpointed = FALSE
  /\ new_log = << >> /\ new_table = NoEntries
-----------------------------------------------------------------------------
(* Operations on the source under dbLock.  The source of a Merge is at rest.  *)

Unlocked == writer = None /\ pc # "done" /\ op # "Merge"

\* Insert sets a slot's key fragment and then its offset.
InsertBegin(k) ==
  /\ Unlocked /\ Len(log) < MaxLog
  /\ writer' = k
  /\ UNCHANGED <<log, table, op, pc, start, current_offset, ending_offset, checkpointed, new>>

InsertEnd ==
  /\ writer # None
  /\ log' = Append(log, [key |-> writer, type |-> "data"])
  /\ table' = [table EXCEPT ![writer] = Len(log')]
  /\ writer' = None
  /\ UNCHANGED <<op, pc, start, current_offset, ending_offset, checkpointed, new>>

Delete(k) ==
  /\ Unlocked /\ Len(log) < MaxLog
  /\ table[k] # 0
  /\ log' = Append(log, [key |-> k, type |-> "deleteLog"])
  /\ table' = [table EXCEPT ![k] = 0]
  /\ UNCHANGED <<writer, op, pc, start, current_offset, ending_offset, checkpointed, new>>

\* FindHashIndex without the lock.  While a slot is half written it has the new
\* key's fragment and the old offset: a deleted key may be found at a record
\* it had.
FindHashIndex(k) ==
  {table[k]} \cup
    {i \in DOMAIN log : /\ writer # None /\ table[k] = 0
                        /\ log[i] = [key |-> k, type |-> "data"]}
-----------------------------------------------------------------------------
(* The copy.                                                                  *)

Begin(o) ==
  /\ pc = "none" /\ writer = None
  /\ op' = o /\ pc' = "check" /\ start' = Len(log)
  /\ new_table' \in IF o = "Merge" THEN [Key -> {0, Base}] ELSE {NoEntries}
  /\ UNCHANGED <<source, current_offset, ending_offset, checkpointed, new_log>>

\* Take the lock and see how far the log goes.  Keep it if there is no more.
CaughtUp(end) == current_offset >= end

Check ==
  /\ pc = "check" /\ writer = None
  /\ ending_offset' = Len(log)
  /\ pc' = IF CaughtUp(ending_offset') THEN "done" ELSE "copy"
  /\ UNCHANGED <<source, op, start, current_offset, checkpointed, new>>

Skip == UNCHANGED <<pc, new>>
Fail == pc' = "failed" /\ UNCHANGED new

\* new_db->Insert of record i.  A refused Insert ends a Rewrite; Split and
\* Merge go on.
CopyInsert(k, i) ==
  \/ /\ new_table' = [new_table EXCEPT ![k] = i]
     /\ new_log' = Append(new_log, i)
     /\ UNCHANGED pc
  \/ /\ op \in Refusing
     /\ IF op = "Rewrite" THEN Fail ELSE Skip

\* new_db->Delete(key, checkpointed) for delete record i: an error if the new
\* store does not have the key.
writeLog_Always == TRUE
writeLog == checkpointed

CopyDelete_Ignored(k, i) == Skip

CopyDelete(k, i) ==
  IF new_table[k] = 0 THEN Fail
  ELSE /\ new_table' = [new_table EXCEPT ![k] = 0]
       /\ new_log' = IF writeLog THEN Append(new_log, i) ELSE new_log
       /\ UNCHANGED pc

\* Rewrite copies the record a key's entry points to.  It replays a delete
\* record only if the key has an entry.
Newest(e, i) == e = i

RewriteRecord(k, i) ==
  IF k \notin InRange THEN Skip
  ELSE \E e \in FindHashIndex(k) :
         IF e = 0 THEN Skip
         ELSE IF log[i].type = "deleteLog" THEN CopyDelete(k, i)
         ELSE IF Newest(e, i) THEN CopyInsert(k, i) ELSE Skip

\* Split copies every record of its range, Merge every record, and both
\* replay every delete record.
Wanted(k) == op = "Merge" \/ k \in InRange

SplitMergeRecord(k, i) ==
  IF log[i].type = "deleteLog" THEN CopyDelete(k, i)
  ELSE IF Wanted(k) THEN CopyInsert(k, i) ELSE Skip

CopyRecord ==
  LET i == current_offset + 1
      k == log[i].key IN
  /\ pc = "copy" /\ ~CaughtUp(ending_offset)
  /\ current_offset' = i
  /\ IF op = "Rewrite" THEN RewriteRecord(k, i) ELSE SplitMergeRecord(k, i)
  /\ UNCHANGED <<source, op, start, ending_offset, checkpointed>>

\* The hash table is written to the file after the first pass.
PassEnd_Last ==
  /\ pc = "copy" /\ CaughtUp(ending_offset)
  /\ checkpointed' = TRUE
  /\ pc' = "done"
  /\ UNCHANGED <<source, op, start, current_offset, ending_offset, new>>

PassEnd_Restart ==
  /\ pc = "copy" /\ CaughtUp(ending_offset)
  /\ checkpointed' = TRUE
  /\ pc' = "check" /\ current_offset' = 0
  /\ UNCHANGED <<source, op, start, ending_offset, new>>

PassEnd ==
  /\ pc = "copy" /\ CaughtUp(ending_offset)
  /\ checkpointed' = TRUE
  /\ pc' = "check"
  /\ UNCHANGED <<source, op, start, current_offset, ending_offset, new>>

Copier == Check \/ CopyRecord \/ PassEnd

Next ==
  \/ \E k \in Key : InsertBegin(k) \/ Delete(k)
  \/ InsertEnd
  \/ \E o \in Copies : Begin(o)
  \/ Copier

Spec == Init /\ [][Next]_vars
FairSpec == Spec /\ WF_vars(Copier) /\ WF_vars(InsertEnd)
-----------------------------------------------------------------------------
TypeOK ==
  /\ log \in Seq(Record)
  /\ table \in [Key -> 0 .. Len(log)] /\ writer \in Key \cup {None}
  /\ op \in Copies \cup {None}
  /\ pc \in {"none", "check", "copy", "done", "failed"}
  /\ start \in 0 .. Len(log)
  /\ current_offset \in 0 .. Len(log) /\ ending_offset \in 0 .. Len(log)
  /\ checkpointed \in BOOLEAN
  /\ new_log \in Seq(Nat \ {0}) /\ new_table \in [Key -> Base .. Len(log)]

\* Nothing is lost: when a copy returns, the new store has every key it should
\* have at the newest record the source has, whatever was inserted or deleted
\* while the log was scanned without the lock.
NothingLost ==
  pc = "done" => \A k \in Key : Wanted(k) /\ table[k] # 0 => new_table[k] = table[k]

\* A split or merged store is exact: a key that was deleted in the source is
\* gone, a key the source never had is as before, and a split-off store has no
\* keys of other ranges.
SplitMergeExact ==
  pc = "done" /\ op # "Rewrite" => \A k \in Key :
    /\ ~Wanted(k) => new_table[k] = 0
    /\ (\E i \in DOMAIN log : log[i].key = k) /\ table[k] = 0 => new_table[k] = 0
    /\ (\A i \in DOMAIN log : log[i].key # k) => new_table[k] \in {0, Base}

\* "write the deletelog only after the first checkpoint pass", "otherwise
\* deletelogs will never disappear": delete records that were in the log when
\* the copy began are not in the new one.
OldDeleteLogsDisappear ==
  \A j \in DOMAIN new_log : log[new_log[j]].type = "deleteLog" => new_log[j] > start

\* A copy catches up with its source and returns.
CopyReturns == pc = "check" ~> pc \in {"done", "failed"}

\* rewriteThread asserts that Rewrite returned a store.
RewriteSucceeds == op = "Rewrite" => pc # "failed"

\* "Rewrite needs to ... (2) Remove deleted items (orphans)": a key without an
\* entry in the source has none in the rewritten store.
NothingResurrected ==
  pc = "done" /\ op = "Rewrite" => \A k \in Key : table[k] = 0 => new_table[k] = 0
=============================================================================
