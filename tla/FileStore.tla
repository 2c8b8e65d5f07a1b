----------------------------- MODULE FileStore -----------------------------
(***************************************************************************)
(* The file under a SILT store (file_store.cc): entries are appended with  *)
(* buffered writes, read through a small page cache, a buffered or a       *)
(* direct file descriptor, and synced by a task of the one-worker          *)
(* scheduler of task.cc.  A bitset says which chunks of the file have      *)
(* bytes that direct I/O may miss.  The owner, FawnDS_SF, calls Append,    *)
(* Flush and Close under the write lock of fawnds_lock_ and Get under the  *)
(* read lock; the sync task takes neither.                                 *)
(*                                                                         *)
(* A byte of the file is a unit that names what was written: the length    *)
(* field of an entry is one unit, each byte of its data another.           *)
(***************************************************************************)
EXTENDS Integers, Sequences, FiniteSets

CONSTANTS
  page_size_, chunk_size_, cache_size_,
  Reader,          \* threads that call Get
  DataLens,        \* values of data_len_: 0 for entries of any length
  Lengths,         \* lengths of the data appended when data_len_ = 0
  SyncIntervals,   \* values of 1048576 * (1 << (rand() % 4))
  Offsets, Lens,   \* offset and len of a Get
  MaxAppends,      \* bound: entries appended, with the faults
  MaxFaults,       \* bound: writes and syncs that fail
  MaxOpens         \* bound: times the store is opened again

ASSUME FileStoreAssumption ==
  /\ page_size_ \in Nat \ {0} /\ chunk_size_ \in Nat \ {0} /\ cache_size_ \in Nat \ {0}
  /\ DataLens \subseteq Nat /\ Lengths \subseteq Nat /\ SyncIntervals \subseteq Nat
  /\ Offsets \subseteq Nat /\ Lens \subseteq Nat
  /\ MaxAppends \in Nat /\ MaxFaults \in Nat /\ MaxOpens \in Nat

VARIABLES
  opened,                               \* int_is_open()
  data_len_, next_append_id_, end_id_, next_sync_,
  file,                                 \* the bytes, as buffered I/O sees them
  unsynced,                             \* offsets written since the last fdatasync
  dirty_chunk_, num_chunks, syncing_chunk_,   \* bits set; number of bits
  cache_,                               \* page and bytes of every valid slot
  writer,                               \* the call under the write lock
  reader,                               \* each Get under the read lock
  task,                                 \* SyncTask: "none", "queued", "copied", "synced"
  acked,                                \* id and data of the entries appended
  lost,                                 \* dirty bits were dropped over unsynced bytes
  faults, opens

store == <<opened, data_len_, next_append_id_, end_id_, next_sync_>>
disk == <<file, unsynced>>
chunks == <<dirty_chunk_, num_chunks, syncing_chunk_>>
ghosts == <<acked, lost, faults, opens>>
vars == <<store, disk, chunks, cache_, writer, reader, task, ghosts>>

\* sync_mutex_ is held by the task from before it is queued until it is deleted.
sync_mutex_free == task = "none"
-----------------------------------------------------------------------------
(* Units of the file.                                                        *)

Zero == <<"zero", 0, 0>>
LengthUnit(n) == <<"length", n, 0>>
\* The data of the n-th append.
Data(n, len) == [i \in 1..len |-> <<"data", n, i>>]
\* What as<entry_length_t> makes of a unit.
AsLength(u) == IF u[1] = "length" THEN u[2] ELSE 0

HeaderLen == IF data_len_ = 0 THEN 1 ELSE 0
Bytes(data) == IF data_len_ = 0 THEN <<LengthUnit(Len(data))>> \o data ELSE data
Target(id) == IF data_len_ = 0 THEN id ELSE id * data_len_

\* f with bytes written at offset; a gap is filled with zeros.
WriteAt(f, offset, bytes) ==
  [p \in 1..IF offset + Len(bytes) > Len(f) THEN offset + Len(bytes) ELSE Len(f) |->
     IF p \in offset + 1..offset + Len(bytes) THEN bytes[p - offset]
     ELSE IF p <= Len(f) THEN f[p] ELSE Zero]
\* What pread delivers: less than count at the end of the file.
ReadAt(f, offset, count) ==
  SubSeq(f, offset + 1, IF offset + count > Len(f) THEN Len(f) ELSE offset + count)
-----------------------------------------------------------------------------
(* The page cache and the choice of the descriptor: int_pread.               *)

Slot(page) == page % cache_size_
\* The pages of the aligned request.
Pages(offset, count) ==
  (offset \div page_size_)..((offset + count + page_size_ - 1) \div page_size_) - 1
Page(f, page) == ReadAt(f, page * page_size_, page_size_)
Cacheable(offset, count) == Cardinality(Pages(offset, count)) <= cache_size_

NoPage == [page |-> -1, bytes |-> <<>>]
Hit_NoOffset(offset, count) ==
  /\ Cacheable(offset, count)
  /\ \A g \in Pages(offset, count) : cache_[Slot(g)].page # -1
Hit(offset, count) ==
  /\ Cacheable(offset, count)
  /\ \A g \in Pages(offset, count) : cache_[Slot(g)].page = g
\* The requested bytes of cached pages.
FromCache(offset, count) ==
  [i \in 1..count |->
     LET p == offset + i - 1 IN cache_[Slot(p \div page_size_)].bytes[(p % page_size_) + 1]]

\* Whole pages only; a page at the end of the file may still grow.
Fill(offset, count) ==
  LET read == {g \in Pages(offset, count) : Len(Page(file, g)) = page_size_}
  IN IF ~Cacheable(offset, count) THEN cache_
     ELSE [s \in DOMAIN cache_ |->
             IF \E g \in read : Slot(g) = s
             THEN LET g == CHOOSE h \in read : Slot(h) = s
                  IN [page |-> g, bytes |-> Page(file, g)]
             ELSE cache_[s]]
\* A write drops the cached pages it covers.
Invalidate(offset, len) ==
  [s \in DOMAIN cache_ |->
     IF cache_[s].page \in (offset \div page_size_)..((offset + len + page_size_ - 1) \div page_size_) - 1
     THEN NoPage ELSE cache_[s]]

Chunk(p) == p \div chunk_size_
\* start_chunk .. end_chunk - 1, one chunk more than the write needs.
WriteChunks(offset, len) ==
  Chunk(offset)..((offset + len + chunk_size_ - 1) \div chunk_size_)
\* Only the chunk of the first page decides.
Direct(offset) == Chunk((offset \div page_size_) * page_size_) \notin dirty_chunk_
-----------------------------------------------------------------------------
Idle == [pc |-> "idle", id |-> 0, data |-> <<>>, wrote |-> 0, closing |-> FALSE]
NoGet == [pc |-> "idle", phase |-> "length", id |-> 0, offset |-> 0, len |-> 0,
          at |-> 0, count |-> 0, direct |-> FALSE, ret |-> "OK", data |-> <<>>]

\* Create: a new file.
Init ==
  /\ opened = TRUE
  /\ data_len_ \in DataLens
  /\ next_append_id_ = 0 /\ end_id_ = 0 /\ next_sync_ \in SyncIntervals
  /\ file = <<>> /\ unsynced = {}
  /\ dirty_chunk_ = {} /\ num_chunks = 0 /\ syncing_chunk_ = {}
  /\ cache_ = [s \in 0..cache_size_ - 1 |-> NoPage]
  /\ writer = Idle /\ reader = [r \in Reader |-> NoGet]
  /\ task = "none"
  /\ acked = <<>> /\ lost = FALSE /\ faults = 0 /\ opens = 0

\* fawnds_lock_ of the owner.
WriteLock == writer.pc = "idle" /\ \A r \in Reader : reader[r].pc = "idle"
ReadLock == writer.pc = "idle"
-----------------------------------------------------------------------------
(* Append and Put, with the steps of int_pwritev.                            *)

WriteOffset == Target(writer.id)
WriteLen == Len(writer.data) + HeaderLen

\* The first marking, under a read lock of dirty_chunk_mutex_: chunks the
\* bitset does not reach yet are left to the second one.
MarkBefore(id, data) ==
  LET cs == WriteChunks(Target(id), Len(data) + HeaderLen)
  IN /\ dirty_chunk_' = dirty_chunk_ \cup {c \in cs : c < num_chunks}
     /\ syncing_chunk_' = syncing_chunk_ \ cs
     /\ UNCHANGED num_chunks

\* Append takes the id before it writes.
Append_(len) ==
  /\ opened /\ WriteLock
  /\ Len(acked) + faults < MaxAppends
  /\ len \in IF data_len_ = 0 THEN Lengths ELSE {data_len_}
  /\ LET data == Data(Len(acked) + faults + 1, len)
     IN /\ next_append_id_' = next_append_id_ + IF data_len_ = 0 THEN 1 + len ELSE 1
        /\ writer' = [Idle EXCEPT !.pc = "write", !.id = next_append_id_, !.data = data]
        /\ MarkBefore(next_append_id_, data)
  /\ UNCHANGED <<opened, data_len_, end_id_, next_sync_, disk, cache_, reader, task, ghosts>>

\* pwritev, in full or (a full disk) in part.
pwritev(written) ==
  /\ writer.pc = "write"
  /\ written \in 0..WriteLen
  /\ written < WriteLen => faults < MaxFaults
  /\ file' = IF written = 0 THEN file
             ELSE WriteAt(file, WriteOffset, SubSeq(Bytes(writer.data), 1, written))
  /\ unsynced' = unsynced \cup WriteOffset..WriteOffset + written - 1
  /\ lost' = (lost \/ ( /\ task = "synced"
                        /\ syncing_chunk_ \cap WriteChunks(WriteOffset, WriteLen) # {}))
  /\ faults' = IF written < WriteLen THEN faults + 1 ELSE faults
  /\ writer' = [writer EXCEPT !.pc = "mark", !.wrote = written]
  /\ UNCHANGED <<store, chunks, cache_, reader, task, acked, opens>>

\* The second marking and the cache; a short write is reported as an error.
MarkAfter ==
  /\ writer.pc = "mark"
  /\ LET cs == WriteChunks(WriteOffset, WriteLen)
         end_chunk == ((WriteOffset + WriteLen + chunk_size_ - 1) \div chunk_size_) + 1
     IN /\ dirty_chunk_' = dirty_chunk_ \cup cs \cup num_chunks..end_chunk - 1
        /\ num_chunks' = IF end_chunk <= num_chunks THEN num_chunks ELSE end_chunk
  /\ cache_' = Invalidate(WriteOffset, writer.wrote)
  /\ writer' = IF writer.wrote < WriteLen THEN Idle ELSE [writer EXCEPT !.pc = "sync"]
  /\ UNCHANGED <<store, disk, syncing_chunk_, reader, task, ghosts>>

\* The end of Put and of Append; int_sync(false) gives up if a sync is ongoing.
Append_sync(interval) ==
  /\ writer.pc = "sync"
  /\ interval \in SyncIntervals
  /\ LET end == IF data_len_ = 0 THEN writer.id + WriteLen ELSE writer.id + 1
         left == next_sync_ - WriteLen
     IN /\ end_id_' = IF end_id_ < end THEN end ELSE end_id_
        /\ next_sync_' = IF left < 0 THEN interval ELSE left
        /\ task' = IF left < 0 /\ sync_mutex_free /\ dirty_chunk_ # {} THEN "queued" ELSE task
  /\ acked' = Append(acked, [id |-> writer.id, data |-> writer.data])
  /\ writer' = Idle
  /\ UNCHANGED <<opened, data_len_, next_append_id_, disk, chunks, cache_, reader,
                 lost, faults, opens>>
-----------------------------------------------------------------------------
(* SyncTask::Run, on the scheduler's worker; the task is deleted, and the    *)
(* mutex released, at the end.                                               *)

SyncTask_copy ==
  /\ task = "queued"
  /\ syncing_chunk_' = dirty_chunk_
  /\ task' = "copied"
  /\ UNCHANGED <<store, disk, dirty_chunk_, num_chunks, cache_, writer, reader, ghosts>>

fdatasync ==
  /\ task = "copied"
  /\ \/ unsynced' = {} /\ task' = "synced" /\ UNCHANGED faults
     \/ faults < MaxFaults /\ faults' = faults + 1 /\ task' = "none" /\ UNCHANGED unsynced
  /\ UNCHANGED <<store, file, chunks, cache_, writer, reader, acked, lost, opens>>

SyncTask_clear ==
  /\ task = "synced"
  /\ dirty_chunk_' = dirty_chunk_ \ syncing_chunk_
  /\ task' = "none"
  /\ UNCHANGED <<store, disk, num_chunks, syncing_chunk_, cache_, writer, reader, ghosts>>
-----------------------------------------------------------------------------
(* Flush, Close, the destructor and Open, under the write lock.              *)

\* Flush; Close is Flush followed by int_close; the destructor only closes.
Flush ==
  /\ opened /\ WriteLock
  /\ writer' = [Idle EXCEPT !.pc = "flush"]
  /\ UNCHANGED <<store, disk, chunks, cache_, reader, task, ghosts>>
Close ==
  /\ opened /\ WriteLock /\ opens < MaxOpens
  /\ writer' = [Idle EXCEPT !.pc = "flush", !.closing = TRUE]
  /\ UNCHANGED <<store, disk, chunks, cache_, reader, task, ghosts>>
Destructor ==
  /\ opened /\ WriteLock /\ opens < MaxOpens
  /\ writer' = [Idle EXCEPT !.pc = "close"]
  /\ UNCHANGED <<store, disk, chunks, cache_, reader, task, ghosts>>

\* int_sync(true) waits for the mutex, and for the task it queues.
int_sync_NoWait ==
  /\ writer.pc = "flush"
  /\ writer' = [writer EXCEPT !.pc = "flushed"]
  /\ task' = IF sync_mutex_free /\ dirty_chunk_ # {} THEN "queued" ELSE task
  /\ UNCHANGED <<store, disk, chunks, cache_, reader, ghosts>>
int_sync ==
  /\ writer.pc = "flush" /\ sync_mutex_free
  /\ IF dirty_chunk_ = {}
     THEN writer' = [writer EXCEPT !.pc = "flushed"] /\ UNCHANGED task
     ELSE writer' = [writer EXCEPT !.pc = "wait"] /\ task' = "queued"
  /\ UNCHANGED <<store, disk, chunks, cache_, reader, ghosts>>
int_sync_wait_Clean ==
  /\ writer.pc = "wait" /\ sync_mutex_free /\ dirty_chunk_ = {}
  /\ writer' = [writer EXCEPT !.pc = "flushed"]
  /\ UNCHANGED <<store, disk, chunks, cache_, reader, task, ghosts>>
int_sync_wait ==
  /\ writer.pc = "wait" /\ sync_mutex_free
  /\ writer' = [writer EXCEPT !.pc = "flushed"]
  /\ UNCHANGED <<store, disk, chunks, cache_, reader, task, ghosts>>
FlushReturn ==
  /\ writer.pc = "flushed"
  /\ writer' = IF writer.closing THEN [Idle EXCEPT !.pc = "close"] ELSE Idle
  /\ UNCHANGED <<store, disk, chunks, cache_, reader, task, ghosts>>

int_close_NoLock ==
  /\ writer.pc = "close"
  /\ opened' = FALSE
  /\ dirty_chunk_' = {} /\ num_chunks' = 0 /\ syncing_chunk_' = {}
  /\ cache_' = [s \in DOMAIN cache_ |-> NoPage]
  /\ lost' = (lost \/ unsynced # {})
  /\ writer' = Idle
  /\ UNCHANGED <<data_len_, next_append_id_, end_id_, next_sync_, disk, reader, task,
                 acked, faults, opens>>
int_close ==
  /\ writer.pc = "close" /\ sync_mutex_free
  /\ opened' = FALSE
  /\ dirty_chunk_' = {} /\ num_chunks' = 0 /\ syncing_chunk_' = {}
  /\ cache_' = [s \in DOMAIN cache_ |-> NoPage]
  /\ lost' = (lost \/ unsynced # {})
  /\ writer' = Idle
  /\ UNCHANGED <<data_len_, next_append_id_, end_id_, next_sync_, disk, reader, task,
                 acked, faults, opens>>

\* The three descriptors; if one cannot be had, the others are closed again.
int_open == ~opened /\ opened' = TRUE

\* Open takes the length of the file for the next id, whatever data_len_ is.
Open(interval) ==
  /\ int_open
  /\ interval \in SyncIntervals
  /\ next_append_id_' = Len(file) /\ end_id_' = Len(file) /\ next_sync_' = interval
  /\ opens' = opens + 1
  /\ UNCHANGED <<data_len_, disk, chunks, cache_, writer, reader, task, acked, lost, faults>>
-----------------------------------------------------------------------------
(* Get: for entries of any length the length is read first.                  *)

\* What get does once length() has answered n.
AfterLength(g, n) ==
  IF g.offset > n THEN [g EXCEPT !.pc = "done", !.ret = "END"]
  ELSE LET len == IF g.offset + g.len > n THEN n - g.offset ELSE g.len
       IN [g EXCEPT !.pc = "look", !.phase = "data", !.len = len,
                    !.at = Target(g.id) + HeaderLen + g.offset,
                    !.count = IF data_len_ = 0 THEN len ELSE data_len_ - g.offset]

Get(r, id, offset, len) ==
  /\ opened /\ ReadLock /\ reader[r].pc = "idle"
  /\ LET g == [NoGet EXCEPT !.id = id, !.offset = offset, !.len = len]
     IN reader' = [reader EXCEPT ![r] =
          IF id >= end_id_ THEN [g EXCEPT !.pc = "done", !.ret = "END"]
          ELSE IF data_len_ = 0 THEN [g EXCEPT !.pc = "look", !.at = id, !.count = 1]
          ELSE AfterLength(g, data_len_)]
  /\ UNCHANGED <<store, disk, chunks, cache_, writer, task, ghosts>>

\* int_pread has delivered bytes.
AfterRead(g, bytes) ==
  IF g.phase = "length"
  THEN IF Len(bytes) # 1 THEN [g EXCEPT !.pc = "done", !.ret = "ERROR"]
       ELSE AfterLength(g, AsLength(bytes[1]))
  ELSE [g EXCEPT !.pc = "done",
                 !.data = IF Len(bytes) > g.len THEN SubSeq(bytes, 1, g.len) ELSE bytes]

int_pread_cache(r) ==
  /\ reader[r].pc = "look"
  /\ LET g == reader[r]
     IN reader' = [reader EXCEPT ![r] =
          IF Hit(g.at, g.count) THEN AfterRead(g, FromCache(g.at, g.count))
          ELSE [g EXCEPT !.pc = "read", !.direct = Direct(g.at)]]
  /\ UNCHANGED <<store, disk, chunks, cache_, writer, task, ghosts>>

int_pread(r) ==
  /\ reader[r].pc = "read"
  /\ LET g == reader[r]
     IN /\ reader' = [reader EXCEPT ![r] =
                        AfterRead([g EXCEPT !.direct = FALSE], ReadAt(file, g.at, g.count))]
        /\ cache_' = Fill(g.at, g.count)
  /\ UNCHANGED <<store, disk, chunks, writer, task, ghosts>>

Return(r) ==
  /\ reader[r].pc = "done"
  /\ reader' = [reader EXCEPT ![r] = NoGet]
  /\ UNCHANGED <<store, disk, chunks, cache_, writer, task, ghosts>>

Ids == {acked[i].id : i \in DOMAIN acked}

WriterStep ==
  \/ \E n \in 0..WriteLen : pwritev(n)
  \/ MarkAfter
  \/ \E s \in SyncIntervals : Append_sync(s)
  \/ int_sync \/ int_sync_wait \/ FlushReturn \/ int_close
WorkerStep == SyncTask_copy \/ fdatasync \/ SyncTask_clear
ReaderStep(r) == int_pread_cache(r) \/ int_pread(r) \/ Return(r)

Next ==
  \/ \E n \in Lengths \cup DataLens : Append_(n)
  \/ Flush \/ Close \/ Destructor
  \/ \E s \in SyncIntervals : Open(s)
  \/ \E r \in Reader, id \in Ids \cup {end_id_}, o \in Offsets, l \in Lens : Get(r, id, o, l)
  \/ WriterStep
  \/ WorkerStep
  \/ \E r \in Reader : ReaderStep(r)

\* A thread inside a call goes on; the worker runs the tasks of its queue.
Spec ==
  /\ Init /\ [][Next]_vars
  /\ WF_vars(WriterStep) /\ WF_vars(WorkerStep) /\ \A r \in Reader : WF_vars(ReaderStep(r))
-----------------------------------------------------------------------------
TypeOK ==
  /\ opened \in BOOLEAN /\ data_len_ \in DataLens
  /\ next_append_id_ \in Nat /\ end_id_ \in Nat /\ next_sync_ \in Nat
  /\ unsynced \subseteq 0..Len(file) - 1
  /\ num_chunks \in Nat
  /\ dirty_chunk_ \subseteq 0..num_chunks - 1 /\ syncing_chunk_ \subseteq 0..num_chunks - 1
  /\ writer.pc \in {"idle", "write", "mark", "sync", "flush", "wait", "flushed", "close"}
  /\ task \in {"none", "queued", "copied", "synced"}
  /\ faults \in 0..MaxFaults /\ opens \in 0..MaxOpens

\* A Get of an entry that Append has stored delivers the asked part of its data,
\* whatever was cached, synced, reopened or only half written meanwhile (get,
\* int_pread, int_pwritev).
ReadsReturnWritten ==
  \A r \in Reader : reader[r].pc = "done" =>
    \A i \in DOMAIN acked : reader[r].id = acked[i].id =>
      LET g == reader[r]
          n == Len(acked[i].data)
      IN IF g.offset > n THEN g.ret = "END"
         ELSE g.ret = "OK" /\ g.data = SubSeq(acked[i].data, g.offset + 1, g.offset + g.len)

\* The direct descriptor is chosen only for bytes that are on the disk, unless
\* the dirty bits have been lost ("the chunk is marked as dirty -- direct I/O
\* cannot be used").
DirectReadsSynced ==
  \A r \in Reader : reader[r].direct /\ ~lost =>
    unsynced \cap reader[r].at..reader[r].at + reader[r].count - 1 = {}

\* When Flush returns, every byte written is on the disk, unless a sync failed or
\* the dirty bits have been lost (int_sync(true)).
FlushDurable ==
  writer.pc = "flushed" /\ faults = 0 /\ ~lost => unsynced = {}

\* The same without the exception: int_sync is to "write all buffered writes to
\* flash/disk".
FlushSyncs ==
  writer.pc = "flushed" /\ faults = 0 /\ opens = 0 => unsynced = {}

\* The sync task never works on a closed file ("in order to avoid a race
\* condition with int_sync()" / "with int_close()").
SyncOnOpenFile == task # "none" => opened

\* The ids an iterator visits from id on, in order, with their data (Next);
\* k bounds the number of entries.
Enumerated ==
  LET step[k \in 0..MaxAppends, id \in 0..Len(file) + 1] ==
        IF k = 0 \/ id >= end_id_ THEN <<>>
        ELSE LET n == IF data_len_ = 0 THEN AsLength(file[id + 1]) ELSE data_len_
             IN <<[id |-> id, data |-> ReadAt(file, Target(id) + HeaderLen, n)]>>
                  \o step[k - 1, id + IF data_len_ = 0 THEN 1 + n ELSE 1]
  IN step[MaxAppends, 0]

\* An iterator over the file visits exactly the entries that Append has stored,
\* in order (IteratorElem::Next), if no write failed; a failed write leaves a
\* gap, as its id is not reused.  After Open this holds for entries with a length
\* field only, as ids are not offsets otherwise.
EnumerateExact ==
  writer.pc = "idle" /\ faults = 0 /\ (data_len_ = 0 \/ opens = 0) => Enumerated = acked

\* Every call returns: neither the mutex handed over to the task nor the wait in
\* Flush stops the threads.
CallsReturn ==
  /\ []<>(writer.pc = "idle")
  /\ \A r \in Reader : []<>(reader[r].pc = "idle")
=============================================================================
