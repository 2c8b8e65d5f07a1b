-------------------------- MODULE FileStore_proofs --------------------------
(***************************************************************************)
(* Proofs about the file under a store, for pages, chunks and entries of   *)
(* any size and any number of faults: the sync task and the closing of the *)
(* file exclude each other, and Flush leaves nothing unsynced unless the   *)
(* dirty bits were lost or a sync failed.                                  *)
(***************************************************************************)
EXTENDS FileStore, SequenceTheorems, TLAPS

Unit == {"zero", "length", "data"} \X Int \X Int
WriterPc == {"idle", "write", "mark", "sync", "flush", "wait", "flushed", "close"}
Writer == [pc : WriterPc, id : Int, data : Seq(Unit), wrote : Int, closing : BOOLEAN]

Types ==
  /\ data_len_ \in Nat /\ next_append_id_ \in Int /\ file \in Seq(Unit)
  /\ unsynced \subseteq Int /\ writer \in Writer
  /\ faults \in Nat /\ lost \in BOOLEAN /\ acked \in Seq([id : Int, data : Seq(Unit)])
  /\ writer.pc = "mark" => writer.wrote \in 0 .. WriteLen

\* A call under the write lock and the task both need the file open.
OnOpenFile ==
  /\ task # "none" => opened
  /\ writer.pc # "idle" => opened

\* Unless bits were lost, every byte that is not on the disk lies in a dirty
\* chunk, or the write that put it there is about to mark it; the task clears no
\* bit of a byte written after its fdatasync; and a Flush whose task has synced
\* the file has nothing left to sync.
Durable ==
  ~lost =>
    /\ \A p \in unsynced : \/ Chunk(p) \in dirty_chunk_
                           \/ writer.pc = "mark" /\ p \in WriteOffset .. WriteOffset + writer.wrote - 1
    /\ task = "synced" => \A p \in unsynced : Chunk(p) \notin syncing_chunk_
    /\ writer.pc = "wait" /\ faults = 0 /\ task \in {"none", "synced"} => unsynced = {}
    /\ writer.pc = "flushed" /\ faults = 0 => unsynced = {}

relevant == <<opened, data_len_, next_append_id_, file, unsynced, dirty_chunk_, syncing_chunk_,
              writer, task, lost, faults, acked>>
-----------------------------------------------------------------------------
(* Arithmetic and sequences.                                                 *)

LEMMA DivBounds ==
  ASSUME NEW a \in Int, NEW n \in Nat \ {0}
  PROVE  /\ a \div n \in Int
         /\ n * (a \div n) <= a /\ a < n * (a \div n) + n
OBVIOUS

LEMMA MulMono ==
  ASSUME NEW x \in Int, NEW y \in Int, NEW n \in Nat, x <= y
  PROVE  n * x <= n * y
OBVIOUS

\* A chunk's number does not fall when the offset grows.
LEMMA ChunkMono ==
  ASSUME NEW a \in Int, NEW b \in Int, a <= b
  PROVE  /\ a \div chunk_size_ <= b \div chunk_size_
         /\ a \div chunk_size_ \in Int /\ b \div chunk_size_ \in Int
<1> DEFINE n == chunk_size_
           x == a \div n
           y == b \div n
<1>1. n \in Nat \ {0}
  BY FileStoreAssumption
<1>2. /\ x \in Int /\ y \in Int /\ n * x <= a /\ b < n * y + n
  BY <1>1, DivBounds
<1> HIDE DEF x, y, n
<1>3. ASSUME y + 1 <= x PROVE FALSE
  <2>1. n * (y + 1) <= n * x
    BY <1>1, <1>2, <1>3, MulMono
  <2>2. n * (y + 1) = n * y + n
    BY <1>1, <1>2
  <2>3. n * x \in Int /\ n * y \in Int
    BY <1>1, <1>2
  <2> QED BY <1>1, <1>2, <2>1, <2>2, <2>3
<1>4. x <= y
  BY <1>2, <1>3
<1> QED BY <1>2, <1>4 DEF x, y, n

\* The chunks that a write marks contain every byte it writes.
LEMMA MarksWhatItWrites ==
  ASSUME NEW offset \in Int, NEW len \in Nat, NEW p \in offset .. offset + len - 1
  PROVE  Chunk(p) \in WriteChunks(offset, len)
<1>1. offset <= p /\ p <= offset + len + chunk_size_ - 1 /\ offset + len + chunk_size_ - 1 \in Int
  BY FileStoreAssumption
<1>2. /\ offset \div chunk_size_ <= p \div chunk_size_
      /\ p \div chunk_size_ <= (offset + len + chunk_size_ - 1) \div chunk_size_
      /\ offset \div chunk_size_ \in Int /\ p \div chunk_size_ \in Int
      /\ (offset + len + chunk_size_ - 1) \div chunk_size_ \in Int
  BY <1>1, ChunkMono
<1> QED BY <1>2 DEF Chunk, WriteChunks

LEMMA DataType ==
  ASSUME NEW n \in Int, NEW len \in Nat
  PROVE  Data(n, len) \in Seq(Unit)
<1>1. \A i \in 1 .. len : <<"data", n, i>> \in Unit
  BY DEF Unit
<1>2. Data(n, len) \in [1 .. len -> Unit]
  BY <1>1 DEF Data
<1> QED BY <1>2, SeqDef

LEMMA BytesType ==
  ASSUME NEW data \in Seq(Unit)
  PROVE  Bytes(data) \in Seq(Unit) /\ Len(Bytes(data)) = Len(data) + HeaderLen
<1>1. LengthUnit(Len(data)) \in Unit
  BY DEF LengthUnit, Unit
<1>2. \A u \in Unit : <<u>> \o data \in Seq(Unit) /\ Len(<<u>> \o data) = Len(data) + 1
  OBVIOUS
<1>3. CASE data_len_ = 0
  BY <1>1, <1>2, <1>3 DEF Bytes, HeaderLen
<1>4. CASE data_len_ # 0
  BY <1>4 DEF Bytes, HeaderLen
<1> QED BY <1>3, <1>4

LEMMA WriteAtType ==
  ASSUME NEW f \in Seq(Unit), NEW offset \in Int, NEW bytes \in Seq(Unit)
  PROVE  WriteAt(f, offset, bytes) \in Seq(Unit)
<1> DEFINE m == IF offset + Len(bytes) > Len(f) THEN offset + Len(bytes) ELSE Len(f)
<1>1. m \in Nat
  OBVIOUS
<1>2. \A p \in 1 .. m : (IF p \in offset + 1 .. offset + Len(bytes) THEN bytes[p - offset]
                         ELSE IF p <= Len(f) THEN f[p] ELSE Zero) \in Unit
  <2> SUFFICES ASSUME NEW p \in 1 .. m
               PROVE  (IF p \in offset + 1 .. offset + Len(bytes) THEN bytes[p - offset]
                       ELSE IF p <= Len(f) THEN f[p] ELSE Zero) \in Unit
    OBVIOUS
  <2>1. Zero \in Unit
    BY DEF Zero, Unit
  <2>2. p \in offset + 1 .. offset + Len(bytes) => p - offset \in 1 .. Len(bytes)
    BY <1>1
  <2>3. p <= Len(f) => p \in 1 .. Len(f)
    BY <1>1
  <2> QED BY <2>1, <2>2, <2>3
<1>3. WriteAt(f, offset, bytes) \in [1 .. m -> Unit]
  BY <1>2 DEF WriteAt
<1> HIDE DEF m
<1> QED BY <1>1, <1>3
-----------------------------------------------------------------------------
(* The invariants, action by action.                                         *)

Inv == Types /\ OnOpenFile /\ Durable

LEMMA IdleType == Idle \in Writer /\ Idle.pc = "idle"
BY DEF Idle, Writer, WriterPc

LEMMA SetPc ==
  ASSUME NEW w \in Writer, NEW pc \in WriterPc
  PROVE  [w EXCEPT !.pc = pc] \in Writer /\ [w EXCEPT !.pc = pc].pc = pc
BY DEF Writer

LEMMA InvInit == Init => Inv
<1> SUFFICES ASSUME Init PROVE Inv
  OBVIOUS
<1>1. /\ data_len_ \in Nat /\ next_append_id_ = 0 /\ file = << >> /\ unsynced = {} /\ writer = Idle
      /\ faults = 0 /\ lost = FALSE /\ acked = << >> /\ task = "none" /\ opened
  BY FileStoreAssumption DEF Init
<1>2. writer \in Writer /\ writer.pc = "idle"
  BY <1>1, IdleType
<1>3. Types
  <2>1. << >> \in Seq(Unit) /\ << >> \in Seq([id : Int, data : Seq(Unit)])
    OBVIOUS
  <2>2. file \in Seq(Unit) /\ acked \in Seq([id : Int, data : Seq(Unit)])
    BY <1>1, <2>1
  <2>3. next_append_id_ \in Int /\ unsynced \subseteq Int /\ faults \in Nat
    BY <1>1
  <2>4. lost \in BOOLEAN
    BY <1>1
  <2> QED BY <1>1, <1>2, <2>2, <2>3, <2>4 DEF Types
<1>4. OnOpenFile /\ Durable
  BY <1>1, <1>2 DEF OnOpenFile, Durable
<1> QED BY <1>3, <1>4 DEF Inv

LEMMA WriteTypes ==
  ASSUME Types
  PROVE  /\ WriteOffset \in Int /\ WriteLen \in Nat
         /\ writer.data \in Seq(Unit) /\ writer.wrote \in Int /\ writer.pc \in WriterPc
<1>1. writer.data \in Seq(Unit) /\ writer.id \in Int /\ writer.wrote \in Int /\ writer.pc \in WriterPc
  BY DEF Types, Writer
<1>2. Len(writer.data) \in Nat
  BY <1>1
<1>3. WriteOffset \in Int
  BY <1>1 DEF Types, WriteOffset, Target
<1>4. HeaderLen \in {0, 1}
  BY DEF HeaderLen
<1>5. WriteLen \in Nat
  BY <1>2, <1>4 DEF WriteLen
<1> QED BY <1>1, <1>3, <1>5

\* A call enters, or leaves, between its writes: the dirty bits only grow, the
\* bits to be cleared only shrink, and the writer is where no byte depends on it.
LEMMA QuietWriter ==
  ASSUME Inv, UNCHANGED <<data_len_, file, unsynced, task, lost, faults, acked, opened>>, opened,
         next_append_id_' \in Int, writer' \in Writer, writer'.pc \notin {"mark", "wait", "flushed"},
         writer.pc # "mark",
         dirty_chunk_ \subseteq dirty_chunk_', syncing_chunk_' \subseteq syncing_chunk_
  PROVE  Inv'
<1>1. Types'
  BY DEF Inv, Types
<1>2. OnOpenFile'
  BY DEF Inv, OnOpenFile
<1>3. Durable'
  BY DEF Inv, Durable, Chunk
<1> QED BY <1>1, <1>2, <1>3 DEF Inv

LEMMA Append_Step ==
  ASSUME Inv, NEW len, Append_(len)
  PROVE  Inv'
<1> DEFINE d == Data(Len(acked) + faults + 1, len)
<1>1. len \in Nat /\ Len(acked) + faults + 1 \in Int
  BY FileStoreAssumption DEF Append_, Inv, Types
<1>2. d \in Seq(Unit)
  BY <1>1, DataType
<1>3. /\ writer' = [Idle EXCEPT !.pc = "write", !.id = next_append_id_, !.data = d]
      /\ next_append_id_' = next_append_id_ + IF data_len_ = 0 THEN 1 + len ELSE 1
      /\ writer.pc = "idle" /\ opened
      /\ UNCHANGED <<data_len_, file, unsynced, task, lost, faults, acked, opened>>
      /\ dirty_chunk_ \subseteq dirty_chunk_' /\ syncing_chunk_' \subseteq syncing_chunk_
  BY DEF Append_, MarkBefore, WriteLock, disk, ghosts
<1> HIDE DEF d
<1>4. writer' = [pc |-> "write", id |-> next_append_id_, data |-> d, wrote |-> 0, closing |-> FALSE]
  BY <1>3 DEF Idle
<1>5. next_append_id_' \in Int /\ writer' \in Writer /\ writer'.pc = "write"
  <2>1. next_append_id_ \in Int
    BY DEF Inv, Types
  <2>2. next_append_id_' \in Int
    BY <1>1, <1>3, <2>1
  <2> QED BY <1>2, <1>4, <2>1, <2>2 DEF Writer, WriterPc
<1> QED BY <1>3, <1>5, QuietWriter

LEMMA CallStep ==
  ASSUME Inv, Flush \/ Close \/ Destructor
  PROVE  Inv'
<1>1. /\ writer.pc = "idle" /\ opened
      /\ UNCHANGED <<data_len_, file, unsynced, task, lost, faults, acked, opened,
                     next_append_id_, dirty_chunk_, syncing_chunk_>>
      /\ \E pc \in {"flush", "close"}, closing \in BOOLEAN :
           writer' = [pc |-> pc, id |-> 0, data |-> << >>, wrote |-> 0, closing |-> closing]
  BY DEF Flush, Close, Destructor, WriteLock, store, disk, chunks, ghosts, Idle
<1>2. next_append_id_' \in Int /\ writer' \in Writer /\ writer'.pc \in {"flush", "close"}
  BY <1>1 DEF Inv, Types, Writer, WriterPc
<1> QED BY <1>1, <1>2, QuietWriter

LEMMA OpenStep ==
  ASSUME Inv, NEW interval, Open(interval)
  PROVE  Inv'
<1>1. /\ opened' = TRUE /\ next_append_id_' = Len(file)
      /\ UNCHANGED <<data_len_, file, unsynced, task, lost, faults, acked, writer,
                     dirty_chunk_, syncing_chunk_>>
  BY DEF Open, int_open, disk, chunks
<1>2. Types'
  <2>1. WriteLen' = WriteLen
    BY <1>1 DEF WriteLen, HeaderLen
  <2>2. Len(file) \in Int
    BY DEF Inv, Types
  <2> QED BY <1>1, <2>1, <2>2 DEF Inv, Types
<1>3. OnOpenFile'
  BY <1>1 DEF Inv, OnOpenFile
<1>4. Durable'
  BY <1>1 DEF Inv, Durable, Chunk, WriteOffset, Target
<1> QED BY <1>2, <1>3, <1>4 DEF Inv

\* The bytes written join the unsynced ones.  If their chunks are among those the
\* task is about to clear, bits are lost.
LEMMA pwritevStep ==
  ASSUME Inv, NEW written, pwritev(written)
  PROVE  Inv'
<1> DEFINE new == WriteOffset .. WriteOffset + written - 1
           bytes == SubSeq(Bytes(writer.data), 1, written)
<1>1. /\ WriteOffset \in Int /\ WriteLen \in Nat /\ writer.data \in Seq(Unit)
  BY WriteTypes DEF Inv
<1>2. /\ writer.pc = "write" /\ written \in 0 .. WriteLen
      /\ file' = IF written = 0 THEN file ELSE WriteAt(file, WriteOffset, bytes)
      /\ unsynced' = unsynced \cup new
      /\ lost' = (lost \/ ( /\ task = "synced"
                            /\ syncing_chunk_ \cap WriteChunks(WriteOffset, WriteLen) # {}))
      /\ faults' = IF written < WriteLen THEN faults + 1 ELSE faults
      /\ writer' = [writer EXCEPT !.pc = "mark", !.wrote = written]
      /\ UNCHANGED <<opened, data_len_, next_append_id_, dirty_chunk_, syncing_chunk_, task, acked>>
  BY DEF pwritev, store, chunks
<1> HIDE DEF new, bytes
<1>3. writer' = [pc |-> "mark", id |-> writer.id, data |-> writer.data, wrote |-> written,
                 closing |-> writer.closing]
  BY <1>2 DEF Inv, Types, Writer
<1>4. WriteOffset' = WriteOffset /\ WriteLen' = WriteLen /\ writer'.pc = "mark" /\ writer'.wrote = written
  BY <1>2, <1>3 DEF WriteOffset, WriteLen, Target, HeaderLen
<1>5. bytes \in Seq(Unit)
  <2>1. Bytes(writer.data) \in Seq(Unit) /\ Len(Bytes(writer.data)) = WriteLen
    BY <1>1, BytesType DEF WriteLen
  <2> QED BY <1>1, <1>2, <2>1 DEF bytes
<1>6. file' \in Seq(Unit)
  BY <1>1, <1>2, <1>5, WriteAtType DEF Inv, Types
<1>7. written \in Int /\ new \subseteq Int
  BY <1>1, <1>2 DEF new
<1>8. Types'
  <2>1. writer' \in Writer
    BY <1>3, <1>7 DEF Inv, Types, Writer, WriterPc
  <2>2. faults' \in Nat /\ lost' \in BOOLEAN
    BY <1>2 DEF Inv, Types
  <2>3. unsynced' \subseteq Int
    BY <1>2, <1>7 DEF Inv, Types
  <2> QED BY <1>2, <1>4, <1>6, <2>1, <2>2, <2>3 DEF Inv, Types
<1>9. OnOpenFile'
  BY <1>2, <1>4 DEF Inv, OnOpenFile
<1>10. ASSUME ~lost', task = "synced", NEW p \in new PROVE Chunk(p) \notin syncing_chunk_
  <2>1. p \in WriteOffset .. WriteOffset + WriteLen - 1
    BY <1>1, <1>2, <1>10 DEF new
  <2>2. Chunk(p) \in WriteChunks(WriteOffset, WriteLen)
    BY <1>1, <2>1, MarksWhatItWrites
  <2> QED BY <1>2, <1>10, <2>2
<1>11. Durable'
  <2> SUFFICES ASSUME ~lost'
               PROVE  /\ \A p \in unsynced' : \/ Chunk(p) \in dirty_chunk_'
                                              \/ p \in WriteOffset .. WriteOffset + written - 1
                      /\ task' = "synced" => \A p \in unsynced' : Chunk(p) \notin syncing_chunk_'
    BY <1>4 DEF Durable, Chunk
  <2>1. ~lost
    BY <1>2
  <2>2. \A p \in unsynced : Chunk(p) \in dirty_chunk_
    BY <1>2, <2>1 DEF Inv, Durable
  <2>3. task = "synced" => \A p \in unsynced : Chunk(p) \notin syncing_chunk_
    BY <2>1 DEF Inv, Durable
  <2> QED BY <1>2, <1>10, <2>2, <2>3 DEF new
<1> QED BY <1>8, <1>9, <1>11 DEF Inv

\* The second marking makes every chunk that was written to dirty.
LEMMA MarkAfterStep ==
  ASSUME Inv, MarkAfter
  PROVE  Inv'
<1>1. /\ WriteOffset \in Int /\ WriteLen \in Nat /\ writer.wrote \in 0 .. WriteLen
  BY WriteTypes DEF Inv, Types, MarkAfter
<1>2. /\ writer.pc = "mark"
      /\ dirty_chunk_ \subseteq dirty_chunk_' /\ WriteChunks(WriteOffset, WriteLen) \subseteq dirty_chunk_'
      /\ UNCHANGED <<opened, data_len_, next_append_id_, file, unsynced, syncing_chunk_, task, lost,
                     faults, acked>>
      /\ writer' = IF writer.wrote < WriteLen THEN Idle ELSE [writer EXCEPT !.pc = "sync"]
  BY DEF MarkAfter, store, disk, ghosts
<1>3. writer' \in Writer /\ writer'.pc \in {"idle", "sync"}
  BY <1>2 DEF Inv, Types, Writer, WriterPc, Idle
<1>4. Types'
  BY <1>2, <1>3 DEF Inv, Types
<1>5. OnOpenFile'
  BY <1>2, <1>3 DEF Inv, OnOpenFile
<1>6. ASSUME NEW p \in unsynced, ~lost PROVE Chunk(p) \in dirty_chunk_'
  <2>1. CASE p \in WriteOffset .. WriteOffset + writer.wrote - 1
    <3>1. p \in WriteOffset .. WriteOffset + WriteLen - 1
      BY <1>1, <2>1
    <3> QED BY <1>1, <1>2, <3>1, MarksWhatItWrites
  <2> QED BY <1>2, <1>6, <2>1 DEF Inv, Durable
<1>7. Durable'
  BY <1>2, <1>3, <1>6 DEF Inv, Durable, Chunk
<1> QED BY <1>4, <1>5, <1>7 DEF Inv

LEMMA Append_syncStep ==
  ASSUME Inv, NEW interval, Append_sync(interval)
  PROVE  Inv'
<1>1. /\ writer.pc = "sync" /\ writer' = Idle
      /\ task' \in {task, "queued"}
      /\ acked' = Append(acked, [id |-> writer.id, data |-> writer.data])
      /\ UNCHANGED <<opened, data_len_, next_append_id_, file, unsynced, dirty_chunk_,
                     syncing_chunk_, lost, faults>>
  BY DEF Append_sync, disk, chunks
<1>2. acked' \in Seq([id : Int, data : Seq(Unit)])
  BY <1>1 DEF Inv, Types, Writer
<1>3. writer' \in Writer /\ writer'.pc = "idle"
  BY <1>1, IdleType
<1>4. Types'
  BY <1>1, <1>2, <1>3 DEF Inv, Types
<1>5. OnOpenFile'
  BY <1>1, <1>3 DEF Inv, OnOpenFile
<1>6. Durable'
  BY <1>1, <1>3 DEF Inv, Durable, Chunk
<1> QED BY <1>4, <1>5, <1>6 DEF Inv

\* Flush finds nothing dirty, or waits for the task that it queues.
LEMMA FlushStep ==
  ASSUME Inv, int_sync \/ int_sync_wait \/ FlushReturn
  PROVE  Inv'
<1>1. /\ writer.pc \in {"flush", "wait", "flushed"}
      /\ UNCHANGED <<opened, data_len_, next_append_id_, file, unsynced, dirty_chunk_,
                     syncing_chunk_, lost, faults, acked>>
  BY DEF int_sync, int_sync_wait, FlushReturn, store, disk, chunks, ghosts
<1>2. \A pc \in WriterPc : [writer EXCEPT !.pc = pc] \in Writer /\ [writer EXCEPT !.pc = pc].pc = pc
  BY SetPc DEF Inv, Types
<1>3. [Idle EXCEPT !.pc = "close"] \in Writer /\ [Idle EXCEPT !.pc = "close"].pc = "close"
  BY IdleType, SetPc DEF WriterPc
<1>4. /\ writer' \in Writer
      /\ \/ writer.pc = "flush" /\ task = "none" /\ dirty_chunk_ = {} /\ writer'.pc = "flushed"
            /\ UNCHANGED task
         \/ writer.pc = "flush" /\ writer'.pc = "wait" /\ task' = "queued"
         \/ writer.pc = "wait" /\ task = "none" /\ writer'.pc = "flushed" /\ UNCHANGED task
         \/ writer.pc = "flushed" /\ writer'.pc \in {"close", "idle"} /\ UNCHANGED task
  <2>1. CASE int_sync
    <3>1. /\ [writer EXCEPT !.pc = "flushed"] \in Writer /\ [writer EXCEPT !.pc = "flushed"].pc = "flushed"
          /\ [writer EXCEPT !.pc = "wait"] \in Writer /\ [writer EXCEPT !.pc = "wait"].pc = "wait"
      BY <1>2 DEF WriterPc
    <3> QED BY <2>1, <3>1 DEF int_sync, sync_mutex_free
  <2>2. CASE int_sync_wait
    <3>1. [writer EXCEPT !.pc = "flushed"] \in Writer /\ [writer EXCEPT !.pc = "flushed"].pc = "flushed"
      BY <1>2 DEF WriterPc
    <3> QED BY <2>2, <3>1 DEF int_sync_wait, sync_mutex_free
  <2>3. CASE FlushReturn
    BY <2>3, <1>3, IdleType DEF FlushReturn
  <2> QED BY <2>1, <2>2, <2>3
<1>5. Types'
  BY <1>1, <1>4 DEF Inv, Types
<1>6. OnOpenFile'
  BY <1>1, <1>4 DEF Inv, OnOpenFile
<1>7. Durable'
  BY <1>1, <1>4 DEF Inv, Durable, Chunk
<1> QED BY <1>5, <1>6, <1>7 DEF Inv

\* Closing drops the dirty bits, and waits for the task to be gone.
LEMMA int_closeStep ==
  ASSUME Inv, int_close
  PROVE  Inv'
<1>1. /\ writer.pc = "close" /\ task = "none" /\ writer' = Idle /\ opened' = FALSE
      /\ dirty_chunk_' = {} /\ syncing_chunk_' = {} /\ lost' = (lost \/ unsynced # {})
      /\ UNCHANGED <<data_len_, next_append_id_, file, unsynced, task, faults, acked>>
  BY DEF int_close, disk, sync_mutex_free
<1>2. writer' \in Writer /\ writer'.pc = "idle"
  BY <1>1, IdleType
<1>3. Types'
  BY <1>1, <1>2 DEF Inv, Types
<1>4. OnOpenFile'
  BY <1>1, <1>2 DEF OnOpenFile
<1>5. Durable'
  BY <1>1, <1>2 DEF Inv, Durable
<1> QED BY <1>3, <1>4, <1>5 DEF Inv

LEMMA WorkerStepInv ==
  ASSUME Inv, WorkerStep
  PROVE  Inv'
<1>1. UNCHANGED <<opened, data_len_, next_append_id_, file, writer, lost, acked>>
  BY DEF WorkerStep, SyncTask_copy, fdatasync, SyncTask_clear, store, disk, ghosts
<1>2. WriteLen' = WriteLen /\ WriteOffset' = WriteOffset
  BY <1>1 DEF WriteLen, WriteOffset, HeaderLen, Target
<1>3. CASE SyncTask_copy
  <2>1. /\ task = "queued" /\ task' = "copied"
        /\ UNCHANGED <<unsynced, dirty_chunk_, faults>>
    BY <1>3 DEF SyncTask_copy, disk, ghosts
  <2>2. Types' /\ OnOpenFile'
    BY <1>1, <1>2, <2>1 DEF Inv, Types, OnOpenFile
  <2>3. Durable'
    BY <1>1, <1>2, <2>1 DEF Inv, Durable, Chunk
  <2> QED BY <2>2, <2>3 DEF Inv
<1>4. CASE fdatasync
  <2>1. /\ task = "copied" /\ UNCHANGED <<dirty_chunk_, syncing_chunk_>>
        /\ \/ unsynced' = {} /\ task' = "synced" /\ UNCHANGED faults
           \/ faults' = faults + 1 /\ task' = "none" /\ UNCHANGED unsynced
    BY <1>4 DEF fdatasync, chunks
  <2>2. Types' /\ OnOpenFile'
    <3>1. faults' \in Nat /\ unsynced' \subseteq Int
      <4>1. faults \in Nat /\ unsynced \subseteq Int
        BY DEF Inv, Types
      <4>2. faults' \in Nat
        BY <2>1, <4>1
      <4>3. unsynced' \subseteq Int
        BY <2>1, <4>1
      <4> QED BY <4>2, <4>3
    <3>2. task' # "none" => opened'
      BY <1>1, <2>1 DEF Inv, OnOpenFile
    <3> QED BY <1>1, <1>2, <3>1, <3>2 DEF Inv, Types, OnOpenFile
  <2>3. ASSUME unsynced' = {} PROVE Durable'
    BY <2>3 DEF Durable
  <2>4. ASSUME faults' = faults + 1, task' = "none", UNCHANGED unsynced PROVE Durable'
    <3>1. faults' # 0
      BY <2>4 DEF Inv, Types
    <3>2. writer'.pc = writer.pc /\ writer'.wrote = writer.wrote
      BY <1>1
    <3>3. ~lost => \A p \in unsynced' :
            \/ Chunk(p) \in dirty_chunk_'
            \/ writer.pc = "mark" /\ p \in WriteOffset .. WriteOffset + writer.wrote - 1
      BY <2>1, <2>4 DEF Inv, Durable
    <3> QED BY <1>1, <1>2, <2>4, <3>1, <3>2, <3>3 DEF Durable, Chunk
  <2> QED BY <2>1, <2>2, <2>3, <2>4 DEF Inv
<1>5. CASE SyncTask_clear
  <2>1. /\ task = "synced" /\ task' = "none" /\ dirty_chunk_' = dirty_chunk_ \ syncing_chunk_
        /\ UNCHANGED <<unsynced, faults>>
    BY <1>5 DEF SyncTask_clear, disk, ghosts
  <2>2. Types' /\ OnOpenFile'
    BY <1>1, <1>2, <2>1 DEF Inv, Types, OnOpenFile
  <2>3. Durable'
    BY <1>1, <1>2, <2>1 DEF Inv, Durable, Chunk
  <2> QED BY <2>2, <2>3 DEF Inv
<1> QED BY <1>3, <1>4, <1>5 DEF WorkerStep

LEMMA StutterInv ==
  ASSUME Inv, UNCHANGED relevant
  PROVE  Inv'
<1>1. WriteLen' = WriteLen /\ WriteOffset' = WriteOffset
  BY DEF WriteLen, WriteOffset, HeaderLen, Target, relevant
<1> QED BY <1>1 DEF Inv, Types, OnOpenFile, Durable, Chunk, relevant

LEMMA InvNext == Inv /\ [Next]_vars => Inv'
<1> SUFFICES ASSUME Inv, [Next]_vars PROVE Inv'
  OBVIOUS
<1>1. ASSUME NEW r \in Reader, ReaderStep(r) PROVE UNCHANGED relevant
  BY <1>1 DEF ReaderStep, int_pread_cache, int_pread, Return, relevant, store, disk, chunks, ghosts
<1>2. ASSUME NEW r, NEW id, NEW o, NEW l, Get(r, id, o, l) PROVE UNCHANGED relevant
  BY <1>2 DEF Get, relevant, store, disk, chunks, ghosts
<1>3. CASE UNCHANGED vars
  BY <1>3, StutterInv DEF vars, relevant, store, disk, chunks, ghosts
<1>4. CASE WriterStep
  BY <1>4, pwritevStep, MarkAfterStep, Append_syncStep, FlushStep, int_closeStep DEF WriterStep
<1> QED BY <1>1, <1>2, <1>3, <1>4, Append_Step, CallStep, OpenStep, WorkerStepInv, StutterInv
        DEF Next

\* The sync task never runs on a closed file: int_close waits for the mutex that
\* the task holds, and int_sync queues a task only while a call has the file open.
THEOREM TaskOnOpenFile == Spec => []SyncOnOpenFile
<1>1. Inv => SyncOnOpenFile
  BY DEF Inv, OnOpenFile, SyncOnOpenFile
<1> QED BY <1>1, InvInit, InvNext, PTL DEF Spec

\* When Flush returns, all that was written is on the disk, if no sync failed and
\* no write slipped between the task's fdatasync and its clearing of the bits
\* (int_sync, SyncTask::Run, int_pwritev).
THEOREM FlushIsDurable == Spec => []FlushDurable
<1>1. Inv => FlushDurable
  BY DEF Inv, Durable, FlushDurable
<1> QED BY <1>1, InvInit, InvNext, PTL DEF Spec
=============================================================================
