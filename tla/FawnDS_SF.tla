------------------------------ MODULE FawnDS_SF ------------------------------
(***************************************************************************)
(* A FawnDS_SF store of src/siltds: a hash table that maps a key to the id *)
(* of its entry, and a data store that keeps the entries in a log.  The    *)
(* front and middle stores of FawnDS_Combi are of this class, with entries *)
(* of a fixed length; used on its own, a store may have entries of any     *)
(* length.  Every operation holds fawnds_lock_ throughout, so it is one    *)
(* step.  An id is the position of an entry in the log, counted from 0.    *)
(***************************************************************************)
EXTENDS HashTables

CONSTANTS
  Key, Value, NotFound, Deleted,
  Config,                \* the configurations: table, fixed, and how the store is converted
  MaxLog                 \* bound: entries of the log, by configuration

VARIABLES
  config_,
  state,                 \* "open", "converted", "closed" or "destroyed"
  hash_table_,
  log,                   \* the entries of data_store_
  header_,
  file,                  \* the header file and the file of the hash table
  dict,                  \* history: what the calls so far make of each key
  refused                \* history: ids of the entries of refused calls

vars == <<config_, state, hash_table_, log, header_, file, dict, refused>>

NewTable(offset) == IF config_.table = "cuckoo" THEN Cuckoo(offset) ELSE Default(config_.quadratic)
NewHeader == [num_elements |-> 0, num_active_elements |-> 0]
NoFile == [header |-> <<>>, table |-> <<>>]
Entry(k, type, v) == [key |-> k, type |-> type, data |-> v]
Hole == Entry(NoKey, 0, NotFound)

Init ==
  /\ config_ \in Config
  /\ state = "open"
  /\ hash_table_ = NewTable(TRUE)
  /\ log = <<>> /\ header_ = NewHeader /\ file = NoFile
  /\ dict = [k \in Key |-> NotFound] /\ refused = {}
-----------------------------------------------------------------------------
\* The iterator of Find goes on until the entry itself has the key.
Match_AnyEntry(k) == Find(hash_table_, k)
Match(k) == SelectSeq(Find(hash_table_, k), LAMBDA s : log[Id(hash_table_, s) + 1].key = k)
Missing(k) == Match(k) = <<>>
\* The table once that loop is over.
Looked(k) == IF Missing(k) THEN FoundNone(hash_table_, k) ELSE hash_table_

Appended(e) == log' = Append(log, e)

\* Only a put of a new key is counted as active; a delete record is not.
Counted(h, type, new) ==
  [num_elements |-> h.num_elements + 1,
   num_active_elements |-> IF type = 1 /\ new THEN h.num_active_elements + 1
                           ELSE h.num_active_elements]

\* The entry is in the log before the table is asked for room.
InsertNew(k, type, v) ==
  \E r \in Put(Looked(k), k, Len(log)) :
    /\ hash_table_' = r.table
    /\ IF r.ret = "OK"
       THEN /\ header_' = Counted(header_, type, TRUE)
            /\ dict' = [dict EXCEPT ![k] = v]
            /\ UNCHANGED refused
       ELSE refused' = refused \cup {Len(log)} /\ UNCHANGED <<header_, dict>>
InsertAgain_SameId(k, type, v) ==
  /\ hash_table_' = hash_table_
  /\ header_' = Counted(header_, type, FALSE)
  /\ dict' = [dict EXCEPT ![k] = v]
  /\ UNCHANGED refused
InsertAgain(k, type, v) ==
  /\ hash_table_' = Replace(hash_table_, Match(k)[1], Len(log))
  /\ header_' = Counted(header_, type, FALSE)
  /\ dict' = [dict EXCEPT ![k] = v]
  /\ UNCHANGED refused

\* A data store of fixed length refuses a delete entry, which has no data.
InsertEntry(k, type, v) ==
  /\ state = "open" /\ Len(log) < MaxLog[config_]
  /\ IF type = 2 /\ config_.fixed
     THEN hash_table_' = Looked(k) /\ UNCHANGED <<log, header_, dict, refused>>
     ELSE /\ Appended(Entry(k, type, v))
          /\ IF Missing(k) THEN InsertNew(k, type, v) ELSE InsertAgain(k, type, v)
  /\ UNCHANGED <<config_, state, file>>

SFPut(k, v) == InsertEntry(k, 1, v)
SFDelete(k) == InsertEntry(k, 2, Deleted)

Lookup(k) == IF Missing(k) THEN NotFound ELSE log[Id(hash_table_, Match(k)[1]) + 1].data

\* A Get changes nothing but what the default table remembers.
Get(k) ==
  /\ state \in {"open", "converted"}
  /\ hash_table_' = Looked(k)
  /\ UNCHANGED <<config_, state, log, header_, file, dict, refused>>

\* The entries an enumeration of the store passes on.
SFEnumerate == SelectSeq(log, LAMBDA e : e.type # 0)
-----------------------------------------------------------------------------
\* Entry n of the new data store, where "to" and "from" give the ids of the
\* entries in the order of both tables.
Moved_SameId(to, from, n) == IF \E i \in DOMAIN to : from[i] = n - 1 THEN log[n] ELSE Hole
Moved(to, from, n) ==
  IF \E i \in DOMAIN to : to[i] = n - 1
  THEN log[from[CHOOSE i \in DOMAIN to : to[i] = n - 1] + 1] ELSE Hole

\* Only FawnDS_Combi converts a store, and its entries have a fixed length.
\* The new store replaces this one, and is only read.
SFConvertTo ==
  LET new == ConvertTo(hash_table_, NewTable(config_.new_offset)).table
      Ids(t) == [i \in DOMAIN Enumerate(t) |-> Id(t, Enumerate(t)[i])]
      to == Ids(new)
      size == CHOOSE n \in 0 .. max_index_ * ASSOCIATIVITY + MaxLog[config_] :
                /\ \A i \in DOMAIN to : to[i] < n
                /\ n = 0 \/ \E i \in DOMAIN to : to[i] = n - 1
  IN /\ state = "open" /\ config_.fixed
     /\ ConvertTo(hash_table_, NewTable(config_.new_offset)).ret = "OK"
     /\ state' = "converted"
     /\ hash_table_' = new
     /\ IF config_.keep_datastore
        THEN UNCHANGED <<log, header_>>
        ELSE /\ log' = [n \in 1 .. size |-> Moved(to, Ids(hash_table_), n)]
             /\ header_' = [num_elements |-> size, num_active_elements |-> Len(to)]
     /\ refused' = IF config_.keep_datastore THEN refused ELSE {}
     /\ UNCHANGED <<config_, file, dict>>

WriteHeaderToFile == <<header_>>
ReadHeaderFromFile == file.header[1]

\* The files are modelled for entries of any length: nothing reads the files
\* of a store of fixed length, whose data store Open gives another length.
Flush ==
  /\ state = "open" /\ ~config_.fixed
  /\ file' = [header |-> WriteHeaderToFile, table |-> <<FlushTable(hash_table_)>>]
  /\ UNCHANGED <<config_, state, hash_table_, log, header_, dict, refused>>

\* The destructor of the table writes its file; the header is not written.
Close ==
  /\ state = "open" /\ ~config_.fixed
  /\ state' = "closed"
  /\ file' = [file EXCEPT !.table = <<FlushTable(hash_table_)>>]
  /\ hash_table_' = NewTable(TRUE) /\ header_' = NewHeader
  /\ UNCHANGED <<config_, log, dict, refused>>

\* Without a header in the file Open fails.
Open ==
  /\ state = "closed"
  /\ file.header # <<>>
  /\ state' = "open"
  /\ header_' = ReadHeaderFromFile
  /\ OpenTable(NewTable(TRUE), file.table[1]).ret = "OK"
  /\ hash_table_' = OpenTable(NewTable(TRUE), file.table[1]).table
  /\ UNCHANGED <<config_, log, file, dict, refused>>

Destroy ==
  /\ state = "closed"
  /\ state' = "destroyed"
  /\ file' = NoFile /\ log' = <<>>
  /\ dict' = [k \in Key |-> NotFound] /\ refused' = {}
  /\ UNCHANGED <<config_, hash_table_, header_>>

Create ==
  /\ state = "destroyed"
  /\ state' = "open"
  /\ hash_table_' = NewTable(TRUE)
  /\ log' = <<>> /\ header_' = NewHeader
  /\ UNCHANGED <<config_, file, dict, refused>>

Next ==
  \/ \E k \in Key, v \in Value : SFPut(k, v)
  \/ \E k \in Key : SFDelete(k)
  \/ \E k \in Key : Get(k)
  \/ SFConvertTo \/ Flush \/ Close \/ Open \/ Destroy \/ Create

Spec == Init /\ [][Next]_vars
-----------------------------------------------------------------------------
(* Properties.                                                               *)

Slots == {s \in DOMAIN hash_table_.slots : hash_table_.slots[s].valid}
Readable == state \in {"open", "converted"}

\* The type of the state: entries, tables and files have their shapes, and an
\* entry of type 0 is found only in a data store that was reorganised.
TypeOK ==
  /\ config_ \in Config
  /\ state \in {"open", "converted", "closed", "destroyed"}
  /\ \A i \in DOMAIN log : log[i] = Hole \/ (log[i].key \in Key /\ log[i].type \in {1, 2})
  /\ hash_table_.kind = config_.table
  /\ (\E i \in DOMAIN log : log[i] = Hole) => state = "converted"
  /\ dict \in [Key -> Value \cup {NotFound, Deleted}]

\* Get finds for every key the entry of the last Put or Delete of it that was
\* not refused: whatever entries the cuckoo table has moved, moved back, or
\* matched by a tag of another key, and after conversion, closing and opening.
LookupsExact == Readable => \A k \in Key : Lookup(k) = dict[k]

\* A Put that gives up after MAX_CUCKOO_COUNT moves leaves every entry in the
\* slot it had, and the value left over is the one to be put: the assertion
\* at the end of HashTableCuckoo::Put.
RefusedPutUndone ==
  state = "open" =>
    \A k \in Key : Missing(k) =>
      \A r \in Put(Looked(k), k, Len(log)) :
        r.ret # "OK" => /\ r.table.slots = hash_table_.slots
                        /\ hash_table_.kind = "cuckoo" => r.val = Len(log)

\* Every used slot is the one slot of its key: no key is indexed twice, and
\* current_entries_ counts the keys.
OneSlotPerKey ==
  Readable =>
    /\ hash_table_.current_entries_ = Cardinality(Slots)
    /\ Cardinality(Slots) = Cardinality({k \in Key : dict[k] # NotFound})

\* The slot that the default table remembers for the next Put is unused, however
\* lookups, puts and refused deletes of other keys come in between.
RememberedSlotUnused ==
  hash_table_.kind = "default" /\ hash_table_.cached.index # -1 =>
    ~hash_table_.slots[hash_table_.cached.index].valid

\* The newest entry of an indexed key in the data store is the one Get
\* returns, and an entry of a key that is not indexed belongs to a refused
\* call: a merge that enumerates the data store and lets the last entry of a
\* key win sees what Get sees, but for the entries of refused calls.
LogAgrees ==
  Readable =>
    \A i \in DOMAIN log :
      \/ log[i] = Hole \/ i - 1 \in refused
      \/ \E j \in i + 1 .. Len(log) : log[j].key = log[i].key
      \/ log[i].data = Lookup(log[i].key)

\* The reorganised data store has each key once, with no entry of a refused
\* call, and holes are skipped.
ReorganisedExact ==
  state = "converted" /\ ~config_.keep_datastore =>
    /\ Len(SFEnumerate) = Cardinality({k \in Key : dict[k] # NotFound})
    /\ \A i \in DOMAIN SFEnumerate : SFEnumerate[i].data = dict[SFEnumerate[i].key]
    /\ header_.num_active_elements = Len(SFEnumerate)
==============================================================================
