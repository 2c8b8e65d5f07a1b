----------------------- MODULE FawnDS_Combi_refinement ----------------------
(***************************************************************************)
(* The SILT pipeline implements Dictionary, for any number of clients,     *)
(* keys, values and stores and any watermarks, if middle stores do not     *)
(* keep their data log (keep_datastore = FALSE, the default).              *)
(*                                                                         *)
(* A Get answers with the first hit in the front stores, else in the       *)
(* middle stores, else in the back store.  The invariant Data says that    *)
(* what the two tasks hold in private agrees with the stores it replaces:  *)
(* the converted store with the oldest front store, the sorted entries     *)
(* with the first hits in the middle stores they were read from.  So the   *)
(* swaps change no answer.                                                 *)
(***************************************************************************)
EXTENDS FawnDS_Combi_proofs, WellFoundedInduction

\* The last n stores of a stage, the oldest ones.
Suffix(s, n) == SubSeq(s, Len(s) - n + 1, Len(s))

\* What is left of a hit once the delete records are dropped.
Purged(h, b) == IF h = NotFound THEN b ELSE IF h = Deleted THEN NotFound ELSE h

Data ==
  /\ \A i \in 1 .. Len(stage1) : stage1[i].logged = stage1[i].mem
  /\ convert.pc = "converted" => convert.map = ConvertTo(stage0[Len(stage0)])
  /\ merge.pc = "sorting" =>
       \A k \in Key : merge.map[k] = FirstHit(Suffix(stage1, merge.sorted), k)
  /\ merge.pc = "merged" =>
       \A k \in Key : merge.map[k] = Purged(FirstHit(Suffix(stage1, merge.sorted), k), back[k])

Dict == [k \in Key |-> IF Search(k) = Deleted THEN NotFound ELSE Search(k)]
-----------------------------------------------------------------------------
\* First hits.

LEMMA LeastElement ==
  ASSUME NEW S \in SUBSET Nat, S # {}
  PROVE  \E m \in S : \A k \in S : m <= k
<1>1. \A a, b \in Nat : a < b => <<a, b>> \in OpToRel(<, Nat)
  BY DEF OpToRel
<1>2. PICK R : IsWellFoundedOn(R, Nat) /\ \A a, b \in Nat : a < b => <<a, b>> \in R
  BY <1>1, NatLessThanWellFounded, Zenon
<1>3. IsWellFoundedOn(R, Nat)
  BY <1>2
<1>4. S \subseteq Nat
  OBVIOUS
<1>5. PICK m \in S : \A k \in S : ~ (<<k, m>> \in R)
  BY <1>3, <1>4, WFMin, Zenon
<1>6. \A k \in S : ~ (k < m)
  BY <1>2, <1>4, <1>5, Zenon
<1> QED
  BY <1>4, <1>6

Hit(s, k, i) == /\ s[i].mem[k] # NotFound
                /\ \A j \in 1 .. i - 1 : s[j].mem[k] = NotFound

LEMMA FirstHitNone ==
  ASSUME NEW s \in Seq(Store), NEW k \in Key, \A i \in 1 .. Len(s) : s[i].mem[k] = NotFound
  PROVE  FirstHit(s, k) = NotFound
BY DEF FirstHit

LEMMA FirstHitAt ==
  ASSUME NEW s \in Seq(Store), NEW k \in Key, NEW i \in 1 .. Len(s), Hit(s, k, i)
  PROVE  FirstHit(s, k) = s[i].mem[k]
<1>1. DOMAIN s = 1 .. Len(s) /\ Len(s) \in Nat
  OBVIOUS
<1>2. \A j \in DOMAIN s : Hit(s, k, j) <=> j = i
  BY <1>1 DEF Hit
<1>3. FirstHit(s, k) = s[CHOOSE j \in DOMAIN s : Hit(s, k, j)].mem[k]
  BY <1>1 DEF FirstHit, Hit
<1>4. (CHOOSE j \in DOMAIN s : Hit(s, k, j)) = i
  BY <1>1, <1>2
<1> QED
  BY <1>3, <1>4

LEMMA HitExists ==
  ASSUME NEW s \in Seq(Store), NEW k \in Key, ~ \A i \in 1 .. Len(s) : s[i].mem[k] = NotFound
  PROVE  \E i \in 1 .. Len(s) : Hit(s, k, i)
<1> DEFINE S == {i \in 1 .. Len(s) : s[i].mem[k] # NotFound}
<1>1. S \in SUBSET Nat /\ S # {}
  OBVIOUS
<1>2. PICK m \in S : \A j \in S : m <= j
  BY <1>1, LeastElement
<1> QED
  BY <1>2 DEF Hit

\* Only the stores' maps matter, and of those only the entries of the key.
LEMMA FirstHitSame ==
  ASSUME NEW s \in Seq(Store), NEW t \in Seq(Store), NEW k \in Key, Len(s) = Len(t),
         \A i \in 1 .. Len(s) : s[i].mem[k] = t[i].mem[k]
  PROVE  FirstHit(s, k) = FirstHit(t, k)
<1>1. CASE \A i \in 1 .. Len(s) : s[i].mem[k] = NotFound
  BY <1>1, FirstHitNone
<1>2. CASE ~ \A i \in 1 .. Len(s) : s[i].mem[k] = NotFound
  <2>1. PICK i \in 1 .. Len(s) : Hit(s, k, i)
    BY <1>2, HitExists
  <2>2. Hit(t, k, i)
    BY <2>1 DEF Hit
  <2> QED
    BY <2>1, <2>2, FirstHitAt
<1> QED
  BY <1>1, <1>2

LEMMA FirstHitConcat ==
  ASSUME NEW s \in Seq(Store), NEW t \in Seq(Store), NEW k \in Key
  PROVE  /\ FirstHit(s, k) = NotFound => FirstHit(s \o t, k) = FirstHit(t, k)
         /\ FirstHit(s, k) # NotFound => FirstHit(s \o t, k) = FirstHit(s, k)
<1>0. /\ s \o t \in Seq(Store) /\ Len(s \o t) = Len(s) + Len(t)
      /\ \A i \in 1 .. Len(s) : (s \o t)[i] = s[i]
      /\ \A i \in 1 .. Len(t) : (s \o t)[Len(s) + i] = t[i]
      /\ Len(s) \in Nat /\ Len(t) \in Nat
  OBVIOUS
<1>1. CASE ~ \A i \in 1 .. Len(s) : s[i].mem[k] = NotFound
  <2>1. PICK i \in 1 .. Len(s) : Hit(s, k, i)
    BY <1>1, HitExists
  <2>2. Hit(s \o t, k, i) /\ i \in 1 .. Len(s \o t)
    BY <1>0, <2>1 DEF Hit
  <2>3. FirstHit(s, k) = s[i].mem[k] /\ FirstHit(s \o t, k) = s[i].mem[k]
    BY <1>0, <2>1, <2>2, FirstHitAt
  <2> QED
    BY <2>1, <2>3 DEF Hit
<1>2. CASE /\ \A i \in 1 .. Len(s) : s[i].mem[k] = NotFound
           /\ \A i \in 1 .. Len(t) : t[i].mem[k] = NotFound
  <2>1. \A i \in 1 .. Len(s \o t) : (s \o t)[i].mem[k] = NotFound
    <3> TAKE i \in 1 .. Len(s \o t)
    <3>1. i \in 1 .. Len(s) \/ \E j \in 1 .. Len(t) : i = Len(s) + j
      BY <1>0
    <3> QED
      BY <1>0, <1>2, <3>1
  <2> QED
    BY <1>0, <1>2, <2>1, FirstHitNone
<1>3. CASE /\ \A i \in 1 .. Len(s) : s[i].mem[k] = NotFound
           /\ ~ \A i \in 1 .. Len(t) : t[i].mem[k] = NotFound
  <2>1. PICK i \in 1 .. Len(t) : Hit(t, k, i)
    BY <1>3, HitExists
  <2>2. PICK n \in 1 .. Len(s \o t) : n = Len(s) + i
    BY <1>0
  <2>3. \A j \in 1 .. n - 1 : (s \o t)[j].mem[k] = NotFound
    <3> TAKE j \in 1 .. n - 1
    <3>1. CASE j \in 1 .. Len(s)
      BY <1>0, <1>3, <3>1
    <3>2. CASE j \notin 1 .. Len(s)
      <4>1. PICK l \in Int : j = Len(s) + l
        BY <1>0, <2>2
      <4>2. l \in 1 .. i - 1 /\ l \in 1 .. Len(t)
        BY <1>0, <2>2, <3>2, <4>1
      <4> QED
        BY <1>0, <2>1, <4>1, <4>2 DEF Hit
    <3> QED
      BY <3>1, <3>2
  <2>4. (s \o t)[n] = t[i]
    BY <1>0, <2>2
  <2>5. Hit(s \o t, k, n)
    BY <2>1, <2>3, <2>4 DEF Hit
  <2>6. FirstHit(s \o t, k) = t[i].mem[k]
    BY <1>0, <2>4, <2>5, FirstHitAt
  <2> QED
    BY <1>3, <2>1, <2>6, FirstHitAt, FirstHitNone
<1> QED
  BY <1>1, <1>2, <1>3

LEMMA FirstHitSingle ==
  ASSUME NEW s \in Seq(Store), Len(s) = 1, NEW k \in Key
  PROVE  FirstHit(s, k) = s[1].mem[k]
<1>1. CASE s[1].mem[k] = NotFound
  <2>1. \A i \in 1 .. Len(s) : s[i].mem[k] = NotFound
    BY <1>1
  <2> QED
    BY <1>1, <2>1, FirstHitNone
<1>2. CASE s[1].mem[k] # NotFound
  <2>1. Hit(s, k, 1) /\ 1 \in 1 .. Len(s)
    BY <1>2 DEF Hit
  <2> QED
    BY <2>1, FirstHitAt
<1> QED
  BY <1>1, <1>2

LEMMA FirstHitType ==
  ASSUME NEW s \in Seq(Store), NEW k \in Key
  PROVE  FirstHit(s, k) \in Value \cup {NotFound, Deleted}
<1>1. \A i \in 1 .. Len(s) : s[i].mem[k] \in Value \cup {NotFound, Deleted}
  <2> TAKE i \in 1 .. Len(s)
  <2>1. s[i] \in Store
    OBVIOUS
  <2> QED
    BY <2>1 DEF Store, Map
<1> QED
  BY <1>1, HitExists, FirstHitAt, FirstHitNone
-----------------------------------------------------------------------------
\* What a Get sees, in terms of the stages.

LEMMA SearchStages ==
  ASSUME Types, NEW k \in Key
  PROVE  Search(k) = IF FirstHit(stage0, k) # NotFound THEN FirstHit(stage0, k)
                     ELSE IF FirstHit(stage1, k) # NotFound THEN FirstHit(stage1, k)
                     ELSE back[k]
BY FirstHitConcat DEF Types, Search

LEMMA SearchStagesNext ==
  ASSUME Types', NEW k \in Key
  PROVE  Search(k)' = IF FirstHit(stage0', k) # NotFound THEN FirstHit(stage0', k)
                      ELSE IF FirstHit(stage1', k) # NotFound THEN FirstHit(stage1', k)
                      ELSE back'[k]
BY FirstHitConcat DEF Types, Search

\* A step that changes no first hit of the front and middle stores, and not
\* the back store, changes no answer.
LEMMA SameHits ==
  ASSUME Types, Types', back' = back,
         \A k \in Key : /\ FirstHit(stage0', k) = FirstHit(stage0, k)
                        /\ FirstHit(stage1', k) = FirstHit(stage1, k)
  PROVE  Dict' = Dict
<1>1. \A k \in Key : Search(k)' = Search(k)
  BY SearchStages, SearchStagesNext
<1> QED
  BY <1>1 DEF Dict

\* An entry in the front store decides for its key and for no other.
LEMMA InsertHits ==
  ASSUME stage0 \in Seq(Store), Len(stage0) > 0, NEW k \in Key, NEW e \in Entry,
         InsertEntry(k, e)
  PROVE  \A q \in Key : FirstHit(stage0', q) = IF q = k THEN e ELSE FirstHit(stage0, q)
<1>0. /\ stage0' \in Seq(Store) /\ Len(stage0') = Len(stage0)
      /\ \A i \in 2 .. Len(stage0) : stage0'[i] = stage0[i]
      /\ stage0'[1].mem = [stage0[1].mem EXCEPT ![k] = e]
  BY InsertFacts
<1>1. stage0[1] \in Store
  OBVIOUS
<1>2. stage0[1].mem \in Map
  BY <1>1 DEF Store
<1>3. e # NotFound
  BY ConstantsAssumption DEF Entry
<1>4. Hit(stage0', k, 1)
  BY <1>0, <1>2, <1>3 DEF Hit, Map
<1>5. FirstHit(stage0', k) = e
  <2>1. 1 \in 1 .. Len(stage0')
    BY <1>0
  <2>2. FirstHit(stage0', k) = stage0'[1].mem[k]
    BY <1>0, <1>4, <2>1, FirstHitAt
  <2> QED
    BY <1>0, <1>2, <2>2 DEF Map
<1>6. ASSUME NEW q \in Key, q # k
      PROVE  FirstHit(stage0', q) = FirstHit(stage0, q)
  <2>1. \A i \in 1 .. Len(stage0') : stage0'[i].mem[q] = stage0[i].mem[q]
    <3> TAKE i \in 1 .. Len(stage0')
    <3>1. CASE i = 1
      BY <1>0, <1>2, <1>6, <3>1 DEF Map
    <3>2. CASE i # 1
      BY <1>0, <3>2
    <3> QED
      BY <3>1, <3>2
  <2> QED
    BY <1>0, <2>1, FirstHitSame
<1> QED
  BY <1>5, <1>6

\* An entry with no room in the index changes no map.
LEMMA OrphanHits ==
  ASSUME stage0 \in Seq(Store), Len(stage0) > 0, NEW k \in Key, NEW e \in Entry,
         InsertOrphan(k, e)
  PROVE  \A q \in Key : FirstHit(stage0', q) = FirstHit(stage0, q)
<1>0. /\ stage0' \in Seq(Store) /\ Len(stage0') = Len(stage0)
      /\ \A i \in 2 .. Len(stage0) : stage0'[i] = stage0[i]
      /\ stage0'[1].mem = stage0[1].mem
  BY InsertFacts
<1> TAKE q \in Key
<1>1. \A i \in 1 .. Len(stage0') : stage0'[i].mem[q] = stage0[i].mem[q]
  BY <1>0
<1> QED
  BY <1>0, <1>1, FirstHitSame

\* The stores of a stage, split where its oldest n begin.
LEMMA SuffixFacts ==
  ASSUME NEW s \in Seq(Store), NEW n \in 0 .. Len(s)
  PROVE  /\ Suffix(s, n) \in Seq(Store) /\ Len(Suffix(s, n)) = n
         /\ \A i \in 1 .. n : Suffix(s, n)[i] = s[Len(s) - n + i]
         /\ s = SubSeq(s, 1, Len(s) - n) \o Suffix(s, n)
<1>1. /\ Suffix(s, n) \in Seq(Store) /\ Len(Suffix(s, n)) = n
      /\ \A i \in 1 .. n : Suffix(s, n)[i] = s[Len(s) - n + i]
  BY DEF Suffix
<1>2. PICK m \in 0 .. Len(s) : m = Len(s) - n
  OBVIOUS
<1>3. 1 \in 1 .. Len(s) + 1 /\ m \in 1 - 1 .. Len(s) /\ Len(s) \in m .. Len(s)
  BY <1>2
<1>4. SubSeq(s, 1, m) \o SubSeq(s, m + 1, Len(s)) = SubSeq(s, 1, Len(s))
  BY <1>3, ConcatAdjacentSubSeq
<1>5. SubSeq(s, 1, Len(s)) = s
  BY SubSeqFull
<1> QED
  BY <1>1, <1>2, <1>4, <1>5 DEF Suffix

\* One more store of the stage: the next older one's entries come first.
LEMMA SuffixNext ==
  ASSUME NEW s \in Seq(Store), NEW n \in 0 .. Len(s) - 1, NEW k \in Key
  PROVE  FirstHit(Suffix(s, n + 1), k) =
           IF s[Len(s) - n].mem[k] # NotFound THEN s[Len(s) - n].mem[k]
           ELSE FirstHit(Suffix(s, n), k)
<1>1. PICK m \in 1 .. Len(s) : m = Len(s) - n
  OBVIOUS
<1>2. SubSeq(s, m, Len(s)) = <<s[m]>> \o SubSeq(s, m + 1, Len(s))
  BY <1>1, SubSeqRecursiveFirst
<1>3. Suffix(s, n + 1) = <<s[m]>> \o Suffix(s, n)
  BY <1>1, <1>2 DEF Suffix
<1>4. s[m] \in Store /\ Suffix(s, n) \in Seq(Store) /\ <<s[m]>> \in Seq(Store)
  BY <1>1, SuffixFacts
<1>5. Len(<<s[m]>>) = 1 /\ <<s[m]>>[1] = s[m]
  OBVIOUS
<1>6. FirstHit(<<s[m]>>, k) = s[m].mem[k]
  BY <1>4, <1>5, FirstHitSingle
<1>7. FirstHit(<<s[m]>> \o Suffix(s, n), k) =
        IF FirstHit(<<s[m]>>, k) # NotFound THEN FirstHit(<<s[m]>>, k) ELSE FirstHit(Suffix(s, n), k)
  BY <1>4, FirstHitConcat
<1> QED
  BY <1>1, <1>3, <1>6, <1>7
-----------------------------------------------------------------------------
\* Steps of the clients.

LEMMA DataInit == Init => Data
BY DEF Init, Data, IdleTask

LEMMA DataKept ==
  ASSUME Data, UNCHANGED <<stage1, back, convert, merge>>,
         convert.pc = "converted" => stage0'[Len(stage0')] = stage0[Len(stage0)]
  PROVE  Data'
BY DEF Data

\* While a front store is converted, there is another one in front of it.
LEMMA ConvertedIsNotFront ==
  ASSUME Types, Tasks, convert.pc = "converted"
  PROVE  Len(stage0) \in Nat /\ Len(stage0) >= 2
BY WatermarkAssumption DEF Types, Tasks, AssertsHold

LEMMA InsertKeepsData ==
  ASSUME Types, Tasks, Data, NEW k \in Key, NEW e \in Entry,
         InsertEntry(k, e) \/ InsertOrphan(k, e), UNCHANGED <<stage1, back, convert, merge>>
  PROVE  Data'
<1>1. /\ Len(stage0') = Len(stage0)
      /\ \A i \in 2 .. Len(stage0) : stage0'[i] = stage0[i]
  BY InsertFacts DEF Types, Tasks
<1>2. convert.pc = "converted" => stage0'[Len(stage0')] = stage0[Len(stage0)]
  BY <1>1, ConvertedIsNotFront
<1> QED
  BY <1>2, DataKept

LEMMA InsertDict ==
  ASSUME Types, Tasks, Types', NEW k \in Key, NEW e \in Entry, InsertEntry(k, e),
         UNCHANGED <<stage1, back>>
  PROVE  Dict' = [Dict EXCEPT ![k] = IF e = Deleted THEN NotFound ELSE e]
<1>1. \A q \in Key : FirstHit(stage0', q) = IF q = k THEN e ELSE FirstHit(stage0, q)
  BY InsertHits DEF Types, Tasks
<1>2. e # NotFound
  BY ConstantsAssumption DEF Entry
<1>3. \A q \in Key : Search(q)' = IF q = k THEN e ELSE Search(q)
  BY <1>1, <1>2, SearchStages, SearchStagesNext
<1> QED
  BY <1>3 DEF Dict

LEMMA NewStoreStep ==
  ASSUME Types, Clients, Tasks, Data, Types', NEW c \in Client, PutNewStore(c)
  PROVE  Data' /\ Dict' = Dict
<1>1. PICK n \in Store : n = NewStore(created + 1)
  BY EmptyTypes DEF Types
<1>2. stage0' = <<n>> \o stage0 /\ UNCHANGED <<stage1, back, convert, merge>>
  BY <1>1 DEF PutNewStore
<1>3. /\ Len(stage0') = Len(stage0) + 1 /\ Len(stage0) \in Nat /\ Len(stage0) > 0
      /\ \A i \in 1 .. Len(stage0) : stage0'[i + 1] = stage0[i]
  BY <1>2, PrependFacts DEF Types, Tasks
<1>4. stage0'[Len(stage0')] = stage0[Len(stage0)]
  BY <1>3
<1>5. ASSUME NEW k \in Key PROVE FirstHit(stage0', k) = FirstHit(stage0, k)
  <2>1. n.mem[k] = NotFound
    BY <1>1 DEF NewStore, Empty
  <2>2. <<n>> \in Seq(Store) /\ Len(<<n>>) = 1 /\ <<n>>[1] = n
    OBVIOUS
  <2>3. FirstHit(<<n>>, k) = NotFound
    BY <2>1, <2>2, FirstHitSingle
  <2> QED
    BY <1>2, <2>2, <2>3, FirstHitConcat DEF Types
<1> QED
  BY <1>2, <1>4, <1>5, DataKept, SameHits

LEMMA ClientRefines ==
  ASSUME Types, Clients, Tasks, Data, Types', NEW c \in Client, ClientStep(c)
  PROVE  Data' /\ [KV!Next]_(KV!vars)
<1>0. client[c] \in ClientRec /\ Putting(client[c])
  BY DEF Clients
<1>1. CASE PutOK(c)
  <2>1. PICK k \in Key, v \in Value : k = client[c].key /\ v = client[c].data
    BY <1>0, <1>1 DEF PutOK, Putting
  <2>2. InsertEntry(k, v) /\ UNCHANGED <<stage1, back, convert, merge>> /\ v \in Entry
    BY <1>1, <2>1 DEF PutOK, Entry
  <2>3. Dict' = [Dict EXCEPT ![k] = v]
    BY <2>2, InsertDict, ConstantsAssumption
  <2>4. KV!Put(k, v)
    BY <1>1, <2>1, <2>3 DEF PutOK, Answer, KV!Put, KV!Answer, Dict
  <2> QED
    BY <2>2, <2>4, InsertKeepsData DEF KV!Next
<1>2. CASE PutInsufficientSpace(c)
  <2>1. PICK k \in Key, v \in Entry : InsertOrphan(k, v)
    BY <1>0, <1>2 DEF PutInsufficientSpace, Putting, Entry
  <2>2. UNCHANGED <<stage1, back, convert, merge, resp>>
    BY <1>2 DEF PutInsufficientSpace
  <2>3. Dict' = Dict
    BY <2>1, <2>2, OrphanHits, SameHits DEF Types, Tasks
  <2>4. UNCHANGED KV!vars
    BY <2>2, <2>3 DEF KV!vars, Dict
  <2> QED
    BY <2>1, <2>2, <2>4, InsertKeepsData
<1>3. CASE PutNewStore(c)
  <2>1. Data' /\ Dict' = Dict /\ resp' = resp
    BY <1>3, NewStoreStep DEF PutNewStore
  <2> QED
    BY <2>1 DEF KV!vars, Dict
<1>4. ASSUME NEW k \in Key, Delete(c, k)
      PROVE  Data' /\ [KV!Next]_(KV!vars)
  <2>1. UNCHANGED <<stage1, back, convert, merge>> /\ Deleted \in Entry
    BY <1>4 DEF Delete, Entry
  <2>2. CASE InsertEntry(k, Deleted) /\ Answer("Delete", k, "OK")
    <3>1. Dict' = [Dict EXCEPT ![k] = NotFound]
      BY <2>1, <2>2, InsertDict
    <3>2. KV!Delete(k)
      BY <2>2, <3>1 DEF Answer, KV!Delete, KV!Answer, Dict
    <3> QED
      BY <2>1, <2>2, <3>2, InsertKeepsData DEF KV!Next
  <2>3. CASE InsertOrphan(k, Deleted) /\ Answer("Delete", k, "ERROR")
    <3>1. Dict' = Dict
      BY <2>1, <2>3, OrphanHits, SameHits DEF Types, Tasks
    <3>2. KV!Refuse("Delete", k)
      BY <2>3, <3>1 DEF Answer, KV!Refuse, KV!Answer, Dict
    <3> QED
      BY <2>1, <2>3, <3>2, InsertKeepsData DEF KV!Next
  <2> QED
    BY <1>4, <2>2, <2>3 DEF Delete
<1>5. ASSUME NEW k \in Key, Get(c, k)
      PROVE  Data' /\ [KV!Next]_(KV!vars)
  <2>1. UNCHANGED <<stage0, stage1, back, convert, merge>>
    BY <1>5 DEF Get, stores
  <2>2. Dict' = Dict
    BY <2>1, SameHits
  <2>3. KV!Get(k)
    BY <1>5, <2>2 DEF Get, Answer, KV!Get, KV!Answer, Dict
  <2> QED
    BY <2>1, <2>3, DataKept DEF KV!Next
<1>6. CASE \/ PutRetry(c) \/ FlushCall(c) \/ FlushReturn(c)
           \/ \E k \in Key, v \in Value : PutCall(c, k, v)
  <2>1. UNCHANGED <<stage0, stage1, back, convert, merge, resp>>
    BY <1>6 DEF PutRetry, FlushCall, FlushReturn, PutCall, stores
  <2>2. Dict' = Dict
    BY <2>1, SameHits
  <2> QED
    BY <2>1, <2>2, DataKept DEF KV!vars, Dict
<1> QED
  BY <1>1, <1>2, <1>3, <1>4, <1>5, <1>6 DEF ClientStep
-----------------------------------------------------------------------------
\* Steps of the two tasks: Gets see no difference.

LEMMA ConvertSwapStep ==
  ASSUME keep_datastore = FALSE, Types, Tasks, Data, Types', ConvertSwap
  PROVE  Data' /\ Dict' = Dict
<1>1. /\ convert.pc = "converted" /\ convert'.pc = "swapped"
      /\ stage0' = SubSeq(stage0, 1, Len(stage0) - 1)
      /\ stage1' = <<convert.map>> \o stage1
      /\ UNCHANGED <<back, merge>>
  BY DEF ConvertSwap, ConvertInsert, IdleTask
<1>2. Len(stage0) \in Nat /\ Len(stage0) >= 2 /\ stage0 \in Seq(Store) /\ stage1 \in Seq(Store)
  BY <1>1, ConvertedIsNotFront DEF Types
<1>3. stage0[Len(stage0)] \in Store
  BY <1>2
<1>4. PICK o \in Store : o = stage0[Len(stage0)]
  BY <1>3
<1>5. PICK m \in Store : m = convert.map
  BY <1>1 DEF Types
<1>6. m.mem = o.mem /\ m.logged = m.mem
  BY <1>1, <1>4, <1>5 DEF Data, ConvertTo, Store
<1>7. /\ Len(stage1') = Len(stage1) + 1 /\ Len(stage1) \in Nat
      /\ stage1'[1] = m
      /\ \A i \in 1 .. Len(stage1) : stage1'[i + 1] = stage1[i]
  BY <1>1, <1>2, <1>5, PrependFacts
<1>8. Data'
  <2>1. \A i \in 1 .. Len(stage1') : stage1'[i].logged = stage1'[i].mem
    <3> TAKE i \in 1 .. Len(stage1')
    <3>1. CASE i = 1
      BY <1>6, <1>7, <3>1
    <3>2. CASE i # 1
      <4>1. PICK j \in 1 .. Len(stage1) : i = j + 1
        BY <1>7, <3>2
      <4> QED
        BY <1>7, <4>1 DEF Data
    <3> QED
      BY <3>1, <3>2
  <2>2. PICK n \in 0 .. Len(stage1) : n = merge.sorted
    BY <1>7 DEF Types, MergeRec, Tasks, AssertsHold
  <2>3. ASSUME NEW k \in Key
        PROVE  FirstHit(Suffix(stage1', n), k) = FirstHit(Suffix(stage1, n), k)
    <3>1. /\ Suffix(stage1, n) \in Seq(Store) /\ Len(Suffix(stage1, n)) = n
          /\ \A i \in 1 .. n : Suffix(stage1, n)[i] = stage1[Len(stage1) - n + i]
      BY <1>2, <2>2, SuffixFacts
    <3>2. stage1' \in Seq(Store) /\ n \in 0 .. Len(stage1')
      BY <1>7, <2>2 DEF Types
    <3>3. /\ Suffix(stage1', n) \in Seq(Store) /\ Len(Suffix(stage1', n)) = n
          /\ \A i \in 1 .. n : Suffix(stage1', n)[i] = stage1'[Len(stage1') - n + i]
      BY <3>2, SuffixFacts
    <3>4. \A i \in 1 .. n : Suffix(stage1', n)[i] = Suffix(stage1, n)[i]
      <4> TAKE i \in 1 .. n
      <4>0. Len(stage1) - n + i \in 1 .. Len(stage1)
        BY <1>2, <2>2
      <4>1. PICK j \in 1 .. Len(stage1) : j = Len(stage1) - n + i
        BY <4>0, Zenon
      <4>2. Len(stage1') - n + i = j + 1
        <5>1. Len(stage1') = Len(stage1) + 1 /\ Len(stage1) \in Nat /\ n \in Nat /\ i \in Nat
          BY <1>7, <2>2
        <5> QED BY <4>1, <5>1
      <4> QED
        BY <1>7, <3>1, <3>3, <4>1, <4>2
    <3> QED
      BY <3>1, <3>3, <3>4, FirstHitSame
  <2> QED
    BY <1>1, <2>1, <2>2, <2>3 DEF Data
<1>9. Dict' = Dict
  <2>1. PICK p \in Seq(Store) : p = SubSeq(stage0, 1, Len(stage0) - 1) /\ p = stage0'
    BY <1>1 DEF Types
  <2>2. stage0 = p \o <<o>>
    <3>1. 1 \in 1 .. Len(stage0) /\ Len(stage0) \in 1 .. Len(stage0)
      BY <1>2
    <3>2. SubSeq(stage0, 1, Len(stage0)) = SubSeq(stage0, 1, Len(stage0) - 1) \o <<stage0[Len(stage0)]>>
      BY <1>2, <3>1, SubSeqRecursiveSecond
    <3>3. SubSeq(stage0, 1, Len(stage0)) = stage0
      BY <1>2, SubSeqFull
    <3> QED
      BY <1>4, <2>1, <3>2, <3>3
  <2>3. /\ <<o>> \in Seq(Store) /\ Len(<<o>>) = 1 /\ <<o>>[1] = o
        /\ <<m>> \in Seq(Store) /\ Len(<<m>>) = 1 /\ <<m>>[1] = m
    OBVIOUS
  <2>4. ASSUME NEW k \in Key PROVE Search(k)' = Search(k)
    <3>1. FirstHit(<<o>>, k) = o.mem[k] /\ FirstHit(<<m>>, k) = o.mem[k]
      BY <1>6, <2>3, FirstHitSingle
    <3>2. FirstHit(stage0, k) = IF FirstHit(p, k) # NotFound THEN FirstHit(p, k) ELSE o.mem[k]
      BY <2>2, <2>3, <3>1, FirstHitConcat
    <3>3. FirstHit(stage1', k) = IF o.mem[k] # NotFound THEN o.mem[k] ELSE FirstHit(stage1, k)
      <4>1. stage1' = <<m>> \o stage1
        BY <1>1, <1>5
      <4>2. FirstHit(<<m>> \o stage1, k) =
              IF FirstHit(<<m>>, k) # NotFound THEN FirstHit(<<m>>, k) ELSE FirstHit(stage1, k)
        BY <1>2, <2>3, FirstHitConcat
      <4> QED
        BY <3>1, <4>1, <4>2
    <3>4. back'[k] = back[k] /\ FirstHit(stage0', k) = FirstHit(p, k)
      BY <1>1, <2>1
    <3> QED
      BY <3>2, <3>3, <3>4, SearchStages, SearchStagesNext
  <2> QED
    BY <2>4 DEF Dict
<1> QED
  BY <1>8, <1>9

LEMMA ConvertRefines ==
  ASSUME keep_datastore = FALSE, Types, Tasks, Data, Types', ConvertTask
  PROVE  Data' /\ Dict' = Dict /\ resp' = resp
<1>1. CASE ConvertStart
  <2>1. UNCHANGED <<stage0, stage1, back, merge, resp>>
    BY <1>1 DEF ConvertStart, stores
  <2>2. convert' = [pc |-> "converted", sorted |-> 0, map |-> ConvertTo(stage0[Len(stage0)])]
    BY <1>1 DEF ConvertStart
  <2>3. convert'.map = ConvertTo(stage0[Len(stage0)])'
    BY <2>1, <2>2 DEF ConvertTo
  <2>4. Data'
    BY <2>1, <2>3 DEF Data
  <2> QED
    BY <2>1, <2>4, SameHits
<1>2. CASE ConvertSwap
  BY <1>2, ConvertSwapStep DEF ConvertSwap
<1>3. CASE ConvertEnd
  <2>1. UNCHANGED <<stage0, stage1, back, merge, resp>> /\ convert'.pc = "idle"
    BY <1>3 DEF ConvertEnd, stores, IdleTask
  <2>2. Data'
    BY <2>1 DEF Data
  <2> QED
    BY <2>1, <2>2, SameHits
<1> QED
  BY <1>1, <1>2, <1>3 DEF ConvertTask

LEMMA MergeSwapStep ==
  ASSUME Types, Tasks, Data, Types', MergeSwap
  PROVE  Data' /\ Dict' = Dict
<1>1. /\ merge.pc = "merged" /\ merge'.pc = "swapped"
      /\ stage1' = SubSeq(stage1, 1, Len(stage1) - merge.sorted)
      /\ back' = merge.map
      /\ UNCHANGED <<stage0, convert>>
  BY DEF MergeSwap, IdleTask
<1>2. PICK n \in 0 .. Len(stage1) : n = merge.sorted
  BY DEF Types, MergeRec, Tasks, AssertsHold
<1>3. PICK q \in Seq(Store) : q = Suffix(stage1, n) /\ stage1 = stage1' \o q
  <2>1. Suffix(stage1, n) \in Seq(Store) /\ stage1 = SubSeq(stage1, 1, Len(stage1) - n) \o Suffix(stage1, n)
    BY SuffixFacts DEF Types
  <2> QED
    BY <1>1, <1>2, <2>1
<1>4. stage1 \in Seq(Store) /\ stage1' \in Seq(Store)
  BY DEF Types
<1>5. \A i \in 1 .. Len(stage1') : i \in 1 .. Len(stage1) /\ stage1'[i] = stage1[i]
  BY <1>3, <1>4
<1>6. Data'
  BY <1>1, <1>5 DEF Data
<1>7. ASSUME NEW k \in Key
      PROVE  Dict'[k] = Dict[k]
  <2>1. FirstHit(stage1, k) = IF FirstHit(stage1', k) # NotFound THEN FirstHit(stage1', k)
                              ELSE FirstHit(q, k)
    <3>1. FirstHit(stage1' \o q, k) = IF FirstHit(stage1', k) # NotFound THEN FirstHit(stage1', k)
                                      ELSE FirstHit(q, k)
      BY <1>4, FirstHitConcat
    <3> QED
      BY <1>3, <3>1
  <2>2. back'[k] = Purged(FirstHit(q, k), back[k])
    BY <1>1, <1>2, <1>3 DEF Data
  <2>3. back[k] # Deleted
    BY ConstantsAssumption DEF Types
  <2>4. FirstHit(stage0', k) = FirstHit(stage0, k)
    BY <1>1
  <2>5. Dict'[k] = IF Search(k)' = Deleted THEN NotFound ELSE Search(k)'
    BY DEF Dict
  <2>6. Dict[k] = IF Search(k) = Deleted THEN NotFound ELSE Search(k)
    BY DEF Dict
  <2> QED
    BY <2>1, <2>2, <2>3, <2>4, <2>5, <2>6, SearchStages, SearchStagesNext DEF Purged
<1>8. Dict' = Dict
  BY <1>7 DEF Dict
<1> QED
  BY <1>6, <1>8

LEMMA MergeRefines ==
  ASSUME Types, Tasks, Data, Types', MergeTask
  PROVE  Data' /\ Dict' = Dict /\ resp' = resp
<1>0. /\ stage1 \in Seq(Store) /\ Len(stage1) \in Nat /\ merge.sorted \in 0 .. Len(stage1)
      /\ merge.map \in Map
  BY DEF Types, MergeRec, Tasks, AssertsHold
<1>1. CASE MergeStart
  <2>1. UNCHANGED <<stage0, stage1, back, convert, resp>>
    BY <1>1 DEF MergeStart, stores
  <2>2. merge' = [pc |-> "sorting", sorted |-> 0, map |-> Empty]
    BY <1>1 DEF MergeStart, IdleTask
  <2>3. Suffix(stage1, 0) \in Seq(Store) /\ Len(Suffix(stage1, 0)) = 0
    BY <1>0, SuffixFacts
  <2>4. \A k \in Key : FirstHit(Suffix(stage1, 0), k) = NotFound
    BY <2>3, FirstHitNone
  <2>5. Data'
    BY <2>1, <2>2, <2>4 DEF Data, Empty
  <2> QED
    BY <2>1, <2>5, SameHits
<1>2. CASE MergeSort
  <2>1. UNCHANGED <<stage0, stage1, back, convert, resp>> /\ merge.pc = "sorting"
    BY <1>2 DEF MergeSort, stores
  <2>2. PICK n \in 0 .. Len(stage1) - 1 : n = merge.sorted
    BY <1>0, <1>2, WatermarkAssumption DEF MergeSort, MoreToSort
  <2>3. PICK s \in Store : s = stage1[Len(stage1) - n]
    BY <1>0, <2>2
  <2>4. s.logged = s.mem
    BY <1>0, <2>2, <2>3 DEF Data
  <2>5. merge' = [pc |-> "sorting", sorted |-> n + 1, map |-> Over(s.logged, merge.map)]
    BY <1>2, <2>2, <2>3 DEF MergeSort
  <2>6. ASSUME NEW k \in Key
        PROVE  Over(s.logged, merge.map)[k] = FirstHit(Suffix(stage1, n + 1), k)
    <3>1. Over(s.logged, merge.map)[k] = IF s.mem[k] = NotFound THEN merge.map[k] ELSE s.mem[k]
      BY <2>4 DEF Over
    <3>2. merge.map[k] = FirstHit(Suffix(stage1, n), k)
      BY <2>1, <2>2 DEF Data
    <3> QED
      BY <1>0, <2>3, <3>1, <3>2, SuffixNext
  <2>7. Data'
    BY <2>1, <2>5, <2>6 DEF Data
  <2> QED
    BY <2>1, <2>7, SameHits
<1>3. CASE MergeMerge
  <2>1. UNCHANGED <<stage0, stage1, back, convert, resp>> /\ merge.pc = "sorting"
    BY <1>3 DEF MergeMerge, stores
  <2>2. merge' = [pc |-> "merged", sorted |-> merge.sorted, map |-> MergeInto(merge.map)]
    BY <1>3 DEF MergeMerge
  <2>3. ASSUME NEW k \in Key
        PROVE  MergeInto(merge.map)[k] = Purged(FirstHit(Suffix(stage1, merge.sorted), k), back[k])
    <3>1. merge.map[k] = FirstHit(Suffix(stage1, merge.sorted), k)
      BY <2>1 DEF Data
    <3>2. back[k] # Deleted
      BY ConstantsAssumption DEF Types
    <3>3. MergeInto(merge.map)[k] = Purged(merge.map[k], back[k])
      BY <3>2 DEF MergeInto, Over, Purged
    <3> QED
      BY <3>1, <3>3
  <2>4. Data'
    BY <2>1, <2>2, <2>3 DEF Data
  <2> QED
    BY <2>1, <2>4, SameHits
<1>4. CASE MergeSwap
  BY <1>4, MergeSwapStep DEF MergeSwap
<1>5. CASE MergeEnd
  <2>1. UNCHANGED <<stage0, stage1, back, convert, resp>> /\ merge'.pc = "idle"
    BY <1>5 DEF MergeEnd, stores, IdleTask
  <2>2. Data'
    BY <2>1 DEF Data
  <2> QED
    BY <2>1, <2>2, SameHits
<1> QED
  BY <1>1, <1>2, <1>3, <1>4, <1>5 DEF MergeTask
-----------------------------------------------------------------------------
LEMMA InitRefines == Init => KV!Init
<1> SUFFICES ASSUME Init PROVE KV!Init
  OBVIOUS
<1>1. Types
  BY TasksInit
<1>2. ASSUME NEW k \in Key PROVE Search(k) = NotFound
  <2>1. FirstHit(stage0, k) = NotFound
    <3>1. stage0 \in Seq(Store) /\ Len(stage0) = 1 /\ stage0[1] = NewStore(1)
      BY <1>1 DEF Init, Types
    <3>2. NewStore(1).mem[k] = NotFound
      BY DEF NewStore, Empty
    <3> QED
      BY <3>1, <3>2, FirstHitSingle
  <2>2. FirstHit(stage1, k) = NotFound
    <3>1. stage1 \in Seq(Store) /\ Len(stage1) = 0
      BY <1>1 DEF Init, Types
    <3>2. \A i \in 1 .. Len(stage1) : stage1[i].mem[k] = NotFound
      BY <3>1
    <3> QED
      BY <3>1, <3>2, FirstHitNone
  <2>3. back[k] = NotFound
    BY DEF Init, Empty
  <2> QED
    BY <1>1, <2>1, <2>2, <2>3, SearchStages
<1> QED
  BY <1>2, ConstantsAssumption DEF KV!Init, Init

LEMMA StepRefines ==
  ASSUME keep_datastore = FALSE, Types, Clients, Tasks, Data, [Next]_vars
  PROVE  Data' /\ [KV!Next]_(KV!vars)
<1>0. Types'
  BY TasksStep
<1>1. CASE ConvertTask
  BY <1>0, <1>1, ConvertRefines DEF KV!vars, Dict
<1>2. CASE MergeTask
  BY <1>0, <1>2, MergeRefines DEF KV!vars, Dict
<1>3. CASE \E c \in Client : ClientStep(c)
  BY <1>0, <1>3, ClientRefines
<1>4. CASE UNCHANGED vars
  <2>1. UNCHANGED <<stage0, stage1, back, convert, merge, resp>>
    BY <1>4 DEF vars, stores
  <2>2. Dict' = Dict
    BY <1>0, <2>1, SameHits
  <2> QED
    BY <2>1, <2>2, DataKept DEF KV!vars, Dict
<1> QED
  BY <1>1, <1>2, <1>3, <1>4 DEF Next

\* Whatever the clients and the two tasks do in any order, a Get answers the
\* last value put and not deleted (FawnDS_Combi::Get over the three stages).
THEOREM PipelineIsDictionary ==
  ASSUME keep_datastore = FALSE
  PROVE  Spec => IsDictionary
<1>1. Init => Data /\ KV!Init
  BY DataInit, InitRefines
<1>2. Types /\ Clients /\ Tasks /\ Data /\ [Next]_vars => Data' /\ [KV!Next]_(KV!vars)
  BY StepRefines
<1> QED
  BY <1>1, <1>2, TasksAlways, PTL DEF Spec, IsDictionary, KV!Spec
=============================================================================
