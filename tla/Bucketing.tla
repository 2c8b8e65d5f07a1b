------------------------------ MODULE Bucketing ------------------------------
(* The offset tables of bucketing_index (siltds/cindex): entry i says where  *)
(* the code of bucket i starts in the bit vector (index offset) and where    *)
(* its keys start in the data store (dest offset), as << index, dest >>.     *)
(* The index is compiled with one of five layouts.                           *)
(*                                                                           *)
(* A field of a table is named by << array element, shift >> and holds one   *)
(* number for each of the two offsets; a fresh table is zero, and no field   *)
(* is stored twice.  "failed" says that an assert of an insert failed.       *)
EXTENDS Integers, Sequences, SequencesExt, FiniteSetsExt

CONSTANTS
  dest_keys_per_block_, \* keys per block of the data store
  ValueBits,            \* width of an offset within an upper bucket (16 in the code)
  WordBits,             \* width of an offset that stands alone (32)
  WideBits,             \* width of a delta over FineGroup buckets (10)
  NarrowBits,           \* width of a delta over one bucket (8)
  OverflowBits,         \* width of a delta in the overflow table (16)
  FineGroup,            \* semi_direct_16: buckets from one wide delta to the next (4)
  group_size_,          \* twolevel_reloff: buckets from one full offset to the next (29)
  known_index_sizes     \* millionths of a bit, by << keys per bucket, keys per block >>

ASSUME BucketingAssumption ==
  /\ dest_keys_per_block_ \in Nat \ {0}
  /\ {ValueBits, WordBits, WideBits, NarrowBits, OverflowBits} \subseteq Nat \ {0}
  /\ FineGroup \in Nat /\ FineGroup >= 2 /\ group_size_ \in Nat \ {0}
  \* A word has room for the fields the semi-direct layouts put in it.
  /\ NarrowBits <= WordBits /\ (FineGroup - 1) * WideBits <= WordBits

Semi == {"semi_direct_16_absoff", "semi_direct_16_reloff"}
Relative == {"semi_direct_16_reloff", "twolevel_reloff"}
Layout == Semi \cup Relative \cup {"flat_absoff", "twolevel_absoff"}
-----------------------------------------------------------------------------
(* twolevel_absoff_bucketing: a narrow offset from the end of the previous   *)
(* group of upper_bucket_size_ buckets.  An offset too large for it wraps:   *)
(* guarded_cast checks nothing, and no assert reads the entry back.          *)

BitsPerKeyBound == 4

twolevel_absoff_resize(size, keys_per_bucket) ==
  LET group == Max({1, 2 ^ ValueBits \div (BitsPerKeyBound * keys_per_bucket)})
  IN [layout |-> "twolevel_absoff", upper_bucket_size |-> group, bucket_info |-> << >>,
      upper_bucket_info |-> [g \in 0 .. (size \div group) + 1 |-> << 0, 0 >>],
      size |-> size, failed |-> FALSE]

twolevel_absoff_insert(b, o) ==
  LET g == Len(b.bucket_info) \div b.upper_bucket_size
      base == b.upper_bucket_info[g]
  IN [b EXCEPT !.bucket_info = Append(@, [t \in 1 .. 2 |-> (o[t] - base[t]) % 2 ^ ValueBits]),
               !.upper_bucket_info[g + 1] = [t \in 1 .. 2 |-> o[t] % 2 ^ WordBits],
               !.failed = Len(b.bucket_info) >= b.size]

twolevel_absoff_offsets(b, i) ==
  LET base == b.upper_bucket_info[i \div b.upper_bucket_size]
      info == b.bucket_info[i + 1]
  IN << base[1] + info[1], base[2] + info[2] >>
-----------------------------------------------------------------------------
(* flat_absoff_bucketing: every offset in full, cut to a word.               *)

flat_absoff_resize(size) ==
  [layout |-> "flat_absoff", size |-> size, bucket_info |-> << >>, failed |-> FALSE]

flat_absoff_insert(b, o) ==
  LET stored == [t \in 1 .. 2 |-> o[t] % 2 ^ WordBits]
  IN [b EXCEPT !.bucket_info = Append(@, stored),
               !.failed = Len(b.bucket_info) >= b.size \/ stored # o]

flat_absoff_offsets(b, i) == b.bucket_info[i + 1]
-----------------------------------------------------------------------------
(* The other three keep a full offset for the first bucket of a group, and   *)
(* for a later one the delta to the bucket "Steps" before it.                *)

GroupSize(layout) == IF layout \in Semi THEN FineGroup * FineGroup ELSE group_size_
IsBase(layout, i) == i % GroupSize(layout) = 0
IsWide(layout, i) == layout \in Semi /\ i % FineGroup = 0
Steps(layout, i) == IF IsWide(layout, i) THEN FineGroup ELSE 1
Mask(layout, i) == 2 ^ (IF IsWide(layout, i) THEN WideBits ELSE NarrowBits) - 1

\* semi_direct_16: a word for the full offset, a word for the wide deltas, and
\* words for the narrow ones, which ranks_ numbers.
NarrowPerWord == WordBits \div NarrowBits
NarrowWords == (FineGroup * (FineGroup - 1) + NarrowPerWord - 1) \div NarrowPerWord
ranks_(j) == (j \div FineGroup) * (FineGroup - 1) + (j % FineGroup) - 1

SemiPlace(i) ==
  LET j == i % (FineGroup * FineGroup)
      base_idx == (i \div (FineGroup * FineGroup)) * (2 + NarrowWords)
  IN CASE j = 0 -> << base_idx, 0 >>
       [] j # 0 /\ j % FineGroup = 0 -> << base_idx + 1, (j \div FineGroup - 1) * WideBits >>
       [] OTHER -> << base_idx + 2 + ranks_(j) \div NarrowPerWord,
                      (ranks_(j) % NarrowPerWord) * NarrowBits >>

\* twolevel_reloff: four bytes for the full offset, here at the first of them,
\* and a byte for each delta.
TwoLevelPlace(i) ==
  LET base_idx == (i \div group_size_) * (4 + group_size_ - 1)
  IN IF i % group_size_ = 0 THEN << base_idx, 0 >>
     ELSE << base_idx + 4 + (i % group_size_) - 1, 0 >>

Place(layout, i) == IF layout \in Semi THEN SemiPlace(i) ELSE TwoLevelPlace(i)

\* expected_size::index_size
index_size(keys_per_bucket) ==
  LET row == << keys_per_bucket, dest_keys_per_block_ >>
  IN IF row \in DOMAIN known_index_sizes THEN known_index_sizes[row] ELSE 3000000

\* A conversion to an integer drops the fraction, also of a negative number.
Truncate(millionths) ==
  IF millionths >= 0 THEN millionths \div 1000000 ELSE - ((- millionths) \div 1000000)

EmptyTable(layout, size, bits_per_key, keys_per_bucket) ==
  LET group == GroupSize(layout)
  IN [layout |-> layout, size |-> ((size + group - 1) \div group) * group, current_i |-> 0,
      bits_per_key |-> bits_per_key,
      \* << bits_per_bucket_, keys_per_bucket_ >>
      expected |-> << Truncate(keys_per_bucket * bits_per_key), keys_per_bucket >>,
      bucket_info |-> << >>, overflow |-> << >>,
      last_offsets |-> [j \in 0 .. group - 1 |-> << 0, 0 >>], failed |-> FALSE]

semi_direct_16_absoff_resize(size) == EmptyTable("semi_direct_16_absoff", size, 0, 0)
semi_direct_16_reloff_resize(size, keys_per_bucket) ==
  EmptyTable("semi_direct_16_reloff", size, index_size(keys_per_bucket), keys_per_bucket)
twolevel_reloff_resize(size, keys_per_bucket) ==
  EmptyTable("twolevel_reloff", size, index_size(keys_per_bucket), keys_per_bucket)

Info(b, i) == b.bucket_info[Place(b.layout, i)]
Last_offsets(b, i) == b.last_offsets[(i - Steps(b.layout, i)) % GroupSize(b.layout)]
-----------------------------------------------------------------------------
(* The relative layouts store how far a delta is from the average, biased    *)
(* to be positive; the index delta, also from what the keys account for.     *)

\* USE_KEY_DIVERGENCE_FOR_INDEX: more keys than expected take more bits.
Divergence(b, dest_delta) == Truncate(dest_delta * b.bits_per_key)

RelativeDeltas(b, o) ==
  LET i == b.current_i
      d == [t \in 1 .. 2 |-> o[t] - Last_offsets(b, i)[t] - Steps(b.layout, i) * b.expected[t]]
  IN << d[1] - Divergence(b, d[2]), d[2] >>

\* store_delta: a delta out of its field's range is marked there, and goes to
\* the overflow table.
Overflows(layout, i, v) == (v + Mask(layout, i) \div 2) \notin 0 .. Mask(layout, i) - 2
store_delta(b, d) ==
  [t \in 1 .. 2 |-> IF Overflows(b.layout, b.current_i, d[t]) THEN Mask(b.layout, b.current_i)
                    ELSE d[t] + Mask(b.layout, b.current_i) \div 2]

\* The ids are 2i and 2i + 1; the table's numbers are signed and wrap.
OverflowEntries(b, d) ==
  LET i == b.current_i
      half == 2 ^ (OverflowBits - 1)
  IN [id \in {2 * i + t - 1 : t \in {u \in 1 .. 2 : Overflows(b.layout, i, d[u])}} |->
        ((d[id - 2 * i + 1] + half) % 2 ^ OverflowBits) - half]

\* load_delta: the field of offset t of bucket i, and the id to look for.
load_delta(b, i, t, id) ==
  IF Info(b, i)[t] = Mask(b.layout, i) THEN b.overflow[id]
  ELSE Info(b, i)[t] - Mask(b.layout, i) \div 2

\* The id under which index_offset looks for the dest delta.  For a wide delta
\* semi_direct_16_reloff uses the id of the index delta.
DivergenceId(layout, i) == IF IsWide(layout, i) THEN 2 * i ELSE 2 * i + 1

\* assert(it != overflow_.end())
Loadable(b, i) ==
  \/ b.layout \notin Relative \/ IsBase(b.layout, i)
  \/ Info(b, i)[2] = Mask(b.layout, i) => DivergenceId(b.layout, i) \in DOMAIN b.overflow
-----------------------------------------------------------------------------
(* index_offset and dest_offset.                                             *)

RECURSIVE semi_direct_16_absoff_offsets(_, _)
semi_direct_16_absoff_offsets(b, i) ==
  IF IsBase(b.layout, i) THEN Info(b, i)
  ELSE LET from == semi_direct_16_absoff_offsets(b, i - Steps(b.layout, i))
       IN [t \in 1 .. 2 |-> Info(b, i)[t] + from[t]]

RECURSIVE semi_direct_16_reloff_offsets(_, _)
semi_direct_16_reloff_offsets(b, i) ==
  IF IsBase(b.layout, i) THEN Info(b, i)
  ELSE LET steps == Steps(b.layout, i)
           from == semi_direct_16_reloff_offsets(b, i - steps)
       IN << load_delta(b, i, 1, 2 * i) + from[1] + steps * b.expected[1]
               + Divergence(b, load_delta(b, i, 2, DivergenceId(b.layout, i))),
             load_delta(b, i, 2, 2 * i + 1) + from[2] + steps * b.expected[2] >>

\* The full offset, all deltas from it on, and the average for each.
twolevel_reloff_offsets(b, i) ==
  LET first == (i \div group_size_) * group_size_
      v[j \in first .. i] ==
        IF j = first THEN Info(b, first)
        ELSE << v[j - 1][1] + load_delta(b, j, 1, 2 * j)
                  + Divergence(b, load_delta(b, j, 2, 2 * j + 1)),
                v[j - 1][2] + load_delta(b, j, 2, 2 * j + 1) >>
  IN [t \in 1 .. 2 |-> v[i][t] + (i % group_size_) * b.expected[t]]

Offsets(b, i) ==
  CASE b.layout = "flat_absoff" -> flat_absoff_offsets(b, i)
    [] b.layout = "twolevel_absoff" -> twolevel_absoff_offsets(b, i)
    [] b.layout = "semi_direct_16_absoff" -> semi_direct_16_absoff_offsets(b, i)
    [] b.layout = "semi_direct_16_reloff" -> semi_direct_16_reloff_offsets(b, i)
    [] b.layout = "twolevel_reloff" -> twolevel_reloff_offsets(b, i)
-----------------------------------------------------------------------------
(* insert                                                                    *)

\* Store the fields of the next bucket, with its overflow entries, and assert
\* that they read back.
Inserted(b, o, stored, over) ==
  LET i == b.current_i
      after == [b EXCEPT !.bucket_info = (Place(b.layout, i) :> stored) @@ @,
                         !.overflow = over @@ @,
                         !.last_offsets[i % GroupSize(b.layout)] = o,
                         !.current_i = @ + 1]
  IN [after EXCEPT !.failed =
        \/ i >= b.size
        \/ DOMAIN over # {} /\ i >= 1000 /\ Cardinality(DOMAIN b.overflow) >= (i * 2) \div 5
        \/ ~Loadable(after, i)
        \/ Offsets(after, i) # o]

\* store of semi_direct_16: assert((v & mask) == v)
Fits(b, stored) ==
  LET mask == IF IsBase(b.layout, b.current_i) THEN 2 ^ WordBits - 1 ELSE Mask(b.layout, b.current_i)
  IN \A t \in 1 .. 2 : stored[t] \in 0 .. mask

semi_direct_16_absoff_insert(b, o) ==
  LET stored == IF IsBase(b.layout, b.current_i) THEN o
                ELSE [t \in 1 .. 2 |-> o[t] - Last_offsets(b, b.current_i)[t]]
  IN IF Fits(b, stored) THEN Inserted(b, o, stored, << >>) ELSE [b EXCEPT !.failed = TRUE]

semi_direct_16_reloff_insert(b, o) ==
  LET d == RelativeDeltas(b, o)
  IN CASE ~IsBase(b.layout, b.current_i) -> Inserted(b, o, store_delta(b, d), OverflowEntries(b, d))
       [] IsBase(b.layout, b.current_i) /\ Fits(b, o) -> Inserted(b, o, o, << >>)
       [] OTHER -> [b EXCEPT !.failed = TRUE]

twolevel_reloff_insert(b, o) ==
  LET d == RelativeDeltas(b, o)
  IN IF IsBase(b.layout, b.current_i)
     THEN Inserted(b, o, [t \in 1 .. 2 |-> o[t] % 2 ^ WordBits], << >>)
     ELSE Inserted(b, o, store_delta(b, d), OverflowEntries(b, d))

\* A process that an assert ended inserts no more.
bucketing_insert(b, index_offset, dest_offset) ==
  LET o == << index_offset, dest_offset >>
  IN CASE b.failed -> b
       [] ~b.failed /\ b.layout = "flat_absoff" -> flat_absoff_insert(b, o)
       [] ~b.failed /\ b.layout = "twolevel_absoff" -> twolevel_absoff_insert(b, o)
       [] ~b.failed /\ b.layout = "semi_direct_16_absoff" -> semi_direct_16_absoff_insert(b, o)
       [] ~b.failed /\ b.layout = "semi_direct_16_reloff" -> semi_direct_16_reloff_insert(b, o)
       [] ~b.failed /\ b.layout = "twolevel_reloff" -> twolevel_reloff_insert(b, o)

resize(layout, size, keys_per_bucket) ==
  CASE layout = "flat_absoff" -> flat_absoff_resize(size)
    [] layout = "twolevel_absoff" -> twolevel_absoff_resize(size, keys_per_bucket)
    [] layout = "semi_direct_16_absoff" -> semi_direct_16_absoff_resize(size)
    [] layout = "semi_direct_16_reloff" -> semi_direct_16_reloff_resize(size, keys_per_bucket)
    [] layout = "twolevel_reloff" -> twolevel_reloff_resize(size, keys_per_bucket)
==============================================================================
