------------------------------ MODULE TrieIndex ------------------------------
(* The entropy-coded trie index of the sorted back store (siltds/cindex):    *)
(* Huffman codes for small subtree sizes, exponential Golomb codes for large *)
(* ones, the recursive trie code, and the bucketing index that puts them     *)
(* together with a table of bucket offsets (Bucketing).                      *)
(*                                                                           *)
(* A key is a number of KeyBits bits, compared as memcmp compares its bytes. *)
(* A bit vector is a sequence of 0 and 1; positions in it ("iter") count     *)
(* from 0, as in the code.                                                   *)
EXTENDS Bucketing

CONSTANTS
  KeyBits,              \* key_len_ * 8
  HuffmanCodingLimit,   \* subtrees of at most this many keys have Huffman codes (16 in the code)
  bucket_size,          \* the configured number of keys per bucket
  skip_bits_            \* leading bits that all keys of the store share

ASSUME IndexAssumption ==
  /\ KeyBits \in Nat \ {0} /\ skip_bits_ \in 0 .. KeyBits - 1
  /\ HuffmanCodingLimit \in Nat /\ HuffmanCodingLimit >= 2
  \* With buckets of one key the average bucket can be rounded down to no keys,
  \* and twolevel_absoff_bucketing::resize divides by zero.
  /\ bucket_size \in Nat /\ bucket_size >= 2

Keys == 0 .. 2 ^ KeyBits - 1

\* bit_access::get: bit 0 is the most significant one.
Bit(key, i) == (key \div 2 ^ (KeyBits - 1 - i)) % 2

\* bit_vector::append of a number's low "len" bits, and bit_vector::get.
LowBits(m, len) == [i \in 1 .. len |-> (m \div 2 ^ (len - i)) % 2]
GetBits(buf, iter, len) ==
  FoldLeft(LAMBDA acc, b : 2 * acc + b, 0, SubSeq(buf, iter + 1, iter + len))
-----------------------------------------------------------------------------
(* exp_golomb (order 0) and sign_interleave.                                 *)

BitLength(m) == CHOOSE len \in 1 .. m : 2 ^ (len - 1) <= m /\ m < 2 ^ len

exp_golomb_encode(n) ==
  LET len == BitLength(n + 1)
  IN [i \in 1 .. len - 1 |-> 0] \o << 1 >> \o LowBits(n + 1, len - 1)

\* The number and the position after its code.
exp_golomb_decode(buf, iter) ==
  LET zeros == CHOOSE z \in 0 .. Len(buf) - iter - 1 :
                 buf[iter + z + 1] = 1 /\ \A i \in 1 .. z : buf[iter + i] = 0
  IN << 2 ^ zeros + GetBits(buf, iter + zeros + 1, zeros) - 1, iter + 2 * zeros + 1 >>

sign_interleave_encode(v) == IF v >= 0 THEN 2 * v ELSE 2 * (- v - 1) + 1

sign_interleave_decode(v) == IF v % 2 = 0 THEN v \div 2 ELSE - (v \div 2) - 1
-----------------------------------------------------------------------------
(* huffman.hpp.  A tree over the symbols 0 .. n is a sequence of <<left,     *)
(* right>> nodes: reference r > n is node r - n, and the last is the root.   *)

\* How many of the 2^n ways to split n keys at a bit leave k on the left.
Splits(n) ==
  LET v[k \in 0 .. n] == IF k = 0 THEN 1 ELSE (v[k - 1] * (n - k + 1)) \div k IN v

\* std::multimap::insert of <<frequency, reference>>: behind its equals.
Enqueue(q, e) ==
  SelectSeq(q, LAMBDA x : x[1] <= e[1]) \o << e >> \o SelectSeq(q, LAMBDA x : x[1] > e[1])

\* huffman_tree_generator::generate, from the queue "q" on.
RECURSIVE Generate(_, _, _)
Generate(q, nodes, n) ==
  IF Len(q) = 1 THEN nodes
  ELSE Generate(Enqueue(SubSeq(q, 3, Len(q)), << q[1][1] + q[2][1], n + 1 + Len(nodes) >>),
                Append(nodes, << q[1][2], q[2][2] >>), n)

HuffmanTree(n) ==
  Generate(FoldLeft(LAMBDA q, k : Enqueue(q, << Splits(n)[k], k >>), << >>, [i \in 1 .. n + 1 |-> i - 1]),
           << >>, n)

\* huffman_table::generate: the paths below reference r, left 0 and right 1.
RECURSIVE CodesBelow(_, _, _, _)
CodesBelow(nodes, n, r, prefix) ==
  IF r <= n THEN {<< r, prefix >>}
  ELSE CodesBelow(nodes, n, nodes[r - n][1], Append(prefix, 0))
         \cup CodesBelow(nodes, n, nodes[r - n][2], Append(prefix, 1))

\* trie::trie: a tree and a code table for every subtree size up to the limit.
huff_ ==
  [n \in 2 .. HuffmanCodingLimit |->
     LET nodes == HuffmanTree(n)
         codes == CodesBelow(nodes, n, 2 * n, << >>)
     IN [nodes |-> nodes, code |-> [k \in 0 .. n |-> (CHOOSE c \in codes : c[1] = k)[2]]]]

\* huffman::decode: the symbol at "iter" and the position after it.
RECURSIVE Walk(_, _, _, _)
Walk(n, buf, iter, r) ==
  IF r <= n THEN << r, iter >>
  ELSE Walk(n, buf, iter + 1, huff_[n].nodes[r - n][buf[iter + 1] + 1])
huffman_decode(n, buf, iter) == Walk(n, buf, iter, 2 * n)
-----------------------------------------------------------------------------
(* trie.hpp.  "pos" is dest_base + off, the position of a subtree's first    *)
(* key in the data store.                                                    *)

\* Subtrees of one key, or inside one block, have no code.
NotEncoded(pos, n) ==
  \/ n <= 1
  \/ /\ n <= dest_keys_per_block_
     /\ pos \div dest_keys_per_block_ = (pos + n - 1) \div dest_keys_per_block_

EncodeLeft(n, left) ==
  IF n <= HuffmanCodingLimit THEN huff_[n].code[left]
  ELSE exp_golomb_encode(sign_interleave_encode(left - n \div 2))

DecodeLeft(n, buf, iter) ==
  IF n <= HuffmanCodingLimit THEN huffman_decode(n, buf, iter)
  ELSE LET d == exp_golomb_decode(buf, iter)
       IN << sign_interleave_decode(d[1]) + n \div 2, d[2] >>

\* encode_rec: the sorted keys of a subtree that starts at bit "depth".
RECURSIVE encode_rec(_, _, _)
encode_rec(arr, pos, depth) ==
  LET n == Len(arr)
      ones == {i \in 1 .. n : Bit(arr[i], depth) = 1}
      left == Min(ones \cup {n + 1}) - 1
  IN IF NotEncoded(pos, n) THEN << >>
     ELSE EncodeLeft(n, left)
            \o encode_rec(SubSeq(arr, 1, left), pos, depth + 1)
            \o encode_rec(SubSeq(arr, left + 1, n), pos + left, depth + 1)

\* skip_rec: the position after a subtree's code.
RECURSIVE skip_rec(_, _, _, _)
skip_rec(buf, iter, pos, n) ==
  IF NotEncoded(pos, n) THEN iter
  ELSE LET d == DecodeLeft(n, buf, iter)
       IN skip_rec(buf, skip_rec(buf, d[2], pos, d[1]), pos + d[1], n - d[1])

\* locate_rec: the number of keys of the subtree before the key.
RECURSIVE locate_rec(_, _, _, _, _, _)
locate_rec(buf, iter, key, pos, n, depth) ==
  IF NotEncoded(pos, n) THEN 0
  ELSE LET d == DecodeLeft(n, buf, iter)
       IN IF Bit(key, depth) = 0
          THEN locate_rec(buf, d[2], key, pos, d[1], depth + 1)
          ELSE d[1] + locate_rec(buf, skip_rec(buf, d[2], pos, d[1]), key,
                                 pos + d[1], n - d[1], depth + 1)
-----------------------------------------------------------------------------
(* bucketing_index.  "inserted" remembers the offsets given to the table.    *)

bucketing_index(index_type, n) ==
  LET bits == CHOOSE b \in 0 .. n : /\ 2 ^ b >= n \div bucket_size
                                    /\ b = 0 \/ 2 ^ (b - 1) < n \div bucket_size
      count == 2 ^ bits
  IN [bucket_bits |-> bits, bucket_count |-> count, repr |-> << >>,
      bucketing |-> bucketing_insert(resize(index_type, count + 1, n \div count), 0, 0),
      inserted |-> << << 0, 0 >> >>,
      last_dest_offset |-> 0, pending_bucket |-> 0, pending_keys |-> << >>]

finalized(ix) == ix.pending_bucket = ix.bucket_count

\* The bucket is the number made of the bucket_bits bits after the skipped ones.
find_bucket(ix, key) ==
  (key \div 2 ^ (KeyBits - skip_bits_ - ix.bucket_bits)) % ix.bucket_count

\* Encode the keys of the pending bucket and move on to the next.
index_pending_keys(ix) ==
  LET repr == ix.repr \o encode_rec(ix.pending_keys, ix.last_dest_offset, skip_bits_ + ix.bucket_bits)
      dest == ix.last_dest_offset + Len(ix.pending_keys)
  IN [ix EXCEPT !.repr = repr, !.pending_bucket = @ + 1,
                !.bucketing = bucketing_insert(@, Len(repr), dest),
                !.inserted = Append(@, << Len(repr), dest >>),
                !.last_dest_offset = dest, !.pending_keys = << >>]

RECURSIVE IndexUpTo(_, _)
IndexUpTo(ix, bucket) ==
  IF ix.pending_bucket < bucket THEN IndexUpTo(index_pending_keys(ix), bucket) ELSE ix

\* insert refuses a key that is not larger than the one before it.
Sorted(ix, key) ==
  /\ ix.pending_bucket <= find_bucket(ix, key)
  /\ ix.pending_keys = << >> \/ Last(ix.pending_keys) < key
insert(ix, key) == [IndexUpTo(ix, find_bucket(ix, key)) EXCEPT !.pending_keys = Append(@, key)]

flush(ix) == IndexUpTo(ix, ix.bucket_count)

locate(ix, key) ==
  LET bucket == find_bucket(ix, key)
      o == Offsets(ix.bucketing, bucket)
      n == Offsets(ix.bucketing, bucket + 1)[2] - o[2]
  IN o[2] + locate_rec(ix.repr, o[1], key, o[2], n, skip_bits_ + ix.bucket_bits)
==============================================================================
