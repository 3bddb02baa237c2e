---------------------------- MODULE BloomFilter ----------------------------
(***************************************************************************)
(* The Bloom filter of a table: bits in bytes, set and tested at positions *)
(* that two hash values of the key determine.  A byte is the set of its    *)
(* bits that are 1.                                                        *)
(***************************************************************************)
EXTENDS Integers, Sequences

CONSTANTS
  Hash1, Hash2,  \* std::hash of a key and of the key with a zero byte
  HashLimit      \* 2^64: hash values are added and multiplied modulo this

ASSUME HashLimitIsPositive == HashLimit \in Nat \ {0}

\* A filter that was not loaded.
NoFilter == [bit_count |-> 0, num_hashes |-> 0, bits |-> <<>>]

AtLeastOne(n) == IF n < 1 THEN 1 ELSE n

\* n ln(100) / ln(2)^2 and ln(2) m / n, rounded down.
optimal_bit_count(n)     == AtLeastOne((958506 * n) \div 100000)
optimal_num_hashes(m, n) == AtLeastOne((693147 * m) \div (1000000 * n))

ByteCount(m) == (m + 7) \div 8

hash(f, k, i) == ((Hash1[k] + i * Hash2[k]) % HashLimit) % f.bit_count

Positions(f, k) == {hash(f, k, i) : i \in 0 .. f.num_hashes - 1}

IsSet(f, p) == p % 8 \in f.bits[p \div 8]

\* The filter of n items before any of them is added.
Filter(n) ==
  LET m == optimal_bit_count(n)
  IN  [bit_count |-> m, num_hashes |-> optimal_num_hashes(m, n),
       bits |-> [b \in 0 .. ByteCount(m) - 1 |-> {}]]

add_all(f, ks) ==
  [f EXCEPT !.bits = [b \in DOMAIN f.bits |->
      f.bits[b] \union {p % 8 : p \in {q \in UNION {Positions(f, k) : k \in ks} : q \div 8 = b}}]]

may_contain(f, k) == f.bit_count = 0 \/ \A p \in Positions(f, k) : IsSet(f, p)

serialize(f) == <<f.num_hashes, f.bit_count>> \o [b \in 1 .. ByteCount(f.bit_count) |-> f.bits[b - 1]]

\* Faulty variant: the number of bytes is rounded down, the last bits are lost.
DeserializeShort(d) ==
  [num_hashes |-> d[1], bit_count |-> d[2],
   bits |-> [b \in 0 .. ByteCount(d[2]) - 1 |-> IF b < d[2] \div 8 THEN d[b + 3] ELSE {}]]

deserialize(d) ==
  [num_hashes |-> d[1], bit_count |-> d[2],
   bits |-> [b \in 0 .. ByteCount(d[2]) - 1 |-> d[b + 3]]]
=============================================================================
