----------------------------- MODULE MCKVStore -----------------------------
(***************************************************************************)
(* Values of the constants of KVStore for TLC.                             *)
(***************************************************************************)
EXTENDS KVStore, TLC

CONSTANTS k1, k2, v1, v2

\* Every entry has size 1, so that the threshold counts keys.
UnitSize == [v \in Values \union {Tombstone} |-> 1]

\* v2 alone reaches a threshold of 2, v1 and a tombstone do not.
MixedSize == [v \in Values \union {Tombstone} |-> IF v = v2 THEN 2 ELSE 1]

\* Timestamps handed out in the first, second, ... lifetime of the process.
Writes4  == [s \in 0 .. 0 |-> 4]
Writes7  == [s \in 0 .. 0 |-> 7]
Writes8  == [s \in 0 .. 0 |-> 8]

Writes4Then3 == [s \in 0 .. 1 |-> IF s = 0 THEN 4 ELSE 3]
Writes3Then1 == [s \in 0 .. 1 |-> IF s = 0 THEN 3 ELSE 1]
Writes4Then0 == [s \in 0 .. 1 |-> IF s = 0 THEN 4 ELSE 0]
Writes8Then0 == [s \in 0 .. 1 |-> IF s = 0 THEN 8 ELSE 0]

Symmetry == Permutations({k1, k2})
=============================================================================
