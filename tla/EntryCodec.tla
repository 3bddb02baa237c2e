----------------------------- MODULE EntryCodec -----------------------------
(***************************************************************************)
(* Entries and their encoding, the unit of log, memtable and table.  A     *)
(* sequence of cells stands for a string of bytes: a cell is one character *)
(* of a key or value, or one field of fixed width.  The lengths of key and *)
(* value are told by 32 bits: the encoding is that of the code for texts   *)
(* of less than 4 GiB.                                                     *)
(***************************************************************************)
EXTENDS KeyOrder

CONSTANTS
  KeyText,  \* the text of each key
  Entries   \* the values and tombstones that are written

\* OpType
PUT    == 0
DELETE == 1

EntryType == [type : {PUT, DELETE}, timestamp : Nat, value : Seq(Nat)]

\* A tombstone has no value.
ASSUME EntriesAreSane ==
  /\ KeyText \in [Keys -> Seq(Nat)]
  /\ \A k, l \in Keys : KeyText[k] = KeyText[l] => k = l
  /\ Entries \subseteq EntryType
  /\ \A e \in Entries : e.type = DELETE => e.value = <<>>
  /\ Nil \notin Entries

is_tombstone(e) == e.type = DELETE

\* What a reader is told of an entry.  Nil stands for std::nullopt too.
Visible(e) == IF e = Nil \/ is_tombstone(e) THEN Nil ELSE e

\* An entry with its key.
Full(k, e) == [key |-> KeyText[k], type |-> e.type, timestamp |-> e.timestamp, value |-> e.value]

ASSUME FullIsNotNil == \A k \in Keys : \A e \in Entries : Full(k, e) # Nil

\* Type, time stamp, length of the key, key, length of the value, value.
encode(f) ==
  <<f.type, f.timestamp, Len(f.key)>> \o f.key \o <<Len(f.value)>> \o f.value

\* The four fields of fixed width, 17 bytes, and the two texts.
encode_size(f) == 4 + Len(f.key) + Len(f.value)

\* Faulty variant: a value that ends with the data is taken for a cut one.
HoldsMore(d) ==
  /\ Len(d) >= 3
  /\ Len(d) >= 4 + d[3]
  /\ Len(d) > 4 + d[3] + d[4 + d[3]]

\* Every field lies within the data, whatever follows it.
HoldsEntry(d) ==
  /\ Len(d) >= 3
  /\ Len(d) >= 4 + d[3]
  /\ Len(d) >= 4 + d[3] + d[4 + d[3]]

decode(d) ==
  IF ~HoldsEntry(d) THEN Nil
  ELSE [key |-> SubSeq(d, 4, 3 + d[3]), type |-> d[1], timestamp |-> d[2],
        value |-> SubSeq(d, 5 + d[3], 4 + d[3] + d[4 + d[3]])]
=============================================================================
