------------------------------ MODULE SSTable ------------------------------
(***************************************************************************)
(* A table file and the SSTable object that reads it.                      *)
(*                                                                         *)
(* The file has a data region, an index, a Bloom filter and a footer.  The *)
(* object loads each part when it is first needed and keeps it.  Every     *)
(* loading opens the file, and an open may fail.  Version 3 of the format  *)
(* compresses the data region, version 2 does not, version 1 has no Bloom  *)
(* filter either.                                                          *)
(***************************************************************************)
EXTENDS EntryCodec, BloomFilter, SequencesExt

CONSTANTS
  LZ4_MAX_INPUT_SIZE,  \* in cells
  Word,                \* how many sizes a field of 32 bits tells apart
  Garbage,             \* an entry read behind the end of a buffer
  MaxFailedOpens       \* bound: how many opens may fail in one call

ASSUME HashesAreNumbers == Hash1 \in [Keys -> Nat] /\ Hash2 \in [Keys -> Nat]

ASSUME WordIsLarge == LZ4_MAX_INPUT_SIZE \in Nat /\ Word \in Nat /\ LZ4_MAX_INPUT_SIZE < Word

\* The lengths of a single entry and of its parts are told by 32 bits.
ASSUME EntriesFitWord == \A k \in Keys : \A e \in Entries : encode_size(Full(k, e)) < Word

ASSUME GarbageIsNotData ==
  Garbage # Nil /\ \A k \in Keys : \A e \in Entries : Garbage # Full(k, e)

VARIABLES
  file,   \* the table file
  cache   \* the SSTable object: what it has loaded

NoFooter == [magic |-> "", num_entries |-> 0, version |-> 0, checksum |-> <<>>, reserved |-> 0]

\* A fresh object.
Unloaded == [footer |-> NoFooter, footer_loaded |-> FALSE,
             bloom |-> NoFilter, bloom_loaded |-> FALSE,
             index |-> <<>>, data |-> <<>>, data_loaded |-> FALSE]

-----------------------------------------------------------------------------
(***************************************************************************)
(* Writing the entries es, a sequence of [key, entry] in the order of      *)
(* keys.                                                                   *)
(***************************************************************************)

Record(x) == LET e == encode(Full(x.key, x.entry)) IN <<Len(e)>> \o e

Buffer(es) == FlattenSeq([i \in DOMAIN es |-> Record(es[i])])

\* Faulty variant: the offset of the entry behind its length.
OffsetBehindLength(es, i) == Len(Buffer(SubSeq(es, 1, i - 1))) + 1

Offset(es, i) == Len(Buffer(SubSeq(es, 1, i - 1)))

Index(es) == [i \in DOMAIN es |-> [key |-> es[i].key, offset |-> Offset(es, i),
                                   type |-> es[i].entry.type]]

\* LZ4 is told the size of the data in 32 bits: of data that is larger it
\* compresses a part.  It returns 0, and no data, for a size beyond its limit
\* or one that is negative as an int.  Its output begins with a token.
Compressed(d) ==
  LET size == Len(d) % Word
  IN  IF size > LZ4_MAX_INPUT_SIZE THEN <<>> ELSE <<0>> \o SubSeq(d, 1, size)

Decompresses(c, size) == c # <<>> /\ Len(Tail(c)) <= size

\* The filter is made for the number of entries.
FilterOf(es) == add_all(Filter(Len(es)), {es[i].key : i \in DOMAIN es})

\* The checksum of the data region is as good as the data itself.  The index
\* is taken to end below 4 GiB, so that the footer tells where the filter is.
Written(es, version) ==
  LET d == IF version = 3 THEN Compressed(Buffer(es)) ELSE Buffer(es)
  IN  [size   |-> Len(Buffer(es)) % Word,
       data   |-> d,
       index  |-> Index(es),
       bloom  |-> IF version = 1 THEN <<>> ELSE serialize(FilterOf(es)),
       footer |-> [magic |-> "SST", num_entries |-> Len(es), version |-> version,
                   checksum |-> d, reserved |-> IF version = 1 THEN 0 ELSE 1]]

\* write_from_entries, as in this version of the code.  It does not look how
\* much LZ4 has compressed.  The object keeps the filter it has written.
write_from_entries(es) ==
  /\ file' = Written(es, 3)
  /\ cache' = [Unloaded EXCEPT !.bloom = FilterOf(es)]

-----------------------------------------------------------------------------
(***************************************************************************)
(* Loading: what becomes of the object c if the opens in between succeed   *)
(* (o, p: the first and the second open).                                  *)
(***************************************************************************)

load_footer(c, o) ==
  IF c.footer_loaded \/ ~o THEN c
  ELSE [c EXCEPT !.footer = file.footer, !.footer_loaded = file.footer.magic = "SST"]

HasFilter(c) == c.footer.version >= 2 /\ c.footer.reserved > 0

WithFilter(c) == [c EXCEPT !.bloom = deserialize(file.bloom), !.bloom_loaded = TRUE]

load_bloom_filter(c, o, p) ==
  LET f == load_footer(c, o)
  IN  CASE c.bloom_loaded -> c
        [] ~c.bloom_loaded /\ f.footer_loaded /\ ~HasFilter(f) -> [f EXCEPT !.bloom_loaded = TRUE]
        [] ~c.bloom_loaded /\ f.footer_loaded /\ HasFilter(f) /\ p -> WithFilter(f)
        [] OTHER -> f

\* Faulty variant: one entry too few.
IndexWithoutLast(f) == SubSeq(file.index, 1, f.footer.num_entries - 1)

\* As many entries of the index as the footer counts.
IndexOf(f) == SubSeq(file.index, 1, f.footer.num_entries)

\* A loaded index is one that is not empty.  The filter is loaded with it.
load_index(c, o, p) ==
  LET f == load_footer(c, o)
      i == [f EXCEPT !.index = IndexOf(f)]
  IN  CASE c.index # <<>> -> c
        [] c.index = <<>> /\ ~(f.footer_loaded /\ p) -> f
        [] OTHER -> IF ~f.bloom_loaded /\ HasFilter(f) THEN WithFilter(i) ELSE i

ChecksumIsRight(c) == c.footer.checksum = file.data

\* The data region of version 3; its footer is loaded with the index.
load_data(c, o) ==
  IF c.data_loaded \/ ~o \/ ~ChecksumIsRight(c) \/ ~Decompresses(file.data, file.size) THEN c
  ELSE [c EXCEPT !.data = Tail(file.data), !.data_loaded = TRUE]

-----------------------------------------------------------------------------
(***************************************************************************)
(* Reading.                                                                *)
(***************************************************************************)

\* The entry at an offset of a data region, with its length in front.  The
\* reader does not compare them with the size of the region: what it takes
\* from behind the end may be anything, or end the process.
EntryAt(d, offset) ==
  IF offset + 1 > Len(d) \/ offset + 1 + d[offset + 1] > Len(d) THEN Garbage
  ELSE decode(SubSeq(d, offset + 2, offset + 1 + d[offset + 1]))

\* The first position of s whose key is not less than k (std::lower_bound).
lower_bound(s, k) ==
  LET probe[n \in 0 .. Len(s)] ==
        [low \in 1 .. Len(s) + 1 |->
           LET middle == low + n \div 2
           IN  IF n = 0 THEN low
               ELSE IF s[middle].key < k THEN probe[n - n \div 2 - 1][middle + 1]
               ELSE probe[n \div 2][low]]
  IN  probe[Len(s)][1]

Holds(c, k) == LET i == lower_bound(c.index, k)
               IN  i <= Len(c.index) /\ c.index[i].key = k

IndexEntry(c, k) == c.index[lower_bound(c.index, k)]

\* After the index is loaded: the object, and whether the data can be read.
\* Versions 1 and 2 read each entry from the file.
LoadedData(c, o) == IF c.footer.version >= 3 THEN load_data(c, o) ELSE c
CanRead(c, o)    == IF c.footer.version >= 3 THEN c.data_loaded ELSE o
DataOf(c)        == IF c.footer.version >= 3 THEN c.data ELSE file.data

\* How the opens of one call go: at most MaxFailedOpens of them fail.
Opens == {o \in [1 .. 5 -> BOOLEAN] :
            Cardinality({i \in 1 .. 5 : ~o[i]}) <= MaxFailedOpens}

\* may_contain: a filter that cannot be loaded excludes nothing.
MayContain(c, k) == ~c.bloom_loaded \/ may_contain(c.bloom, k)

Told(e) == IF e = Garbage THEN Garbage ELSE Visible(e)

\* get, and the reading of one table by KVStore::get, which skips a tombstone
\* when it sees it in the index: the object afterwards, and what is found.
AfterGet(k, o, skips) ==
  LET b == load_bloom_filter(cache, o[1], o[2])
      i == load_index(b, o[3], o[4])
      d == LoadedData(i, o[5])
      at == IndexEntry(i, k).offset
  IN  CASE ~MayContain(b, k) -> [cache |-> b, found |-> Nil]
        [] MayContain(b, k) /\ (~Holds(i, k) \/ (skips /\ IndexEntry(i, k).type = DELETE)) ->
             [cache |-> i, found |-> Nil]
        [] OTHER -> [cache |-> d,
                     found |-> IF CanRead(d, o[5]) THEN Told(EntryAt(DataOf(d), at)) ELSE Nil]

\* An entry that cannot be decoded is left out.
Kept(e) == IF e = Nil THEN <<>> ELSE <<e>>

\* get_all_entries
AfterGetAll(o) ==
  LET i == load_index(cache, o[1], o[2])
      d == LoadedData(i, o[3])
      read == [j \in DOMAIN d.index |-> Kept(EntryAt(DataOf(d), d.index[j].offset))]
  IN  IF i.index = <<>> THEN [cache |-> i, entries |-> <<>>]
      ELSE [cache |-> d, entries |-> IF CanRead(d, o[3]) THEN FlattenSeq(read) ELSE <<>>]

\* keys(): the live keys of the index.
AfterKeys(o) ==
  LET i == load_index(cache, o[1], o[2])
  IN  [cache |-> i, keys |-> {i.index[j].key : j \in {m \in DOMAIN i.index :
                                                        i.index[m].type # DELETE}}]
=============================================================================
