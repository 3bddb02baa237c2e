----------------------------- MODULE FlushPath -----------------------------
(***************************************************************************)
(* From the memtable to a table and back: a memtable is filled, written to *)
(* a table file by flush_immutable, and the table is read as get and       *)
(* compaction read it, also after a restart, with opens that fail and a    *)
(* file that is damaged at rest.                                           *)
(*                                                                         *)
(*   table  the memtable is written and dropped, the table is read         *)
(***************************************************************************)
EXTENDS MemTable, SSTable

CONSTANTS
  Damages,  \* what may happen to the file while no process runs
  Versions  \* the versions of the file format that are read

ASSUME VersionsAreKnown == Versions \subseteq {1, 2, 3}

VARIABLES
  written,  \* what the memtable held when it was flushed
  fits,     \* 32 bits told the size of the data that was compressed
  opened,   \* no open failed in the last call
  entries,  \* what get_all_entries has returned, if it was called last
  listed    \* what keys() has returned, if it was called last

tableVars == <<file, cache, written, fits, opened, entries, listed>>
flushVars == <<memTable, tableVars>>

Nothing == [k \in Keys |-> Nil]

FlushInit ==
  /\ MemTableInit
  /\ file = Nil /\ cache = Unloaded
  /\ written = Nothing /\ fits = TRUE /\ opened = TRUE /\ entries = Nil /\ listed = Nil

Fill ==
  /\ \/ \E k \in Keys : get(k) \/ \E e \in Entries : write(k, e)
     \/ clear \/ get_all_entries
     \/ MemTableStep
  /\ UNCHANGED tableVars

\* What get_all_entries() of the memtable returns.
Passed == [i \in DOMAIN collected |-> [key |-> collected[i], entry |-> value[collected[i]]]]

\* flush_immutable, or an older build of it, writes the file; the memtable is
\* dropped for a new one.
Flush ==
  /\ Collected
  /\ \/ write_from_entries(Passed) /\ fits' = (Len(Buffer(Passed)) < Word)
     \/ \E v \in Versions \ {3} : file' = Written(Passed, v) /\ cache' = Unloaded /\ fits' = TRUE
  /\ written' = value
  /\ Emptied /\ EndSearch
  /\ pc' = "table" /\ total_encoded_size_' = 0 /\ collected' = <<>>
  /\ UNCHANGED <<key, entry, answer, opened, entries, listed>>

\* The walk was made for keys() or size(), and nothing is written.
Look ==
  /\ Collected
  /\ pc' = "idle" /\ collected' = <<>> /\ EndSearch
  /\ UNCHANGED <<list, total_encoded_size_, key, entry, answer, tableVars>>

-----------------------------------------------------------------------------
ListIsIdle == UNCHANGED <<list, search, total_encoded_size_, pc, key, entry, collected>>

\* A call that reads the table opens the file as o says.
Call(o) ==
  /\ pc = "table" /\ o \in Opens
  /\ opened' = \A i \in 1 .. 5 : o[i]
  /\ ListIsIdle /\ UNCHANGED <<file, written, fits>>

TableGet(k, o) ==
  /\ Call(o)
  /\ \E skips \in BOOLEAN :
       /\ cache' = AfterGet(k, o, skips).cache
       /\ answer' = [key |-> k, found |-> AfterGet(k, o, skips).found]
  /\ entries' = Nil /\ listed' = Nil

TableGetAll(o) ==
  /\ Call(o)
  /\ cache' = AfterGetAll(o).cache
  /\ entries' = AfterGetAll(o).entries
  /\ answer' = Nil /\ listed' = Nil

TableKeys(o) ==
  /\ Call(o)
  /\ cache' = AfterKeys(o).cache
  /\ listed' = AfterKeys(o).keys
  /\ answer' = Nil /\ entries' = Nil

NoResults == answer' = Nil /\ entries' = Nil /\ listed' = Nil /\ opened' = TRUE

\* A fresh object reads the file, which may have been damaged in between.
Reopen ==
  /\ pc = "table"
  /\ cache' = Unloaded /\ NoResults
  /\ ListIsIdle /\ UNCHANGED <<file, written, fits>>

\* The file is as it was written, and LZ4 has taken all of its data.
Readable ==
  /\ file.footer.magic = "SST"
  /\ file.footer.version = 3 => file.data = file.footer.checksum /\ Decompresses(file.data, file.size)

\* The file is cut short, so that its end is no footer, ...
CutShort == file' = [file EXCEPT !.footer = [NoFooter EXCEPT !.magic = "other"]]

\* ... or its data region is damaged, in the data or in the size before it.
\* (Versions 1 and 2 have no checksum that is looked at.)
DamageData ==
  /\ file.footer.version = 3
  /\ \/ file' = [file EXCEPT !.data = Tail(@)]
     \/ file.size > 0 /\ file' = [file EXCEPT !.size = @ - 1]

Damage ==
  /\ pc = "table" /\ cache = Unloaded /\ Readable
  /\ \/ "cut" \in Damages /\ CutShort
     \/ "data" \in Damages /\ DamageData
  /\ NoResults
  /\ ListIsIdle /\ UNCHANGED <<cache, written, fits>>

FlushNext ==
  \/ Fill \/ Flush \/ Look
  \/ \E o \in Opens : TableGetAll(o) \/ TableKeys(o) \/ \E k \in Keys : TableGet(k, o)
  \/ Reopen \/ Damage

FlushSpec == FlushInit /\ [][FlushNext]_flushVars

-----------------------------------------------------------------------------
\* The entry of key k in a map m, without a tombstone.
EntryIn(m, k) == IF Visible(m[k]) = Nil THEN Nil ELSE Full(k, m[k])

\* What a table of 4 GiB and more may be read as, whose size no field tells.
Misread == IF fits THEN {} ELSE {Garbage}

\* What get finds, in the memtable or in a table with any of its parts loaded,
\* is what was written last under the key.  Opens that fail, damaged data and
\* data that LZ4 has not taken make a key unfindable, and never answer it
\* with an entry of another key or another time.  Only a table whose size
\* 32 bits do not tell is read behind the end of its data.
FoundIsWritten ==
  answer # Nil =>
    IF pc # "table" THEN answer.found = Visible(value[answer.key])
    ELSE /\ answer.found \in {EntryIn(written, answer.key), Nil} \union Misread
         /\ opened /\ Readable => answer.found \in {EntryIn(written, answer.key)} \union Misread

WrittenKeys == {k \in Keys : written[k] # Nil}

\* es is what was written, or misread, under every key once and in the order
\* of keys.
AreWritten(es) ==
  \E ks \in [1 .. Len(es) -> WrittenKeys] :
    /\ \A i, j \in 1 .. Len(es) : i < j => ks[i] < ks[j]
    /\ \A k \in WrittenKeys : \E i \in 1 .. Len(es) : ks[i] = k
    /\ \A i \in 1 .. Len(es) : es[i] \in {Full(ks[i], written[ks[i]])} \union Misread

\* Compaction gets all entries of a table or, if it cannot be read, none;
\* keys() lists the live keys or none.  With every open they succeed.
AllOrNothing ==
  /\ entries # Nil => /\ AreWritten(entries) \/ entries = <<>>
                      /\ opened /\ Readable => AreWritten(entries)
  /\ listed # Nil =>
       LET live == {k \in Keys : Visible(written[k]) # Nil}
       IN  listed \in {live, {}} /\ (opened /\ Readable => listed = live)

\* The Bloom filter, as it was built, as it is in the file and as it was read
\* back, excludes no key that was written.
NoFalseNegative ==
  pc = "table" => \A k \in WrittenKeys :
    /\ may_contain(cache.bloom, k)
    /\ file.footer.version >= 2 => may_contain(deserialize(file.bloom), k)

\* An entry survives the encoding, with anything behind it, and a record that
\* is cut short anywhere is rejected; encode_size is its length.  (For lengths
\* that 32 bits tell.)
CodecRoundTrip ==
  pc = "insert" =>
    LET f == Full(key, entry)
        d == encode(f)
    IN  /\ Len(d) = encode_size(f)
        /\ decode(d) = f /\ decode(d \o d) = f
        /\ \A n \in 0 .. Len(d) - 1 : decode(SubSeq(d, 1, n)) = Nil
=============================================================================
