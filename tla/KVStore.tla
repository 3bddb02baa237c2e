------------------------------ MODULE KVStore ------------------------------
(***************************************************************************)
(* The storage engine of X1ngLSM-KV: class KVStore with the parts of       *)
(* MemTable, WriteAheadLog and SSTable it drives.                          *)
(*                                                                         *)
(* The store is single threaded: one call runs at a time and each call is  *)
(* a sequence of file-system effects.  The model takes one step per effect *)
(* so that a crash, or a fault of the file system, can fall between any    *)
(* two of them.  `pc' names the effect that comes next:                    *)
(*                                                                         *)
(*   idle      no call is running                                          *)
(*   apply     the record is in the log, not yet in the memtable           *)
(*   flush     flush_immutable is about to write its table                 *)
(*   install   the table is written, not yet listed                        *)
(*   compact   maybe_compact looks at level `lvl'                          *)
(*   unlink    compact(lvl) removes the files it has merged                *)
(*   wipe      clear() removes the files of all levels                     *)
(*   down      the process is not running                                  *)
(***************************************************************************)
EXTENDS Integers, Sequences, FiniteSets, FiniteSetsExt

CONSTANTS
  Keys,            \* the keys clients use
  Values,          \* the values clients put
  None,            \* std::nullopt, an absent entry, a null pointer
  Tombstone,       \* stands for the value of an OpType::DELETE entry
  Torn,            \* a log record cut short or with a wrong checksum
  Partial,         \* the contents of a table file cut short
  EncodeSize,      \* Entry::encode_size of a value or of a tombstone
  FlushThreshold,  \* flush_threshold_
  Trigger,         \* COMPACTION_TRIGGER
  MaxLevel,        \* MAX_LEVEL
  Radix,           \* base in which std::to_string writes file ids (10)
  Calls,           \* the kinds of call the workload makes
  Faults,          \* the faults that may occur
  MaxStops,        \* bound: how often the process stops
  TimestampBound   \* bound: last timestamp handed out after so many stops

Levels == 0 .. MaxLevel - 1

Version == [val : Values \union {Tombstone}, ts : Nat]
Record  == [key : Keys, val : Values \union {Tombstone}, ts : Nat]
Content == [Keys -> Version \union {None}]
Table   == [id : Nat, body : Content]
File    == [level : Levels, id : Nat, body : Content \union {Partial}]

\* Model values are told apart from data.
ASSUME MarkersAreNotData ==
  /\ Tombstone \notin Values
  /\ None \notin Values \union {Tombstone}
  /\ None \notin Version
  /\ None \notin Record
  /\ None \notin Table
  /\ Torn \notin Record
  /\ Partial \notin Content

\* flush_threshold_ is positive: a memtable that is flushed is not empty.
ASSUME ParametersAreSane ==
  /\ FlushThreshold \in Nat \ {0}
  /\ Trigger \in Nat \ {0}
  /\ MaxLevel \in Nat \ {0}
  /\ Radix \in Nat \ {0, 1}

ASSUME WorkloadIsSane ==
  /\ IsFiniteSet(Keys)
  /\ Calls \subseteq {"put", "remove", "clear"}
  /\ Faults \subseteq {"crash", "crashInClear", "torn", "sstFails", "sstShort",
                "readFails", "walFails"}
  /\ MaxStops \in Nat
  /\ TimestampBound \in [0 .. MaxStops -> Nat]

VARIABLES
  mem,       \* mem_table_: the newest version of each key
  imm,       \* immutable_mem_table_, Empty when it is null
  next_ts,   \* mem_table_->next_timestamp_
  levels,    \* levels_: the tables of each level, oldest first
  next_id,   \* next_sst_id_
  wal_good,  \* wal_->file_.good()
  wal,       \* disk: the records of wal.log
  files,     \* disk: the .sst files of the level directories
  pc,        \* the next effect of the running call
  op,        \* the record the running put or remove has logged
  rotate,    \* maybe_flush still has to flush the current memtable
  lvl,       \* the level maybe_compact has reached
  out,       \* the table being written, None if there is none
  unread,    \* the places of the tables the running merge could not read
  stops      \* how often the process has stopped

memory == <<mem, imm, next_ts, levels, next_id, wal_good>>
disk   == <<wal, files>>
vars   == <<memory, disk, pc, op, rotate, lvl, out, unread, stops>>

-----------------------------------------------------------------------------
(***************************************************************************)
(* Tables, versions and sizes.                                             *)
(***************************************************************************)

Empty == [k \in Keys |-> None]

VersionOf(r) == [val |-> r.val, ts |-> r.ts]

\* total_encoded_size_ of a memtable with contents c.
EncodedSize(c) ==
  MapThenSumSet(LAMBDA k : IF c[k] = None THEN 0 ELSE EncodeSize[c[k].val], Keys)

\* What get() answers when it has found version v.
Answer(v) == IF v = None THEN None ELSE IF v.val = Tombstone THEN None ELSE v.val

(***************************************************************************)
(* get(): memtable, immutable memtable, then the tables level by level,    *)
(* newest first within a level; the first holder of the key answers.       *)
(***************************************************************************)

\* The places <<level, index>> of the tables of the lists lv that hold key k.
Holders(lv, k) == UNION {{<<l, i>> : i \in {j \in DOMAIN lv[l] : lv[l][j].body[k] # None}} :
                            l \in Levels}

\* Place p is searched before place q.
SearchedBefore(p, q) == p[1] < q[1] \/ (p[1] = q[1] /\ p[2] > q[2])

InTables(lv, k) ==
  LET H == Holders(lv, k)
      p == CHOOSE p \in H : \A q \in H \ {p} : SearchedBefore(p, q)
  IN  IF H = {} THEN None ELSE lv[p[1]][p[2]].body[k]

Found(k) == IF mem[k] # None THEN mem[k]
            ELSE IF imm[k] # None THEN imm[k]
            ELSE InTables(levels, k)

Visible(k) == Answer(Found(k))

\* Faulty variant: only live keys are remembered as seen.
SeenLive(k, p) ==
  \/ mem[k] # None \/ imm[k] # None
  \/ \E q \in Holders(levels, k) :
       SearchedBefore(q, p) /\ Answer(levels[q[1]][q[2]].body[k]) # None

\* keys() has seen key k before it comes to the table at place p.
Seen(k, p) == \/ mem[k] # None \/ imm[k] # None
              \/ \E q \in Holders(levels, k) : SearchedBefore(q, p)

\* The tables from which keys() lists key k.
Listing(k) == {p \in Holders(levels, k) :
                 ~Seen(k, p) /\ Answer(levels[p[1]][p[2]].body[k]) # None}

\* How often keys() lists key k.  The keys of the immutable memtable are
\* listed without looking whether the memtable holds them too.
KeyCount(k) ==
  LET live(v) == IF Answer(v) = None THEN 0 ELSE 1
  IN  live(mem[k]) + live(imm[k]) + Cardinality(Listing(k))

-----------------------------------------------------------------------------
(***************************************************************************)
(* The log and the table files as recovery reads them.                     *)
(***************************************************************************)

\* read_all stops at the first record it cannot verify.
Readable(w) == {i \in DOMAIN w : \A j \in 1 .. i : w[j] # Torn}

IsLastOf(w, i, k) == /\ i \in Readable(w)
                     /\ w[i].key = k
                     /\ \A j \in Readable(w) : j > i => w[j].key # k

\* The memtable that recover_from_wal builds from the log w.
Replayed(w) == [k \in Keys |->
  IF \E i \in Readable(w) : IsLastOf(w, i, k)
    THEN VersionOf(w[CHOOSE i \in Readable(w) : IsLastOf(w, i, k)])
    ELSE None]

IsMaximum(n, S) == n \in S /\ \A m \in S : m <= n

\* The number of digits of a file id.
Width(id) == IF id < Radix THEN 1
             ELSE CHOOSE w \in 2 .. id : Radix^(w - 1) <= id /\ id < Radix^w

\* std::sort on the file names: names of one length are in the order of the
\* ids, but "10.sst" comes before "9.sst".
NameBefore(a, b) ==
  LET x == a * Radix^Width(b)
      y == b * Radix^Width(a)
  IN  IF Width(a) = Width(b) THEN a < b ELSE x < y \/ (x = y /\ a < b)

FilesOf(l) == {f \in files : f.level = l}

\* A table whose file cannot be read answers like an empty one.
Loaded(f) == [id   |-> f.id,
              body |-> IF f.body = Partial THEN Empty ELSE f.body]

\* Faulty variant: newest name first.
LoadOrdersReversed(l) ==
  {s \in [1 .. Cardinality(FilesOf(l)) -> {Loaded(f) : f \in FilesOf(l)}] :
     \A i, j \in DOMAIN s : i > j => NameBefore(s[i].id, s[j].id)}

\* recover_sstables lists the files of a level in the order of their names.
LoadOrders(l) ==
  {s \in [1 .. Cardinality(FilesOf(l)) -> {Loaded(f) : f \in FilesOf(l)}] :
     \A i, j \in DOMAIN s : i < j => NameBefore(s[i].id, s[j].id)}

\* Faulty variant: the files of level 0 only.
NextIdsOfLevel0(lv) == {1} \union {lv[0][Len(lv[0])].id + 1 : l \in {m \in {0} : lv[m] # <<>>}}

\* One more than the id of the last file listed in some level.
NextIds(lv) == {1} \union {lv[l][Len(lv[l])].id + 1 :
                             l \in {m \in Levels : lv[m] # <<>>}}

\* What get() would answer if the process stopped now and were started again:
\* the log first, then the readable files in the order they would be listed.
ReadBefore(f, g) == \/ f.level < g.level
                    \/ f.level = g.level /\ NameBefore(g.id, f.id)

DurableHolders(fs, k) == {f \in {g \in fs : g.body # Partial} : f.body[k] # None}

\* The file that answers.
FirstFiles(fs, k) ==
  LET H == DurableHolders(fs, k)
  IN  {f \in H : \A g \in H \ {f} : ReadBefore(f, g)}

InFiles(fs, k) ==
  LET F == FirstFiles(fs, k)
  IN  IF F = {} THEN None ELSE (CHOOSE f \in F : TRUE).body[k]

Durable(k) == LET v == Replayed(wal)[k]
              IN  IF v # None THEN Answer(v) ELSE Answer(InFiles(files, k))

\* Opening a table file for writing truncates the file of that name.
WriteFile(l, id, body) ==
  {f \in files : ~(f.level = l /\ f.id = id)}
    \union {[level |-> l, id |-> id, body |-> body]}

-----------------------------------------------------------------------------
Init ==
  /\ mem = Empty /\ imm = Empty /\ next_ts = 1
  /\ levels = [l \in Levels |-> <<>>]
  /\ next_id = 1
  /\ wal_good = TRUE
  /\ wal = <<>> /\ files = {}
  /\ pc = "idle" /\ op = None /\ rotate = FALSE /\ lvl = 0 /\ out = None
  /\ unread = {}
  /\ stops = 0

(***************************************************************************)
(* put and remove: take a timestamp, write and sync the log record.        *)
(***************************************************************************)

NewRecord(k, v) == [key |-> k, val |-> v, ts |-> next_ts]

TakeTimestamp == /\ pc = "idle"
                 /\ next_ts <= TimestampBound[stops]
                 /\ next_ts' = next_ts + 1

Log(k, v) ==
  /\ TakeTimestamp
  /\ wal_good
  /\ wal' = Append(wal, NewRecord(k, v))
  /\ op' = NewRecord(k, v)
  /\ pc' = "apply"
  /\ UNCHANGED <<mem, imm, levels, next_id, wal_good, files, rotate, lvl, out, unread, stops>>

\* WriteAheadLog::append returns false and so does the call.  A failed write
\* leaves the stream bad and nothing, a piece or all of the record in the
\* file; a failed fsync leaves the stream good and the record in the file; a
\* stream that is bad already writes nothing.
LogFails(k, v) ==
  /\ TakeTimestamp
  /\ \/ /\ wal_good /\ "walFails" \in Faults
        /\ \/ /\ wal' \in {wal, Append(wal, Torn), Append(wal, NewRecord(k, v))}
              /\ wal_good' = FALSE
           \/ /\ wal' = Append(wal, NewRecord(k, v))
              /\ wal_good' = TRUE
     \/ /\ ~wal_good
        /\ UNCHANGED <<wal, wal_good>>
  /\ UNCHANGED <<mem, imm, levels, next_id, files, pc, op, rotate, lvl, out, unread, stops>>

Put(k) == "put" \in Calls /\ \E v \in Values : Log(k, v) \/ LogFails(k, v)

Remove(k) == "remove" \in Calls /\ (Log(k, Tombstone) \/ LogFails(k, Tombstone))

\* Updates the memtable and, when it has reached the threshold, lets
\* maybe_flush retry an earlier flush that failed, or rotate and flush.
Apply ==
  /\ pc = "apply"
  /\ LET m == [mem EXCEPT ![op.key] = VersionOf(op)]
     IN  \/ /\ EncodedSize(m) < FlushThreshold
            /\ mem' = m
            /\ pc' = "idle" /\ op' = None
            /\ UNCHANGED <<imm, rotate>>
         \/ /\ EncodedSize(m) >= FlushThreshold
            /\ imm # Empty
            /\ mem' = m
            /\ pc' = "flush" /\ rotate' = TRUE
            /\ UNCHANGED <<imm, op>>
         \/ /\ EncodedSize(m) >= FlushThreshold
            /\ imm = Empty
            /\ imm' = m /\ mem' = Empty
            /\ pc' = "flush"
            /\ UNCHANGED <<op, rotate>>
  /\ UNCHANGED <<next_ts, levels, next_id, wal_good, disk, lvl, out, unread, stops>>

\* flush_immutable is back in maybe_flush: it rotates and flushes the current
\* memtable if it has not done so yet, dropping what `imm' still holds.
FlushReturns ==
  \/ /\ rotate
     /\ imm' = mem /\ mem' = Empty
     /\ pc' = "flush" /\ rotate' = FALSE
     /\ UNCHANGED op
  \/ /\ ~rotate
     /\ pc' = "idle" /\ op' = None
     /\ UNCHANGED <<mem, imm, rotate>>

(***************************************************************************)
(* flush_immutable                                                         *)
(***************************************************************************)

\* Faulty variants, see Listed and TableWritten below.
ListedFirst(lv, l, t) == [lv EXCEPT ![l] = <<t>> \o @]
TableForgotten(l, body) == files' = WriteFile(l, next_id, body) /\ UNCHANGED out

\* next_sst_id_++ names the file.
TakeId == next_id' = next_id + 1

\* WriteAheadLog::clear reopens the file, which makes the stream good again.
TruncateLog == wal' = <<>> /\ wal_good' = TRUE

\* The lists of tables after t has been added to level l.
Listed(lv, l, t) == [lv EXCEPT ![l] = Append(@, t)]

\* write_from_entries has returned true.  With the fault "sstShort" the end
\* of the file, still in the stream's buffer when good() was asked, is lost
\* when the stream is closed.
TableWritten(l, body) ==
  \/ /\ files' = WriteFile(l, next_id, body)
     /\ out' = [id |-> next_id, body |-> body]
  \/ /\ "sstShort" \in Faults
     /\ files' = WriteFile(l, next_id, Partial)
     /\ out' = [id |-> next_id, body |-> Empty]

\* write_from_entries has returned false: the file was not opened, or it was
\* cut short.
TableNotWritten(l) ==
  files' \in {files, WriteFile(l, next_id, Partial)}

FlushWrite ==
  /\ pc = "flush"
  /\ TableWritten(0, imm)
  /\ TakeId
  /\ pc' = "install"
  /\ UNCHANGED <<mem, imm, next_ts, levels, wal_good, wal, op, rotate, lvl, unread, stops>>

FlushFails ==
  /\ pc = "flush"
  /\ "sstFails" \in Faults
  /\ TableNotWritten(0)
  /\ TakeId
  /\ FlushReturns
  /\ UNCHANGED <<next_ts, levels, wal_good, wal, lvl, out, unread, stops>>

\* Lists the table, drops the immutable memtable and truncates the log.
Install ==
  /\ pc = "install"
  /\ levels' = Listed(levels, 0, out)
  /\ imm' = Empty
  /\ TruncateLog
  /\ out' = None
  /\ pc' = "compact" /\ lvl' = 0
  /\ UNCHANGED <<mem, next_ts, next_id, files, op, rotate, unread, stops>>

(***************************************************************************)
(* maybe_compact and compact(lvl)                                          *)
(***************************************************************************)

\* Faulty variant: one table too late.
FullTooLate(l) == Len(levels[l]) > Trigger

Full(l) == Len(levels[l]) >= Trigger

\* Faulty variant: the loop does not advance.
SameLevel == UNCHANGED lvl

NextLevel == lvl' = lvl + 1

CompactSkip ==
  /\ pc = "compact" /\ lvl < MaxLevel
  /\ ~Full(lvl)
  /\ NextLevel
  /\ UNCHANGED <<memory, disk, pc, op, rotate, out, unread, stops>>

CompactDone ==
  /\ pc = "compact" /\ lvl = MaxLevel
  /\ FlushReturns
  /\ lvl' = 0
  /\ UNCHANGED <<next_ts, levels, next_id, wal_good, disk, out, unread, stops>>

\* The places of level l whose tables get_all_entries reads: for one that it
\* cannot open, check or decompress it returns no entries.
Readings(l) == IF "readFails" \in Faults THEN SUBSET DOMAIN levels[l] ELSE {DOMAIN levels[l]}

\* The entries of key k in the tables r of level l.
Entries(l, r, k) == {levels[l][i].body[k] : i \in r} \ {None}

\* Faulty variants: levels further down ignored; the oldest version kept.
AlwaysBottom(l) == TRUE
KeptOldest(l, r, k) ==
  IF Entries(l, r, k) = {} THEN {None}
  ELSE {v \in Entries(l, r, k) : \A u \in Entries(l, r, k) : u.ts >= v.ts}

\* No level further down than the next one has a table.
IsBottom(l) == \A m \in Levels : m >= l + 2 => levels[m] = <<>>

\* What the merge may keep of key k: the version with the newest timestamp
\* (std::sort is free to put any of several with the same one first), and
\* nothing if that is a tombstone at the bottom.
Kept(l, r, k) ==
  IF Entries(l, r, k) = {} THEN {None}
  ELSE {IF IsBottom(l) /\ v.val = Tombstone THEN None ELSE v :
          v \in {w \in Entries(l, r, k) : \A u \in Entries(l, r, k) : u.ts <= w.ts}}

Merges(l, r) == {b \in [Keys -> UNION {Kept(l, r, k) : k \in Keys}] :
                   \A k \in Keys : b[k] \in Kept(l, r, k)}

\* The merge has read the tables r.  It goes on without the others, and what
\* follows removes them with the rest.
Leaves(r) == unread' = DOMAIN levels[lvl] \ r

MayCompact == pc = "compact" /\ lvl < MaxLevel /\ Full(lvl)

CompactToNothing ==
  /\ MayCompact
  /\ \E r \in Readings(lvl) : Empty \in Merges(lvl, r) /\ Leaves(r)
  /\ pc' = "unlink"
  /\ UNCHANGED <<memory, disk, op, rotate, lvl, out, stops>>

CompactWrite ==
  /\ MayCompact
  /\ lvl + 1 < MaxLevel
  /\ \E r \in Readings(lvl) : \E b \in Merges(lvl, r) \ {Empty} :
       TableWritten(lvl + 1, b) /\ Leaves(r)
  /\ TakeId
  /\ pc' = "unlink"
  /\ UNCHANGED <<mem, imm, next_ts, levels, wal_good, wal, op, rotate, lvl, stops>>

\* The directory of level MAX_LEVEL does not exist, so that the table of a
\* merge of the last level cannot be opened.
CompactFails ==
  /\ MayCompact
  /\ \E r \in Readings(lvl) : Merges(lvl, r) # {Empty}
  /\ \/ lvl + 1 = MaxLevel /\ UNCHANGED files
     \/ lvl + 1 < MaxLevel /\ "sstFails" \in Faults /\ TableNotWritten(lvl + 1)
  /\ TakeId
  /\ lvl' = lvl + 1
  /\ UNCHANGED <<mem, imm, next_ts, levels, wal_good, wal, pc, op, rotate, out, unread, stops>>

\* Faulty variants: files are not removed; the newest is removed first.
NothingOnDisk(L) == {}
RemoveNewest(L) ==
  \E l \in L : \E f \in FilesOf(l) :
    /\ \E i \in DOMAIN levels[l] : levels[l][i].id = f.id
    /\ \A i \in DOMAIN levels[l], g \in FilesOf(l) :
          levels[l][i].id = g.id => g.id <= f.id
    /\ files' = files \ {f}

\* The places of listed tables on the levels of L whose files still exist.
OnDisk(L) == {p \in UNION {{l} \X DOMAIN levels[l] : l \in L} :
                \E f \in files : /\ f.level = p[1]
                                 /\ f.id = levels[p[1]][p[2]].id}

\* Removes the first of them: lowest level, then oldest.
RemoveNext(L) ==
  \E p \in OnDisk(L) :
    /\ \A q \in OnDisk(L) : p[1] < q[1] \/ (p[1] = q[1] /\ p[2] <= q[2])
    /\ files' = {f \in files : ~(/\ f.level = p[1]
                                 /\ f.id = levels[p[1]][p[2]].id)}

Unlink ==
  /\ pc = "unlink"
  /\ RemoveNext({lvl})
  /\ UNCHANGED <<memory, wal, pc, op, rotate, lvl, out, unread, stops>>

\* The merged tables leave the list, the new one joins the next level.
Replace ==
  /\ pc = "unlink"
  /\ OnDisk({lvl}) = {}
  /\ LET emptied == [levels EXCEPT ![lvl] = <<>>]
     IN  levels' = IF out = None THEN emptied ELSE Listed(emptied, lvl + 1, out)
  /\ out' = None /\ unread' = {}
  /\ pc' = "compact" /\ lvl' = lvl + 1
  /\ UNCHANGED <<mem, imm, next_ts, next_id, wal_good, disk, op, rotate, stops>>

(***************************************************************************)
(* clear()                                                                 *)
(***************************************************************************)

Clear ==
  /\ pc = "idle"
  /\ "clear" \in Calls
  /\ mem' = Empty /\ imm' = Empty
  /\ TruncateLog
  /\ pc' = "wipe"
  /\ UNCHANGED <<next_ts, levels, next_id, files, op, rotate, lvl, out, unread, stops>>

WipeFile ==
  /\ pc = "wipe"
  /\ RemoveNext(Levels)
  /\ UNCHANGED <<memory, wal, pc, op, rotate, lvl, out, unread, stops>>

WipeDone ==
  /\ pc = "wipe"
  /\ OnDisk(Levels) = {}
  /\ levels' = [l \in Levels |-> <<>>]
  /\ next_id' = 1
  /\ pc' = "idle"
  /\ UNCHANGED <<mem, imm, next_ts, wal_good, disk, op, rotate, lvl, out, unread, stops>>

\* get, exists, keys and the counters are const: they change nothing.
Read == pc = "idle" /\ UNCHANGED vars

(***************************************************************************)
(* The process stops, and the constructor recovers.                        *)
(***************************************************************************)

Down ==
  /\ pc # "down" /\ stops < MaxStops
  /\ mem' = Empty /\ imm' = Empty /\ next_ts' = 1
  /\ levels' = [l \in Levels |-> <<>>] /\ next_id' = 1 /\ wal_good' = TRUE
  /\ pc' = "down" /\ op' = None /\ rotate' = FALSE /\ lvl' = 0 /\ out' = None
  /\ unread' = {}
  /\ stops' = stops + 1

\* The destructor, between two calls, saves nothing.
Stop == Down /\ pc = "idle" /\ UNCHANGED disk

\* The process dies between two effects of a put or remove, or of a clear.
Crash ==
  /\ Down
  /\ \/ pc \notin {"idle", "wipe"} /\ "crash" \in Faults
     \/ pc = "wipe" /\ "crashInClear" \in Faults
  /\ UNCHANGED disk

\* A crash while a log record or a table is being written.
CrashInLog ==
  /\ Down
  /\ pc = "idle" /\ wal_good
  /\ "torn" \in Faults
  /\ wal' = Append(wal, Torn)
  /\ UNCHANGED files

CrashInTable ==
  /\ Down
  /\ "torn" \in Faults
  /\ \/ /\ pc = "flush"
        /\ files' = WriteFile(0, next_id, Partial)
     \/ /\ MayCompact /\ lvl + 1 < MaxLevel
        /\ \E r \in Readings(lvl) : Merges(lvl, r) # {Empty}
        /\ files' = WriteFile(lvl + 1, next_id, Partial)
  /\ UNCHANGED wal

\* KVStore's constructor: recover_sstables, then recover_from_wal.
Open ==
  /\ pc = "down"
  /\ \E lv \in [Levels -> UNION {LoadOrders(l) : l \in Levels}] :
       /\ \A l \in Levels : lv[l] \in LoadOrders(l)
       /\ levels' = lv
       /\ \E n \in NextIds(lv) : IsMaximum(n, NextIds(lv)) /\ next_id' = n
  /\ mem' = Replayed(wal)
  /\ LET next == {1} \union {wal[i].ts + 1 : i \in Readable(wal)}
     IN  \E t \in next : IsMaximum(t, next) /\ next_ts' = t
  /\ pc' = "idle"
  /\ UNCHANGED <<imm, wal_good, disk, op, rotate, lvl, out, unread, stops>>

-----------------------------------------------------------------------------
\* The steps of a running call.
Step ==
  \/ Apply
  \/ FlushWrite \/ FlushFails \/ Install
  \/ CompactSkip \/ CompactDone
  \/ CompactToNothing \/ CompactWrite \/ CompactFails
  \/ Unlink \/ Replace
  \/ WipeFile \/ WipeDone

Call == \/ \E k \in Keys : Put(k) \/ Remove(k)
        \/ Clear
        \/ Read

StopOrCrash == Stop \/ Crash \/ CrashInLog \/ CrashInTable

Next == Call \/ Step \/ StopOrCrash \/ Open

\* The one thread that runs a call keeps running until the call returns.
Spec == Init /\ [][Next]_vars /\ WF_vars(Step)

-----------------------------------------------------------------------------
(***************************************************************************)
(* Properties.                                                             *)
(***************************************************************************)

\* Every variable has its type.
TypeOK ==
  /\ mem \in Content /\ imm \in Content
  /\ next_ts \in Nat \ {0}
  /\ levels \in [Levels -> Seq(Table)]
  /\ next_id \in Nat \ {0}
  /\ wal_good \in BOOLEAN
  /\ wal \in Seq(Record \union {Torn})
  /\ files \subseteq File /\ IsFiniteSet(files)
  /\ pc \in {"idle", "apply", "flush", "install", "compact", "unlink", "wipe", "down"}
  /\ op \in Record \union {None}
  /\ pc = "apply" => op # None
  /\ rotate \in BOOLEAN
  /\ lvl \in 0 .. MaxLevel
  /\ pc = "unlink" => lvl < MaxLevel
  /\ out \in Table \union {None}
  /\ pc = "install" => out # None
  /\ unread \subseteq Nat
  /\ stops \in 0 .. MaxStops

\* Version v is absent or has a smaller timestamp than t.
Older(v, t) == v # None => v.ts < t

\* Every version of key k in the tables lv has a smaller timestamp than t.
TablesOlder(lv, k, t) ==
  \A l \in Levels : \A i \in DOMAIN lv[l] : Older(lv[l][i].body[k], t)

\* Tables that are searched first hold the newer versions of key k.
TablesInOrder(lv, k) ==
  \A l, m \in Levels : \A i \in DOMAIN lv[l], j \in DOMAIN lv[m] :
    (SearchedBefore(<<l, i>>, <<m, j>>) /\ lv[l][i].body[k] # None)
      => Older(lv[m][j].body[k], lv[l][i].body[k].ts)

\* get() stops at the first place that holds the key.  That is right only if
\* the places it searches hold ever older versions: the memtable newer ones
\* than the immutable memtable, that one newer ones than every table, a level
\* newer ones than the levels below, and the last table of a level the
\* newest.  No flush, compaction, failed write or clear may break this, in
\* one lifetime of the process.
SearchOrderIsTimeOrder ==
  \A k \in Keys :
    /\ mem[k] # None => Older(imm[k], mem[k].ts) /\ TablesOlder(levels, k, mem[k].ts)
    /\ imm[k] # None => TablesOlder(levels, k, imm[k].ts)
    /\ TablesInOrder(levels, k)

\* flush_immutable, maybe_compact or compact is running.
InBackground == pc \in {"flush", "install", "compact", "unlink"}

\* flush_immutable, maybe_compact and compact run in the background of a put:
\* whatever they write, drop or move, a value that a get would have returned
\* is the value it returns afterwards.
LiveValuesKept ==
  [][ (InBackground /\ pc' # "down")
        => \A k \in Keys : Visible(k) \in Values => Visible(k)' = Visible(k) ]_vars

\* The table that is about to be listed on level l is not in its file.
ShortTableOn(l) ==
  \E f \in FilesOf(l) : out # None /\ f.id = out.id /\ f.body = Partial

ShortTable == \/ pc = "install" /\ ShortTableOn(0)
              \/ pc = "unlink" /\ ShortTableOn(lvl + 1)

\* The running merge could not read a table that holds what get answers.
LeavesOut(k) ==
  pc = "unlink" /\ \E i \in unread : Answer(levels[lvl][i].body[k]) = Visible(k)

\* maybe_flush gives the immutable memtable up although it was not written.
DropsImmutable(k) == pc \in {"flush", "compact"} /\ rotate /\ ~rotate' /\ imm[k] # None

\* With failing files, too, a value that get would return is lost in three
\* ways only: a flush that failed is retried and fails again, and maybe_flush
\* drops the memtable it was for; a merge cannot read the table that holds it
\* and removes the file; a file loses its end on close, after good() was
\* asked.
LiveLostOnlyByDrop ==
  [][ (InBackground /\ pc' # "down")
        => \A k \in Keys : (Visible(k) \in Values /\ Visible(k)' # Visible(k))
             => DropsImmutable(k) \/ LeavesOut(k) \/ ShortTable ]_memory

\* A value that get and a recovery both find is lost to a recovery in three
\* ways only: the retry of a flush that failed truncates the log, which alone
\* holds the memtable filled since; a merge removes a table it could not
\* read; a file has lost its end.
DurableLostOnlyByRetry ==
  [][ InBackground
        => \A k \in Keys : /\ Visible(k) \in Values /\ Durable(k) = Visible(k)
                           /\ Durable(k)' # Durable(k)
             => \/ pc = "install" /\ rotate /\ mem[k] # None
                \/ LeavesOut(k) \/ ShortTable ]_disk

\* A background step brings a deleted key back only by merging a level while
\* the next one holds the key: nothing else resurrects a key, and tombstones
\* are never dropped above a table two or more levels further down.
DeletedReturnsOnlyFromNextLevel ==
  [][ (InBackground /\ pc' # "down")
        => \A k \in Keys : (Visible(k) = None /\ Visible(k)' # None)
             => /\ pc = "unlink" /\ lvl + 1 \in Levels
                /\ \E i \in DOMAIN levels[lvl + 1] :
                     Answer(levels[lvl + 1][i].body[k]) = Visible(k)' ]_vars

\* No background step brings a deleted key back.
DeletedStaysDeleted ==
  [][ (InBackground /\ pc' # "down")
        => \A k \in Keys : Visible(k) = None => Visible(k)' = None ]_vars

\* Between calls the list of tables and the directories agree: every table
\* listed is the file of its name, and every file left over is unreadable.
TablesAreOnDisk ==
  pc = "idle" =>
    /\ \A l \in Levels : \A i \in DOMAIN levels[l] :
         \E f \in FilesOf(l) : Loaded(f) = levels[l][i]
    /\ \A f \in files : \/ f.body = Partial
                        \/ \E i \in DOMAIN levels[f.level] :
                             levels[f.level][i] = Loaded(f)

\* The file the next flush or compaction opens is never one of a table that
\* is listed: ids are not handed out twice.
IdsAreFresh ==
  /\ \A l \in Levels : \A i \in DOMAIN levels[l] : levels[l][i].id < next_id
  /\ \A l \in Levels : \A i, j \in DOMAIN levels[l] :
       levels[l][i].id = levels[l][j].id => i = j

\* maybe_compact has left fewer than COMPACTION_TRIGGER tables on every level
\* but the last.
LevelsAreCompacted ==
  pc = "idle" => \A l \in Levels : l + 1 < MaxLevel => Len(levels[l]) < Trigger

\* keys() lists the keys get() finds, each once, and no deleted key - but for
\* one that waits in the immutable memtable after a failed flush and has been
\* written since: it is listed once more, also if it has been removed.
KeysListsFound ==
  pc = "idle" => \A k \in Keys :
    KeyCount(k) = (IF Visible(k) # None THEN 1 ELSE 0)
                    + (IF mem[k] # None /\ Answer(imm[k]) # None THEN 1 ELSE 0)

\* recover_sstables lists the tables of a level oldest first.
LoadedInIdOrder ==
  \A l \in Levels : \A i, j \in DOMAIN levels[l] :
    i < j => levels[l][i].id < levels[l][j].id

\* Whenever no call is running, the process may stop and be started again
\* without any get noticing.
AckedIsDurable ==
  pc = "idle" => \A k \in Keys : Visible(k) = Durable(k)
=============================================================================
