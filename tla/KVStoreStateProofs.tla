------------------------ MODULE KVStoreStateProofs ------------------------
(***************************************************************************)
(* What is true of every state of KVStore, for every value of its          *)
(* constants: any keys and values, any threshold, trigger and number of    *)
(* levels, any workload and any combination of faults.                     *)
(*                                                                         *)
(* Types.  Every variable keeps its type.                                  *)
(*                                                                         *)
(* Order.  Until the process stops for the first time get() finds the      *)
(* newest version of a key: the places it searches, one after the other,   *)
(* hold ever older versions.  SearchOrderIsTimeOrder alone is not          *)
(* inductive.  It needs to know that the timestamp counter is ahead of     *)
(* everything stored, that the record a put has logged is newer than       *)
(* everything stored, and that the table being written holds nothing but   *)
(* versions of the memtable it flushes or of the level it compacts.  All   *)
(* of it is lost when the process stops, because the counter is recovered  *)
(* from the log only.                                                      *)
(*                                                                         *)
(* Files.  The lists of tables in memory and the table files on the disk   *)
(* agree, whatever writes fail: ids are not handed out twice, no file of a *)
(* listed table is overwritten, and nothing readable is left over.  A      *)
(* restart keeps this up only if the names of the files are sorted as      *)
(* their ids are.  Names of one length are: the results are about every    *)
(* run in which a recovery meets, on each level, names of one length.      *)
(***************************************************************************)
EXTENDS KVStore, Induction

-----------------------------------------------------------------------------
(***************************************************************************)
(* Types.                                                                  *)
(***************************************************************************)

LEMMA EmptyType == Empty \in Content
BY DEF Empty, Content

\* The version a log record carries.
LEMMA VersionOfType == ASSUME NEW r \in Record PROVE VersionOf(r) \in Version
BY DEF VersionOf, Record, Version

\* A log record made by put or remove.
LEMMA NewRecordType ==
  ASSUME TypeOK, NEW k \in Keys, NEW v \in Values \union {Tombstone}
  PROVE  NewRecord(k, v) \in Record /\ NewRecord(k, v) # None
BY MarkersAreNotData DEF NewRecord, Record, TypeOK

\* Writing a file keeps the directory a finite set of files.
LEMMA WriteFileType ==
  ASSUME TypeOK, NEW l \in Levels, NEW b \in Content \union {Partial}
  PROVE  WriteFile(l, next_id, b) \subseteq File /\ IsFiniteSet(WriteFile(l, next_id, b))
<1>1. {f \in files : ~(f.level = l /\ f.id = next_id)} \subseteq files
  OBVIOUS
<1>2. IsFiniteSet({f \in files : ~(f.level = l /\ f.id = next_id)})
  BY <1>1, FS_Subset DEF TypeOK
<1>3. IsFiniteSet({[level |-> l, id |-> next_id, body |-> b]})
  BY FS_Singleton
<1>4. [level |-> l, id |-> next_id, body |-> b] \in File
  BY DEF File, TypeOK
<1> QED
  BY <1>1, <1>2, <1>3, <1>4, FS_Union DEF WriteFile, TypeOK

\* Removing files keeps it one too.
LEMMA RemoveType ==
  ASSUME TypeOK, NEW L, RemoveNext(L)
  PROVE  files' \subseteq File /\ IsFiniteSet(files')
<1>1. files' \subseteq files
  BY DEF RemoveNext
<1> QED
  BY <1>1, FS_Subset DEF TypeOK

\* Adding a table to a level.
LEMMA ListedType ==
  ASSUME NEW lv \in [Levels -> Seq(Table)], NEW l \in Levels, NEW t \in Table
  PROVE  Listed(lv, l, t) \in [Levels -> Seq(Table)]
BY DEF Listed

LEMMA NoTables == [l \in Levels |-> <<>>] \in [Levels -> Seq(Table)]
OBVIOUS

\* A merge reads tables that are listed.
LEMMA ReadingsAreListed ==
  ASSUME NEW l \in Levels, NEW r \in Readings(l)
  PROVE  r \subseteq DOMAIN levels[l]
BY DEF Readings

\* The entries of a level are versions.
LEMMA EntriesType ==
  ASSUME TypeOK, NEW l \in Levels, NEW r, r \subseteq DOMAIN levels[l], NEW k \in Keys
  PROVE  Entries(l, r, k) \subseteq Version
<1>1. levels[l] \in Seq(Table)
  BY DEF TypeOK
<1>2. \A i \in DOMAIN levels[l] : levels[l][i] \in Table
  BY <1>1
<1>3. \A i \in DOMAIN levels[l] : levels[l][i].body[k] \in Version \union {None}
  BY <1>2 DEF Table, Content
<1> QED
  BY <1>3 DEF Entries

\* What a merge yields is the contents of a table.
LEMMA MergesType ==
  ASSUME TypeOK, NEW l \in Levels, NEW r \in Readings(l), NEW b \in Merges(l, r)
  PROVE  b \in Content
<1>1. ASSUME NEW k \in Keys PROVE Kept(l, r, k) \subseteq Version \union {None}
  BY EntriesType, ReadingsAreListed DEF Kept
<1> QED
  BY <1>1 DEF Merges, Content

\* The memtable recovery builds.
LEMMA ReplayedType == ASSUME TypeOK PROVE Replayed(wal) \in Content
<1>1. ASSUME NEW i \in Readable(wal) PROVE wal[i] \in Record
  <2>1. i \in DOMAIN wal /\ wal[i] # Torn
    BY DEF Readable, TypeOK
  <2> QED
    BY <2>1 DEF TypeOK
<1>2. ASSUME NEW k \in Keys, \E i \in Readable(wal) : IsLastOf(wal, i, k)
      PROVE  VersionOf(wal[CHOOSE i \in Readable(wal) : IsLastOf(wal, i, k)]) \in Version
  BY <1>1, <1>2, VersionOfType
<1> QED
  BY <1>2 DEF Replayed, Content

\* The tables recovery lists on a level.
LEMMA LoadOrdersType ==
  ASSUME TypeOK, NEW l \in Levels, NEW s \in LoadOrders(l)
  PROVE  s \in Seq(Table)
<1>1. FilesOf(l) \subseteq files
  BY DEF FilesOf
<1>2. Cardinality(FilesOf(l)) \in Nat
  BY <1>1, FS_Subset, FS_CardinalityType DEF TypeOK
<1>3. ASSUME NEW f \in FilesOf(l) PROVE Loaded(f) \in Table
  BY <1>1, EmptyType DEF Loaded, Table, File, TypeOK
<1>4. s \in [1 .. Cardinality(FilesOf(l)) -> Table]
  BY <1>3 DEF LoadOrders
<1> QED
  BY <1>2, <1>4

\* The id and the timestamp recovery goes on with.
LEMMA NextIdsType ==
  ASSUME NEW lv \in [Levels -> Seq(Table)]
  PROVE  NextIds(lv) \subseteq Nat \ {0}
<1>1. ASSUME NEW l \in Levels, lv[l] # <<>>
      PROVE  lv[l][Len(lv[l])].id \in Nat
  <2>1. lv[l] \in Seq(Table)
    OBVIOUS
  <2>2. Len(lv[l]) \in 1 .. Len(lv[l])
    BY <1>1, <2>1
  <2>3. lv[l][Len(lv[l])] \in Table
    BY <2>1, <2>2
  <2> QED
    BY <2>3 DEF Table
<1> QED
  BY <1>1 DEF NextIds

LEMMA TimestampsType ==
  ASSUME TypeOK
  PROVE  {1} \union {wal[i].ts + 1 : i \in Readable(wal)} \subseteq Nat \ {0}
<1>1. ASSUME NEW i \in Readable(wal) PROVE wal[i] \in Record
  <2>1. i \in DOMAIN wal /\ wal[i] # Torn
    BY DEF Readable, TypeOK
  <2> QED
    BY <2>1 DEF TypeOK
<1> QED
  BY <1>1 DEF Record
-----------------------------------------------------------------------------
LEMMA InitType == Init => TypeOK
<1> SUFFICES ASSUME Init PROVE TypeOK
  OBVIOUS
<1>1. mem \in Content /\ imm \in Content
  BY EmptyType DEF Init
<1>2. levels \in [Levels -> Seq(Table)]
  BY NoTables DEF Init
<1>3. files \subseteq File /\ IsFiniteSet(files)
  BY FS_EmptySet DEF Init
<1>4. lvl \in 0 .. MaxLevel /\ stops \in 0 .. MaxStops
  BY ParametersAreSane, WorkloadIsSane DEF Init
<1>5. /\ next_ts = 1 /\ next_id = 1 /\ wal = <<>>
      /\ pc = "idle" /\ op = None /\ out = None /\ unread = {}
  BY DEF Init
<1>6. wal_good \in BOOLEAN /\ rotate \in BOOLEAN
  BY Zenon DEF Init
<1> QED
  BY <1>1, <1>2, <1>3, <1>4, <1>5, <1>6 DEF TypeOK

(***************************************************************************)
(* Each action preserves the types.                                        *)
(***************************************************************************)

LEMMA LogType ==
  ASSUME TypeOK, NEW k \in Keys, NEW v \in Values \union {Tombstone}, Log(k, v)
  PROVE  TypeOK'
BY NewRecordType DEF Log, TakeTimestamp, TypeOK

LEMMA LogFailsType ==
  ASSUME TypeOK, NEW k \in Keys, NEW v \in Values \union {Tombstone}, LogFails(k, v)
  PROVE  TypeOK'
<1>1. wal' \in Seq(Record \union {Torn})
  <2>1. wal \in Seq(Record \union {Torn}) /\ NewRecord(k, v) \in Record
    BY NewRecordType DEF TypeOK
  <2>2. wal' \in {wal, Append(wal, Torn), Append(wal, NewRecord(k, v))}
    BY DEF LogFails
  <2> QED
    BY <2>1, <2>2
<1>2. wal_good' \in BOOLEAN
  BY DEF LogFails, TypeOK
<1>3. next_ts' \in Nat \ {0}
  BY DEF LogFails, TakeTimestamp, TypeOK
<1> QED
  BY <1>1, <1>2, <1>3 DEF LogFails, TypeOK

LEMMA ApplyType == ASSUME TypeOK, Apply PROVE TypeOK'
<1> DEFINE m == [mem EXCEPT ![op.key] = VersionOf(op)]
<1>1. op \in Record
  BY DEF Apply, TypeOK
<1>2. op.key \in Keys /\ VersionOf(op) \in Version
  BY <1>1, VersionOfType DEF Record
<1>3. m \in Content
  BY <1>2 DEF Content, TypeOK
<1>4. mem' \in Content /\ imm' \in Content
  BY <1>3, EmptyType DEF Apply, TypeOK
<1>5. pc' \in {"idle", "flush"} /\ op' \in Record \union {None} /\ rotate' \in BOOLEAN
  BY DEF Apply, TypeOK
<1> QED
  BY <1>4, <1>5 DEF Apply, TypeOK, disk

LEMMA FlushReturnsType ==
  ASSUME TypeOK, FlushReturns
  PROVE  /\ mem' \in Content /\ imm' \in Content
         /\ pc' \in {"idle", "flush"}
         /\ op' \in Record \union {None}
         /\ rotate' \in BOOLEAN
BY EmptyType DEF FlushReturns, TypeOK

LEMMA TableWrittenType ==
  ASSUME TypeOK, NEW l \in Levels, NEW b \in Content, TableWritten(l, b)
  PROVE  /\ files' \subseteq File /\ IsFiniteSet(files')
         /\ out' \in Table /\ out' # None
<1>1. [id |-> next_id, body |-> b] \in Table /\ [id |-> next_id, body |-> Empty] \in Table
  BY EmptyType DEF Table, TypeOK
<1> QED
  BY <1>1, WriteFileType, MarkersAreNotData DEF TableWritten

LEMMA TableNotWrittenType ==
  ASSUME TypeOK, NEW l \in Levels, TableNotWritten(l)
  PROVE  files' \subseteq File /\ IsFiniteSet(files')
BY WriteFileType DEF TableNotWritten, TypeOK

LEMMA FlushWriteType == ASSUME TypeOK, FlushWrite PROVE TypeOK'
<1>1. 0 \in Levels /\ imm \in Content
  BY ParametersAreSane DEF Levels, TypeOK
<1>2. /\ files' \subseteq File /\ IsFiniteSet(files')
      /\ out' \in Table /\ out' # None
  BY <1>1, TableWrittenType DEF FlushWrite
<1> QED
  BY <1>2 DEF FlushWrite, TakeId, TypeOK

LEMMA FlushFailsType == ASSUME TypeOK, FlushFails PROVE TypeOK'
<1>1. files' \subseteq File /\ IsFiniteSet(files')
  BY ParametersAreSane, TableNotWrittenType DEF Levels, FlushFails
<1> QED
  BY <1>1, FlushReturnsType DEF FlushFails, TakeId, TypeOK

LEMMA InstallType == ASSUME TypeOK, Install PROVE TypeOK'
<1>1. levels' \in [Levels -> Seq(Table)]
  <2>1. 0 \in Levels
    BY ParametersAreSane DEF Levels
  <2>2. out \in Table /\ levels \in [Levels -> Seq(Table)]
    BY DEF Install, TypeOK
  <2> QED
    BY <2>1, <2>2, ListedType DEF Install
<1>2. wal' \in Seq(Record \union {Torn}) /\ wal_good' \in BOOLEAN
  BY DEF Install, TruncateLog
<1> QED
  BY <1>1, <1>2, EmptyType, ParametersAreSane DEF Install, TypeOK

LEMMA CompactSkipType == ASSUME TypeOK, CompactSkip PROVE TypeOK'
BY ParametersAreSane DEF CompactSkip, NextLevel, TypeOK, memory, disk

LEMMA CompactDoneType == ASSUME TypeOK, CompactDone PROVE TypeOK'
BY FlushReturnsType, ParametersAreSane DEF CompactDone, TypeOK, disk

\* What a merge leaves out are places of tables.
LEMMA LeavesType ==
  ASSUME TypeOK, NEW r, lvl \in Levels, Leaves(r)
  PROVE  unread' \subseteq Nat
<1>1. levels[lvl] \in Seq(Table)
  BY DEF TypeOK
<1> QED
  BY <1>1 DEF Leaves

LEMMA CompactToNothingType == ASSUME TypeOK, CompactToNothing PROVE TypeOK'
<1>1. lvl \in Levels
  BY ParametersAreSane DEF Levels, CompactToNothing, MayCompact, TypeOK
<1>2. unread' \subseteq Nat
  BY <1>1, LeavesType DEF CompactToNothing
<1> QED
  BY <1>2 DEF CompactToNothing, MayCompact, TypeOK, memory, disk

LEMMA CompactWriteType == ASSUME TypeOK, CompactWrite PROVE TypeOK'
<1>1. lvl \in Levels /\ lvl + 1 \in Levels
  BY ParametersAreSane DEF Levels, CompactWrite, MayCompact, TypeOK
<1>2. PICK r \in Readings(lvl) : \E b \in Merges(lvl, r) \ {Empty} :
               TableWritten(lvl + 1, b) /\ Leaves(r)
  BY DEF CompactWrite
<1> PICK b \in Merges(lvl, r) \ {Empty} : TableWritten(lvl + 1, b) /\ Leaves(r)
  BY <1>2
<1>3. b \in Content /\ unread' \subseteq Nat
  BY <1>1, MergesType, LeavesType
<1>4. /\ files' \subseteq File /\ IsFiniteSet(files')
      /\ out' \in Table /\ out' # None
  BY <1>1, <1>3, TableWrittenType
<1>5. next_id' \in Nat \ {0} /\ lvl < MaxLevel
  BY DEF CompactWrite, MayCompact, TakeId, TypeOK
<1> QED
  BY <1>3, <1>4, <1>5 DEF CompactWrite, TypeOK

LEMMA CompactFailsType == ASSUME TypeOK, CompactFails PROVE TypeOK'
<1>1. files' \subseteq File /\ IsFiniteSet(files')
  <2>1. CASE UNCHANGED files
    BY <2>1 DEF TypeOK
  <2>2. CASE lvl + 1 < MaxLevel /\ TableNotWritten(lvl + 1)
    BY <2>2, TableNotWrittenType, ParametersAreSane DEF Levels, TypeOK
  <2> QED
    BY <2>1, <2>2 DEF CompactFails
<1>2. lvl' \in 0 .. MaxLevel
  BY ParametersAreSane DEF CompactFails, MayCompact, TypeOK
<1>3. pc' = "compact"
  BY DEF CompactFails, MayCompact
<1> QED
  BY <1>1, <1>2, <1>3 DEF CompactFails, TakeId, TypeOK

LEMMA UnlinkType == ASSUME TypeOK, Unlink PROVE TypeOK'
BY RemoveType DEF Unlink, TypeOK, memory

LEMMA ReplaceType == ASSUME TypeOK, Replace PROVE TypeOK'
<1> DEFINE emptied == [levels EXCEPT ![lvl] = <<>>]
<1>1. emptied \in [Levels -> Seq(Table)]
  <2>1. levels \in [Levels -> Seq(Table)] /\ <<>> \in Seq(Table)
    BY DEF TypeOK
  <2> QED
    BY <2>1
<1>2. out # None => Listed(emptied, lvl + 1, out) \in [Levels -> Seq(Table)]
  <2> HIDE DEF emptied
  <2>1. out # None => out \in Table
    BY DEF TypeOK
  <2>2. CASE lvl + 1 \in Levels
    BY <1>1, <2>1, <2>2, ListedType
  <2>3. CASE lvl + 1 \notin Levels
    BY <1>1, <2>3 DEF Listed
  <2> QED
    BY <2>2, <2>3
<1>3. levels' \in [Levels -> Seq(Table)]
  <2>1. levels' = IF out = None THEN emptied ELSE Listed(emptied, lvl + 1, out)
    BY DEF Replace
  <2> QED
    BY <1>1, <1>2, <2>1
<1>4. lvl' \in 0 .. MaxLevel
  <2>1. lvl < MaxLevel /\ lvl \in Nat /\ lvl' = lvl + 1
    BY DEF Replace, TypeOK
  <2> QED
    BY <2>1, ParametersAreSane
<1> QED
  BY <1>3, <1>4 DEF Replace, TypeOK, disk

LEMMA ClearType == ASSUME TypeOK, Clear PROVE TypeOK'
BY EmptyType DEF Clear, TruncateLog, TypeOK

LEMMA WipeFileType == ASSUME TypeOK, WipeFile PROVE TypeOK'
BY RemoveType DEF WipeFile, TypeOK, memory

LEMMA WipeDoneType == ASSUME TypeOK, WipeDone PROVE TypeOK'
BY NoTables DEF WipeDone, TypeOK, disk

LEMMA DownType ==
  ASSUME TypeOK, Down,
         wal' \in Seq(Record \union {Torn}),
         files' \subseteq File, IsFiniteSet(files')
  PROVE  TypeOK'
<1>1. stops' \in 0 .. MaxStops
  BY WorkloadIsSane DEF Down, TypeOK
<1>2. levels' \in [Levels -> Seq(Table)]
  BY NoTables DEF Down
<1>3. lvl' \in 0 .. MaxLevel
  BY ParametersAreSane DEF Down
<1>4. /\ mem' \in Content /\ imm' \in Content
      /\ next_ts' \in Nat \ {0} /\ next_id' \in Nat \ {0}
      /\ wal_good' \in BOOLEAN /\ rotate' \in BOOLEAN
  <2>1. mem' \in Content /\ imm' \in Content
    BY EmptyType DEF Down
  <2>2. next_ts' = 1 /\ next_id' = 1
    BY DEF Down
  <2>3. wal_good' \in BOOLEAN
    BY Zenon DEF Down
  <2>4. rotate' \in BOOLEAN
    BY Zenon DEF Down
  <2> QED
    BY <2>1, <2>2, <2>3, <2>4
<1>5. pc' = "down" /\ op' = None /\ out' = None /\ unread' = {}
  BY DEF Down
<1> QED
  BY <1>1, <1>2, <1>3, <1>4, <1>5 DEF TypeOK

LEMMA StopOrCrashType == ASSUME TypeOK, StopOrCrash PROVE TypeOK'
<1>1. CASE Stop \/ Crash
  BY <1>1, DownType DEF Stop, Crash, disk, TypeOK
<1>2. CASE CrashInLog
  BY <1>2, DownType DEF CrashInLog, TypeOK
<1>3. CASE CrashInTable
  <2>1. files' \subseteq File /\ IsFiniteSet(files')
    BY <1>3, WriteFileType, ParametersAreSane DEF Levels, CrashInTable, MayCompact, TypeOK
  <2> QED
    BY <1>3, <2>1, DownType DEF CrashInTable, TypeOK
<1> QED
  BY <1>1, <1>2, <1>3 DEF StopOrCrash

LEMMA OpenType == ASSUME TypeOK, Open PROVE TypeOK'
<1>1. PICK lv \in [Levels -> UNION {LoadOrders(l) : l \in Levels}] :
        /\ \A l \in Levels : lv[l] \in LoadOrders(l)
        /\ levels' = lv
        /\ next_id' \in NextIds(lv)
  BY DEF Open
<1>2. lv \in [Levels -> Seq(Table)]
  BY <1>1, LoadOrdersType
<1>3. next_id' \in Nat \ {0}
  BY <1>1, <1>2, NextIdsType
<1>4. next_ts' \in Nat \ {0}
  BY TimestampsType DEF Open, IsMaximum
<1>5. mem' \in Content
  BY ReplayedType DEF Open
<1> QED
  BY <1>1, <1>2, <1>3, <1>4, <1>5 DEF Open, disk, TypeOK

LEMMA CallType == ASSUME TypeOK, Call PROVE TypeOK'
<1>1. ASSUME NEW k \in Keys, Put(k) PROVE TypeOK'
  BY <1>1, LogType, LogFailsType DEF Put
<1>2. ASSUME NEW k \in Keys, Remove(k) PROVE TypeOK'
  BY <1>2, LogType, LogFailsType DEF Remove
<1>3. CASE Read
  BY <1>3 DEF Read, vars, memory, disk, TypeOK
<1> QED
  BY <1>1, <1>2, <1>3, ClearType DEF Call

LEMMA StepType == ASSUME TypeOK, Step PROVE TypeOK'
BY ApplyType, FlushWriteType, FlushFailsType, InstallType, CompactSkipType,
   CompactDoneType, CompactToNothingType, CompactWriteType, CompactFailsType,
   UnlinkType, ReplaceType, WipeFileType, WipeDoneType
DEF Step

LEMMA NextType == ASSUME TypeOK, [Next]_vars PROVE TypeOK'
<1>1. CASE UNCHANGED vars
  BY <1>1 DEF vars, memory, disk, TypeOK
<1> QED
  BY <1>1, CallType, StepType, StopOrCrashType, OpenType DEF Next

\* In every reachable state every variable has its type, whatever the keys,
\* the sizes, the workload and the faults: in particular no compaction, not
\* even of the last level, lists a table anywhere but on a level that exists.
THEOREM TypeCorrect == Spec => []TypeOK
BY InitType, NextType, PTL DEF Spec

-----------------------------------------------------------------------------
(***************************************************************************)
(* Order.                                                                  *)
(***************************************************************************)

\* Everything stored of key k is older than t.
StoredOlder(k, t) ==
  Older(mem[k], t) /\ Older(imm[k], t) /\ TablesOlder(levels, k, t)

CounterAhead == \A k \in Keys : StoredOlder(k, next_ts)

PendingIsNewest ==
  pc = "apply" => op.ts < next_ts /\ \A k \in Keys : StoredOlder(k, op.ts)

FlushesMemtable ==
  pc = "install" =>
    \A k \in Keys : out.body[k] # None => out.body[k] = imm[k]

CompactsLevel ==
  (pc = "unlink" /\ out # None) =>
    /\ lvl + 1 \in Levels
    /\ \A k \in Keys : out.body[k] # None => out.body[k] \in Entries(lvl, DOMAIN levels[lvl], k)

OutIsInUse == out # None => pc \in {"install", "unlink"}

\* The inductive invariant.
OrderInv ==
  /\ TypeOK
  /\ pc # "down"
  /\ SearchOrderIsTimeOrder
  /\ CounterAhead
  /\ PendingIsNewest
  /\ FlushesMemtable
  /\ CompactsLevel
  /\ OutIsInUse

-----------------------------------------------------------------------------
(***************************************************************************)
(* The order of the tables when a level is emptied or gains a table.       *)
(***************************************************************************)

\* A version that is older than t is older than any later timestamp.
LEMMA OlderIsMonotonic ==
  ASSUME NEW v \in Version \union {None}, NEW t \in Nat, NEW u \in Nat,
         t <= u, Older(v, t)
  PROVE  Older(v, u)
BY DEF Older, Version

LEMMA BodyType ==
  ASSUME NEW lv \in [Levels -> Seq(Table)], NEW l \in Levels,
         NEW i \in DOMAIN lv[l], NEW k \in Keys
  PROVE  lv[l][i].body[k] \in Version \union {None}
<1>1. lv[l] \in Seq(Table)
  OBVIOUS
<1>2. lv[l][i] \in Table
  BY <1>1
<1> QED
  BY <1>2 DEF Table, Content

LEMMA TablesOlderIsMonotonic ==
  ASSUME NEW lv \in [Levels -> Seq(Table)], NEW k \in Keys,
         NEW t \in Nat, NEW u \in Nat, t <= u, TablesOlder(lv, k, t)
  PROVE  TablesOlder(lv, k, u)
BY BodyType, OlderIsMonotonic DEF TablesOlder

\* The lists after level l has been emptied.
Emptied(lv, l) == [lv EXCEPT ![l] = <<>>]

LEMMA EmptiedType ==
  ASSUME NEW lv \in [Levels -> Seq(Table)], NEW l \in Levels
  PROVE  Emptied(lv, l) \in [Levels -> Seq(Table)]
BY DEF Emptied

LEMMA EmptiedInOrder ==
  ASSUME NEW lv \in [Levels -> Seq(Table)], NEW l \in Levels, NEW k \in Keys,
         TablesInOrder(lv, k)
  PROVE  TablesInOrder(Emptied(lv, l), k)
<1>1. ASSUME NEW m \in Levels, NEW i \in DOMAIN Emptied(lv, l)[m]
      PROVE  m # l /\ Emptied(lv, l)[m] = lv[m]
  BY DEF Emptied
<1> QED
  BY <1>1 DEF TablesInOrder

LEMMA EmptiedOlder ==
  ASSUME NEW lv \in [Levels -> Seq(Table)], NEW l \in Levels, NEW k \in Keys,
         NEW t, TablesOlder(lv, k, t)
  PROVE  TablesOlder(Emptied(lv, l), k, t)
<1>1. ASSUME NEW m \in Levels, NEW i \in DOMAIN Emptied(lv, l)[m]
      PROVE  m # l /\ Emptied(lv, l)[m] = lv[m]
  BY DEF Emptied
<1> QED
  BY <1>1 DEF TablesOlder

\* A table that joins a level becomes its last: every other place is as before.
LEMMA ListedPlaces ==
  ASSUME NEW lv \in [Levels -> Seq(Table)], NEW l \in Levels, NEW t \in Table,
         NEW m \in Levels, NEW i \in DOMAIN Listed(lv, l, t)[m]
  PROVE  \/ /\ i \in DOMAIN lv[m]
            /\ Listed(lv, l, t)[m][i] = lv[m][i]
         \/ /\ m = l /\ i = Len(lv[l]) + 1
            /\ Listed(lv, l, t)[m][i] = t
<1>1. lv[m] \in Seq(Table)
  OBVIOUS
<1>2. CASE m # l
  BY <1>2 DEF Listed
<1>3. CASE m = l
  <2>1. Listed(lv, l, t)[m] = Append(lv[m], t)
    BY <1>3 DEF Listed
  <2>2. /\ i \in 1 .. Len(lv[m]) + 1
        /\ Len(lv[m]) \in Nat
    BY <1>1, <2>1
  <2>3. CASE i = Len(lv[m]) + 1
    BY <1>1, <1>3, <2>1, <2>3
  <2>4. CASE i \in 1 .. Len(lv[m])
    BY <1>1, <1>3, <2>1, <2>4
  <2> QED
    BY <2>2, <2>3, <2>4
<1> QED
  BY <1>2, <1>3

LEMMA ListedOlder ==
  ASSUME NEW lv \in [Levels -> Seq(Table)], NEW l \in Levels, NEW t \in Table,
         NEW k \in Keys, NEW u, TablesOlder(lv, k, u), Older(t.body[k], u)
  PROVE  TablesOlder(Listed(lv, l, t), k, u)
<1>1. ASSUME NEW m \in Levels, NEW i \in DOMAIN Listed(lv, l, t)[m]
      PROVE  Older(Listed(lv, l, t)[m][i].body[k], u)
  <2>1. \/ i \in DOMAIN lv[m] /\ Listed(lv, l, t)[m][i] = lv[m][i]
        \/ Listed(lv, l, t)[m][i] = t
    BY <1>1, ListedPlaces
  <2> QED
    BY <2>1 DEF TablesOlder
<1> QED
  BY <1>1 DEF TablesOlder

\* The order survives if what the table holds of key k is newer than the
\* tables of its own and lower levels and older than those of higher levels.
LEMMA ListedInOrder ==
  ASSUME NEW lv \in [Levels -> Seq(Table)], NEW l \in Levels, NEW t \in Table,
         NEW k \in Keys, TablesInOrder(lv, k),
         t.body[k] # None =>
           /\ \A m \in Levels : m >= l =>
                \A i \in DOMAIN lv[m] : Older(lv[m][i].body[k], t.body[k].ts)
           /\ \A m \in Levels : m < l =>
                \A i \in DOMAIN lv[m] :
                  lv[m][i].body[k] # None => Older(t.body[k], lv[m][i].body[k].ts)
  PROVE  TablesInOrder(Listed(lv, l, t), k)
<1> DEFINE nlv == Listed(lv, l, t)
<1>0. \A m \in Levels : \A i \in DOMAIN nlv[m] :
        \/ i \in DOMAIN lv[m] /\ nlv[m][i] = lv[m][i]
        \/ m = l /\ i = Len(lv[l]) + 1 /\ nlv[m][i] = t
  BY ListedPlaces
<1> HIDE DEF nlv
<1> SUFFICES ASSUME NEW a \in Levels, NEW b \in Levels,
                    NEW i \in DOMAIN nlv[a], NEW j \in DOMAIN nlv[b],
                    SearchedBefore(<<a, i>>, <<b, j>>),
                    nlv[a][i].body[k] # None
             PROVE  Older(nlv[b][j].body[k], nlv[a][i].body[k].ts)
  BY DEF TablesInOrder, nlv
<1>1. a < b \/ (a = b /\ i > j)
  BY DEF SearchedBefore
<1> DEFINE oldA == i \in DOMAIN lv[a] /\ nlv[a][i] = lv[a][i]
           oldB == j \in DOMAIN lv[b] /\ nlv[b][j] = lv[b][j]
           newA == a = l /\ i = Len(lv[l]) + 1 /\ nlv[a][i] = t
           newB == b = l /\ j = Len(lv[l]) + 1 /\ nlv[b][j] = t
<1>2. oldA \/ newA
  BY <1>0
<1>3. oldB \/ newB
  BY <1>0
<1>4. lv[l] \in Seq(Table) /\ Len(lv[l]) \in Nat
  OBVIOUS
<1>5. CASE oldA /\ oldB
  BY <1>5 DEF TablesInOrder
<1>6. CASE newA /\ oldB
  <2>1. b >= l
    BY <1>1, <1>6, ParametersAreSane DEF Levels
  <2> QED
    BY <1>6, <2>1
<1>7. CASE oldA /\ newB
  <2>1. a < l
    <3>1. a = l => i \in 1 .. Len(lv[l])
      BY <1>4, <1>7
    <3>2. ~(a = b /\ i > j)
      BY <1>4, <1>7, <3>1
    <3> QED
      BY <1>1, <1>7, <3>2
  <2>2. CASE t.body[k] = None
    BY <1>7, <2>2 DEF Older
  <2>3. CASE t.body[k] # None
    BY <1>7, <2>1, <2>3
  <2> QED
    BY <2>2, <2>3
<1>8. CASE newA /\ newB
  <2>1. ~(a < b) /\ ~(i > j)
    BY <1>4, <1>8, ParametersAreSane DEF Levels
  <2> QED
    BY <1>1, <2>1
<1> QED
  BY <1>2, <1>3, <1>5, <1>6, <1>7, <1>8
-----------------------------------------------------------------------------
(***************************************************************************)
(* Each action preserves the inductive invariant.                          *)
(***************************************************************************)

LEMMA StoredTypes ==
  ASSUME TypeOK, NEW k \in Keys
  PROVE  /\ mem[k] \in Version \union {None}
         /\ imm[k] \in Version \union {None}
         /\ next_ts \in Nat
         /\ levels \in [Levels -> Seq(Table)]
BY DEF TypeOK, Content

\* What is older than t stays so when the time goes on.
LEMMA StoredOlderIsMonotonic ==
  ASSUME TypeOK, NEW k \in Keys, NEW t \in Nat, NEW u \in Nat, t <= u,
         StoredOlder(k, t)
  PROVE  StoredOlder(k, u)
BY StoredTypes, OlderIsMonotonic, TablesOlderIsMonotonic DEF StoredOlder

\* The steps that change nothing that is stored in memory.
LEMMA NothingStoredOrder ==
  ASSUME OrderInv, UNCHANGED <<mem, imm, levels>>,
         next_ts' \in Nat, next_ts <= next_ts'
  PROVE  SearchOrderIsTimeOrder' /\ CounterAhead'
<1>1. SearchOrderIsTimeOrder'
  BY DEF OrderInv, SearchOrderIsTimeOrder, TablesInOrder, TablesOlder
<1>2. ASSUME NEW k \in Keys PROVE StoredOlder(k, next_ts')
  BY StoredTypes, StoredOlderIsMonotonic DEF OrderInv, CounterAhead
<1>3. CounterAhead'
  BY <1>2 DEF CounterAhead, StoredOlder, TablesOlder
<1> QED
  BY <1>1, <1>3

LEMMA LogOrder ==
  ASSUME OrderInv, TypeOK', NEW k \in Keys, NEW v \in Values \union {Tombstone}, Log(k, v)
  PROVE  OrderInv'
<1>1. next_ts \in Nat /\ next_ts' = next_ts + 1
  BY DEF OrderInv, TypeOK, Log, TakeTimestamp
<1>2. UNCHANGED <<mem, imm, levels>>
  BY DEF Log
<1>3. SearchOrderIsTimeOrder' /\ CounterAhead'
  BY <1>1, <1>2, NothingStoredOrder
<1>4. op'.ts = next_ts
  BY DEF Log, NewRecord
<1>5. PendingIsNewest'
  BY <1>1, <1>2, <1>4
  DEF OrderInv, CounterAhead, PendingIsNewest, StoredOlder, TablesOlder
<1>6. pc' = "apply" /\ out' = None
  BY DEF OrderInv, OutIsInUse, Log, TakeTimestamp
<1> QED
  BY <1>3, <1>5, <1>6 DEF OrderInv, FlushesMemtable, CompactsLevel, OutIsInUse

LEMMA LogFailsOrder ==
  ASSUME OrderInv, TypeOK', NEW k \in Keys, NEW v \in Values \union {Tombstone}, LogFails(k, v)
  PROVE  OrderInv'
<1>1. next_ts \in Nat /\ next_ts' = next_ts + 1
  BY DEF OrderInv, TypeOK, LogFails, TakeTimestamp
<1>2. UNCHANGED <<mem, imm, levels, op, pc, out>> /\ pc = "idle"
  BY DEF LogFails, TakeTimestamp
<1>3. SearchOrderIsTimeOrder' /\ CounterAhead'
  BY <1>1, <1>2, NothingStoredOrder
<1> QED
  BY <1>2, <1>3
  DEF OrderInv, PendingIsNewest, FlushesMemtable, CompactsLevel, OutIsInUse

\* The memtable with the pending record in it is in its place.
LEMMA ApplyOrder == ASSUME OrderInv, TypeOK', Apply PROVE OrderInv'
<1> DEFINE m == [mem EXCEPT ![op.key] = VersionOf(op)]
<1>1. op \in Record /\ op.ts \in Nat /\ op.key \in Keys
  BY DEF OrderInv, TypeOK, Apply, Record
<1>2. mem \in Content /\ imm \in Content
  BY DEF OrderInv, TypeOK
<1>3. ASSUME NEW k \in Keys
      PROVE  /\ m[k] = mem[k] \/ (m[k].ts = op.ts /\ m[k] # None /\ k = op.key)
             /\ StoredOlder(k, op.ts)
             /\ op.ts < next_ts
  <2>1. VersionOf(op) # None /\ VersionOf(op).ts = op.ts
    BY <1>1, VersionOfType, MarkersAreNotData DEF VersionOf
  <2>2. m[k] = IF k = op.key THEN VersionOf(op) ELSE mem[k]
    BY <1>2 DEF Content
  <2> QED
    BY <2>1, <2>2 DEF OrderInv, PendingIsNewest, Apply
<1> HIDE DEF m
<1>4. UNCHANGED <<levels, next_ts, out>> /\ out = None
  BY DEF Apply, OrderInv, OutIsInUse
<1>5. ASSUME NEW k \in Keys
      PROVE  /\ m[k] # None => Older(imm[k], m[k].ts) /\ TablesOlder(levels, k, m[k].ts)
             /\ imm[k] # None => TablesOlder(levels, k, imm[k].ts)
             /\ TablesInOrder(levels, k)
             /\ Older(m[k], next_ts) /\ Older(imm[k], next_ts)
             /\ TablesOlder(levels, k, next_ts)
  BY <1>3 DEF OrderInv, SearchOrderIsTimeOrder, CounterAhead, StoredOlder, Older
<1>6. pc' \in {"idle", "flush"}
  BY DEF Apply
<1>7. CASE mem' = m /\ imm' = imm
  BY <1>4, <1>5, <1>6, <1>7
  DEF OrderInv, SearchOrderIsTimeOrder, CounterAhead, StoredOlder,
      PendingIsNewest, FlushesMemtable, CompactsLevel, OutIsInUse
<1>8. CASE mem' = Empty /\ imm' = m
  <2>1. \A k \in Keys : mem'[k] = None
    BY <1>8 DEF Empty
  <2> QED
    BY <1>4, <1>5, <1>6, <1>8, <2>1
    DEF OrderInv, SearchOrderIsTimeOrder, CounterAhead, StoredOlder, Older,
        PendingIsNewest, FlushesMemtable, CompactsLevel, OutIsInUse
<1> QED
  BY <1>7, <1>8 DEF Apply, m

\* The memtable becomes the immutable one, in front of the same tables.
LEMMA FlushReturnsOrder ==
  ASSUME OrderInv, FlushReturns, UNCHANGED <<levels, next_ts>>
  PROVE  /\ SearchOrderIsTimeOrder' /\ CounterAhead'
         /\ pc' \in {"idle", "flush"}
<1>1. CASE mem' = Empty /\ imm' = mem
  <2>1. \A k \in Keys : mem'[k] = None
    BY <1>1 DEF Empty
  <2> QED
    BY <1>1, <2>1
    DEF OrderInv, FlushReturns, SearchOrderIsTimeOrder, CounterAhead,
        StoredOlder, Older, TablesOlder, TablesInOrder
<1>2. CASE UNCHANGED <<mem, imm>>
  BY <1>2
  DEF OrderInv, FlushReturns, SearchOrderIsTimeOrder, CounterAhead,
      StoredOlder, TablesOlder, TablesInOrder
<1> QED
  BY <1>1, <1>2 DEF FlushReturns

LEMMA FlushWriteOrder == ASSUME OrderInv, TypeOK', FlushWrite PROVE OrderInv'
<1>1. UNCHANGED <<mem, imm, levels, next_ts>> /\ pc' = "install"
  BY DEF FlushWrite
<1>2. SearchOrderIsTimeOrder' /\ CounterAhead'
  BY <1>1, NothingStoredOrder DEF OrderInv, TypeOK
<1>3. out'.body = imm \/ out'.body = Empty
  BY DEF FlushWrite, TableWritten
<1>4. FlushesMemtable'
  BY <1>1, <1>3 DEF FlushesMemtable, Empty
<1> QED
  BY <1>1, <1>2, <1>4
  DEF OrderInv, PendingIsNewest, CompactsLevel, OutIsInUse

LEMMA FlushFailsOrder == ASSUME OrderInv, TypeOK', FlushFails PROVE OrderInv'
<1>1. UNCHANGED <<levels, next_ts, out>> /\ out = None
  BY DEF FlushFails, OrderInv, OutIsInUse
<1> QED
  BY <1>1, FlushReturnsOrder
  DEF FlushFails, OrderInv, PendingIsNewest, FlushesMemtable, CompactsLevel, OutIsInUse

\* The flushed table takes the place of the immutable memtable.
LEMMA InstallOrder == ASSUME OrderInv, TypeOK', Install PROVE OrderInv'
<1>1. /\ levels \in [Levels -> Seq(Table)] /\ out \in Table
      /\ levels' = Listed(levels, 0, out) /\ 0 \in Levels
  BY ParametersAreSane DEF OrderInv, TypeOK, Install, Levels
<1>2. /\ UNCHANGED <<mem, next_ts>> /\ imm' = Empty /\ out' = None
      /\ pc' = "compact"
  BY DEF Install
<1>3. ASSUME NEW k \in Keys PROVE out.body[k] # None => out.body[k] = imm[k]
  BY DEF OrderInv, FlushesMemtable, Install
<1>4. ASSUME NEW k \in Keys PROVE TablesInOrder(levels', k)
  <2>1. out.body[k] # None => TablesOlder(levels, k, out.body[k].ts)
    BY <1>3 DEF OrderInv, SearchOrderIsTimeOrder
  <2>2. \A m \in Levels : ~(m < 0)
    BY ParametersAreSane DEF Levels
  <2>3. TablesInOrder(levels, k)
    BY DEF OrderInv, SearchOrderIsTimeOrder
  <2> QED
    BY <1>1, <2>1, <2>2, <2>3, ListedInOrder DEF TablesOlder
<1>5. ASSUME NEW k \in Keys, NEW t, TablesOlder(levels, k, t), Older(imm[k], t)
      PROVE  TablesOlder(levels', k, t)
  <2>1. Older(out.body[k], t)
    BY <1>3, <1>5 DEF Older
  <2> QED
    BY <1>1, <1>5, <2>1, ListedOlder
<1>6. ASSUME NEW k \in Keys
      PROVE  /\ mem[k] # None => TablesOlder(levels', k, mem[k].ts)
             /\ TablesOlder(levels', k, next_ts)
  BY <1>5 DEF OrderInv, SearchOrderIsTimeOrder, CounterAhead, StoredOlder
<1>7. \A k \in Keys : imm'[k] = None
  BY <1>2 DEF Empty
<1>8. SearchOrderIsTimeOrder'
  BY <1>2, <1>4, <1>6, <1>7 DEF SearchOrderIsTimeOrder, Older
<1>9. CounterAhead'
  BY <1>2, <1>6, <1>7 DEF OrderInv, CounterAhead, StoredOlder, Older
<1> QED
  BY <1>2, <1>8, <1>9
  DEF OrderInv, PendingIsNewest, FlushesMemtable, CompactsLevel, OutIsInUse

LEMMA CompactSkipOrder == ASSUME OrderInv, TypeOK', CompactSkip PROVE OrderInv'
<1>1. UNCHANGED <<mem, imm, levels, next_ts, pc, out>> /\ pc = "compact"
  BY DEF CompactSkip, NextLevel, memory
<1>2. SearchOrderIsTimeOrder' /\ CounterAhead'
  BY <1>1, NothingStoredOrder DEF OrderInv, TypeOK
<1> QED
  BY <1>1, <1>2
  DEF OrderInv, PendingIsNewest, FlushesMemtable, CompactsLevel, OutIsInUse

LEMMA CompactDoneOrder == ASSUME OrderInv, TypeOK', CompactDone PROVE OrderInv'
<1>1. UNCHANGED <<levels, next_ts, out>> /\ out = None
  BY DEF CompactDone, OrderInv, OutIsInUse
<1> QED
  BY <1>1, FlushReturnsOrder
  DEF CompactDone, OrderInv, PendingIsNewest, FlushesMemtable, CompactsLevel, OutIsInUse

LEMMA CompactToNothingOrder ==
  ASSUME OrderInv, TypeOK', CompactToNothing PROVE OrderInv'
<1>1. /\ UNCHANGED <<mem, imm, levels, next_ts, out>>
      /\ pc = "compact" /\ pc' = "unlink"
  BY DEF CompactToNothing, MayCompact, memory
<1>2. SearchOrderIsTimeOrder' /\ CounterAhead'
  BY <1>1, NothingStoredOrder DEF OrderInv, TypeOK
<1> QED
  BY <1>1, <1>2
  DEF OrderInv, PendingIsNewest, FlushesMemtable, CompactsLevel, OutIsInUse

LEMMA CompactWriteOrder == ASSUME OrderInv, TypeOK', CompactWrite PROVE OrderInv'
<1>1. UNCHANGED <<mem, imm, levels, next_ts, lvl>> /\ pc' = "unlink"
  BY DEF CompactWrite
<1>2. SearchOrderIsTimeOrder' /\ CounterAhead'
  BY <1>1, NothingStoredOrder DEF OrderInv, TypeOK
<1>3. lvl + 1 \in Levels
  BY ParametersAreSane DEF CompactWrite, MayCompact, OrderInv, TypeOK, Levels
<1>4. PICK r \in Readings(lvl) : \E b \in Merges(lvl, r) : TableWritten(lvl + 1, b)
  BY DEF CompactWrite
<1> PICK b \in Merges(lvl, r) : TableWritten(lvl + 1, b)
  BY <1>4
<1>5. out'.body = b \/ out'.body = Empty
  BY DEF TableWritten
<1>6. ASSUME NEW k \in Keys, b[k] # None PROVE b[k] \in Entries(lvl, DOMAIN levels[lvl], k)
  <2>1. b[k] \in Entries(lvl, r, k)
    BY <1>6 DEF Merges, Kept
  <2>2. r \subseteq DOMAIN levels[lvl]
    BY DEF Readings
  <2> QED
    BY <2>1, <2>2 DEF Entries
<1>7. ASSUME NEW k \in Keys, out'.body[k] # None
      PROVE  out'.body[k] \in Entries(lvl, DOMAIN levels[lvl], k)
  BY <1>5, <1>6, <1>7 DEF Empty
<1>8. CompactsLevel'
  BY <1>1, <1>3, <1>7 DEF CompactsLevel, Entries
<1> QED
  BY <1>1, <1>2, <1>8
  DEF OrderInv, PendingIsNewest, FlushesMemtable, OutIsInUse

LEMMA CompactFailsOrder == ASSUME OrderInv, TypeOK', CompactFails PROVE OrderInv'
<1>1. UNCHANGED <<mem, imm, levels, next_ts, pc, out>> /\ pc = "compact"
  BY DEF CompactFails, MayCompact
<1>2. SearchOrderIsTimeOrder' /\ CounterAhead'
  BY <1>1, NothingStoredOrder DEF OrderInv, TypeOK
<1> QED
  BY <1>1, <1>2
  DEF OrderInv, PendingIsNewest, FlushesMemtable, CompactsLevel, OutIsInUse

LEMMA UnlinkOrder == ASSUME OrderInv, TypeOK', Unlink PROVE OrderInv'
<1>1. UNCHANGED <<mem, imm, levels, next_ts, pc, lvl, out>> /\ pc = "unlink"
  BY DEF Unlink, memory
<1>2. SearchOrderIsTimeOrder' /\ CounterAhead'
  BY <1>1, NothingStoredOrder DEF OrderInv, TypeOK
<1> QED
  BY <1>1, <1>2
  DEF OrderInv, PendingIsNewest, FlushesMemtable, CompactsLevel, OutIsInUse, Entries

\* The merged table takes the place of the tables of its level.
LEMMA ReplaceOrder == ASSUME OrderInv, TypeOK', Replace PROVE OrderInv'
<1> DEFINE elv == Emptied(levels, lvl)
<1>1. /\ levels \in [Levels -> Seq(Table)] /\ lvl \in Levels
      /\ out \in Table \union {None}
      /\ \A k \in Keys : TablesInOrder(levels, k)
  BY ParametersAreSane
  DEF OrderInv, TypeOK, Replace, Levels, SearchOrderIsTimeOrder
<1>2. levels' = IF out = None THEN elv ELSE Listed(elv, lvl + 1, out)
  BY DEF Replace, Emptied
<1>3. /\ UNCHANGED <<mem, imm, next_ts>> /\ out' = None
      /\ pc = "unlink" /\ pc' = "compact"
  BY DEF Replace
<1>4. /\ elv \in [Levels -> Seq(Table)]
      /\ \A m \in Levels : \A i \in DOMAIN elv[m] : m # lvl /\ elv[m] = levels[m]
  BY <1>1, EmptiedType DEF Emptied
<1>5. ASSUME NEW k \in Keys PROVE TablesInOrder(elv, k)
  BY <1>1, EmptiedInOrder
<1>6. ASSUME NEW k \in Keys, NEW t, TablesOlder(levels, k, t)
      PROVE  TablesOlder(elv, k, t)
  BY <1>1, <1>6, EmptiedOlder
<1> HIDE DEF elv
<1>7. ASSUME out # None
      PROVE  /\ out \in Table /\ lvl + 1 \in Levels
             /\ \A k \in Keys : out.body[k] # None =>
                  \E i \in DOMAIN levels[lvl] : out.body[k] = levels[lvl][i].body[k]
  BY <1>1, <1>3, <1>7 DEF OrderInv, CompactsLevel, Entries
<1>8. ASSUME NEW k \in Keys, out # None, out.body[k] # None
      PROVE  /\ \A m \in Levels : m >= lvl + 1 =>
                  \A i \in DOMAIN elv[m] : Older(elv[m][i].body[k], out.body[k].ts)
             /\ \A m \in Levels : m < lvl + 1 =>
                  \A i \in DOMAIN elv[m] :
                    elv[m][i].body[k] # None => Older(out.body[k], elv[m][i].body[k].ts)
  <2>1. PICK j \in DOMAIN levels[lvl] : out.body[k] = levels[lvl][j].body[k]
    BY <1>7, <1>8
  <2>2. ASSUME NEW m \in Levels, m >= lvl + 1, NEW i \in DOMAIN elv[m]
        PROVE  Older(elv[m][i].body[k], out.body[k].ts)
    <3>1. SearchedBefore(<<lvl, j>>, <<m, i>>)
      BY <1>1, <2>2, ParametersAreSane DEF SearchedBefore, Levels
    <3> QED
      BY <1>1, <1>4, <1>8, <2>1, <2>2, <3>1 DEF TablesInOrder
  <2>3. ASSUME NEW m \in Levels, m < lvl + 1, NEW i \in DOMAIN elv[m],
               elv[m][i].body[k] # None
        PROVE  Older(out.body[k], elv[m][i].body[k].ts)
    <3>1. m # lvl /\ elv[m] = levels[m]
      BY <1>4, <2>3
    <3>2. SearchedBefore(<<m, i>>, <<lvl, j>>)
      BY <1>1, <2>3, <3>1, ParametersAreSane DEF SearchedBefore, Levels
    <3> QED
      BY <1>1, <2>1, <2>3, <3>1, <3>2 DEF TablesInOrder
  <2> QED
    BY <2>2, <2>3
<1>9. ASSUME NEW k \in Keys PROVE TablesInOrder(levels', k)
  <2>1. CASE out = None
    BY <1>2, <1>5, <2>1
  <2>2. CASE out # None
    <3>1. TablesInOrder(Listed(elv, lvl + 1, out), k)
      BY <1>4, <1>5, <1>7, <1>8, <2>2, ListedInOrder
    <3> QED
      BY <1>2, <2>2, <3>1
  <2> QED
    BY <2>1, <2>2
<1>10. ASSUME NEW k \in Keys, NEW t, TablesOlder(levels, k, t)
       PROVE  TablesOlder(levels', k, t)
  <2>1. CASE out = None
    BY <1>2, <1>6, <1>10, <2>1
  <2>2. CASE out # None
    <3>1. Older(out.body[k], t)
      BY <1>1, <1>7, <1>10, <2>2 DEF TablesOlder, Older
    <3>2. TablesOlder(Listed(elv, lvl + 1, out), k, t)
      BY <1>4, <1>6, <1>7, <1>10, <2>2, <3>1, ListedOlder
    <3> QED
      BY <1>2, <2>2, <3>2
  <2> QED
    BY <2>1, <2>2
<1>11. SearchOrderIsTimeOrder'
  BY <1>3, <1>9, <1>10 DEF OrderInv, SearchOrderIsTimeOrder
<1>12. CounterAhead'
  BY <1>3, <1>10 DEF OrderInv, CounterAhead, StoredOlder
<1> QED
  BY <1>3, <1>11, <1>12
  DEF OrderInv, PendingIsNewest, FlushesMemtable, CompactsLevel, OutIsInUse

LEMMA ClearOrder == ASSUME OrderInv, TypeOK', Clear PROVE OrderInv'
<1>1. /\ UNCHANGED <<levels, next_ts, out>>
      /\ mem' = Empty /\ imm' = Empty
      /\ pc = "idle" /\ pc' = "wipe"
  BY DEF Clear
<1>2. \A k \in Keys : mem'[k] = None /\ imm'[k] = None
  BY <1>1 DEF Empty
<1>3. SearchOrderIsTimeOrder' /\ CounterAhead'
  BY <1>1, <1>2
  DEF OrderInv, SearchOrderIsTimeOrder, CounterAhead, StoredOlder, Older,
      TablesOlder, TablesInOrder
<1> QED
  BY <1>1, <1>3
  DEF OrderInv, PendingIsNewest, FlushesMemtable, CompactsLevel, OutIsInUse

LEMMA WipeFileOrder == ASSUME OrderInv, TypeOK', WipeFile PROVE OrderInv'
<1>1. UNCHANGED <<mem, imm, levels, next_ts, pc, out>> /\ pc = "wipe"
  BY DEF WipeFile, memory
<1>2. SearchOrderIsTimeOrder' /\ CounterAhead'
  BY <1>1, NothingStoredOrder DEF OrderInv, TypeOK
<1> QED
  BY <1>1, <1>2
  DEF OrderInv, PendingIsNewest, FlushesMemtable, CompactsLevel, OutIsInUse

LEMMA WipeDoneOrder == ASSUME OrderInv, TypeOK', WipeDone PROVE OrderInv'
<1>1. /\ UNCHANGED <<mem, imm, next_ts, out>>
      /\ levels' = [l \in Levels |-> <<>>]
      /\ pc = "wipe" /\ pc' = "idle"
  BY DEF WipeDone
<1>2. \A l \in Levels : \A i \in DOMAIN levels'[l] : FALSE
  BY <1>1
<1>3. SearchOrderIsTimeOrder' /\ CounterAhead'
  BY <1>1, <1>2
  DEF OrderInv, SearchOrderIsTimeOrder, CounterAhead, StoredOlder,
      TablesOlder, TablesInOrder
<1> QED
  BY <1>1, <1>3
  DEF OrderInv, PendingIsNewest, FlushesMemtable, CompactsLevel, OutIsInUse

LEMMA UnchangedOrder == ASSUME OrderInv, UNCHANGED vars PROVE OrderInv'
<1>1. TypeOK'
  BY NextType DEF OrderInv
<1>2. UNCHANGED <<mem, imm, levels, next_ts, pc, op, lvl, out>>
  BY DEF vars, memory
<1>3. SearchOrderIsTimeOrder' /\ CounterAhead'
  BY <1>2, NothingStoredOrder DEF OrderInv, TypeOK
<1> QED
  BY <1>1, <1>2, <1>3
  DEF OrderInv, PendingIsNewest, FlushesMemtable, CompactsLevel, OutIsInUse,
      Entries, StoredOlder, TablesOlder
-----------------------------------------------------------------------------
LEMMA InitOrder == Init => OrderInv
<1> SUFFICES ASSUME Init PROVE OrderInv
  OBVIOUS
<1>1. TypeOK
  BY InitType
<1>2. /\ pc = "idle" /\ out = None
      /\ \A k \in Keys : mem[k] = None /\ imm[k] = None
      /\ \A l \in Levels : \A i \in DOMAIN levels[l] : FALSE
  BY DEF Init, Empty
<1> QED
  BY <1>1, <1>2
  DEF OrderInv, SearchOrderIsTimeOrder, CounterAhead, StoredOlder, Older,
      TablesOlder, TablesInOrder, PendingIsNewest, FlushesMemtable,
      CompactsLevel, OutIsInUse

LEMMA NextOrder ==
  ASSUME stops' = 0, OrderInv, [Next]_vars
  PROVE  OrderInv'
<1>1. TypeOK'
  BY NextType DEF OrderInv
<1>2. CASE UNCHANGED vars
  BY <1>2, UnchangedOrder
<1>3. CASE Call
  <2>1. ASSUME NEW k \in Keys, Put(k) PROVE OrderInv'
    BY <1>1, <2>1, LogOrder, LogFailsOrder DEF Put
  <2>2. ASSUME NEW k \in Keys, Remove(k) PROVE OrderInv'
    BY <1>1, <2>2, LogOrder, LogFailsOrder DEF Remove
  <2>3. CASE Clear
    BY <1>1, <2>3, ClearOrder
  <2>4. CASE Read
    BY <2>4, UnchangedOrder DEF Read
  <2> QED
    BY <1>3, <2>1, <2>2, <2>3, <2>4 DEF Call
<1>4. CASE Step
  BY <1>1, <1>4, ApplyOrder, FlushWriteOrder, FlushFailsOrder, InstallOrder,
     CompactSkipOrder, CompactDoneOrder, CompactToNothingOrder, CompactWriteOrder,
     CompactFailsOrder, UnlinkOrder, ReplaceOrder, WipeFileOrder, WipeDoneOrder
  DEF Step
<1>5. ~StopOrCrash
  <2>1. stops + 1 # 0
    BY DEF OrderInv, TypeOK
  <2> QED
    BY <2>1 DEF StopOrCrash, Stop, Crash, CrashInLog, CrashInTable, Down
<1>6. ~Open
  BY DEF OrderInv, Open
<1> QED
  BY <1>2, <1>3, <1>4, <1>5, <1>6 DEF Next

\* No step takes a stop back.
LEMMA StopsGrow == ASSUME TypeOK, [Next]_vars, stops' = 0 PROVE stops = 0
<1>1. stops \in Nat
  BY DEF TypeOK
<1>2. stops' = stops \/ stops' = stops + 1
  BY DEF Next, vars, memory, disk, Call, Put, Remove, Log, LogFails, Clear, Read, Step, Apply,
     FlushWrite, FlushFails, FlushReturns, Install, CompactSkip, CompactDone,
     CompactToNothing, CompactWrite, CompactFails, Unlink, Replace, WipeFile, WipeDone,
     StopOrCrash, Stop, Crash, CrashInLog, CrashInTable, Down, Open
<1> QED
  BY <1>1, <1>2

LEMMA OrderInvHolds == Spec => [](stops = 0 => OrderInv)
<1> DEFINE Inv == stops = 0 => OrderInv
<1>1. Init => Inv
  BY InitOrder
<1>2. TypeOK /\ Inv /\ [Next]_vars => Inv'
  BY StopsGrow, NextOrder
<1> QED
  BY TypeCorrect, <1>1, <1>2, PTL DEF Spec

\* Before the process stops for the first time, whatever the workload and
\* whatever writes fail, no flush, retried flush, compaction of any level,
\* rejected put or clear lets get() find an older version of a key before a
\* newer one.
THEOREM SearchOrderIsRight == Spec => [](stops = 0 => SearchOrderIsTimeOrder)
<1>1. (stops = 0 => OrderInv) => (stops = 0 => SearchOrderIsTimeOrder)
  BY DEF OrderInv
<1> QED
  BY OrderInvHolds, <1>1, PTL

-----------------------------------------------------------------------------
(***************************************************************************)
(* Files.                                                                  *)
(***************************************************************************)

\* No two files have the same name.
NamesUnique ==
  \A f, g \in files : f.level = g.level /\ f.id = g.id => f = g

\* Table t is in a file of level l.
IsStored(l, t) == \E f \in files : f.level = l /\ Loaded(f) = t

\* The level on which the table that is being written will be listed.
OutLevel == IF pc = "install" THEN 0 ELSE lvl + 1

OutIsStored ==
  out # None =>
    /\ pc \in {"install", "unlink"} /\ OutLevel \in Levels
    /\ out.id < next_id
    /\ \A l \in Levels : \A i \in DOMAIN levels[l] : levels[l][i].id < out.id
    /\ IsStored(OutLevel, out)

\* Only clear, and compact for the level it has merged, list tables without files.
ListedIsStored ==
  pc # "wipe" =>
    \A l \in Levels : ~(pc = "unlink" /\ l = lvl) =>
      \A i \in DOMAIN levels[l] : IsStored(l, levels[l][i])

IsListed(f) == \E i \in DOMAIN levels[f.level] : levels[f.level][i] = Loaded(f)

\* Every readable file is listed, or about to be.
StoredIsListed ==
  pc # "down" =>
    \A f \in files : \/ f.body = Partial
                     \/ IsListed(f)
                     \/ out # None /\ f.level = OutLevel /\ Loaded(f) = out

\* The inductive invariant.
FilesInv ==
  /\ TypeOK /\ IdsAreFresh /\ NamesUnique
  /\ OutIsStored /\ ListedIsStored /\ StoredIsListed

-----------------------------------------------------------------------------
(***************************************************************************)
(* Writing and removing files.                                             *)
(***************************************************************************)

LEMMA FileType ==
  ASSUME TypeOK, NEW f \in files
  PROVE  f.level \in Levels /\ f.id \in Nat
BY DEF TypeOK, File

LEMMA TableType ==
  ASSUME TypeOK, NEW l \in Levels, NEW i \in DOMAIN levels[l]
  PROVE  levels[l][i] \in Table /\ levels[l][i].id \in Nat
<1>1. levels[l] \in Seq(Table)
  BY DEF TypeOK
<1>2. levels[l][i] \in Table
  BY <1>1
<1> QED
  BY <1>2 DEF Table

LEMMA LoadedId == ASSUME NEW f PROVE Loaded(f).id = f.id
BY DEF Loaded

\* A file that is written is the only one of its name, and leaves the others
\* alone.
LEMMA WriteFileKeeps ==
  ASSUME TypeOK, NamesUnique, NEW l \in Levels, NEW b,
         files' = WriteFile(l, next_id, b)
  PROVE  /\ NamesUnique'
         /\ [level |-> l, id |-> next_id, body |-> b] \in files'
         /\ \A f \in files' : \/ f = [level |-> l, id |-> next_id, body |-> b]
                              \/ f \in files /\ ~(f.level = l /\ f.id = next_id)
         /\ \A f \in files : ~(f.level = l /\ f.id = next_id) => f \in files'
<1> DEFINE new == [level |-> l, id |-> next_id, body |-> b]
<1>1. new.level = l /\ new.id = next_id
  OBVIOUS
<1>2. \A f \in files' : f = new \/ (f \in files /\ ~(f.level = l /\ f.id = next_id))
  BY DEF WriteFile
<1>3. new \in files' /\ \A f \in files : ~(f.level = l /\ f.id = next_id) => f \in files'
  BY DEF WriteFile
<1>4. NamesUnique'
  <2> HIDE DEF new
  <2> QED
    BY <1>1, <1>2 DEF NamesUnique
<1> QED
  BY <1>2, <1>3, <1>4

\* A listed table stays on the disk when a file with a fresh id is written.
LEMMA WriteFileStores ==
  ASSUME TypeOK, NamesUnique, NEW l \in Levels, NEW b,
         files' = WriteFile(l, next_id, b),
         NEW m \in Levels, NEW t, t.id # next_id, IsStored(m, t)
  PROVE  IsStored(m, t)'
<1>1. PICK f \in files : f.level = m /\ Loaded(f) = t
  BY DEF IsStored
<1>2. f.id # next_id
  BY <1>1, LoadedId
<1>3. f \in files'
  BY <1>2, WriteFileKeeps
<1> QED
  BY <1>1, <1>3 DEF IsStored

\* What RemoveNext removes is a file of a listed table.
LEMMA RemoveNextKeeps ==
  ASSUME TypeOK, NEW L \in SUBSET Levels, RemoveNext(L)
  PROVE  /\ files' \subseteq files
         /\ \A f \in files : f \notin files' =>
              f.level \in L /\ \E i \in DOMAIN levels[f.level] : levels[f.level][i].id = f.id
<1>1. PICK p \in OnDisk(L) :
        files' = {f \in files : ~(f.level = p[1] /\ f.id = levels[p[1]][p[2]].id)}
  BY DEF RemoveNext
<1>2. p[1] \in L /\ p[2] \in DOMAIN levels[p[1]]
  BY DEF OnDisk
<1> QED
  BY <1>1, <1>2

\* When none of the tables of a level is on the disk, what is left there is
\* not listed.
LEMMA NothingOnDiskLeft ==
  ASSUME TypeOK, NEW L \in SUBSET Levels, OnDisk(L) = {}, NEW f \in files, f.level \in L
  PROVE  ~IsListed(f)
<1> SUFFICES ASSUME NEW i \in DOMAIN levels[f.level], levels[f.level][i] = Loaded(f)
             PROVE  FALSE
  BY DEF IsListed
<1>1. levels[f.level][i].id = f.id
  BY LoadedId
<1>2. <<f.level, i>> \in OnDisk(L)
  BY <1>1 DEF OnDisk
<1> QED
  BY <1>2

-----------------------------------------------------------------------------
(***************************************************************************)
(* Each action preserves the invariant.                                    *)
(***************************************************************************)

\* The steps that list nothing, and at most open a file for a table that they
\* fail to write.
LEMMA NothingListedKeeps ==
  ASSUME FilesInv, TypeOK', UNCHANGED levels, next_id <= next_id',
         NEW l \in Levels, files' \in {files, WriteFile(l, next_id, Partial)},
         out = None, out' = None, pc \notin {"wipe", "unlink", "down"}, pc' # "down"
  PROVE  FilesInv'
<1> USE DEF FilesInv
<1>1. next_id \in Nat /\ next_id' \in Nat
  BY DEF TypeOK
<1>2. IdsAreFresh'
  BY <1>1, TableType DEF IdsAreFresh
<1>3. NamesUnique'
  BY WriteFileKeeps DEF NamesUnique
<1>4. OutIsStored'
  BY DEF OutIsStored
<1>5. ListedIsStored'
  <2> SUFFICES ASSUME NEW m \in Levels, NEW i \in DOMAIN levels[m]
               PROVE  IsStored(m, levels[m][i])'
    BY DEF ListedIsStored
  <2>1. IsStored(m, levels[m][i])
    BY DEF ListedIsStored
  <2>2. levels[m][i].id # next_id
    BY <1>1, TableType DEF IdsAreFresh
  <2>3. CASE files' = files
    BY <2>1, <2>3 DEF IsStored
  <2>4. CASE files' = WriteFile(l, next_id, Partial)
    <3> DEFINE t == levels[m][i]
    <3>1. t.id # next_id /\ IsStored(m, t) /\ t' = t
      BY <2>1, <2>2
    <3> HIDE DEF t
    <3>2. \E f \in files' : f.level = m /\ Loaded(f) = t
      BY <2>4, <3>1, WriteFileStores DEF IsStored
    <3> QED
      BY <3>1, <3>2 DEF IsStored, t
  <2> QED
    BY <2>3, <2>4
<1>6. StoredIsListed'
  <2>1. \A f \in files : f.body = Partial \/ IsListed(f)
    BY DEF StoredIsListed
  <2>2. \A f \in files' : f.body = Partial \/ f \in files
    BY DEF WriteFile
  <2> QED
    BY <2>1, <2>2 DEF StoredIsListed, IsListed
<1> QED
  BY <1>2, <1>3, <1>4, <1>5, <1>6

\* A table is written under a fresh id, and is the next to be listed.
LEMMA TableWrittenKeeps ==
  ASSUME FilesInv, TypeOK', UNCHANGED levels, TakeId,
         NEW l \in Levels, NEW b \in Content, TableWritten(l, b),
         out = None, pc \in {"flush", "compact"}, pc' \in {"install", "unlink"},
         OutLevel' = l
  PROVE  FilesInv'
<1> USE DEF FilesInv
<1>1. next_id \in Nat /\ next_id' = next_id + 1
  BY DEF TypeOK, TakeId
<1>2. PICK c \in {b, Partial} :
        /\ files' = WriteFile(l, next_id, c)
        /\ out' = [id |-> next_id, body |-> IF c = Partial THEN Empty ELSE c]
  BY MarkersAreNotData DEF TableWritten
<1> DEFINE new == [level |-> l, id |-> next_id, body |-> c]
<1>3. /\ NamesUnique' /\ new \in files'
      /\ \A f \in files' : f = new \/ f \in files
  BY <1>2, WriteFileKeeps
<1>4. Loaded(new) = out' /\ new.level = l
  BY <1>2 DEF Loaded
<1> HIDE DEF new
<1>5. \A m \in Levels : \A i \in DOMAIN levels[m] : levels[m][i].id < next_id
  BY DEF IdsAreFresh
<1>6. IdsAreFresh'
  BY <1>1, <1>5, TableType DEF IdsAreFresh
<1>7. OutIsStored'
  BY <1>1, <1>2, <1>3, <1>4, <1>5 DEF OutIsStored, IsStored
<1>8. ListedIsStored'
  <2> SUFFICES ASSUME NEW m \in Levels, NEW i \in DOMAIN levels[m]
               PROVE  IsStored(m, levels[m][i])'
    BY DEF ListedIsStored
  <2> DEFINE t == levels[m][i]
  <2>1. t.id # next_id /\ IsStored(m, t) /\ t' = t
    BY <1>1, <1>5, TableType DEF ListedIsStored
  <2> HIDE DEF t
  <2>2. \E f \in files' : f.level = m /\ Loaded(f) = t
    BY <1>2, <2>1, WriteFileStores DEF IsStored
  <2> QED
    BY <2>1, <2>2 DEF IsStored, t
<1>9. out' # None
  BY TableWrittenType
<1>10. StoredIsListed'
  <2>1. \A f \in files : f.body = Partial \/ IsListed(f)
    BY DEF StoredIsListed
  <2> QED
    BY <1>3, <1>4, <1>9, <2>1 DEF StoredIsListed, IsListed
<1> QED
  BY <1>3, <1>6, <1>7, <1>8, <1>10

\* The places of the tables when one has been added.
LEMMA ListedHolds ==
  ASSUME NEW lv \in [Levels -> Seq(Table)], NEW l \in Levels, NEW t \in Table
  PROVE  /\ \A m \in Levels : \A i \in DOMAIN lv[m] :
              i \in DOMAIN Listed(lv, l, t)[m] /\ Listed(lv, l, t)[m][i] = lv[m][i]
         /\ Len(lv[l]) + 1 \in DOMAIN Listed(lv, l, t)[l]
         /\ Listed(lv, l, t)[l][Len(lv[l]) + 1] = t
<1>1. lv[l] \in Seq(Table) /\ Listed(lv, l, t)[l] = Append(lv[l], t)
  BY DEF Listed
<1>2. \A m \in Levels : m # l => Listed(lv, l, t)[m] = lv[m]
  BY DEF Listed
<1>3. \A i \in DOMAIN lv[l] : i \in DOMAIN Append(lv[l], t) /\ Append(lv[l], t)[i] = lv[l][i]
  BY <1>1
<1>4. /\ Len(lv[l]) + 1 \in DOMAIN Append(lv[l], t)
      /\ Append(lv[l], t)[Len(lv[l]) + 1] = t
  BY <1>1
<1> QED
  BY <1>1, <1>2, <1>3, <1>4

\* The table that has been written is listed behind the tables of lv.
LEMMA ListingKeeps ==
  ASSUME FilesInv, TypeOK', UNCHANGED <<next_id, files>>, out # None, out' = None,
         pc # "down", pc' = "compact",
         NEW lv \in [Levels -> Seq(Table)], levels' = Listed(lv, OutLevel, out),
         \A l \in Levels : \A i \in DOMAIN lv[l] :
           lv[l] = levels[l] /\ IsStored(l, lv[l][i]),
         \A f \in files : \/ f.body = Partial
                          \/ \E i \in DOMAIN lv[f.level] : lv[f.level][i] = Loaded(f)
                          \/ f.level = OutLevel /\ Loaded(f) = out
  PROVE  FilesInv'
<1> USE DEF FilesInv
<1> DEFINE l == OutLevel
<1>1. /\ l \in Levels /\ out \in Table /\ out.id < next_id /\ IsStored(l, out)
      /\ out.id \in Nat /\ next_id \in Nat
      /\ \A m \in Levels : \A i \in DOMAIN levels[m] : levels[m][i].id < out.id
  BY DEF OutIsStored, TypeOK, Table
<1> HIDE DEF l
<1>2. \A m \in Levels : \A i \in DOMAIN levels'[m] :
        \/ /\ i \in DOMAIN lv[m] /\ levels'[m][i] = lv[m][i]
           /\ lv[m] = levels[m]
        \/ m = l /\ i = Len(lv[l]) + 1 /\ levels'[m][i] = out
  BY <1>1, ListedPlaces DEF l
<1>3. /\ \A m \in Levels : \A i \in DOMAIN lv[m] :
           i \in DOMAIN levels'[m] /\ levels'[m][i] = lv[m][i]
      /\ Len(lv[l]) + 1 \in DOMAIN levels'[l] /\ levels'[l][Len(lv[l]) + 1] = out
  BY <1>1, ListedHolds DEF l
<1>4. IdsAreFresh'
  <2>1. \A m \in Levels : \A i \in DOMAIN levels'[m] : levels'[m][i].id < next_id
    BY <1>1, <1>2, TableType DEF IdsAreFresh
  <2>2. ASSUME NEW m \in Levels, NEW i \in DOMAIN levels'[m], NEW j \in DOMAIN levels'[m],
               levels'[m][i].id = levels'[m][j].id
        PROVE  i = j
    <3>1. CASE levels'[m][i] = out /\ i = Len(lv[l]) + 1
      BY <1>1, <1>2, <2>2, <3>1, TableType
    <3>2. CASE levels'[m][j] = out /\ j = Len(lv[l]) + 1
      BY <1>1, <1>2, <2>2, <3>2, TableType
    <3>3. CASE /\ i \in DOMAIN levels[m] /\ levels'[m][i] = levels[m][i]
               /\ j \in DOMAIN levels[m] /\ levels'[m][j] = levels[m][j]
      BY <2>2, <3>3 DEF IdsAreFresh
    <3> QED
      BY <1>2, <3>1, <3>2, <3>3
  <2> QED
    BY <2>1, <2>2 DEF IdsAreFresh
<1>5. ListedIsStored'
  BY <1>1, <1>2 DEF ListedIsStored, IsStored
<1>6. StoredIsListed'
  <2> SUFFICES ASSUME NEW f \in files, f.body # Partial
               PROVE  \E i \in DOMAIN levels'[f.level] : levels'[f.level][i] = Loaded(f)
    BY DEF StoredIsListed, IsListed, Loaded
  <2>1. CASE \E i \in DOMAIN lv[f.level] : lv[f.level][i] = Loaded(f)
    BY <1>3, <2>1, FileType
  <2>2. CASE f.level = OutLevel /\ Loaded(f) = out
    BY <1>3, <2>2 DEF l
  <2> QED
    BY <2>1, <2>2
<1> QED
  BY <1>4, <1>5, <1>6 DEF NamesUnique, OutIsStored

LEMMA LogFiles ==
  ASSUME FilesInv, TypeOK', NEW k \in Keys, NEW v \in Values \union {Tombstone},
         Log(k, v) \/ LogFails(k, v)
  PROVE  FilesInv'
<1>1. /\ UNCHANGED <<levels, next_id, files, out>>
      /\ pc = "idle" /\ pc' \in {"idle", "apply"}
  BY DEF Log, LogFails, TakeTimestamp
<1>2. out = None /\ next_id \in Nat /\ 0 \in Levels
  BY <1>1, ParametersAreSane DEF FilesInv, OutIsStored, TypeOK, Levels
<1> QED
  BY <1>1, <1>2, NothingListedKeeps

LEMMA ApplyFiles == ASSUME FilesInv, TypeOK', Apply PROVE FilesInv'
<1>1. /\ UNCHANGED <<levels, next_id, files, out>>
      /\ pc = "apply" /\ pc' \in {"idle", "flush"}
  BY DEF Apply, disk
<1>2. out = None /\ next_id \in Nat /\ 0 \in Levels
  BY <1>1, ParametersAreSane DEF FilesInv, OutIsStored, TypeOK, Levels
<1> QED
  BY <1>1, <1>2, NothingListedKeeps

LEMMA FlushWriteFiles == ASSUME FilesInv, TypeOK', FlushWrite PROVE FilesInv'
<1>1. /\ UNCHANGED levels /\ TakeId /\ TableWritten(0, imm)
      /\ pc = "flush" /\ pc' = "install"
  BY DEF FlushWrite
<1>2. out = None /\ imm \in Content /\ 0 \in Levels /\ OutLevel' = 0
  BY <1>1, ParametersAreSane DEF FilesInv, OutIsStored, TypeOK, Levels, OutLevel
<1> QED
  BY <1>1, <1>2, TableWrittenKeeps

LEMMA FlushFailsFiles == ASSUME FilesInv, TypeOK', FlushFails PROVE FilesInv'
<1>1. /\ UNCHANGED <<levels, out>> /\ next_id' = next_id + 1 /\ pc = "flush"
      /\ files' \in {files, WriteFile(0, next_id, Partial)}
  BY DEF FlushFails, TakeId, TableNotWritten
<1>2. pc' \in {"idle", "flush"}
  BY DEF FlushFails, FlushReturns
<1>3. out = None /\ next_id \in Nat /\ 0 \in Levels
  BY <1>1, ParametersAreSane DEF FilesInv, OutIsStored, TypeOK, Levels
<1> QED
  BY <1>1, <1>2, <1>3, NothingListedKeeps

LEMMA InstallFiles == ASSUME FilesInv, TypeOK', Install PROVE FilesInv'
<1> USE DEF FilesInv
<1>1. /\ levels' = Listed(levels, 0, out) /\ UNCHANGED <<next_id, files>>
      /\ out' = None /\ pc = "install" /\ pc' = "compact"
  BY DEF Install
<1>2. out # None /\ OutLevel = 0 /\ levels \in [Levels -> Seq(Table)]
  BY <1>1 DEF TypeOK, OutLevel
<1>3. \A l \in Levels : \A i \in DOMAIN levels[l] : IsStored(l, levels[l][i])
  BY <1>1 DEF ListedIsStored
<1>4. \A f \in files : \/ f.body = Partial
                       \/ \E i \in DOMAIN levels[f.level] : levels[f.level][i] = Loaded(f)
                       \/ f.level = OutLevel /\ Loaded(f) = out
  BY <1>1 DEF StoredIsListed, IsListed
<1> QED
  BY <1>1, <1>2, <1>3, <1>4, ListingKeeps

LEMMA CompactSkipFiles == ASSUME FilesInv, TypeOK', CompactSkip PROVE FilesInv'
<1>1. /\ UNCHANGED <<levels, next_id, files, out>>
      /\ pc = "compact" /\ pc' = "compact"
  BY DEF CompactSkip, memory, disk
<1>2. out = None /\ next_id \in Nat /\ 0 \in Levels
  BY <1>1, ParametersAreSane DEF FilesInv, OutIsStored, TypeOK, Levels
<1> QED
  BY <1>1, <1>2, NothingListedKeeps

LEMMA CompactDoneFiles == ASSUME FilesInv, TypeOK', CompactDone PROVE FilesInv'
<1>1. /\ UNCHANGED <<levels, next_id, files, out>>
      /\ pc = "compact" /\ pc' \in {"idle", "flush"}
  BY DEF CompactDone, FlushReturns, disk
<1>2. out = None /\ next_id \in Nat /\ 0 \in Levels
  BY <1>1, ParametersAreSane DEF FilesInv, OutIsStored, TypeOK, Levels
<1> QED
  BY <1>1, <1>2, NothingListedKeeps

LEMMA CompactToNothingFiles ==
  ASSUME FilesInv, TypeOK', CompactToNothing PROVE FilesInv'
<1>1. /\ UNCHANGED <<levels, next_id, files, out>>
      /\ pc = "compact" /\ pc' = "unlink"
  BY DEF CompactToNothing, MayCompact, memory, disk
<1>2. out = None /\ next_id \in Nat /\ 0 \in Levels
  BY <1>1, ParametersAreSane DEF FilesInv, OutIsStored, TypeOK, Levels
<1> QED
  BY <1>1, <1>2, NothingListedKeeps

LEMMA CompactWriteFiles == ASSUME FilesInv, TypeOK', CompactWrite PROVE FilesInv'
<1>1. /\ UNCHANGED <<levels, lvl>> /\ TakeId
      /\ pc = "compact" /\ pc' = "unlink"
  BY DEF CompactWrite, MayCompact
<1>2. PICK r \in Readings(lvl) : \E b \in Merges(lvl, r) : TableWritten(lvl + 1, b)
  BY DEF CompactWrite
<1> PICK b \in Merges(lvl, r) : TableWritten(lvl + 1, b)
  BY <1>2
<1>3. lvl \in Levels /\ lvl + 1 \in Levels
  BY ParametersAreSane DEF CompactWrite, MayCompact, FilesInv, TypeOK, Levels
<1>4. out = None /\ b \in Content /\ OutLevel' = lvl + 1
  BY <1>1, <1>3, MergesType DEF FilesInv, OutIsStored, OutLevel
<1> QED
  BY <1>1, <1>3, <1>4, TableWrittenKeeps

LEMMA CompactFailsFiles == ASSUME FilesInv, TypeOK', CompactFails PROVE FilesInv'
<1>1. /\ UNCHANGED <<levels, out, pc>> /\ next_id' = next_id + 1 /\ pc = "compact"
  BY DEF CompactFails, MayCompact, TakeId
<1>2. out = None /\ next_id \in Nat /\ 0 \in Levels
  BY <1>1, ParametersAreSane DEF FilesInv, OutIsStored, TypeOK, Levels
<1>3. CASE UNCHANGED files
  BY <1>1, <1>2, <1>3, NothingListedKeeps
<1>4. CASE lvl + 1 < MaxLevel /\ TableNotWritten(lvl + 1)
  <2>1. lvl + 1 \in Levels
    BY <1>4, ParametersAreSane DEF FilesInv, TypeOK, Levels
  <2>2. files' \in {files, WriteFile(lvl + 1, next_id, Partial)}
    BY <1>4 DEF TableNotWritten
  <2> QED
    BY <1>1, <1>2, <2>1, <2>2, NothingListedKeeps
<1> QED
  BY <1>3, <1>4 DEF CompactFails

\* The file of the table that replaces the merged ones stays.
LEMMA UnlinkFiles == ASSUME FilesInv, TypeOK', Unlink PROVE FilesInv'
<1> USE DEF FilesInv
<1>1. /\ UNCHANGED <<levels, next_id, out, pc, lvl>> /\ pc = "unlink"
      /\ RemoveNext({lvl})
  BY DEF Unlink, memory
<1>2. lvl \in Levels /\ lvl \in Nat
  BY <1>1, ParametersAreSane DEF TypeOK, Levels
<1>3. /\ files' \subseteq files
      /\ \A f \in files : f \notin files' => f.level = lvl
  BY <1>1, <1>2, RemoveNextKeeps
<1>4. ASSUME NEW l \in Levels, l # lvl, NEW t, IsStored(l, t)
      PROVE  \E f \in files' : f.level = l /\ Loaded(f) = t
  BY <1>3, <1>4 DEF IsStored
<1>5. IdsAreFresh' /\ NamesUnique' /\ StoredIsListed'
  BY <1>1, <1>3 DEF IdsAreFresh, NamesUnique, StoredIsListed, IsListed, OutLevel
<1>6. OutIsStored'
  <2> SUFFICES ASSUME out # None
               PROVE  OutIsStored'
    BY <1>1 DEF OutIsStored
  <2>1. OutLevel # lvl /\ OutLevel' = OutLevel
    BY <1>1, <1>2 DEF OutLevel
  <2>2. \E f \in files' : f.level = OutLevel /\ Loaded(f) = out
    BY <1>4, <2>1 DEF OutIsStored
  <2> QED
    BY <1>1, <2>1, <2>2 DEF OutIsStored, IsStored
<1>7. ListedIsStored'
  BY <1>1, <1>4 DEF ListedIsStored, IsStored
<1> QED
  BY <1>5, <1>6, <1>7

LEMMA ReplaceFiles == ASSUME FilesInv, TypeOK', Replace PROVE FilesInv'
<1> USE DEF FilesInv
<1> DEFINE elv == Emptied(levels, lvl)
<1>1. /\ UNCHANGED <<next_id, files>> /\ out' = None
      /\ pc = "unlink" /\ pc' = "compact" /\ OnDisk({lvl}) = {}
      /\ levels' = IF out = None THEN elv ELSE Listed(elv, lvl + 1, out)
  BY DEF Replace, disk, Emptied
<1>2. lvl \in Levels /\ levels \in [Levels -> Seq(Table)]
  BY <1>1, ParametersAreSane DEF TypeOK, Levels
<1>3. /\ elv \in [Levels -> Seq(Table)]
      /\ \A l \in Levels : l # lvl => elv[l] = levels[l]
      /\ \A l \in Levels : \A i \in DOMAIN elv[l] : l # lvl /\ elv[l] = levels[l]
  BY <1>2, EmptiedType DEF Emptied
<1> HIDE DEF elv
<1>4. \A l \in Levels : \A i \in DOMAIN elv[l] : IsStored(l, elv[l][i])
  BY <1>1, <1>3 DEF ListedIsStored
<1>5. ASSUME NEW f \in files
      PROVE  \/ f.body = Partial
             \/ \E i \in DOMAIN elv[f.level] : elv[f.level][i] = Loaded(f)
             \/ out # None /\ f.level = lvl + 1 /\ Loaded(f) = out
  <2>1. CASE f.level = lvl
    BY <1>1, <1>2, <2>1, NothingOnDiskLeft DEF StoredIsListed, OutLevel
  <2>2. CASE f.level # lvl
    <3>1. f.level \in Levels /\ elv[f.level] = levels[f.level]
      BY <1>3, <2>2, FileType
    <3> QED
      BY <1>1, <3>1 DEF StoredIsListed, IsListed, OutLevel
  <2> QED
    BY <2>1, <2>2
<1>6. CASE out # None
  <2>1. OutLevel = lvl + 1
    BY <1>1 DEF OutLevel
  <2>2. \A l \in Levels : \A i \in DOMAIN elv[l] : elv[l] = levels[l] /\ IsStored(l, elv[l][i])
    BY <1>3, <1>4
  <2> QED
    BY <1>1, <1>3, <1>5, <1>6, <2>1, <2>2, ListingKeeps
<1>7. CASE out = None
  <2>1. levels' = elv
    BY <1>1, <1>7
  <2>2. IdsAreFresh' /\ NamesUnique' /\ OutIsStored'
    BY <1>1, <1>3, <2>1 DEF IdsAreFresh, NamesUnique, OutIsStored
  <2>3. ListedIsStored' /\ StoredIsListed'
    BY <1>1, <1>4, <1>5, <1>7, <2>1 DEF ListedIsStored, StoredIsListed, IsListed, IsStored, Loaded
  <2> QED
    BY <2>2, <2>3
<1> QED
  BY <1>6, <1>7

LEMMA ClearFiles == ASSUME FilesInv, TypeOK', Clear PROVE FilesInv'
<1>1. /\ UNCHANGED <<levels, next_id, files, out>>
      /\ pc = "idle" /\ pc' = "wipe"
  BY DEF Clear
<1>2. out = None /\ next_id \in Nat /\ 0 \in Levels
  BY <1>1, ParametersAreSane DEF FilesInv, OutIsStored, TypeOK, Levels
<1> QED
  BY <1>1, <1>2, NothingListedKeeps

LEMMA WipeFileFiles == ASSUME FilesInv, TypeOK', WipeFile PROVE FilesInv'
<1> USE DEF FilesInv
<1>1. /\ UNCHANGED <<levels, next_id, out, pc, lvl>> /\ pc = "wipe"
      /\ RemoveNext(Levels)
  BY DEF WipeFile, memory
<1>2. files' \subseteq files
  BY <1>1, RemoveNextKeeps
<1> QED
  BY <1>1, <1>2
  DEF IdsAreFresh, NamesUnique, OutIsStored, ListedIsStored, StoredIsListed, IsListed, OutLevel

\* What clear leaves behind is unreadable.
LEMMA WipeDoneFiles == ASSUME FilesInv, TypeOK', WipeDone PROVE FilesInv'
<1> USE DEF FilesInv
<1>1. /\ UNCHANGED <<files, out>> /\ levels' = [l \in Levels |-> <<>>]
      /\ pc = "wipe" /\ OnDisk(Levels) = {} /\ pc' = "idle"
  BY DEF WipeDone, disk
<1>2. out = None
  BY <1>1 DEF OutIsStored
<1>3. \A f \in files : f.body = Partial
  BY <1>1, <1>2, FileType, NothingOnDiskLeft DEF StoredIsListed
<1>4. \A l \in Levels : \A i \in DOMAIN levels'[l] : FALSE
  BY <1>1
<1> QED
  BY <1>1, <1>2, <1>3, <1>4
  DEF IdsAreFresh, NamesUnique, OutIsStored, ListedIsStored, StoredIsListed

LEMMA StopFiles == ASSUME FilesInv, TypeOK', StopOrCrash PROVE FilesInv'
<1> USE DEF FilesInv
<1>1. Down /\ levels' = [l \in Levels |-> <<>>] /\ out' = None /\ pc' = "down"
  BY DEF StopOrCrash, Stop, Crash, CrashInLog, CrashInTable, Down
<1>2. \A l \in Levels : \A i \in DOMAIN levels'[l] : FALSE
  BY <1>1
<1>3. NamesUnique'
  <2>1. CASE UNCHANGED files
    BY <2>1 DEF NamesUnique
  <2>2. CASE CrashInTable
    <3>1. PICK l \in Levels : files' = WriteFile(l, next_id, Partial)
      BY <2>2, ParametersAreSane DEF CrashInTable, MayCompact, TypeOK, Levels
    <3> QED
      BY <3>1, WriteFileKeeps
  <2> QED
    BY <2>1, <2>2 DEF StopOrCrash, Stop, Crash, CrashInLog, disk
<1> QED
  BY <1>1, <1>2, <1>3 DEF IdsAreFresh, OutIsStored, ListedIsStored, StoredIsListed
-----------------------------------------------------------------------------
(***************************************************************************)
(* A recovery.                                                             *)
(***************************************************************************)

\* The names of the files of each level have one length.
NamesOfOneLength ==
  \A f, g \in files : f.level = g.level => Width(f.id) = Width(g.id)

RecoveryMeetsOneLength == pc = "down" => NamesOfOneLength

\* The tables of a level are listed in the order of their ids, each file once.
LEMMA LoadOrder ==
  ASSUME TypeOK, NamesUnique, NamesOfOneLength, NEW l \in Levels, NEW s \in LoadOrders(l)
  PROVE  /\ \A i, j \in DOMAIN s : i < j => s[i].id < s[j].id
         /\ \A i \in DOMAIN s : \E f \in FilesOf(l) : s[i] = Loaded(f)
         /\ \A f \in FilesOf(l) : \E i \in DOMAIN s : s[i] = Loaded(f)
<1> DEFINE F == FilesOf(l)
           n == Cardinality(F)
           T == {Loaded(f) : f \in F}
<1>1. IsFiniteSet(F) /\ n \in Nat
  BY FS_Subset, FS_CardinalityType DEF FilesOf, TypeOK
<1>2. s \in [1 .. n -> T] /\ \A i, j \in 1 .. n : i < j => NameBefore(s[i].id, s[j].id)
  BY DEF LoadOrders
<1>3. \A t \in T : \E f \in F : t = Loaded(f)
  OBVIOUS
<1>4. ASSUME NEW f \in F, NEW g \in F
      PROVE  /\ NameBefore(Loaded(f).id, Loaded(g).id) => Loaded(f).id < Loaded(g).id
             /\ Loaded(f).id \in Nat
             /\ Loaded(f) = Loaded(g) => f = g
  <2>1. f \in files /\ g \in files /\ f.level = l /\ g.level = l
    BY DEF FilesOf
  <2>2. Width(f.id) = Width(g.id) /\ f.id \in Nat
    BY <2>1, FileType DEF NamesOfOneLength
  <2>3. Loaded(f).id = f.id /\ Loaded(g).id = g.id
    BY LoadedId
  <2> QED
    BY <2>1, <2>2, <2>3 DEF NameBefore, NamesUnique
<1> DEFINE h == [f \in F |-> Loaded(f)]
<1>5. h \in Injection(F, T) /\ h \in Surjection(F, T)
  BY <1>4 DEF Injection, Surjection, IsInjective
<1>6. IsFiniteSet(T) /\ Cardinality(T) = n
  <2> HIDE DEF F, T, h
  <2> QED
    BY <1>1, <1>5, FS_Surjection DEF n
<1> HIDE DEF F, T, n, h
<1>7. ASSUME NEW i \in 1 .. n, NEW j \in 1 .. n, i < j
      PROVE  s[i].id < s[j].id /\ s[i] # s[j]
  <2>1. PICK f \in F, g \in F : s[i] = Loaded(f) /\ s[j] = Loaded(g)
    BY <1>2, <1>3
  <2>2. NameBefore(s[i].id, s[j].id)
    BY <1>2, <1>7
  <2>3. s[i].id < s[j].id /\ s[i].id \in Nat
    BY <1>4, <2>1, <2>2
  <2> QED
    BY <2>3
<1>8. s \in Injection(1 .. n, T)
  BY <1>1, <1>2, <1>7 DEF Injection, IsInjective
<1>9. Cardinality(1 .. n) = n
  BY <1>1, FS_Interval
<1>10. s \in Surjection(1 .. n, T)
  BY <1>6, <1>8, <1>9, FS_Injection
<1>11. DOMAIN s = 1 .. n
  BY <1>2
<1>12. \A i \in 1 .. n : \E f \in F : s[i] = Loaded(f)
  BY <1>2, <1>3
<1>13. \A f \in F : \E i \in 1 .. n : s[i] = Loaded(f)
  BY <1>10 DEF Surjection, T
<1> QED
  BY <1>7, <1>11, <1>12, <1>13 DEF F

\* Recovery lists every file of every level, oldest first, and goes on with
\* an id that none of them has.
LEMMA OpenLists ==
  ASSUME FilesInv, NamesOfOneLength, TypeOK', Open
  PROVE  /\ UNCHANGED <<files, out>> /\ pc = "down" /\ pc' = "idle"
         /\ LoadedInIdOrder'
         /\ \A l \in Levels : \A i \in DOMAIN levels'[l] :
              /\ levels'[l][i].id < next_id'
              /\ \E f \in files : f.level = l /\ levels'[l][i] = Loaded(f)
         /\ \A f \in files : \E i \in DOMAIN levels'[f.level] : levels'[f.level][i] = Loaded(f)
<1> USE DEF FilesInv
<1>1. /\ UNCHANGED <<files, out>> /\ pc = "down" /\ pc' = "idle"
      /\ \A l \in Levels : levels'[l] \in LoadOrders(l)
      /\ \A n \in NextIds(levels') : n <= next_id'
  BY DEF Open, disk, IsMaximum
<1>2. ASSUME NEW l \in Levels
      PROVE  /\ \A i, j \in DOMAIN levels'[l] : i < j => levels'[l][i].id < levels'[l][j].id
             /\ \A i \in DOMAIN levels'[l] :
                  \E f \in files : f.level = l /\ levels'[l][i] = Loaded(f)
             /\ \A f \in files : f.level = l =>
                  \E i \in DOMAIN levels'[l] : levels'[l][i] = Loaded(f)
  BY <1>1, LoadOrder DEF FilesOf
<1>3. ASSUME NEW l \in Levels, NEW i \in DOMAIN levels'[l]
      PROVE  levels'[l][i].id < next_id'
  <2> DEFINE s == levels'[l]
             n == Len(s)
  <2>1. s \in Seq(Table) /\ next_id' \in Nat
    BY DEF TypeOK
  <2>2. i \in 1 .. n /\ n \in 1 .. n /\ s # <<>> /\ n \in Nat /\ DOMAIN s = 1 .. n
    BY <2>1, <1>3
  <2>3. s[n].id + 1 \in NextIds(levels')
    BY <2>2 DEF NextIds
  <2>4. s[n].id + 1 <= next_id'
    BY <1>1, <2>3
  <2>5. i < n => s[i].id < s[n].id
    BY <1>2, <2>2
  <2>6. s[i] \in Table /\ s[n] \in Table
    BY <2>1, <2>2
  <2>7. s[i].id \in Nat /\ s[n].id \in Nat
    BY <2>6 DEF Table
  <2> HIDE DEF n, s
  <2>8. s[i].id < next_id'
    <3>1. CASE i = n
      BY <2>1, <2>4, <2>7, <3>1
    <3>2. CASE i # n
      <4>1. i < n
        BY <2>2, <3>2
      <4> QED
        BY <2>1, <2>4, <2>5, <2>7, <4>1
    <3> QED
      BY <3>1, <3>2
  <2> QED
    BY <2>8 DEF s
<1>4. LoadedInIdOrder'
  BY <1>2 DEF LoadedInIdOrder
<1>5. \A f \in files : \E i \in DOMAIN levels'[f.level] : levels'[f.level][i] = Loaded(f)
  BY <1>2, FileType
<1> QED
  BY <1>1, <1>2, <1>3, <1>4, <1>5

LEMMA OpenFiles ==
  ASSUME FilesInv, NamesOfOneLength, TypeOK', Open PROVE FilesInv'
<1> USE DEF FilesInv
<1>1. /\ UNCHANGED <<files, out>> /\ pc = "down" /\ pc' = "idle"
      /\ \A l \in Levels : \A i, j \in DOMAIN levels'[l] :
           i < j => levels'[l][i].id < levels'[l][j].id
      /\ \A l \in Levels : \A i \in DOMAIN levels'[l] :
           /\ levels'[l][i].id < next_id'
           /\ \E f \in files : f.level = l /\ levels'[l][i] = Loaded(f)
      /\ \A f \in files : \E i \in DOMAIN levels'[f.level] : levels'[f.level][i] = Loaded(f)
  BY OpenLists DEF LoadedInIdOrder
<1>2. ASSUME NEW l \in Levels, NEW i \in DOMAIN levels'[l], NEW j \in DOMAIN levels'[l],
             levels'[l][i].id = levels'[l][j].id
      PROVE  i = j
  <2>1. levels'[l] \in Seq(Table)
    BY DEF TypeOK
  <2>2. i \in Nat /\ j \in Nat /\ levels'[l][i] \in Table /\ levels'[l][j] \in Table
    BY <2>1
  <2>3. levels'[l][i].id \in Nat /\ levels'[l][j].id \in Nat
    BY <2>2 DEF Table
  <2>4. ~(i < j) /\ ~(j < i)
    BY <1>1, <1>2, <2>3
  <2> QED
    BY <2>2, <2>4
<1>3. IdsAreFresh'
  BY <1>1, <1>2 DEF IdsAreFresh
<1>4. out = None
  BY <1>1 DEF OutIsStored
<1> QED
  BY <1>1, <1>3, <1>4
  DEF NamesUnique, OutIsStored, ListedIsStored, StoredIsListed, IsStored, IsListed, Loaded

-----------------------------------------------------------------------------
LEMMA InitFiles == Init => FilesInv
<1> SUFFICES ASSUME Init PROVE FilesInv
  OBVIOUS
<1>1. TypeOK /\ files = {} /\ out = None
  BY InitType DEF Init
<1>2. \A l \in Levels : \A i \in DOMAIN levels[l] : FALSE
  BY DEF Init
<1> QED
  BY <1>1, <1>2 DEF FilesInv, IdsAreFresh, NamesUnique, OutIsStored, ListedIsStored, StoredIsListed

LEMMA UnchangedFiles == ASSUME FilesInv, UNCHANGED vars PROVE FilesInv'
<1>1. TypeOK'
  BY NextType DEF FilesInv
<1>2. UNCHANGED <<levels, next_id, files, pc, lvl, out>>
  BY DEF vars, memory, disk
<1> QED
  BY <1>1, <1>2
  DEF FilesInv, IdsAreFresh, NamesUnique, OutIsStored, ListedIsStored, StoredIsListed,
      IsStored, IsListed, OutLevel

LEMMA NextFiles ==
  ASSUME FilesInv, RecoveryMeetsOneLength, [Next]_vars PROVE FilesInv'
<1>1. TypeOK'
  BY NextType DEF FilesInv
<1>2. CASE UNCHANGED vars
  BY <1>2, UnchangedFiles
<1>3. CASE Call
  <2>1. ASSUME NEW k \in Keys, Put(k) PROVE FilesInv'
    BY <1>1, <2>1, LogFiles DEF Put
  <2>2. ASSUME NEW k \in Keys, Remove(k) PROVE FilesInv'
    BY <1>1, <2>2, LogFiles DEF Remove
  <2>3. CASE Clear
    BY <1>1, <2>3, ClearFiles
  <2>4. CASE Read
    BY <2>4, UnchangedFiles DEF Read
  <2> QED
    BY <1>3, <2>1, <2>2, <2>3, <2>4 DEF Call
<1>4. CASE Step
  BY <1>1, <1>4, ApplyFiles, FlushWriteFiles, FlushFailsFiles, InstallFiles,
     CompactSkipFiles, CompactDoneFiles, CompactToNothingFiles, CompactWriteFiles,
     CompactFailsFiles, UnlinkFiles, ReplaceFiles, WipeFileFiles, WipeDoneFiles
  DEF Step
<1>5. CASE StopOrCrash
  BY <1>1, <1>5, StopFiles
<1>6. CASE Open
  BY <1>1, <1>6, OpenFiles DEF RecoveryMeetsOneLength, Open
<1> QED
  BY <1>2, <1>3, <1>4, <1>5, <1>6 DEF Next

LEMMA FilesInvHolds == Spec /\ []RecoveryMeetsOneLength => []FilesInv
<1>1. FilesInv /\ RecoveryMeetsOneLength /\ [Next]_vars => FilesInv'
  BY NextFiles
<1> QED
  BY InitFiles, <1>1, PTL DEF Spec

\* Whatever writes fail, whenever the process dies and however often it is
\* started again, no flush or compaction opens the file of a listed table.
THEOREM IdsStayFresh == Spec /\ []RecoveryMeetsOneLength => []IdsAreFresh
<1>1. FilesInv => IdsAreFresh
  BY DEF FilesInv
<1> QED
  BY FilesInvHolds, <1>1, PTL

\* And between two calls the lists and the directories agree: no table is
\* listed without its file, no readable file is left over.
THEOREM ListsAgreeWithDisk == Spec /\ []RecoveryMeetsOneLength => []TablesAreOnDisk
<1>1. FilesInv => TablesAreOnDisk
  BY DEF FilesInv, OutIsStored, ListedIsStored, StoredIsListed, IsStored, IsListed,
         TablesAreOnDisk, FilesOf
<1> QED
  BY FilesInvHolds, <1>1, PTL

-----------------------------------------------------------------------------
(***************************************************************************)
(* The tables of a level stay in the order of their ids.                   *)
(***************************************************************************)

\* The table that has been written has a greater id than the tables of the
\* lists lv, which are ordered.
LEMMA ListingInIdOrder ==
  ASSUME FilesInv, out # None, NEW lv \in [Levels -> Seq(Table)], NEW l \in Levels,
         levels' = Listed(lv, l, out),
         \A m \in Levels : \A i \in DOMAIN lv[m] : lv[m] = levels[m],
         LoadedInIdOrder
  PROVE  LoadedInIdOrder'
<1>1. out \in Table /\ \A m \in Levels : \A i \in DOMAIN levels[m] : levels[m][i].id < out.id
  BY DEF FilesInv, OutIsStored, TypeOK
<1>2. ASSUME NEW m \in Levels, NEW i \in DOMAIN levels'[m], NEW j \in DOMAIN levels'[m], i < j
      PROVE  levels'[m][i].id < levels'[m][j].id
  <2>1. lv[m] \in Seq(Table)
    OBVIOUS
  <2>2. \A x \in DOMAIN levels'[m] :
          \/ x \in DOMAIN lv[m] /\ levels'[m][x] = lv[m][x] /\ lv[m] = levels[m]
          \/ m = l /\ x = Len(lv[m]) + 1 /\ levels'[m][x] = out
    BY <1>1, ListedPlaces
  <2>3. \A x \in DOMAIN lv[m] : x \in Nat /\ x <= Len(lv[m])
    BY <2>1
  <2>4. i \in DOMAIN lv[m]
    BY <1>2, <2>1, <2>2, <2>3
  <2>5. CASE j \in DOMAIN lv[m] /\ levels'[m][j] = lv[m][j]
    BY <1>2, <2>2, <2>3, <2>4, <2>5, Len(lv[m]) \in Nat DEF LoadedInIdOrder
  <2>6. CASE levels'[m][j] = out
    BY <1>1, <2>1, <2>2, <2>3, <2>4, <2>6
  <2> QED
    BY <2>2, <2>5, <2>6
<1> QED
  BY <1>2 DEF LoadedInIdOrder

LEMMA NextIdOrder ==
  ASSUME FilesInv, LoadedInIdOrder, RecoveryMeetsOneLength, [Next]_vars
  PROVE  LoadedInIdOrder'
<1>1. TypeOK /\ TypeOK' /\ levels \in [Levels -> Seq(Table)]
  BY NextType DEF FilesInv, TypeOK
<1>2. CASE UNCHANGED levels
  BY <1>2 DEF LoadedInIdOrder
<1>3. CASE \A l \in Levels : \A i \in DOMAIN levels'[l] : FALSE
  BY <1>3 DEF LoadedInIdOrder
<1>4. CASE Install
  <2>1. levels' = Listed(levels, 0, out) /\ out # None
    BY <1>1, <1>4 DEF Install, TypeOK
  <2>2. 0 \in Levels
    BY ParametersAreSane DEF Levels
  <2> QED
    BY <1>1, <2>1, <2>2, ListingInIdOrder
<1>5. CASE Replace
  <2> DEFINE elv == Emptied(levels, lvl)
  <2>1. /\ levels' = IF out = None THEN elv ELSE Listed(elv, lvl + 1, out)
        /\ lvl \in Levels /\ pc = "unlink"
    BY <1>1, <1>5, ParametersAreSane DEF Replace, Emptied, TypeOK, Levels
  <2>2. /\ elv \in [Levels -> Seq(Table)]
        /\ \A l \in Levels : \A i \in DOMAIN elv[l] : elv[l] = levels[l]
    BY <1>1, <2>1, EmptiedType DEF Emptied
  <2> HIDE DEF elv
  <2>3. CASE out = None
    BY <2>1, <2>2, <2>3 DEF LoadedInIdOrder
  <2>4. CASE out # None
    <3>1. lvl + 1 \in Levels
      BY <2>1, <2>4 DEF FilesInv, OutIsStored, OutLevel
    <3> QED
      BY <2>1, <2>2, <2>4, <3>1, ListingInIdOrder
  <2> QED
    BY <2>3, <2>4
<1>6. CASE Open
  BY <1>1, <1>6, OpenLists DEF RecoveryMeetsOneLength, Open
<1>7. CASE StopOrCrash \/ WipeDone
  <2>1. levels' = [l \in Levels |-> <<>>]
    BY <1>7 DEF StopOrCrash, Stop, Crash, CrashInLog, CrashInTable, Down, WipeDone
  <2> QED
    BY <1>3, <2>1
<1>8. CASE UNCHANGED vars
  BY <1>2, <1>8 DEF vars, memory
<1>9. CASE Call
  BY <1>2, <1>8, <1>9 DEF Call, Put, Remove, Log, LogFails, Clear, Read
<1>10. CASE Step /\ ~Install /\ ~Replace /\ ~WipeDone
  BY <1>2, <1>10 DEF Step, Apply, FlushWrite, FlushFails, CompactSkip, CompactDone,
     CompactToNothing, CompactWrite, CompactFails, Unlink, WipeFile, memory, disk
<1> QED
  BY <1>4, <1>5, <1>6, <1>7, <1>8, <1>9, <1>10 DEF Next

\* The lists are in the order of the ids as long as recovery meets file names
\* of one length: no flush, compaction, failure or crash disturbs it.
THEOREM ListsInIdOrder == Spec /\ []RecoveryMeetsOneLength => []LoadedInIdOrder
<1>1. Init => LoadedInIdOrder
  BY DEF Init, LoadedInIdOrder
<1>2. FilesInv /\ LoadedInIdOrder /\ RecoveryMeetsOneLength /\ [Next]_vars => LoadedInIdOrder'
  BY NextIdOrder
<1> QED
  BY FilesInvHolds, <1>1, <1>2, PTL DEF Spec

\* Before the process stops for the first time nothing has to be assumed.
LEMMA NoRecovery == ASSUME MaxStops = 0 PROVE Spec => []RecoveryMeetsOneLength
<1>1. Init => pc # "down" /\ stops = 0
  BY DEF Init
<1>2. pc # "down" /\ stops = 0 /\ [Next]_vars => (pc # "down" /\ stops = 0)'
  BY DEF Next, vars, memory, disk, Call, Put, Remove, Log, LogFails, Clear, Read, Step, Apply,
     FlushWrite, FlushFails, FlushReturns, Install, CompactSkip, CompactDone,
     CompactToNothing, CompactWrite, CompactFails, Unlink, Replace, WipeFile, WipeDone,
     StopOrCrash, Stop, Crash, CrashInLog, CrashInTable, Down, Open
<1>3. pc # "down" /\ stops = 0 => RecoveryMeetsOneLength
  BY DEF RecoveryMeetsOneLength
<1> QED
  BY <1>1, <1>2, <1>3, PTL DEF Spec

THEOREM OneLifetime ==
  ASSUME MaxStops = 0
  PROVE  Spec => []IdsAreFresh /\ []TablesAreOnDisk /\ []LoadedInIdOrder
BY NoRecovery, IdsStayFresh, ListsAgreeWithDisk, ListsInIdOrder, PTL
===========================================================================
