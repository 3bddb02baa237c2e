------------------------- MODULE KVStoreMapProofs -------------------------
(***************************************************************************)
(* What a recovery would find on the disk: between calls, what get()       *)
(* answers; and at every step of every call, the map of KVMap.             *)
(***************************************************************************)
EXTENDS KVStoreValueProofs, KVStoreImplementsMap, KVStoreBatch

-----------------------------------------------------------------------------
(***************************************************************************)
(* Where a recovery finds a key among the files.                           *)
(***************************************************************************)

\* File f is read before file g.
Ahead(f, g) == f.level < g.level \/ (f.level = g.level /\ g.id < f.id)

\* File f is the first that a recovery finds key k in.
IsFirstFile(fs, k, f) ==
  /\ f \in DurableHolders(fs, k)
  /\ \A g \in DurableHolders(fs, k) : g = f \/ Ahead(f, g)

\* Files of a directory whose names sort as their ids do.
Sorted(fs) == /\ \A f \in fs : f.level \in Nat /\ f.id \in Nat
              /\ \A f, g \in fs : f.level = g.level => Width(f.id) = Width(g.id)
              /\ \A f, g \in fs : f.level = g.level /\ f.id = g.id => f = g

LEMMA FirstFileAnswers ==
  ASSUME NEW fs, Sorted(fs), NEW k, NEW f, IsFirstFile(fs, k, f)
  PROVE  InFiles(fs, k) = f.body[k]
<1> DEFINE D == DurableHolders(fs, k)
           P(g) == \A h \in D \ {g} : ReadBefore(g, h)
<1>1. D \subseteq fs /\ f \in D
  BY DEF DurableHolders, IsFirstFile
<1>2. ASSUME NEW g \in D, NEW h \in D PROVE ReadBefore(g, h) <=> Ahead(g, h)
  BY <1>1 DEF Sorted, ReadBefore, NameBefore, Ahead
<1>3. P(f)
  BY <1>1, <1>2 DEF IsFirstFile
<1>4. ASSUME NEW g \in D, P(g) PROVE g = f
  <2> SUFFICES ASSUME g # f PROVE FALSE
    OBVIOUS
  <2>1. Ahead(g, f) /\ Ahead(f, g)
    BY <1>1, <1>2, <1>4 DEF IsFirstFile
  <2>2. f.level \in Nat /\ f.id \in Nat /\ g.level \in Nat /\ g.id \in Nat
    BY <1>1 DEF Sorted
  <2> QED
    BY <2>1, <2>2 DEF Ahead
<1>5. FirstFiles(fs, k) = {f}
  <2>1. FirstFiles(fs, k) = {g \in D : P(g)}
    BY DEF FirstFiles
  <2> HIDE DEF D, P
  <2> QED
    BY <1>1, <1>3, <1>4, <2>1
<1>6. (CHOOSE g \in {f} : TRUE) = f
  OBVIOUS
<1> QED
  BY <1>5, <1>6 DEF InFiles

LEMMA NoFileAnswers ==
  ASSUME NEW fs, NEW k, DurableHolders(fs, k) = {}
  PROVE  InFiles(fs, k) = None
BY DEF InFiles, FirstFiles

\* If some file holds the key, one is first.
LEMMA SomeFirstFile ==
  ASSUME NEW fs, Sorted(fs), NEW k, DurableHolders(fs, k) # {},
         NEW b \in Nat, \A f \in DurableHolders(fs, k) : f.id <= b
  PROVE  \E f : IsFirstFile(fs, k, f)
<1> DEFINE D == DurableHolders(fs, k)
           S == {f.level : f \in D}
<1>1. \A f \in D : f \in fs /\ f.level \in Nat /\ f.id \in Nat
  BY DEF DurableHolders, Sorted
<1>2. PICK l \in S : \A m \in S : l <= m
  <2>1. S \in SUBSET Nat /\ S # {}
    BY <1>1
  <2> HIDE DEF S
  <2> QED
    BY <2>1, LeastNumber
<1> DEFINE R == {f.id : f \in {g \in D : g.level = l}}
<1>3. PICK i \in R : \A j \in R : j <= i
  <2>1. R \in SUBSET Nat /\ R # {} /\ \A j \in R : j <= b
    BY <1>1, <1>2
  <2> HIDE DEF R
  <2> QED
    BY <2>1, GreatestNumber
<1>4. PICK f \in D : f.level = l /\ f.id = i
  BY <1>3
<1>5. ASSUME NEW g \in D PROVE g = f \/ Ahead(f, g)
  <2>1. l <= g.level
    BY <1>2
  <2>2. g.level = l => g.id <= i
    BY <1>3
  <2>3. g.level = l /\ g.id = i => g = f
    BY <1>1, <1>4 DEF Sorted
  <2> QED
    BY <1>1, <1>4, <2>1, <2>2, <2>3 DEF Ahead
<1> QED
  BY <1>4, <1>5 DEF IsFirstFile

\* The first file goes on answering if it stays and no other comes before it.
LEMMA FirstFileStays ==
  ASSUME NEW fs, NEW gs, Sorted(fs), Sorted(gs), NEW k, NEW f, IsFirstFile(fs, k, f),
         f \in gs, \A g \in DurableHolders(gs, k) : g \in fs \/ Ahead(f, g)
  PROVE  InFiles(gs, k) = InFiles(fs, k)
<1>1. IsFirstFile(gs, k, f)
  BY DEF IsFirstFile, DurableHolders
<1>2. InFiles(gs, k) = f.body[k]
  BY <1>1, FirstFileAnswers
<1>3. InFiles(fs, k) = f.body[k]
  BY FirstFileAnswers
<1> QED
  BY <1>2, <1>3

LEMMA SameFileHolders ==
  ASSUME NEW fs, NEW gs, NEW k, DurableHolders(gs, k) = DurableHolders(fs, k)
  PROVE  InFiles(gs, k) = InFiles(fs, k)
<1>1. FirstFiles(gs, k) = FirstFiles(fs, k)
  BY DEF FirstFiles
<1> QED
  BY <1>1 DEF InFiles

LEMMA FilesAreSorted ==
  ASSUME FilesInv, NamesOfOneLength
  PROVE  Sorted(files)
BY FileType, ParametersAreSane DEF FilesInv, NamesUnique, NamesOfOneLength, Sorted, Levels

LEMMA NextAreSorted ==
  ASSUME FilesInv', NamesOfOneLength'
  PROVE  Sorted(files')
<1>1. files' \subseteq File
  BY DEF FilesInv, TypeOK
<1>2. \A f \in files' : f.level \in Nat /\ f.id \in Nat
  BY <1>1, ParametersAreSane DEF File, Levels
<1> QED
  BY <1>2 DEF FilesInv, NamesUnique, NamesOfOneLength, Sorted

\* A readable file is listed or holds the table that is being written.
LEMMA HolderIsListed ==
  ASSUME FilesInv, pc # "down", NEW k, NEW f \in DurableHolders(files, k)
  PROVE  /\ f \in files /\ f.level \in Levels /\ f.level \in Nat /\ f.id \in Nat
         /\ f.body # Partial /\ f.body[k] # None /\ f.id < next_id
         /\ \/ \E i : /\ Holds(levels, k, f.level, i)
                      /\ levels[f.level][i].id = f.id /\ levels[f.level][i].body = f.body
            \/ out # None /\ f.level = OutLevel /\ out.id = f.id /\ out.body = f.body
<1> USE DEF FilesInv
<1>1. f \in files /\ f.body # Partial /\ f.body[k] # None
  BY DEF DurableHolders
<1>2. f.level \in Levels /\ f.level \in Nat /\ f.id \in Nat
  BY <1>1, FileType, ParametersAreSane DEF Levels
<1>3. Loaded(f).id = f.id /\ Loaded(f).body = f.body
  BY <1>1 DEF Loaded
<1>4. CASE IsListed(f)
  <2>1. PICK i \in DOMAIN levels[f.level] : levels[f.level][i] = Loaded(f)
    BY <1>4 DEF IsListed
  <2>2. f.id < next_id
    BY <1>2, <1>3, <2>1 DEF IdsAreFresh
  <2> QED
    BY <1>1, <1>2, <1>3, <2>1, <2>2 DEF Holds
<1>5. CASE out # None /\ f.level = OutLevel /\ Loaded(f) = out
  BY <1>1, <1>2, <1>3, <1>5 DEF OutIsStored
<1> QED
  BY <1>1, <1>4, <1>5 DEF StoredIsListed

LEMMA SomeFileIsFirst ==
  ASSUME FilesInv, NamesOfOneLength, pc # "down", NEW k, NEW f0 \in DurableHolders(files, k)
  PROVE  \E f : IsFirstFile(files, k, f)
<1>1. next_id \in Nat
  BY DEF FilesInv, TypeOK
<1>2. \A f \in DurableHolders(files, k) : f.id <= next_id
  BY <1>1, HolderIsListed
<1> QED
  BY <1>1, <1>2, SomeFirstFile, FilesAreSorted

\* A listed table is the file of its name, if it was not unlinked.
LEMMA ListedIsHolder ==
  ASSUME FilesInv, pc # "wipe", NEW k \in Keys, NEW l, NEW i, Holds(levels, k, l, i),
         IsStored(l, levels[l][i])
  PROVE  \E f \in DurableHolders(files, k) :
           f.level = l /\ f.id = levels[l][i].id /\ f.body = levels[l][i].body
<1>1. PICK f \in files : f.level = l /\ Loaded(f) = levels[l][i]
  BY DEF IsStored
<1>2. levels[l][i].body # Empty
  BY DEF Holds, Empty
<1> QED
  BY <1>1, <1>2 DEF Loaded, DurableHolders, Holds

\* Writing a file under a fresh name adds one holder at most.
LEMMA WrittenHolders ==
  ASSUME FilesInv, pc # "down", NEW l \in Levels, NEW b, files' = WriteFile(l, next_id, b),
         NEW k
  PROVE  /\ b = Partial \/ b[k] = None => DurableHolders(files', k) = DurableHolders(files, k)
         /\ DurableHolders(files', k) \subseteq
              DurableHolders(files, k) \union {[level |-> l, id |-> next_id, body |-> b]}
         /\ DurableHolders(files, k) \subseteq DurableHolders(files', k)
<1> SUFFICES ASSUME NEW new, new = [level |-> l, id |-> next_id, body |-> b]
    PROVE  /\ b = Partial \/ b[k] = None => DurableHolders(files', k) = DurableHolders(files, k)
           /\ DurableHolders(files', k) \subseteq DurableHolders(files, k) \union {new}
           /\ DurableHolders(files, k) \subseteq DurableHolders(files', k)
  OBVIOUS
<1>1. /\ new \in files' /\ new.body = b
      /\ \A f \in files' : f = new \/ (f \in files /\ ~(f.level = l /\ f.id = next_id))
      /\ \A f \in files : ~(f.level = l /\ f.id = next_id) => f \in files'
  BY DEF WriteFile
<1>2. next_id \in Nat
  BY DEF FilesInv, TypeOK
<1>3. \A f \in DurableHolders(files, k) : f.id # next_id
  BY <1>2, HolderIsListed
<1> QED
  BY <1>1, <1>3 DEF DurableHolders

\* Of a key that no unlisted table holds, a recovery finds among the files
\* what get() finds among the tables.
LEMMA TablesAgreeWithFiles ==
  ASSUME FilesInv, LoadedInIdOrder, NamesOfOneLength, pc \notin {"unlink", "wipe", "down"},
         NEW k \in Keys, out = None \/ out.body[k] = None
  PROVE  InTables(levels, k) = InFiles(files, k)
<1> USE DEF FilesInv
<1>1. levels \in [Levels -> Seq(Table)]
  BY DEF TypeOK
<1>2. ASSUME NEW f \in DurableHolders(files, k)
      PROVE  \E i : Holds(levels, k, f.level, i) /\ levels[f.level][i].id = f.id
  BY HolderIsListed
<1>3. CASE \A l, i : ~Holds(levels, k, l, i)
  <2>1. DurableHolders(files, k) = {}
    BY <1>2, <1>3
  <2> QED
    BY <1>3, <2>1, NowhereAnswers, NoFileAnswers
<1>4. CASE \E l, i : Holds(levels, k, l, i)
  <2>1. PICK l, i : IsFirst(levels, k, l, i)
    BY <1>1, <1>4, SomeFirst
  <2>2. Holds(levels, k, l, i) /\ InTables(levels, k) = levels[l][i].body[k]
    BY <1>1, <2>1, FirstAnswers DEF IsFirst
  <2>3. IsStored(l, levels[l][i])
    BY <2>2 DEF ListedIsStored, Holds
  <2>4. PICK f \in DurableHolders(files, k) :
          f.level = l /\ f.id = levels[l][i].id /\ f.body = levels[l][i].body
    BY <2>2, <2>3, ListedIsHolder
  <2>5. ASSUME NEW g \in DurableHolders(files, k), g # f PROVE Ahead(f, g)
    <3>1. PICK j : Holds(levels, k, g.level, j) /\ levels[g.level][j].id = g.id
      BY <1>2
    <3>2. ~(g.level = f.level /\ g.id = f.id)
      BY <2>5 DEF NamesUnique, DurableHolders
    <3>3. ~(g.level = l /\ j = i)
      BY <2>4, <3>1, <3>2
    <3>4. SearchedBefore(<<l, i>>, <<g.level, j>>)
      BY <2>1, <3>1, <3>3 DEF IsFirst
    <3>5. l < g.level \/ (l = g.level /\ j < i)
      BY <1>1, <2>2, <3>1, <3>4, PlaceType DEF SearchedBefore
    <3> QED
      BY <2>2, <2>4, <3>1, <3>5 DEF LoadedInIdOrder, Holds, Ahead
  <2>6. IsFirstFile(files, k, f)
    BY <2>4, <2>5 DEF IsFirstFile
  <2>7. InFiles(files, k) = f.body[k]
    BY <2>6, FirstFileAnswers, FilesAreSorted
  <2> QED
    BY <2>2, <2>4, <2>7
<1> QED
  BY <1>3, <1>4

-----------------------------------------------------------------------------
(***************************************************************************)
(* What a log holds.                                                       *)
(***************************************************************************)

IsLog(w) == w \in Seq(Record \union {Torn})

LEMMA LastAnswers ==
  ASSUME NEW w, IsLog(w), NEW k \in Keys, NEW i, IsLastOf(w, i, k)
  PROVE  Replayed(w)[k] = VersionOf(w[i])
<1> DEFINE c == CHOOSE j \in Readable(w) : IsLastOf(w, j, k)
<1>1. \A j \in Readable(w) : j \in Nat
  BY DEF Readable, IsLog
<1>2. ASSUME NEW j \in Readable(w), IsLastOf(w, j, k) PROVE j = i
  BY <1>1, <1>2 DEF IsLastOf
<1>3. i \in Readable(w)
  BY DEF IsLastOf
<1>4. c = i
  BY <1>2, <1>3
<1>5. Replayed(w)[k] = VersionOf(w[c])
  BY <1>3, Zenon DEF Replayed
<1> QED
  BY <1>4, <1>5

LEMMA NoLastAnswers ==
  ASSUME NEW w, NEW k \in Keys, \A i : ~IsLastOf(w, i, k)
  PROVE  Replayed(w)[k] = None
BY DEF Replayed

LEMMA EmptyLogReplayed == Replayed(<<>>) = Empty
<1>1. \A i, k : ~IsLastOf(<<>>, i, k)
  BY DEF IsLastOf, Readable
<1>2. \A k \in Keys : Replayed(<<>>)[k] = None
  BY <1>1, NoLastAnswers
<1> QED
  BY <1>2 DEF Replayed, Empty

\* A record at the end of the log replaces the version of its key, and no
\* other, if nothing before it is cut short.
LEMMA AppendReplayed ==
  ASSUME NEW w, IsLog(w), \A i \in DOMAIN w : w[i] # Torn, NEW r \in Record
  PROVE  Replayed(Append(w, r)) = [Replayed(w) EXCEPT ![r.key] = VersionOf(r)]
<1> DEFINE u == Append(w, r)
           n == Len(w)
<1>1. /\ n \in Nat /\ DOMAIN w = 1 .. n /\ DOMAIN u = 1 .. n + 1
      /\ u[n + 1] = r /\ \A i \in 1 .. n : u[i] = w[i]
      /\ IsLog(u)
  BY DEF IsLog
<1>2. r # Torn
  BY MarkersAreNotData
<1> HIDE DEF u, n
<1>3. Readable(w) = 1 .. n
  BY <1>1 DEF Readable
<1>4. Readable(u) = 1 .. n + 1
  <2>1. \A i \in 1 .. n + 1 : u[i] # Torn
    BY <1>1, <1>2
  <2>2. ASSUME NEW i \in 1 .. n + 1, NEW j \in 1 .. i
        PROVE  j \in 1 .. n + 1
    BY <1>1
  <2> QED
    BY <1>1, <2>1, <2>2 DEF Readable
<1>5. Replayed(u)[r.key] = VersionOf(r)
  <2>1. r.key \in Keys
    BY DEF Record
  <2>2. IsLastOf(u, n + 1, r.key)
    BY <1>1, <1>4 DEF IsLastOf
  <2> QED
    BY <1>1, <2>1, <2>2, LastAnswers
<1>6. ASSUME NEW k \in Keys, k # r.key PROVE Replayed(u)[k] = Replayed(w)[k]
  <2>1. ASSUME NEW i PROVE IsLastOf(u, i, k) <=> IsLastOf(w, i, k)
    <3>1. i \in 1 .. n + 1 <=> i \in 1 .. n \/ i = n + 1
      BY <1>1
    <3>2. i = n + 1 => u[i].key # k /\ i \notin 1 .. n
      BY <1>1, <1>6
    <3>3. \A j \in 1 .. n : j \in 1 .. n + 1 /\ u[j] = w[j]
      BY <1>1
    <3>4. ASSUME IsLastOf(u, i, k) PROVE IsLastOf(w, i, k)
      BY <1>3, <1>4, <3>1, <3>2, <3>3, <3>4 DEF IsLastOf
    <3>5. ASSUME IsLastOf(w, i, k) PROVE IsLastOf(u, i, k)
      <4>1. i \in 1 .. n /\ w[i].key = k /\ \A j \in 1 .. n : j > i => w[j].key # k
        BY <1>3, <3>5 DEF IsLastOf
      <4>2. ASSUME NEW j \in 1 .. n + 1, j > i PROVE u[j].key # k
        BY <1>1, <1>6, <3>3, <4>1, <4>2
      <4> QED
        BY <1>4, <3>3, <4>1, <4>2 DEF IsLastOf
    <3> QED
      BY <3>4, <3>5
  <2>2. CASE \E i : IsLastOf(w, i, k)
    <3>1. PICK i : IsLastOf(w, i, k)
      BY <2>2
    <3>2. u[i] = w[i]
      BY <1>1, <1>3, <3>1 DEF IsLastOf
    <3> QED
      BY <1>1, <2>1, <3>1, <3>2, LastAnswers
  <2>3. CASE \A i : ~IsLastOf(w, i, k)
    BY <2>1, <2>3, NoLastAnswers
  <2> QED
    BY <2>2, <2>3
<1>7. \A x : Replayed(x) = [k \in Keys |-> Replayed(x)[k]]
  BY DEF Replayed
<1>8. Replayed(u) = [Replayed(w) EXCEPT ![r.key] = VersionOf(r)]
  <2> DEFINE a == Replayed(u)
             b == Replayed(w)
  <2>1. a = [k \in Keys |-> a[k]] /\ b = [k \in Keys |-> b[k]]
    BY <1>7
  <2>2. a[r.key] = VersionOf(r) /\ \A k \in Keys : k # r.key => a[k] = b[k]
    BY <1>5, <1>6
  <2> HIDE DEF a, b
  <2>3. a = [b EXCEPT ![r.key] = VersionOf(r)]
    BY <2>1, <2>2
  <2> QED
    BY <2>3 DEF a, b
<1> QED
  BY <1>8 DEF u

\* A record that was cut short is not there, nor is one behind it.
LEMMA AppendUnread ==
  ASSUME NEW w, IsLog(w), NEW x \in Record \union {Torn},
         x = Torn \/ \E i \in DOMAIN w : w[i] = Torn
  PROVE  Replayed(Append(w, x)) = Replayed(w)
<1> DEFINE u == Append(w, x)
           n == Len(w)
<1>1. /\ n \in Nat /\ DOMAIN w = 1 .. n /\ DOMAIN u = 1 .. n + 1
      /\ u[n + 1] = x /\ \A i \in 1 .. n : u[i] = w[i]
  BY DEF IsLog
<1> HIDE DEF u, n
<1>2. Readable(u) = Readable(w)
  <2>1. \A i \in 1 .. n : i \in 1 .. n + 1 /\ \A j \in 1 .. i : j \in 1 .. n
    BY <1>1
  <2>2. \A i \in 1 .. n + 1 : i \in 1 .. n \/ i = n + 1
    BY <1>1
  <2>3. n + 1 \in 1 .. n + 1
    BY <1>1
  <2>4. n + 1 \notin Readable(u)
    BY <1>1, <2>1, <2>3 DEF Readable
  <2> QED
    BY <1>1, <2>1, <2>2, <2>4 DEF Readable
<1>3. \A i \in Readable(w) : u[i] = w[i]
  BY <1>1 DEF Readable
<1>4. \A i, k : IsLastOf(u, i, k) <=> IsLastOf(w, i, k)
  BY <1>2, <1>3 DEF IsLastOf
<1>5. IsLog(u)
  BY DEF IsLog, u
<1>6. ASSUME NEW k \in Keys PROVE Replayed(u)[k] = Replayed(w)[k]
  <2>1. CASE \E i : IsLastOf(w, i, k)
    <3>1. PICK i : IsLastOf(w, i, k)
      BY <2>1
    <3>2. u[i] = w[i]
      BY <1>3, <3>1 DEF IsLastOf
    <3> QED
      BY <1>4, <1>5, <3>1, <3>2, LastAnswers
  <2>2. CASE \A i : ~IsLastOf(w, i, k)
    BY <1>4, <2>2, NoLastAnswers
  <2> QED
    BY <2>1, <2>2
<1>7. Replayed(u) = Replayed(w)
  <2>1. /\ Replayed(u) = [k \in Keys |-> Replayed(u)[k]]
        /\ Replayed(w) = [k \in Keys |-> Replayed(w)[k]]
    BY DEF Replayed
  <2> QED
    BY <1>6, <2>1
<1> QED
  BY <1>7 DEF u

\* Whatever is appended, a key of which a record is read stays one.
LEMMA AppendGrows ==
  ASSUME NEW w, IsLog(w), NEW x \in Record \union {Torn}, NEW k \in Keys, Replayed(w)[k] # None
  PROVE  Replayed(Append(w, x))[k] # None
<1>1. CASE x = Torn \/ \E i \in DOMAIN w : w[i] = Torn
  BY <1>1, AppendUnread
<1>2. CASE x # Torn /\ \A i \in DOMAIN w : w[i] # Torn
  <2>1. Replayed(Append(w, x)) = [Replayed(w) EXCEPT ![x.key] = VersionOf(x)]
    BY <1>2, AppendReplayed
  <2>2. VersionOf(x) # None
    BY <1>2, VersionOfType, MarkersAreNotData
  <2>3. DOMAIN Replayed(w) = Keys
    BY DEF Replayed
  <2> QED
    BY <2>1, <2>2, <2>3
<1> QED
  BY <1>1, <1>2

-----------------------------------------------------------------------------
(***************************************************************************)
(* A restart between two calls changes no answer.                          *)
(***************************************************************************)

\* No record is written behind one that is cut short.
NothingBehindTorn == pc = "apply" => \A i \in DOMAIN wal : wal[i] # Torn

\* Between two calls the memtable is what the log holds.
LogHoldsMemtable ==
  /\ pc = "idle" => mem = Replayed(wal)
  /\ pc = "apply" => Replayed(wal) = [mem EXCEPT ![op.key] = VersionOf(op)]
  /\ pc \notin {"idle", "apply"} => mem = Empty
  /\ pc \in {"compact", "unlink", "wipe"} => wal = <<>>

LEMMA NextLogHolds ==
  ASSUME Faults \cap {"walFails", "sstFails"} = {}, TypeOK, FlushIsDone, LogHoldsMemtable,
         NothingBehindTorn', [Next]_vars
  PROVE  LogHoldsMemtable'
<1>1. "walFails" \notin Faults /\ "sstFails" \notin Faults
  OBVIOUS
<1>2. CASE UNCHANGED vars
  BY <1>2 DEF vars, memory, disk, LogHoldsMemtable
<1>3. ASSUME NEW k \in Keys, NEW v \in Values \union {Tombstone}, Log(k, v)
      PROVE  LogHoldsMemtable'
  <2>1. /\ pc = "idle" /\ pc' = "apply" /\ mem' = mem
        /\ wal' = Append(wal, NewRecord(k, v)) /\ op' = NewRecord(k, v)
    BY <1>3 DEF Log, TakeTimestamp
  <2>2. NewRecord(k, v) \in Record
    BY NewRecordType
  <2>3. IsLog(wal) /\ IsLog(wal') /\ \A i \in DOMAIN wal : i \in DOMAIN wal' /\ wal'[i] = wal[i]
    BY <2>1, <2>2 DEF TypeOK, IsLog
  <2>4. \A i \in DOMAIN wal : wal[i] # Torn
    BY <2>1, <2>3 DEF NothingBehindTorn
  <2> QED
    BY <2>1, <2>2, <2>3, <2>4, AppendReplayed DEF LogHoldsMemtable
<1>4. ASSUME NEW k, NEW v, LogFails(k, v) PROVE LogHoldsMemtable'
  BY <1>1, <1>4 DEF LogFails, TakeTimestamp, LogHoldsMemtable
<1>5. CASE Clear
  BY <1>5 DEF Clear, TruncateLog, LogHoldsMemtable
<1>6. CASE Apply
  BY <1>6 DEF Apply, disk, FlushIsDone, LogHoldsMemtable
<1>7. CASE FlushWrite \/ FlushFails
  BY <1>1, <1>7 DEF FlushWrite, FlushFails, LogHoldsMemtable
<1>8. CASE Install
  BY <1>8 DEF Install, TruncateLog, LogHoldsMemtable
<1>9. CASE CompactSkip \/ CompactToNothing \/ CompactWrite \/ CompactFails \/ Unlink \/ Replace
  BY <1>9 DEF CompactSkip, CompactToNothing, CompactWrite, CompactFails, MayCompact, Unlink,
     Replace, memory, disk, LogHoldsMemtable
<1>10. CASE CompactDone \/ WipeFile \/ WipeDone
  BY <1>10, EmptyLogReplayed DEF CompactDone, FlushReturns, FlushIsDone, WipeFile, WipeDone,
     memory, disk, LogHoldsMemtable
<1>11. CASE StopOrCrash
  BY <1>11 DEF StopOrCrash, Stop, Crash, CrashInLog, CrashInTable, Down, LogHoldsMemtable
<1>12. CASE Open
  BY <1>12 DEF Open, disk, LogHoldsMemtable
<1>13. CASE Call
  BY <1>2, <1>3, <1>4, <1>5, <1>13 DEF Call, Put, Remove, Read
<1> QED
  BY <1>2, <1>6, <1>7, <1>8, <1>9, <1>10, <1>11, <1>12, <1>13 DEF Next, Step

LEMMA LogAlwaysHoldsMemtable ==
  ASSUME Faults \cap {"walFails", "sstFails"} = {}
  PROVE  Spec /\ []NothingBehindTorn => []LogHoldsMemtable
<1>1. Init => LogHoldsMemtable
  BY EmptyLogReplayed DEF Init, LogHoldsMemtable
<1>2. TypeOK /\ FlushIsDone /\ LogHoldsMemtable /\ NothingBehindTorn' /\ [Next]_vars
        => LogHoldsMemtable'
  BY NextLogHolds
<1>3. Spec => []FlushIsDone
  BY FlushIsAlwaysDone
<1> QED
  BY TypeCorrect, <1>1, <1>2, <1>3, PTL DEF Spec

\* Whenever no call is running, every get answers what it would answer after
\* a restart: after any number of crashes, at any step of a put, a flush, a
\* compaction or a clear, in which log records and tables may be cut short.
\* It takes that no write reports a failure, that nothing is logged behind a
\* record that was cut short, and that the file names of a level have one
\* length; the code ensures none of the three.
THEOREM AckedIsAlwaysDurable ==
  ASSUME Faults \cap {"walFails", "sstFails"} = {}
  PROVE  Spec /\ []NamesOfOneLength /\ []NothingBehindTorn => []AckedIsDurable
<1>1. Spec => []FlushIsDone
  BY FlushIsAlwaysDone
<1>2. Spec /\ []NothingBehindTorn => []LogHoldsMemtable
  BY LogAlwaysHoldsMemtable
<1>3. NamesOfOneLength => RecoveryMeetsOneLength
  BY DEF RecoveryMeetsOneLength
<1>4. /\ FilesInv /\ LoadedInIdOrder /\ NamesOfOneLength /\ FlushIsDone /\ LogHoldsMemtable
      => AckedIsDurable
  <2> SUFFICES ASSUME FilesInv, LoadedInIdOrder, NamesOfOneLength, FlushIsDone, LogHoldsMemtable,
                      pc = "idle", NEW k \in Keys
               PROVE  Visible(k) = Durable(k)
    BY DEF AckedIsDurable
  <2>1. imm[k] = None /\ mem = Replayed(wal)
    BY DEF FlushIsDone, LogHoldsMemtable, Empty
  <2>2. InTables(levels, k) = InFiles(files, k)
    BY TablesAgreeWithFiles DEF FilesInv, OutIsStored
  <2> QED
    BY <2>1, <2>2 DEF Visible, Found, Durable
<1> QED
  BY FilesInvHolds, ListsInIdOrder, <1>1, <1>2, <1>3, <1>4, PTL

-----------------------------------------------------------------------------
(***************************************************************************)
(* The invariant.                                                          *)
(***************************************************************************)

\* What is flushed is what the log holds.
FlushedIsLogged == pc \in {"flush", "install"} => Replayed(wal) = imm

\* The tables of a merged level are unlinked from the oldest on.
UnlinkedInOrder ==
  pc = "unlink" =>
    \A i, j \in DOMAIN levels[lvl] :
      (i < j /\ <<lvl, i>> \in OnDisk({lvl})) => IsStored(lvl, levels[lvl][j])

LEMMA NextFlushedIsLogged ==
  ASSUME "sstFails" \notin Faults, TypeOK, FlushIsDone, LogHoldsMemtable, FlushedIsLogged,
         [Next]_vars
  PROVE  FlushedIsLogged'
<1>1. CASE UNCHANGED vars
  BY <1>1 DEF vars, memory, disk, FlushedIsLogged
<1>2. CASE Apply
  BY <1>2 DEF Apply, disk, FlushIsDone, LogHoldsMemtable, FlushedIsLogged
<1>3. CASE FlushWrite
  BY <1>3 DEF FlushWrite, FlushedIsLogged
<1>4. CASE pc' \notin {"flush", "install"}
  BY <1>4 DEF FlushedIsLogged
<1>5. CASE Call
  BY <1>1, <1>4, <1>5 DEF Call, Put, Remove, Log, LogFails, TakeTimestamp, Clear, Read
<1>6. CASE Step
  BY <1>2, <1>3, <1>4, <1>6 DEF Step, FlushFails, FlushReturns, FlushIsDone, Install, CompactSkip,
     CompactDone, CompactToNothing, CompactWrite, CompactFails, MayCompact, Unlink, Replace,
     WipeFile, WipeDone
<1>7. CASE StopOrCrash \/ Open
  BY <1>4, <1>7 DEF StopOrCrash, Stop, Crash, CrashInLog, CrashInTable, Down, Open
<1> QED
  BY <1>1, <1>5, <1>6, <1>7 DEF Next

LEMMA NextOutIsWhole ==
  ASSUME "sstShort" \notin Faults, FilesInv, ~OutIsShort, [Next]_vars
  PROVE  ~OutIsShort'
<1> USE DEF FilesInv
<1>1. ASSUME NEW l \in Levels, NEW b \in Content, TableWritten(l, b), OutLevel' = l
      PROVE  ~OutIsShort'
  <2>1. /\ files' = WriteFile(l, next_id, b) /\ b # Partial
        /\ out' = [id |-> next_id, body |-> b]
    BY <1>1, MarkersAreNotData DEF TableWritten
  <2>2. \A f \in files' : (f.level = l /\ f.id = next_id) => f.body = b
    BY <2>1 DEF WriteFile
  <2> QED
    BY <1>1, <2>1, <2>2 DEF OutIsShort
<1>2. CASE FlushWrite
  <2>1. TableWritten(0, imm) /\ imm \in Content /\ pc' = "install"
    BY <1>2 DEF FlushWrite, TypeOK
  <2>2. OutLevel' = 0 /\ 0 \in Levels
    BY <2>1, ParametersAreSane DEF OutLevel, Levels
  <2> QED
    BY <1>1, <2>1, <2>2
<1>3. CASE CompactWrite
  <2>1. PICK r \in Readings(lvl) : \E b \in Merges(lvl, r) : TableWritten(lvl + 1, b)
    BY <1>3 DEF CompactWrite
  <2> PICK b \in Merges(lvl, r) : TableWritten(lvl + 1, b)
    BY <2>1
  <2>2. UNCHANGED lvl /\ pc' = "unlink" /\ pc = "compact" /\ lvl + 1 < MaxLevel
    BY <1>3 DEF CompactWrite, MayCompact
  <2>3. lvl \in Levels /\ lvl + 1 \in Levels
    BY <2>2, ParametersAreSane DEF TypeOK, Levels
  <2>4. b \in Content /\ OutLevel' = lvl + 1
    BY <2>2, <2>3, MergesType DEF OutLevel
  <2> QED
    BY <1>1, <2>3, <2>4
<1>4. CASE out' = None
  BY <1>4 DEF OutIsShort
<1>5. CASE UNCHANGED <<out, pc, lvl>> /\ files' \subseteq files
  BY <1>5 DEF OutIsShort, OutLevel
<1>6. CASE Unlink \/ WipeFile
  <2>1. ASSUME NEW L, RemoveNext(L) PROVE files' \subseteq files
    BY <2>1 DEF RemoveNext
  <2> QED
    BY <1>5, <1>6, <2>1 DEF Unlink, WipeFile, memory
<1>7. pc \notin {"install", "unlink"} => out = None
  BY DEF OutIsStored
<1>8. CASE Call \/ UNCHANGED vars
  BY <1>4, <1>5, <1>7, <1>8 DEF Call, Put, Remove, Log, LogFails, TakeTimestamp, Clear, Read,
     vars, memory, disk
<1>9. CASE Step
  BY <1>2, <1>3, <1>4, <1>5, <1>6, <1>7, <1>9 DEF Step, Apply, FlushFails, Install, CompactSkip,
     CompactDone, CompactToNothing, CompactFails, MayCompact, Replace, WipeDone, memory, disk
<1>10. CASE StopOrCrash \/ Open
  BY <1>4, <1>7, <1>10 DEF StopOrCrash, Stop, Crash, CrashInLog, CrashInTable, Down, Open
<1> QED
  BY <1>8, <1>9, <1>10 DEF Next

LEMMA NextUnlinkedInOrder ==
  ASSUME FilesInv, TypeOK', UnlinkedInOrder, [Next]_vars
  PROVE  UnlinkedInOrder'
<1> USE DEF FilesInv
<1>1. CASE CompactToNothing \/ CompactWrite
  <2>1. /\ pc = "compact" /\ pc' = "unlink" /\ UNCHANGED <<levels, lvl>>
        /\ \/ UNCHANGED files
           \/ \E b : files' = WriteFile(lvl + 1, next_id, b)
    BY <1>1 DEF CompactToNothing, CompactWrite, MayCompact, TableWritten, memory, disk
  <2>2. lvl \in Levels /\ lvl \in Nat
    BY <1>1, ParametersAreSane DEF CompactToNothing, CompactWrite, MayCompact, TypeOK, Levels
  <2>3. \A f \in files : f.level = lvl => f \in files'
    <3>1. lvl # lvl + 1
      BY <2>2
    <3> QED
      BY <2>1, <3>1 DEF WriteFile
  <2>4. ASSUME NEW j \in DOMAIN levels[lvl] PROVE IsStored(lvl, levels[lvl][j])'
    <3>1. PICK f \in files : f.level = lvl /\ Loaded(f) = levels[lvl][j]
      BY <2>1, <2>2 DEF ListedIsStored, IsStored
    <3> QED
      BY <2>1, <2>3, <3>1 DEF IsStored
  <2> QED
    BY <2>1, <2>4 DEF UnlinkedInOrder
<1>2. CASE Unlink
  <2>1. pc = "unlink" /\ UNCHANGED <<levels, lvl>> /\ RemoveNext({lvl})
    BY <1>2 DEF Unlink, memory
  <2>2. lvl \in Levels
    BY <2>1, ParametersAreSane DEF TypeOK, Levels
  <2>3. PICK p \in OnDisk({lvl}) :
          /\ \A q \in OnDisk({lvl}) : p[1] < q[1] \/ (p[1] = q[1] /\ p[2] <= q[2])
          /\ files' = {f \in files : ~(f.level = p[1] /\ f.id = levels[p[1]][p[2]].id)}
    BY <2>1 DEF RemoveNext
  <2>4. PICK n \in DOMAIN levels[lvl] : p = <<lvl, n>>
    BY DEF OnDisk
  <2>5. ASSUME NEW i \in DOMAIN levels[lvl], NEW j \in DOMAIN levels[lvl], i < j,
               <<lvl, i>> \in OnDisk({lvl})'
        PROVE  IsStored(lvl, levels[lvl][j])'
    <3>1. <<lvl, i>> \in OnDisk({lvl})
      BY <2>1, <2>3, <2>5 DEF OnDisk
    <3>2. n <= i /\ n \in Nat /\ i \in Nat /\ j \in Nat
      <4>1. levels[lvl] \in Seq(Table)
        BY <2>2 DEF TypeOK
      <4>2. ~(lvl < lvl) /\ p[1] = lvl /\ p[2] = n
        BY <2>2, <2>4, ParametersAreSane DEF Levels
      <4>3. p[1] < lvl \/ (p[1] = lvl /\ p[2] <= i)
        BY <2>3, <3>1
      <4> QED
        BY <4>1, <4>2, <4>3
    <3>3. PICK f \in files : f.level = lvl /\ Loaded(f) = levels[lvl][j]
      BY <2>1, <2>5, <3>1 DEF UnlinkedInOrder, IsStored
    <3>4. f.id # levels[lvl][n].id
      BY <2>2, <2>5, <3>2, <3>3, LoadedId DEF IdsAreFresh
    <3>5. f \in files'
      BY <2>3, <2>4, <3>4
    <3> QED
      BY <2>1, <3>3, <3>5 DEF IsStored
  <2> QED
    BY <2>1, <2>5 DEF UnlinkedInOrder
<1>3. CASE pc' # "unlink"
  BY <1>3 DEF UnlinkedInOrder
<1>4. CASE UNCHANGED vars
  BY <1>4 DEF vars, memory, disk, UnlinkedInOrder, OnDisk, IsStored
<1>5. CASE Call
  BY <1>3, <1>4, <1>5 DEF Call, Put, Remove, Log, LogFails, TakeTimestamp, Clear, Read
<1>6. CASE Step
  BY <1>1, <1>2, <1>3, <1>6 DEF Step, Apply, FlushWrite, FlushFails, FlushReturns, Install,
     CompactSkip, CompactDone, CompactFails, MayCompact, Replace, WipeFile, WipeDone
<1>7. CASE StopOrCrash \/ Open
  BY <1>3, <1>7 DEF StopOrCrash, Stop, Crash, CrashInLog, CrashInTable, Down, Open
<1> QED
  BY <1>4, <1>5, <1>6, <1>7 DEF Next

-----------------------------------------------------------------------------
(***************************************************************************)
(* What each step changes on the disk.                                     *)
(***************************************************************************)

\* A file that is cut short changes nothing.
LEMMA ShortFileKeeps ==
  ASSUME FilesInv, pc # "down", NEW l \in Levels, files' = WriteFile(l, next_id, Partial), NEW k
  PROVE  InFiles(files', k) = InFiles(files, k)
<1>1. DurableHolders(files', k) = DurableHolders(files, k)
  BY WrittenHolders
<1> QED
  BY <1>1, SameFileHolders

\* Nor does a table for the keys that it does not hold.
LEMMA WrittenWithout ==
  ASSUME FilesInv, pc # "down", NEW l \in Levels, NEW b, files' = WriteFile(l, next_id, b),
         NEW k, b[k] = None
  PROVE  InFiles(files', k) = InFiles(files, k)
<1>1. DurableHolders(files', k) = DurableHolders(files, k)
  BY WrittenHolders
<1> QED
  BY <1>1, SameFileHolders

\* The table of a merge is found behind those it was made of.
LEMMA CompactWriteKeeps ==
  ASSUME FilesInv, FilesInv', NamesOfOneLength, NamesOfOneLength', CompactWrite, NEW k \in Keys
  PROVE  InFiles(files', k) = InFiles(files, k)
<1> USE DEF FilesInv
<1>1. /\ pc = "compact" /\ lvl + 1 < MaxLevel /\ lvl \in Levels /\ lvl + 1 \in Levels
      /\ lvl \in Nat
  BY ParametersAreSane DEF CompactWrite, MayCompact, TypeOK, Levels
<1>2. PICK r \in Readings(lvl) : \E m \in Merges(lvl, r) : TableWritten(lvl + 1, m)
  BY DEF CompactWrite
<1> PICK m \in Merges(lvl, r) : TableWritten(lvl + 1, m)
  BY <1>2
<1>3. PICK b \in {m, Partial} : files' = WriteFile(lvl + 1, next_id, b)
  BY DEF TableWritten
<1>4. PICK new : new = [level |-> lvl + 1, id |-> next_id, body |-> b]
  OBVIOUS
<1>5. /\ b = Partial \/ b[k] = None => DurableHolders(files', k) = DurableHolders(files, k)
      /\ DurableHolders(files', k) \subseteq DurableHolders(files, k) \union {new}
      /\ DurableHolders(files, k) \subseteq DurableHolders(files', k)
  BY <1>1, <1>3, <1>4, WrittenHolders
<1>6. CASE b = Partial \/ b[k] = None
  BY <1>5, <1>6, SameFileHolders
<1>7. CASE b = m /\ b[k] # None
  <2>1. PICK i : Holds(levels, k, lvl, i)
    BY <1>1, <1>7, ReadingsAreListed, MergeOfNothing
  <2>2. IsStored(lvl, levels[lvl][i])
    BY <1>1, <2>1 DEF ListedIsStored, Holds
  <2>3. PICK g \in DurableHolders(files, k) : g.level = lvl
    BY <1>1, <2>1, <2>2, ListedIsHolder
  <2>4. PICK f : IsFirstFile(files, k, f)
    BY <1>1, <2>3, SomeFileIsFirst
  <2>5. f \in DurableHolders(files, k) /\ f.level \in Nat /\ f \in files'
    BY <1>1, <1>5, <2>4, HolderIsListed DEF IsFirstFile, DurableHolders
  <2>6. f.level < lvl + 1
    BY <1>1, <2>3, <2>4, <2>5 DEF IsFirstFile, Ahead
  <2>7. \A h \in DurableHolders(files', k) : h \in files \/ Ahead(f, h)
    BY <1>4, <1>5, <2>6 DEF DurableHolders, Ahead
  <2>8. Sorted(files) /\ Sorted(files')
    BY FilesAreSorted, NextAreSorted
  <2> QED
    BY <2>4, <2>5, <2>7, <2>8, FirstFileStays
<1> QED
  BY <1>3, <1>6, <1>7

\* The table of a flush is found first of all.
LEMMA InstallKeeps ==
  ASSUME FilesInv, NamesOfOneLength, pc = "install", out.body = imm, ~OutIsShort,
         NEW k \in Keys, imm[k] # None
  PROVE  InFiles(files, k) = imm[k]
<1> USE DEF FilesInv
<1>1. out # None /\ OutLevel = 0
  BY DEF TypeOK, OutLevel
<1>2. PICK o \in files : o.level = 0 /\ Loaded(o) = out
  BY <1>1 DEF OutIsStored, IsStored
<1>3. o.id = out.id /\ o.body = imm /\ o \in DurableHolders(files, k)
  <2>1. o.id = out.id
    BY <1>2, LoadedId
  <2>2. o.body # Partial
    BY <1>1, <1>2, <2>1 DEF OutIsShort
  <2> QED
    BY <1>2, <2>1, <2>2 DEF Loaded, DurableHolders
<1>4. ASSUME NEW g \in DurableHolders(files, k), g # o PROVE Ahead(o, g)
  <2>1. g \in files /\ g.level \in Levels /\ g.level \in Nat /\ g.id \in Nat
    BY HolderIsListed
  <2>2. CASE \E i : Holds(levels, k, g.level, i) /\ levels[g.level][i].id = g.id
    <3>1. g.id < o.id
      BY <1>1, <1>3, <2>2 DEF OutIsStored, Holds
    <3> QED
      BY <1>2, <2>1, <3>1 DEF Ahead
  <2>3. CASE g.level = OutLevel /\ out.id = g.id
    BY <1>1, <1>2, <1>3, <1>4, <2>1, <2>3 DEF NamesUnique
  <2> QED
    BY <2>2, <2>3, HolderIsListed
<1>5. IsFirstFile(files, k, o)
  BY <1>3, <1>4 DEF IsFirstFile
<1> QED
  BY <1>3, <1>5, FirstFileAnswers, FilesAreSorted

\* While the tables of a level are unlinked, the oldest first, what a
\* recovery would find goes from the files that are left to their merge, or,
\* where that has dropped a tombstone, from the tombstone to an older version.
\* A table that the merge has left out is gone.
LEMMA UnlinkKeeps ==
  ASSUME FilesInv, FilesInv', LoadedInIdOrder, NamesOfOneLength, NamesOfOneLength', OutIsRight,
         ~OutIsShort, UnlinkedInOrder, MergesInOrder, Unlink, NEW k \in Keys
  PROVE  \/ Answer(InFiles(files', k)) = Answer(InFiles(files, k))
         \/ Answer(InFiles(files, k)) = None /\ ~TombstonesAreKept
         \/ \E i \in unread : levels[lvl][i].body[k] = InFiles(files, k)
<1> USE DEF FilesInv
<1>1. /\ pc = "unlink" /\ lvl \in Levels /\ lvl \in Nat
      /\ levels \in [Levels -> Seq(Table)] /\ levels[lvl] \in Seq(Table)
      /\ OutLevel = lvl + 1 /\ OutBody \in Merges(lvl, ReadPlaces)
  BY ParametersAreSane DEF Unlink, TypeOK, Levels, OutLevel, OutIsRight
<1>2. PICK p \in OnDisk({lvl}) :
        /\ \A q \in OnDisk({lvl}) : p[1] < q[1] \/ (p[1] = q[1] /\ p[2] <= q[2])
        /\ files' = {f \in files : ~(f.level = p[1] /\ f.id = levels[p[1]][p[2]].id)}
  BY DEF Unlink, RemoveNext
<1>3. PICK n \in DOMAIN levels[lvl] : p = <<lvl, n>> /\ p[1] = lvl /\ p[2] = n
  BY DEF OnDisk
<1>4. PICK f0 \in files : f0.level = lvl /\ f0.id = levels[lvl][n].id
  BY <1>2, <1>3 DEF OnDisk
<1>5. files' = files \ {f0}
  BY <1>2, <1>3, <1>4 DEF NamesUnique
<1>6. n \in Nat /\ \A j \in DOMAIN levels[lvl] : j \in Nat
  BY <1>1
<1>7. DurableHolders(files', k) = DurableHolders(files, k) \ {f0}
  BY <1>5 DEF DurableHolders
<1>8. Sorted(files) /\ Sorted(files')
  BY FilesAreSorted, NextAreSorted
\* The file is not the one that answers.
<1>9. CASE f0 \notin DurableHolders(files, k)
  BY <1>7, <1>9, SameFileHolders
<1>10. ASSUME NEW f, IsFirstFile(files, k, f), f # f0
       PROVE  InFiles(files', k) = InFiles(files, k)
  <2>1. f \in files'
    BY <1>5, <1>10 DEF IsFirstFile, DurableHolders
  <2>2. \A g \in DurableHolders(files', k) : g \in files
    BY <1>5 DEF DurableHolders
  <2> QED
    BY <1>8, <1>10, <2>1, <2>2, FirstFileStays
\* It is, as the newest table of its level.
<1>11. ASSUME IsFirstFile(files, k, f0)
       PROVE  \/ Answer(InFiles(files', k)) = Answer(InFiles(files, k))
              \/ Answer(InFiles(files, k)) = None /\ ~TombstonesAreKept
              \/ \E i \in unread : levels[lvl][i].body[k] = InFiles(files, k)
  <2>1. f0 \in DurableHolders(files, k) /\ f0.body[k] # None /\ f0.body # Partial
    BY <1>11 DEF IsFirstFile, DurableHolders
  <2>2. Holds(levels, k, lvl, n) /\ levels[lvl][n].body = f0.body
    <3>1. OutLevel # lvl
      BY <1>1
    <3>2. PICK i : /\ Holds(levels, k, lvl, i)
                    /\ levels[lvl][i].id = f0.id /\ levels[lvl][i].body = f0.body
      BY <1>1, <1>4, <2>1, <3>1, HolderIsListed
    <3>3. i = n
      BY <1>1, <1>4, <3>2 DEF IdsAreFresh, Holds
    <3> QED
      BY <3>2, <3>3
  <2>3. PICK v : v = f0.body[k]
    OBVIOUS
  <2>4. InFiles(files, k) = v /\ v # None /\ levels[lvl][n].body[k] = v
    BY <1>8, <1>11, <2>1, <2>2, <2>3, FirstFileAnswers
  <2> SUFFICES ASSUME n \notin unread
               PROVE  \/ Answer(InFiles(files', k)) = Answer(InFiles(files, k))
                      \/ Answer(InFiles(files, k)) = None /\ ~TombstonesAreKept
    BY <2>4
  \* What else holds the key lies behind it, on other levels.
  <2>5. ASSUME NEW g \in DurableHolders(files', k)
        PROVE  /\ g \in DurableHolders(files, k) /\ g \in files
               /\ g.level \in Levels /\ g.level \in Nat /\ g.level >= lvl + 1 /\ g.id \in Nat
    <3>1. g \in DurableHolders(files, k) /\ g # f0
      BY <1>7
    <3>2. g \in files /\ g.level \in Levels /\ g.level \in Nat /\ g.id \in Nat
      BY <1>1, <3>1, HolderIsListed
    <3>3. Ahead(f0, g)
      BY <1>11, <3>1 DEF IsFirstFile
    <3>4. CASE g.level = lvl
      <4>1. PICK i : Holds(levels, k, lvl, i) /\ levels[lvl][i].id = g.id
        BY <1>1, <3>1, <3>4, HolderIsListed
      <4>2. i \in DOMAIN levels[lvl] /\ i \in Nat
        BY <1>6, <4>1 DEF Holds
      <4>3. <<lvl, i>> \in OnDisk({lvl})
        BY <3>2, <3>4, <4>1, <4>2 DEF OnDisk
      <4>4. n <= i
        <5>1. p[1] < lvl \/ (p[1] = lvl /\ p[2] <= i)
          BY <1>2, <4>3
        <5> QED
          BY <1>1, <1>3, <5>1
      <4>5. g.id < f0.id /\ f0.id \in Nat
        BY <1>1, <1>4, <3>3, <3>4, FileType DEF Ahead
      <4>6. n # i /\ ~(n < i)
        BY <1>1, <1>4, <3>2, <4>1, <4>2, <4>5 DEF LoadedInIdOrder
      <4> QED
        BY <1>6, <4>2, <4>4, <4>6
    <3> QED
      BY <1>1, <1>4, <3>1, <3>2, <3>3, <3>4 DEF Ahead
  <2>6. \A j : Holds(levels, k, lvl, j) =>
          j = n \/ Older(levels[lvl][j].body[k], levels[lvl][n].body[k].ts)
    <3> SUFFICES ASSUME NEW j, Holds(levels, k, lvl, j), j # n
                 PROVE  Older(levels[lvl][j].body[k], levels[lvl][n].body[k].ts)
      OBVIOUS
    <3>1. j \in DOMAIN levels[lvl] /\ j \in Nat
      BY <1>6 DEF Holds
    <3>2. CASE j < n
      BY <1>1, <2>4, <3>1, <3>2 DEF MergesInOrder
    <3>3. CASE n < j
      <4>1. IsStored(lvl, levels[lvl][j])
        BY <1>1, <1>2, <1>3, <3>1, <3>3 DEF UnlinkedInOrder
      <4>2. PICK g \in DurableHolders(files, k) : g.level = lvl /\ g.id = levels[lvl][j].id
        BY <1>1, <4>1, ListedIsHolder
      <4>3. f0.id < g.id /\ f0.id \in Nat /\ g.id \in Nat
        <5>1. g \in files
          BY DEF DurableHolders
        <5> QED
          BY <1>1, <1>4, <3>1, <3>3, <4>2, <5>1, FileType DEF LoadedInIdOrder
      <4>4. g = f0 \/ Ahead(f0, g)
        BY <1>11 DEF IsFirstFile
      <4> QED
        BY <1>1, <1>4, <4>2, <4>3, <4>4 DEF Ahead
    <3> QED
      BY <1>6, <3>1, <3>2, <3>3
  <2>7. OutBody[k] = v \/ (OutBody[k] = None /\ IsBottom(lvl) /\ v.val = Tombstone)
    <3>1. n \in ReadPlaces /\ ReadPlaces \subseteq DOMAIN levels[lvl]
      BY DEF ReadPlaces
    <3> QED
      BY <1>1, <2>2, <2>4, <2>6, <3>1, MergeKeepsNewest
  <2>8. CASE OutBody[k] = v
    <3>1. out # None /\ out.body[k] = v /\ OutLevel \in Levels
      BY <2>4, <2>8 DEF OutBody, Empty, OutIsStored
    <3>2. PICK o \in files : o.level = lvl + 1 /\ Loaded(o) = out
      BY <1>1, <3>1 DEF OutIsStored, IsStored
    <3>3. o.id = out.id /\ o.body = out.body /\ o.body # Partial
      <4>1. o.id = out.id
        BY <3>2, LoadedId
      <4>2. o.body # Partial
        BY <1>1, <3>1, <3>2, <4>1 DEF OutIsShort
      <4> QED
        BY <3>2, <4>1, <4>2 DEF Loaded
    <3>4. o \in DurableHolders(files', k)
      <4>1. o # f0
        BY <1>1, <1>4, <3>2
      <4> QED
        BY <1>5, <2>4, <3>1, <3>2, <3>3, <4>1 DEF DurableHolders
    <3>5. ASSUME NEW g \in DurableHolders(files', k), g # o PROVE Ahead(o, g)
      <4>1. /\ g \in DurableHolders(files, k) /\ g \in files
            /\ g.level \in Nat /\ g.level >= lvl + 1
        BY <2>5
      <4>2. CASE \E i : Holds(levels, k, g.level, i) /\ levels[g.level][i].id = g.id
        <5>1. g.id < o.id
          BY <3>1, <3>3, <4>2 DEF OutIsStored, Holds
        <5> QED
          BY <1>1, <3>2, <4>1, <5>1 DEF Ahead
      <4>3. CASE g.level = OutLevel /\ out.id = g.id
        BY <1>1, <3>2, <3>3, <3>5, <4>1, <4>3 DEF NamesUnique
      <4> QED
        BY <1>1, <4>1, <4>2, <4>3, HolderIsListed
    <3>6. IsFirstFile(files', k, o)
      BY <3>4, <3>5 DEF IsFirstFile
    <3>7. InFiles(files', k) = v
      BY <1>8, <3>1, <3>3, <3>6, FirstFileAnswers
    <3> QED
      BY <2>4, <3>7
  <2>9. CASE OutBody[k] = None /\ IsBottom(lvl) /\ v.val = Tombstone
    <3> SUFFICES ASSUME TombstonesAreKept PROVE InFiles(files', k) = None
      BY <2>4, <2>9 DEF Answer
    <3>1. Entries(lvl, ReadPlaces, k) # {} /\ None \in Kept(lvl, ReadPlaces, k)
      BY <1>1, <2>2, <2>9 DEF Entries, Holds, Merges, ReadPlaces
    <3>2. ASSUME NEW g \in DurableHolders(files', k) PROVE FALSE
      <4>1. /\ g \in DurableHolders(files, k) /\ g.body[k] # None
            /\ g.level \in Levels /\ g.level \in Nat /\ g.level >= lvl + 1
        BY <2>5 DEF DurableHolders
      <4>2. CASE out # None /\ out.body = g.body
        BY <2>9, <4>1, <4>2 DEF OutBody
      <4>3. ASSUME NEW i, Holds(levels, k, g.level, i) PROVE FALSE
        <5>1. g.level # lvl + 1
          BY <1>1, <3>1, <4>1, <4>3 DEF TombstonesAreKept, Entries, Holds
        <5>2. g.level >= lvl + 2
          BY <1>1, <4>1, <5>1
        <5>3. levels[g.level] = <<>>
          BY <2>9, <4>1, <5>2 DEF IsBottom
        <5> QED
          BY <4>3, <5>3 DEF Holds
      <4> QED
        BY <1>1, <4>1, <4>2, <4>3, HolderIsListed
    <3> QED
      BY <3>2, NoFileAnswers
  <2> QED
    BY <2>7, <2>8, <2>9
<1> QED
  BY <1>1, <1>9, <1>10, <1>11, SomeFileIsFirst

-----------------------------------------------------------------------------
(***************************************************************************)
(* Every step is one of the map.                                           *)
(***************************************************************************)

\* The inductive invariant.
MapInv ==
  /\ FilesInv /\ LoadedInIdOrder /\ FlushIsDone /\ LogHoldsMemtable /\ OutIsRight
  /\ ~OutIsShort /\ FlushedIsLogged /\ UnlinkedInOrder

\* What the steps need of the states they lead from and to.
RestartsAreSafe ==
  /\ NamesOfOneLength /\ NothingBehindTorn /\ MergesInOrder /\ TombstonesAreKept
  /\ AllRead

LEMMA SameLogKeeps ==
  ASSUME UNCHANGED wal,
         \A k \in Keys : \/ Answer(InFiles(files', k)) = Answer(InFiles(files, k))
                         \/ Replayed(wal)[k] # None
  PROVE  \A k \in Keys : Durable(k)' = Durable(k)
BY DEF Durable

LEMMA SameMap ==
  ASSUME \A k \in Keys : Durable(k)' = Durable(k), pc # "wipe", pc' # "wipe"
  PROVE  UNCHANGED DurableMap
BY DEF DurableMap

LEMMA RunningSteps ==
  ASSUME UNCHANGED DurableMap, Running' = Running \/ (Running /\ ~Running')
  PROVE  [Map!Next]_(Map!vars)
BY DEF Map!Next, Map!Return, Map!vars

\* A log record is the put or remove.
LEMMA LogIsSet ==
  ASSUME TypeOK, NothingBehindTorn', NEW k \in Keys, NEW v \in Values \union {Tombstone},
         Log(k, v)
  PROVE  \E w \in Values \union {None} : Map!Set(k, w)
<1>1. /\ pc = "idle" /\ pc' = "apply" /\ UNCHANGED files
      /\ wal' = Append(wal, NewRecord(k, v))
  BY DEF Log, TakeTimestamp
<1>2. NewRecord(k, v) \in Record /\ NewRecord(k, v).key = k /\ NewRecord(k, v).val = v
  BY NewRecordType DEF NewRecord
<1>3. PICK r \in Record : r = NewRecord(k, v) /\ r.key = k /\ r.val = v
  BY <1>2
<1>4. IsLog(wal) /\ \A i \in DOMAIN wal : wal[i] # Torn
  <2>1. IsLog(wal) /\ \A i \in DOMAIN wal : i \in DOMAIN wal' /\ wal'[i] = wal[i]
    BY <1>1, <1>2 DEF TypeOK, IsLog
  <2> QED
    BY <1>1, <2>1 DEF NothingBehindTorn
<1>5. Replayed(wal') = [Replayed(wal) EXCEPT ![k] = VersionOf(r)]
  BY <1>1, <1>3, <1>4, AppendReplayed
<1>6. k \in DOMAIN Replayed(wal)
  BY DEF Replayed
<1>7. VersionOf(r) # None /\ Answer(VersionOf(r)) = IF v = Tombstone THEN None ELSE v
  BY <1>3, VersionOfType, MarkersAreNotData DEF VersionOf, Answer
<1>8. PICK w \in Values \union {None} : w = Answer(VersionOf(r))
  BY <1>7
<1>9. Durable(k)' = w /\ \A j \in Keys : j # k => Durable(j)' = Durable(j)
  BY <1>1, <1>5, <1>6, <1>7, <1>8 DEF Durable
<1>10. DurableMap' = [DurableMap EXCEPT ![k] = w]
  <2>1. /\ DurableMap' = [j \in Keys |-> Durable(j)']
        /\ DurableMap = [j \in Keys |-> Durable(j)]
    BY <1>1 DEF DurableMap
  <2> QED
    BY <1>9, <2>1
<1>11. ~Running /\ Running'
  BY <1>1 DEF Running
<1> QED
  BY <1>10, <1>11 DEF Map!Set

LEMMA CallIsStep ==
  ASSUME "walFails" \notin Faults, TypeOK, wal_good, NothingBehindTorn', Call
  PROVE  [Map!Next]_(Map!vars)
<1>1. ASSUME NEW k \in Keys, NEW v \in Values \union {Tombstone}, Log(k, v)
      PROVE  [Map!Next]_(Map!vars)
  BY <1>1, LogIsSet DEF Map!Next
<1>2. ASSUME NEW k, NEW v, LogFails(k, v) PROVE FALSE
  BY <1>2 DEF LogFails
<1>3. CASE Clear
  <2>1. pc = "idle" /\ pc' = "wipe"
    BY <1>3 DEF Clear
  <2>2. DurableMap' = [k \in Keys |-> None] /\ ~Running /\ Running'
    BY <2>1 DEF DurableMap, Running
  <2> QED
    BY <2>2 DEF Map!Clear, Map!Next
<1>4. CASE Read
  BY <1>4 DEF Read, vars, memory, disk, Map!vars, DurableMap, Durable, Running
<1> QED
  BY <1>1, <1>2, <1>3, <1>4 DEF Call, Put, Remove

\* The log covers what a flush is about to write, all of it or more.
FlushedKeysAreLogged ==
  pc \in {"flush", "install"} => \A k \in Keys : imm[k] # None => Replayed(wal)[k] # None

\* No step of a flush or merge changes what a recovery would find, but the one
\* that lists the new table and truncates the log.
LEMMA BackgroundKeepsDisk ==
  ASSUME "sstFails" \notin Faults, "sstShort" \notin Faults,
         FilesInv, FilesInv', LoadedInIdOrder, NamesOfOneLength, NamesOfOneLength', OutIsRight,
         ~OutIsShort, UnlinkedInOrder, MergesInOrder, TombstonesAreKept, AllRead,
         FlushedKeysAreLogged, InBackground, Step, ~Install
  PROVE  \A k \in Keys : Durable(k)' = Durable(k)
<1>1. TypeOK /\ pc # "down" /\ pc # "wipe"
  BY DEF FilesInv, InBackground
<1>2. CASE UNCHANGED disk
  BY <1>2, SameLogKeeps DEF disk
<1>3. CASE FlushWrite
  <2>1. /\ files' = WriteFile(0, next_id, imm) /\ UNCHANGED wal /\ pc = "flush"
        /\ 0 \in Levels
    BY <1>3, ParametersAreSane DEF FlushWrite, TableWritten, Levels
  <2>2. ASSUME NEW k \in Keys, Replayed(wal)[k] = None
        PROVE  InFiles(files', k) = InFiles(files, k)
    <3>1. imm[k] = None
      BY <2>1, <2>2 DEF FlushedKeysAreLogged
    <3> QED
      BY <1>1, <2>1, <3>1, WrittenWithout
  <2> QED
    BY <2>1, <2>2, SameLogKeeps
<1>4. CASE CompactWrite
  <2>1. UNCHANGED wal
    BY <1>4 DEF CompactWrite
  <2>2. \A k \in Keys : InFiles(files', k) = InFiles(files, k)
    BY <1>4, CompactWriteKeeps
  <2> QED
    BY <2>1, <2>2, SameLogKeeps
<1>5. CASE Unlink
  <2>1. UNCHANGED wal
    BY <1>5 DEF Unlink
  <2>2. \A k \in Keys : Answer(InFiles(files', k)) = Answer(InFiles(files, k))
    BY <1>5, UnlinkKeeps DEF AllRead
  <2> QED
    BY <2>1, <2>2, SameLogKeeps
<1> QED
  BY <1>2, <1>3, <1>4, <1>5 DEF InBackground, Step, Apply, FlushFails, CompactSkip,
     CompactDone, CompactToNothing, CompactFails, MayCompact, Replace, WipeFile, WipeDone, disk

\* Flush and compaction change nothing.
LEMMA BackgroundIsStep ==
  ASSUME "sstFails" \notin Faults, "sstShort" \notin Faults,
         MapInv, MapInv', RestartsAreSafe, RestartsAreSafe', InBackground, Step
  PROVE  UNCHANGED DurableMap
<1> USE DEF MapInv, RestartsAreSafe
<1>1. TypeOK /\ pc # "down" /\ pc # "wipe" /\ pc' # "wipe"
  BY DEF FilesInv, InBackground, Step, Apply, FlushWrite, FlushFails, FlushReturns, Install,
     CompactSkip, CompactDone, CompactToNothing, CompactWrite, CompactFails, MayCompact, Unlink,
     Replace, WipeFile, WipeDone
<1>2. FlushedKeysAreLogged
  BY DEF FlushedIsLogged, FlushedKeysAreLogged
<1>3. CASE Install
  <2>1. wal' = <<>> /\ UNCHANGED files /\ pc = "install"
    BY <1>3 DEF Install, TruncateLog
  <2>2. out.body = imm
    BY <1>1, <2>1 DEF OutIsRight, OutBody, TypeOK
  <2>3. ASSUME NEW k \in Keys PROVE Durable(k)' = Durable(k)
    <3>1. Replayed(wal')[k] = None
      BY <2>1, EmptyLogReplayed DEF Empty
    <3>2. Durable(k)' = Answer(InFiles(files, k))
      BY <2>1, <3>1 DEF Durable
    <3>3. CASE imm[k] # None
      BY <2>1, <2>2, <3>2, <3>3, InstallKeeps DEF FlushedIsLogged, Durable
    <3>4. CASE imm[k] = None
      BY <2>1, <3>2, <3>4 DEF FlushedIsLogged, Durable
    <3> QED
      BY <3>3, <3>4
  <2> QED
    BY <1>1, <2>3, SameMap
<1>4. CASE ~Install
  BY <1>1, <1>2, <1>4, BackgroundKeepsDisk, SameMap
<1> QED
  BY <1>3, <1>4

\* When clear has removed the files that were listed, a recovery finds nothing.
LEMMA NothingIsLeft ==
  ASSUME FilesInv, LogHoldsMemtable, WipeDone, NEW k \in Keys
  PROVE  Durable(k)' = None
<1> USE DEF FilesInv
<1>1. /\ pc = "wipe" /\ OnDisk(Levels) = {} /\ UNCHANGED disk
  BY DEF WipeDone
<1>2. wal = <<>> /\ Replayed(wal)[k] = None
  BY <1>1, EmptyLogReplayed DEF LogHoldsMemtable, Empty
<1>3. ASSUME NEW f \in DurableHolders(files, k) PROVE FALSE
  <2>1. f \in files /\ f.level \in Levels /\ f.body # Partial
    BY <1>1, HolderIsListed
  <2>2. ~IsListed(f)
    BY <1>1, <2>1, NothingOnDiskLeft
  <2>3. out = None
    BY <1>1 DEF OutIsStored
  <2> QED
    BY <1>1, <2>1, <2>2, <2>3 DEF StoredIsListed
<1>4. InFiles(files, k) = None
  BY <1>3, NoFileAnswers
<1> QED
  BY <1>1, <1>2, <1>4 DEF Durable, Answer, disk

LEMMA StepIsStep ==
  ASSUME "sstFails" \notin Faults, "sstShort" \notin Faults,
         MapInv, MapInv', RestartsAreSafe, RestartsAreSafe', Step
  PROVE  [Map!Next]_(Map!vars)
<1>1. CASE InBackground
  <2>1. UNCHANGED DurableMap
    BY <1>1, BackgroundIsStep
  <2> QED
    BY <1>1, <2>1, RunningSteps DEF InBackground, Running
<1>2. CASE Apply
  <2>1. pc = "apply" /\ UNCHANGED disk /\ pc' \in {"idle", "flush"}
    BY <1>2 DEF Apply
  <2>2. UNCHANGED DurableMap
    BY <2>1, SameMap, SameLogKeeps DEF disk
  <2> QED
    BY <2>1, <2>2, RunningSteps DEF Running
<1>3. CASE WipeFile
  <2>1. pc = "wipe" /\ pc' = "wipe"
    BY <1>3 DEF WipeFile
  <2>2. UNCHANGED DurableMap
    BY <2>1 DEF DurableMap
  <2> QED
    BY <2>1, <2>2, RunningSteps DEF Running
<1>4. CASE WipeDone
  <2>1. pc = "wipe" /\ pc' = "idle"
    BY <1>4 DEF WipeDone
  <2>2. \A k \in Keys : Durable(k)' = None
    BY <1>4, NothingIsLeft DEF MapInv
  <2>3. UNCHANGED DurableMap
    BY <2>1, <2>2 DEF DurableMap
  <2> QED
    BY <2>1, <2>3, RunningSteps DEF Running
<1> QED
  BY <1>1, <1>2, <1>3, <1>4 DEF InBackground, Step, FlushWrite, FlushFails, Install, CompactSkip,
     CompactDone, CompactToNothing, CompactWrite, CompactFails, MayCompact, Unlink, Replace

\* No stop or crash changes what a recovery will find, wherever it falls.
LEMMA StopKeeps ==
  ASSUME FilesInv, StopOrCrash
  PROVE  \A k \in Keys : Durable(k)' = Durable(k)
<1> USE DEF FilesInv
<1>1. pc # "down"
  BY DEF StopOrCrash, Stop, Crash, CrashInLog, CrashInTable, Down
<1>2. CASE Stop \/ Crash
  BY <1>2, SameLogKeeps DEF Stop, Crash, disk
<1>3. CASE CrashInLog
  <2>1. IsLog(wal) /\ wal' = Append(wal, Torn) /\ UNCHANGED files
    BY <1>3 DEF CrashInLog, TypeOK, IsLog
  <2>2. Replayed(wal') = Replayed(wal)
    BY <2>1, AppendUnread
  <2> QED
    BY <2>1, <2>2 DEF Durable
<1>4. CASE CrashInTable
  <2>1. /\ UNCHANGED wal
        /\ \E l \in Levels : files' = WriteFile(l, next_id, Partial)
    BY <1>4, ParametersAreSane DEF CrashInTable, MayCompact, TypeOK, Levels
  <2>2. \A k \in Keys : InFiles(files', k) = InFiles(files, k)
    BY <1>1, <2>1, ShortFileKeeps
  <2> QED
    BY <2>1, <2>2, SameLogKeeps
<1> QED
  BY <1>2, <1>3, <1>4 DEF StopOrCrash

\* Neither a stop nor a crash, in whatever it was writing, changes the map.
LEMMA StopIsStep ==
  ASSUME "crashInClear" \notin Faults, FilesInv, StopOrCrash
  PROVE  [Map!Next]_(Map!vars)
<1>1. pc # "down" /\ pc' = "down" /\ pc # "wipe"
  BY DEF StopOrCrash, Stop, Crash, CrashInLog, CrashInTable, Down, MayCompact
<1> QED
  BY <1>1, StopKeeps, SameMap, RunningSteps DEF Running

LEMMA OpenIsStep == ASSUME Open PROVE [Map!Next]_(Map!vars)
BY SameMap, SameLogKeeps, RunningSteps DEF Open, disk, Running

LEMMA NextIsStep ==
  ASSUME Faults \cap {"walFails", "sstFails", "sstShort", "crashInClear"} = {},
         MapInv, MapInv', wal_good, RestartsAreSafe, RestartsAreSafe', [Next]_vars
  PROVE  [Map!Next]_(Map!vars)
<1>1. /\ "walFails" \notin Faults /\ "sstFails" \notin Faults
      /\ "sstShort" \notin Faults /\ "crashInClear" \notin Faults
  OBVIOUS
<1>2. CASE UNCHANGED vars
  BY <1>2 DEF vars, memory, disk, Map!vars, DurableMap, Durable, Running
<1> QED
  BY <1>1, <1>2, CallIsStep, StepIsStep, StopIsStep, OpenIsStep
  DEF Next, MapInv, FilesInv, RestartsAreSafe

LEMMA WalIsAlwaysGood ==
  ASSUME "walFails" \notin Faults
  PROVE  Spec => []wal_good
<1>1. Init => wal_good
  BY DEF Init
<1>2. wal_good /\ [Next]_vars => wal_good'
  BY DEF Next, vars, memory, disk, Call, Put, Remove, Log, LogFails, Clear, Read, Step, Apply,
     FlushWrite, FlushFails, FlushReturns, Install, TruncateLog, CompactSkip, CompactDone,
     CompactToNothing, CompactWrite, CompactFails, Unlink, Replace, WipeFile, WipeDone,
     StopOrCrash, Stop, Crash, CrashInLog, CrashInTable, Down, Open
<1> QED
  BY <1>1, <1>2, PTL DEF Spec

LEMMA InitIsInit == Init => Map!Init
<1> SUFFICES ASSUME Init PROVE Map!Init
  OBVIOUS
<1>1. pc = "idle" /\ wal = <<>> /\ files = {}
  BY DEF Init
<1>2. \A k \in Keys : Durable(k) = None
  <2> SUFFICES ASSUME NEW k \in Keys PROVE Durable(k) = None
    OBVIOUS
  <2>1. Replayed(wal)[k] = None
    BY <1>1, EmptyLogReplayed DEF Empty
  <2>2. DurableHolders(files, k) = {}
    BY <1>1 DEF DurableHolders
  <2>3. InFiles(files, k) = None
    BY <2>2, NoFileAnswers
  <2> QED
    BY <2>1, <2>3 DEF Durable, Answer
<1> QED
  BY <1>1, <1>2 DEF Map!Init, DurableMap, Running

\* What the code relies on and does not ensure: that file names sort as ids
\* do, that no record is logged behind one that was cut short, that no
\* tombstone is dropped too early, and that, after a restart, the timestamps
\* of the tables that are merged follow the order in which they were written.
Assumed ==
  /\ NamesOfOneLength /\ NothingBehindTorn /\ TombstonesAreKept
  /\ stops # 0 => MergesInOrder

LEMMA AssumedIsEnough ==
  ASSUME "readFails" \notin Faults
  PROVE  Spec /\ []Assumed => []RestartsAreSafe
<1>1. (stops = 0 => OrderInv) /\ AllRead /\ Assumed => RestartsAreSafe
  BY OrderedMerges DEF Assumed, RestartsAreSafe
<1> QED
  BY OrderInvHolds, AllIsAlwaysRead, <1>1, PTL

LEMMA MapInvHolds ==
  ASSUME Faults \cap {"walFails", "sstFails", "sstShort", "crashInClear"} = {}
  PROVE  Spec /\ []RestartsAreSafe => []MapInv
<1>1. "sstFails" \notin Faults /\ "sstShort" \notin Faults
  OBVIOUS
<1>2. RestartsAreSafe => RecoveryMeetsOneLength /\ NamesOfOneLength /\ NothingBehindTorn
  BY DEF RestartsAreSafe, RecoveryMeetsOneLength
<1>3. Spec => []FlushIsDone
  BY <1>1, FlushIsAlwaysDone
<1>4. Spec /\ []NothingBehindTorn => []LogHoldsMemtable
  BY LogAlwaysHoldsMemtable
<1> DEFINE Rest == OutIsRight /\ ~OutIsShort /\ FlushedIsLogged /\ UnlinkedInOrder
<1>5. Init => Rest
  BY DEF Init, OutIsRight, OutIsShort, FlushedIsLogged, UnlinkedInOrder
<1>6. /\ FilesInv /\ TypeOK' /\ FlushIsDone /\ LogHoldsMemtable /\ Rest /\ [Next]_vars
      => Rest'
  <2>1. FilesInv => TypeOK
    BY DEF FilesInv
  <2> QED
    BY <1>1, <2>1, NextOutIsRight, NextOutIsWhole, NextFlushedIsLogged, NextUnlinkedInOrder
<1>7. FilesInv /\ LoadedInIdOrder /\ FlushIsDone /\ LogHoldsMemtable /\ Rest => MapInv
  BY DEF MapInv
<1> QED
  BY TypeCorrect, FilesInvHolds, ListsInIdOrder, <1>2, <1>3, <1>4, <1>5, <1>6, <1>7, PTL DEF Spec

\* Every step of the store is a step of an atomic, durable map or invisible in
\* it: put, remove and clear take effect at once and exactly once, and no
\* flush, compaction, stop, crash, torn record or restart changes the map, as
\* long as files can be written and read and what Assumed names holds.
THEOREM StepsAreMapSteps ==
  ASSUME Faults \cap {"walFails", "sstFails", "sstShort", "readFails", "crashInClear"} = {}
  PROVE  Spec /\ []Assumed => MapSteps
<1>1. /\ MapInv /\ MapInv' /\ wal_good /\ RestartsAreSafe /\ RestartsAreSafe' /\ [Next]_vars
      => [Map!Next]_(Map!vars)
  BY NextIsStep
<1>2. Spec /\ []RestartsAreSafe => []MapInv
  BY MapInvHolds
<1>3. Spec => []wal_good
  BY WalIsAlwaysGood
<1>4. Spec /\ []Assumed => []RestartsAreSafe
  BY AssumedIsEnough
<1> QED
  BY InitIsInit, <1>4, <1>1, <1>2, <1>3, PTL DEF Spec, MapSteps

-----------------------------------------------------------------------------
(***************************************************************************)
(* What failing writes can take from the disk, in one lifetime.            *)
(***************************************************************************)

\* The log holds a record of every key of the memtable, but after the retry
\* of an older flush has truncated it.
LogHoldsKeys ==
  /\ rotate => InBackground
  /\ InBackground /\ ~rotate => mem = Empty
  /\ pc = "apply" => Replayed(wal)[op.key] # None
  /\ \/ rotate /\ pc \in {"compact", "unlink"}
     \/ \A k \in Keys : mem[k] # None => Replayed(wal)[k] # None

\* What a put or remove logs is what a recovery reads.
LEMMA LogReplayed ==
  ASSUME TypeOK, NothingBehindTorn', NEW k \in Keys, NEW v \in Values \union {Tombstone}, Log(k, v)
  PROVE  /\ NewRecord(k, v).key = k /\ VersionOf(NewRecord(k, v)) # None
         /\ Replayed(wal') = [Replayed(wal) EXCEPT ![k] = VersionOf(NewRecord(k, v))]
         /\ Replayed(wal) \in Content
<1>1. NewRecord(k, v) \in Record /\ NewRecord(k, v).key = k
  BY NewRecordType DEF NewRecord
<1>2. IsLog(wal) /\ wal' = Append(wal, NewRecord(k, v)) /\ pc' = "apply"
  BY DEF Log, IsLog, TypeOK
<1>3. \A i \in DOMAIN wal : i \in DOMAIN wal' /\ wal'[i] = wal[i]
  BY <1>1, <1>2 DEF IsLog
<1>4. \A i \in DOMAIN wal : wal[i] # Torn
  BY <1>2, <1>3 DEF NothingBehindTorn
<1>5. VersionOf(NewRecord(k, v)) # None
  BY <1>1, VersionOfType, MarkersAreNotData
<1> QED
  BY <1>1, <1>2, <1>4, <1>5, AppendReplayed, ReplayedType

\* What a put or remove that fails leaves in the log.
LEMMA LogFailsAppends ==
  ASSUME TypeOK, NEW k \in Keys, NEW v \in Values \union {Tombstone}, LogFails(k, v)
  PROVE  /\ pc = "idle" /\ UNCHANGED <<mem, imm, levels, files, pc, op, rotate, lvl, out, stops>>
         /\ \/ wal' = wal /\ (wal_good' = FALSE \/ UNCHANGED wal_good)
            \/ wal' = Append(wal, Torn) /\ wal_good' = FALSE
            \/ wal_good /\ wal' = Append(wal, NewRecord(k, v))
BY DEF LogFails, TakeTimestamp

LEMMA LogKeepsKeys ==
  ASSUME TypeOK, LogHoldsKeys, NothingBehindTorn',
         NEW k \in Keys, NEW v \in Values \union {Tombstone}, Log(k, v) \/ LogFails(k, v)
  PROVE  LogHoldsKeys'
<1>1. CASE Log(k, v)
  <2>1. /\ pc = "idle" /\ pc' = "apply" /\ op' = NewRecord(k, v) /\ UNCHANGED <<mem, rotate>>
    BY <1>1 DEF Log, TakeTimestamp
  <2>2. \A j \in Keys : j = k \/ Replayed(wal)[j] # None => Replayed(wal')[j] # None
    BY <1>1, LogReplayed DEF Content
  <2> QED
    BY <1>1, <2>1, <2>2, LogReplayed DEF LogHoldsKeys, InBackground
<1>2. CASE LogFails(k, v)
  <2>1. NewRecord(k, v) \in Record /\ IsLog(wal)
    BY NewRecordType DEF TypeOK, IsLog
  <2>2. \A j \in Keys : Replayed(wal)[j] # None => Replayed(wal')[j] # None
    <3> SUFFICES ASSUME NEW j \in Keys, Replayed(wal)[j] # None PROVE Replayed(wal')[j] # None
      OBVIOUS
    <3>1. /\ Replayed(Append(wal, Torn))[j] # None
          /\ Replayed(Append(wal, NewRecord(k, v)))[j] # None
      BY <2>1, AppendGrows
    <3>2. wal' \in {wal, Append(wal, Torn), Append(wal, NewRecord(k, v))}
      BY <1>2, LogFailsAppends
    <3> QED
      BY <3>1, <3>2
  <2> QED
    BY <1>2, <2>2, LogFailsAppends DEF LogHoldsKeys, InBackground
<1> QED
  BY <1>1, <1>2

LEMMA NextLogHoldsKeys ==
  ASSUME TypeOK, LogHoldsKeys, NothingBehindTorn', [Next]_vars
  PROVE  LogHoldsKeys'
<1>1. CASE UNCHANGED vars
  BY <1>1 DEF vars, memory, disk, LogHoldsKeys, InBackground
<1>2. CASE Clear \/ Install
  BY <1>2 DEF Clear, Install, TruncateLog, LogHoldsKeys, InBackground, Empty
<1>3. CASE Apply
  <2>1. /\ pc = "apply" /\ op \in Record /\ mem \in Content /\ ~rotate /\ UNCHANGED wal
    BY <1>3 DEF Apply, TypeOK, LogHoldsKeys, InBackground, disk
  <2>2. \A k \in Keys : [mem EXCEPT ![op.key] = VersionOf(op)][k] # None
                          => Replayed(wal)[k] # None
    BY <2>1 DEF LogHoldsKeys, Content, Record
  <2>3. \/ mem' = Empty /\ ~rotate' /\ pc' = "flush"
        \/ mem' = [mem EXCEPT ![op.key] = VersionOf(op)] /\ rotate' /\ pc' = "flush"
        \/ mem' = [mem EXCEPT ![op.key] = VersionOf(op)] /\ ~rotate' /\ pc' = "idle"
    BY <1>3, <2>1 DEF Apply
  <2> QED
    BY <2>1, <2>2, <2>3 DEF LogHoldsKeys, InBackground, Empty
<1>4. CASE FlushWrite \/ WipeFile \/ WipeDone
  BY <1>4 DEF FlushWrite, WipeFile, WipeDone, memory, disk, LogHoldsKeys, InBackground
<1>5. CASE FlushFails \/ CompactDone
  <2>1. UNCHANGED wal /\ pc \in {"flush", "compact"} /\ FlushReturns
    BY <1>5 DEF FlushFails, CompactDone, disk
  <2> QED
    BY <2>1 DEF FlushReturns, LogHoldsKeys, InBackground, Empty
<1>6. CASE CompactSkip \/ CompactToNothing \/ CompactWrite \/ CompactFails \/ Unlink \/ Replace
  BY <1>6 DEF CompactSkip, CompactToNothing, CompactWrite, CompactFails, MayCompact, Unlink,
     Replace, memory, disk, LogHoldsKeys, InBackground
<1>7. CASE StopOrCrash \/ Open
  BY <1>7 DEF StopOrCrash, Stop, Crash, CrashInLog, CrashInTable, Down, Open, disk,
     LogHoldsKeys, InBackground, Empty
<1>8. CASE Call
  BY <1>1, <1>2, <1>8, LogKeepsKeys DEF Call, Put, Remove, Read
<1> QED
  BY <1>1, <1>2, <1>3, <1>4, <1>5, <1>6, <1>7, <1>8 DEF Next, Step

\* In one lifetime a record is cut short only at the end of the log, and the
\* stream then stays bad until it is opened again.
TornIsLast ==
  /\ pc = "apply" => wal_good
  /\ wal_good => \A i \in DOMAIN wal : wal[i] # Torn

LEMMA NextTornIsLast ==
  ASSUME TypeOK, TornIsLast, ~StopOrCrash, pc # "down", [Next]_vars
  PROVE  TornIsLast'
<1>1. ASSUME wal_good, NEW k \in Keys, NEW v \in Values \union {Tombstone},
             wal' = Append(wal, NewRecord(k, v))
      PROVE  \A i \in DOMAIN wal' : wal'[i] # Torn
  <2>1. NewRecord(k, v) # Torn /\ wal \in Seq(Record \union {Torn})
    BY NewRecordType, MarkersAreNotData DEF TypeOK
  <2> QED
    BY <1>1, <2>1 DEF TornIsLast
<1>2. ASSUME NEW k \in Keys, NEW v \in Values \union {Tombstone}, Log(k, v) \/ LogFails(k, v)
      PROVE  TornIsLast'
  <2>1. CASE Log(k, v)
    BY <1>1, <2>1 DEF Log, TornIsLast
  <2>2. CASE LogFails(k, v)
    BY <1>1, <2>2, LogFailsAppends DEF TornIsLast
  <2> QED
    BY <1>2, <2>1, <2>2
<1>3. CASE UNCHANGED <<wal, wal_good>> /\ (pc' = "apply" => pc = "apply")
  BY <1>3 DEF TornIsLast
<1>4. CASE Clear \/ Install
  BY <1>4 DEF Clear, Install, TruncateLog, TornIsLast
<1>5. CASE Call
  BY <1>2, <1>3, <1>4, <1>5 DEF Call, Put, Remove, Read, vars, memory, disk
<1>6. CASE Step
  BY <1>3, <1>4, <1>6 DEF Step, Apply, FlushWrite, FlushFails, FlushReturns, CompactSkip,
     CompactDone, CompactToNothing, CompactWrite, CompactFails, MayCompact, Unlink, Replace,
     WipeFile, WipeDone, memory, disk
<1> QED
  BY <1>3, <1>5, <1>6 DEF Next, Open, vars, memory, disk

\* The table of a flush is found first of all.
LEMMA FlushWriteFinds ==
  ASSUME FilesInv, FilesInv', NamesOfOneLength', pc # "down", files' = WriteFile(0, next_id, imm),
         NEW k \in Keys, imm[k] # None
  PROVE  InFiles(files', k) = imm[k]
<1> USE DEF FilesInv
<1>1. PICK new : new = [level |-> 0, id |-> next_id, body |-> imm]
  OBVIOUS
<1>2. 0 \in Levels /\ imm # Partial /\ next_id \in Nat
  BY ParametersAreSane, MarkersAreNotData DEF Levels, TypeOK
<1>3. new \in DurableHolders(files', k)
  BY <1>1, <1>2, WriteFileKeeps DEF DurableHolders
<1>4. ASSUME NEW g \in DurableHolders(files', k), g # new PROVE Ahead(new, g)
  <2>1. g \in DurableHolders(files, k)
    BY <1>1, <1>2, <1>4, WrittenHolders
  <2>2. g.level \in Nat /\ g.id < next_id
    BY <2>1, HolderIsListed
  <2> QED
    BY <1>1, <2>2 DEF Ahead
<1>5. IsFirstFile(files', k, new)
  BY <1>3, <1>4 DEF IsFirstFile
<1> QED
  BY <1>1, <1>5, FirstFileAnswers, NextAreSorted

\* No background step takes from the disk what get and a recovery both find,
\* but the truncation after a retry and a table that is cut short.
LEMMA BackgroundKeeps ==
  ASSUME LifetimeInv, FilesInv', LoadedInIdOrder, NamesOfOneLength, NamesOfOneLength',
         UnlinkedInOrder, LogHoldsKeys, InBackground, Step,
         NEW k \in Keys, Visible(k) # None, Durable(k) = Visible(k), ~ShortTable, ~LeavesOut(k),
         ~(pc = "install" /\ rotate /\ mem[k] # None)
  PROVE  Durable(k)' = Durable(k)
<1> USE DEF LifetimeInv, FilesInv
<1>1. pc # "down" /\ pc # "wipe" /\ (pc \in {"install", "unlink"} => ~OutIsShort)
  BY ShortTables DEF InBackground
<1>2. CASE UNCHANGED disk
  BY <1>2 DEF disk, Durable
<1>3. ASSUME UNCHANGED wal, InFiles(files', k) = InFiles(files, k) PROVE Durable(k)' = Durable(k)
  BY <1>3 DEF Durable
<1>4. CASE FlushWrite
  <2>1. UNCHANGED wal /\ pc = "flush" /\ TableWritten(0, imm) /\ 0 \in Levels
    BY <1>4, ParametersAreSane DEF FlushWrite, Levels
  <2>2. CASE files' = WriteFile(0, next_id, Partial)
    BY <1>1, <1>3, <2>1, <2>2, ShortFileKeeps
  <2>3. CASE files' = WriteFile(0, next_id, imm) /\ imm[k] = None
    BY <1>1, <1>3, <2>1, <2>3, WrittenWithout
  <2>4. CASE files' = WriteFile(0, next_id, imm) /\ imm[k] # None
    <3>1. CASE Replayed(wal)[k] # None
      BY <2>1, <3>1 DEF Durable
    <3>2. CASE Replayed(wal)[k] = None
      <4>1. mem[k] = None
        BY <2>1, <3>2 DEF LogHoldsKeys
      <4>2. Visible(k) = Answer(imm[k])
        BY <2>4, <4>1 DEF Visible, Found
      <4>3. InFiles(files', k) = imm[k]
        BY <1>1, <2>4, FlushWriteFinds
      <4> QED
        BY <2>1, <3>2, <4>2, <4>3 DEF Durable
    <3> QED
      BY <3>1, <3>2
  <2> QED
    BY <2>1, <2>2, <2>3, <2>4 DEF TableWritten
<1>5. CASE FlushFails \/ CompactFails
  <2>1. PICK l \in Levels : files' \in {files, WriteFile(l, next_id, Partial)}
    <3>1. 0 \in Levels
      BY ParametersAreSane DEF Levels
    <3>2. CASE FlushFails
      BY <3>1, <3>2 DEF FlushFails, TableNotWritten
    <3>3. CASE CompactFails /\ files' = files
      BY <3>1, <3>3
    <3>4. CASE CompactFails /\ files' # files
      <4>1. lvl + 1 \in Levels
        BY <3>4, ParametersAreSane DEF CompactFails, MayCompact, TypeOK, Levels
      <4> QED
        BY <3>4, <4>1 DEF CompactFails, TableNotWritten
    <3> QED
      BY <1>5, <3>2, <3>3, <3>4
  <2>2. UNCHANGED wal
    BY <1>5 DEF FlushFails, CompactFails
  <2> QED
    BY <1>1, <1>3, <2>1, <2>2, ShortFileKeeps
<1>6. CASE Install
  <2>1. wal' = <<>> /\ UNCHANGED files /\ pc = "install"
    BY <1>6 DEF Install, TruncateLog
  <2>2. out # None /\ out.body = imm /\ ~OutIsShort
    BY <1>1, <2>1 DEF OutIsRight, OutBody, TypeOK
  <2>3. mem[k] = None
    BY <2>1 DEF LogHoldsKeys, InBackground, Empty
  <2>4. Replayed(wal')[k] = None
    BY <2>1, EmptyLogReplayed DEF Empty
  <2>5. Durable(k)' = Answer(InFiles(files, k))
    BY <2>1, <2>4 DEF Durable
  <2>6. CASE imm[k] # None
    BY <2>1, <2>2, <2>3, <2>5, <2>6, InstallKeeps DEF Visible, Found
  <2>7. CASE imm[k] = None
    BY <2>1, <2>2, <2>3, <2>5, <2>7, TablesAgreeWithFiles DEF Visible, Found
  <2> QED
    BY <2>6, <2>7
<1>7. CASE CompactWrite
  BY <1>3, <1>7, CompactWriteKeeps DEF CompactWrite
<1>8. CASE Unlink
  <2>1. UNCHANGED wal /\ pc = "unlink" /\ ~OutIsShort /\ MergesInOrder
    BY <1>1, <1>8, OrderedMerges DEF Unlink
  <2>2. \/ Answer(InFiles(files', k)) = Answer(InFiles(files, k))
        \/ Answer(InFiles(files, k)) = None
        \/ \E i \in unread : levels[lvl][i].body[k] = InFiles(files, k)
    BY <1>8, <2>1, UnlinkKeeps
  <2> QED
    BY <2>1, <2>2 DEF Durable, LeavesOut
<1> QED
  BY <1>2, <1>4, <1>5, <1>6, <1>7, <1>8 DEF InBackground, Step, Apply, CompactSkip,
     CompactDone, CompactToNothing, MayCompact, Replace, WipeFile, WipeDone, disk

\* In one lifetime of the process, whatever writes and reads fail, a value that
\* get and a recovery both find is lost to the recovery in no other way than by
\* the retry of a flush, which truncates the log of the memtable filled since,
\* by a merge that removes a table it could not read, or by a table cut short;
\* as long as the file names of a level have one length.
THEOREM DurableIsLostOnlyByRetry ==
  ASSUME MaxStops = 0
  PROVE  Spec /\ []NamesOfOneLength => DurableLostOnlyByRetry
<1> DEFINE Inv == LifetimeInv /\ LoadedInIdOrder /\ UnlinkedInOrder /\ TornIsLast /\ LogHoldsKeys
<1>1. Init => UnlinkedInOrder /\ TornIsLast /\ LogHoldsKeys
  BY DEF Init, UnlinkedInOrder, TornIsLast, LogHoldsKeys, InBackground, Empty
<1>2. LifetimeInv => ~StopOrCrash /\ pc # "down" /\ TypeOK /\ FilesInv
  BY DEF LifetimeInv, FilesInv, OrderInv, TypeOK, StopOrCrash, Stop, Crash, CrashInLog,
     CrashInTable, Down
<1>3. /\ LifetimeInv /\ LifetimeInv' /\ UnlinkedInOrder /\ TornIsLast /\ LogHoldsKeys /\ [Next]_vars
      => UnlinkedInOrder' /\ TornIsLast' /\ LogHoldsKeys'
  <2>1. LifetimeInv' => TypeOK'
    BY DEF LifetimeInv, OrderInv
  <2>2. TornIsLast' => NothingBehindTorn'
    BY DEF TornIsLast, NothingBehindTorn
  <2> QED
    BY <1>2, <2>1, <2>2, NextUnlinkedInOrder, NextTornIsLast, NextLogHoldsKeys
<1>4. /\ Inv /\ LifetimeInv' /\ NamesOfOneLength /\ NamesOfOneLength' /\ [Next]_vars
      => [ InBackground
             => \A k \in Keys : /\ Visible(k) \in Values /\ Durable(k) = Visible(k)
                                /\ Durable(k)' # Durable(k)
                  => \/ pc = "install" /\ rotate /\ mem[k] # None
                     \/ LeavesOut(k) \/ ShortTable ]_disk
  <2> SUFFICES ASSUME Inv, LifetimeInv', NamesOfOneLength, NamesOfOneLength', [Next]_vars,
                      InBackground, NEW k \in Keys, Visible(k) \in Values,
                      Durable(k) = Visible(k), Durable(k)' # Durable(k)
               PROVE  \/ pc = "install" /\ rotate /\ mem[k] # None
                      \/ LeavesOut(k) \/ ShortTable
    OBVIOUS
  <2>1. Visible(k) # None /\ FilesInv'
    BY MarkersAreNotData DEF LifetimeInv
  <2>2. Step
    <3>1. ~(UNCHANGED vars)
      BY DEF vars, disk, Durable
    <3>2. ~Call /\ ~Open
      BY <1>2 DEF InBackground, Call, Put, Remove, Log, LogFails, TakeTimestamp, Clear, Read, Open
    <3> QED
      BY <1>2, <3>1, <3>2 DEF Next
  <2> QED
    BY <2>1, <2>2, BackgroundKeeps
<1> QED
  BY LifetimeInvHolds, OneLifetime, <1>1, <1>3, <1>4, PTL DEF Spec, DurableLostOnlyByRetry
-----------------------------------------------------------------------------
(***************************************************************************)
(* Batches.                                                                *)
(***************************************************************************)

\* A single put or remove, whether clients make it themselves or a batch does.
LogStep ==
  \E k \in Keys, v \in Values \union {Tombstone} : Log(k, v) \/ LogFails(k, v)

BatchShape ==
  /\ batch \in Seq(Keys \X (Values \union {Tombstone}))
  /\ batch \in Batches \union {<<>>}
  /\ done \in 0 .. Len(batch)
  /\ status \in {"none", "running", "true", "false", "lost"}

LEMMA PairType ==
  ASSUME BatchShape, done < Len(batch)
  PROVE  NextPair[1] \in Keys /\ NextPair[2] \in Values \union {Tombstone}
BY DEF BatchShape, NextPair

\* To the engine every step of a client with batches is one of a client
\* without them, or a single call.
LEMMA BatchStepIsStep ==
  ASSUME BatchShape, [BatchStep]_allVars
  PROVE  [Next]_vars \/ LogStep
<1>1. CASE BatchNext \/ BatchStops
  <2>1. NextPair[1] \in Keys /\ NextPair[2] \in Values \union {Tombstone}
    BY <1>1, PairType DEF BatchNext, BatchStops
  <2> QED
    BY <1>1, <2>1 DEF BatchNext, BatchStops, LogStep
<1> QED
  BY <1>1 DEF BatchStep, allVars, BatchBegin, BatchReturns, SingleCall, StepOfCall, BatchLost,
     Reopen, Next

LEMMA NextShape ==
  ASSUME BatchShape, [BatchStep]_allVars
  PROVE  BatchShape'
<1> USE DEF BatchShape
<1>1. CASE BatchBegin
  <2>1. batch' \in Batches /\ done' = 0 /\ status' = "running"
    BY <1>1 DEF BatchBegin, Rewound
  <2> QED
    BY <2>1, BatchesAreSane
<1>2. CASE BatchNext
  BY <1>2 DEF BatchNext
<1>3. CASE SingleCall
  BY <1>3 DEF SingleCall
<1> QED
  BY <1>1, <1>2, <1>3 DEF BatchStep, allVars, batchVars, BatchStops, BatchReturns, StepOfCall,
     BatchLost, Reopen

LEMMA NextEngineFiles ==
  ASSUME FilesInv, RecoveryMeetsOneLength, [Next]_vars \/ LogStep
  PROVE  FilesInv'
<1>1. CASE LogStep
  <2>1. PICK k \in Keys, v \in Values \union {Tombstone} : Log(k, v) \/ LogFails(k, v)
    BY <1>1 DEF LogStep
  <2>2. TypeOK'
    BY <2>1, LogType, LogFailsType DEF FilesInv
  <2> QED
    BY <2>1, <2>2, LogFiles
<1> QED
  BY <1>1, NextFiles

LEMMA FoundType ==
  ASSUME TypeOK, NEW k \in Keys
  PROVE  Visible(k) \in Values \union {None}
<1>1. InTables(levels, k) \in Version \union {None}
  <2>1. levels \in [Levels -> Seq(Table)]
    BY DEF TypeOK
  <2>2. CASE \A l, i : ~Holds(levels, k, l, i)
    BY <2>2, NowhereAnswers
  <2>3. ASSUME NEW l0, NEW i0, Holds(levels, k, l0, i0)
        PROVE  InTables(levels, k) \in Version \union {None}
    <3>1. PICK l, i : IsFirst(levels, k, l, i)
      BY <2>1, <2>3, SomeFirst
    <3>2. l \in Levels /\ i \in DOMAIN levels[l]
      BY <3>1 DEF IsFirst, Holds
    <3> QED
      BY <2>1, <3>1, <3>2, FirstAnswers, BodyType
  <2> QED
    BY <2>2, <2>3
<1>2. Found(k) \in Version \union {None}
  BY <1>1, StoredTypes DEF Found
<1> QED
  BY <1>2, MarkersAreNotData DEF Visible, Answer, Version

LEMMA DurableType ==
  ASSUME TypeOK, NEW k \in Keys
  PROVE  Durable(k) \in Values \union {None}
<1>1. ASSUME NEW v \in Version \union {None} PROVE Answer(v) \in Values \union {None}
  BY <1>1, MarkersAreNotData DEF Answer, Version
<1>2. Replayed(wal)[k] \in Version \union {None}
  BY ReplayedType DEF Content
<1>3. InFiles(files, k) \in Version \union {None}
  <2>1. ASSUME NEW f \in FirstFiles(files, k) PROVE f.body[k] \in Version \union {None}
    <3>1. f \in File /\ f.body # Partial
      BY DEF FirstFiles, DurableHolders, TypeOK
    <3> QED
      BY <3>1 DEF File, Content
  <2> QED
    BY <2>1 DEF InFiles
<1> QED
  BY <1>1, <1>2, <1>3 DEF Durable

LEMMA BatchTypesHold == BatchSpec => [](TypeOK /\ BatchShape)
<1>1. BatchInit => TypeOK /\ BatchShape
  BY InitType DEF BatchInit, BatchShape
<1>2. TypeOK /\ BatchShape /\ [BatchStep]_allVars => (TypeOK /\ BatchShape)'
  <2> SUFFICES ASSUME TypeOK, BatchShape, [BatchStep]_allVars PROVE TypeOK' /\ BatchShape'
    OBVIOUS
  <2>1. TypeOK'
    BY BatchStepIsStep, NextType, LogType, LogFailsType DEF LogStep
  <2> QED
    BY <2>1, NextShape
<1> QED
  BY <1>1, <1>2, PTL DEF BatchSpec

\* The position in a batch and what was remembered when it began have their
\* types, whatever fails or stops: every put and remove that is part of a batch
\* is in its list, and what get answers and what a restart would answer are
\* values that have been put, or nothing.
THEOREM BatchTypeCorrect == BatchSpec => []BatchTypeOK
<1> DEFINE Answers == [Keys -> Values \union {None}]
<1> DEFINE Remembered == before \in Answers /\ logged \in Answers
<1>1. BatchInit => Remembered
  BY DEF BatchInit
<1>2. TypeOK /\ Remembered /\ [BatchStep]_allVars => Remembered'
  <2> SUFFICES ASSUME TypeOK, Remembered, [BatchStep]_allVars
               PROVE  Remembered'
    OBVIOUS
  <2>1. CASE BatchBegin
    <3>1. before' = [k \in Keys |-> Visible(k)] /\ logged' = [k \in Keys |-> Durable(k)]
      BY <2>1 DEF BatchBegin
    <3>2. \A k \in Keys : Visible(k) \in Values \union {None} /\ Durable(k) \in Values \union {None}
      BY FoundType, DurableType
    <3> QED
      BY <3>1, <3>2
  <2>2. CASE SingleCall
    BY <2>2 DEF SingleCall
  <2> QED
    BY <2>1, <2>2 DEF BatchStep, allVars, batchVars, BatchNext, BatchStops, BatchReturns,
       StepOfCall, BatchLost, Reopen
<1>3. BatchShape /\ Remembered => BatchTypeOK
  BY DEF BatchShape, BatchTypeOK
<1> QED
  BY BatchTypesHold, <1>1, <1>2, <1>3, PTL DEF BatchSpec

\* What key k answers when the first n entries of the list b are applied to base.
AfterOf(b, base, n, k) ==
  LET hits == {i \in 1 .. n : b[i][1] = k}
      v    == b[Max(hits)][2]
  IN  IF hits = {} THEN base[k] ELSE IF v = Tombstone THEN None ELSE v

LEMMA AfterNothing == ASSUME NEW b, NEW base, NEW k PROVE AfterOf(b, base, 0, k) = base[k]
BY DEF AfterOf

\* The last entry of a key decides.
LEMMA AfterNext ==
  ASSUME NEW b, NEW base, NEW n \in Nat, NEW k
  PROVE  AfterOf(b, base, n + 1, k) =
           IF b[n + 1][1] = k
             THEN (IF b[n + 1][2] = Tombstone THEN None ELSE b[n + 1][2])
             ELSE AfterOf(b, base, n, k)
<1> DEFINE hits(m) == {i \in 1 .. m : b[i][1] = k}
<1>1. CASE b[n + 1][1] = k
  <2>1. n + 1 \in hits(n + 1) /\ \A i \in hits(n + 1) : n + 1 >= i /\ i \in Nat
    BY <1>1
  <2>2. \A x \in hits(n + 1) : (\A i \in hits(n + 1) : x >= i) => x = n + 1
    BY <2>1
  <2> HIDE DEF hits
  <2>3. Max(hits(n + 1)) = n + 1 /\ hits(n + 1) # {}
    BY <2>1, <2>2 DEF Max
  <2> USE DEF hits
  <2> QED
    BY <1>1, <2>3 DEF AfterOf
<1>2. CASE b[n + 1][1] # k
  <2>1. hits(n + 1) = hits(n)
    BY <1>2
  <2> QED
    BY <1>2, <2>1 DEF AfterOf
<1> QED
  BY <1>1, <1>2

\* What holds of the engine under batches when tables are written.
EngineInv ==
  /\ FilesInv /\ LoadedInIdOrder /\ FlushIsDone /\ OutIsRight /\ ~OutIsShort
  /\ UnlinkedInOrder /\ LogHoldsKeys /\ FlushedKeysAreLogged /\ AllRead
  /\ stops = 0 => OrderInv

LEMMA NextFlushedKeys ==
  ASSUME "sstFails" \notin Faults, TypeOK, FlushIsDone, LogHoldsKeys, FlushedKeysAreLogged,
         [Next]_vars
  PROVE  FlushedKeysAreLogged'
<1>1. CASE UNCHANGED vars
  BY <1>1 DEF vars, memory, disk, FlushedKeysAreLogged
<1>2. CASE Apply
  <2>1. /\ pc = "apply" /\ op \in Record /\ UNCHANGED wal /\ imm = Empty /\ mem \in Content
        /\ imm' \in {imm, [mem EXCEPT ![op.key] = VersionOf(op)]}
    BY <1>2 DEF Apply, disk, TypeOK, FlushIsDone
  <2>2. \A k \in Keys : imm'[k] # None => mem[k] # None \/ k = op.key
    BY <2>1 DEF Empty, Content
  <2> QED
    BY <2>1, <2>2 DEF LogHoldsKeys, FlushedKeysAreLogged
<1>3. CASE FlushWrite
  BY <1>3 DEF FlushWrite, FlushedKeysAreLogged
<1>4. CASE StopOrCrash
  BY <1>4 DEF StopOrCrash, Stop, Crash, CrashInLog, CrashInTable, Down, FlushedKeysAreLogged
<1>5. CASE Open \/ Call
  BY <1>5 DEF Open, Call, Put, Remove, Log, LogFails, TakeTimestamp, Clear, Read, vars, memory,
     disk, FlushedKeysAreLogged
<1> QED
  BY <1>1, <1>2, <1>3, <1>4, <1>5 DEF Next, Step, FlushFails, FlushReturns, FlushIsDone, Install,
     CompactSkip, CompactDone, CompactToNothing, CompactWrite, CompactFails, MayCompact, Unlink,
     Replace, WipeFile, WipeDone, disk, FlushedKeysAreLogged

LEMMA LogStepKeepsEngine ==
  ASSUME EngineInv, NothingBehindTorn', LogStep
  PROVE  EngineInv'
<1>1. PICK k \in Keys, v \in Values \union {Tombstone} : Log(k, v) \/ LogFails(k, v)
  BY DEF LogStep
<1>2. TypeOK'
  BY <1>1, LogType, LogFailsType DEF EngineInv, FilesInv
<1>3. /\ UNCHANGED <<mem, imm, levels, files, rotate, lvl, out, unread, stops>>
      /\ pc = "idle" /\ pc' \in {"idle", "apply"}
  BY <1>1 DEF Log, LogFails, TakeTimestamp
<1>4. FilesInv' /\ LogHoldsKeys' /\ (stops' = 0 => OrderInv')
  BY <1>1, <1>2, <1>3, LogFiles, LogKeepsKeys, LogOrder, LogFailsOrder DEF EngineInv, FilesInv
<1>5. /\ LoadedInIdOrder' /\ FlushIsDone' /\ OutIsRight' /\ UnlinkedInOrder'
      /\ FlushedKeysAreLogged' /\ AllRead'
  BY <1>3 DEF EngineInv, AllRead, LoadedInIdOrder, FlushIsDone, OutIsRight, UnlinkedInOrder,
     FlushedKeysAreLogged
<1>6. ~OutIsShort'
  <2>1. out = None
    BY <1>3 DEF EngineInv, FilesInv, OutIsStored
  <2> QED
    BY <1>3, <2>1 DEF OutIsShort
<1> QED
  BY <1>4, <1>5, <1>6 DEF EngineInv

LEMMA NextEngine ==
  ASSUME "sstFails" \notin Faults, "sstShort" \notin Faults, "readFails" \notin Faults,
         EngineInv, NamesOfOneLength, NothingBehindTorn', [Next]_vars \/ LogStep
  PROVE  EngineInv'
<1>1. CASE [Next]_vars
  <2>1. RecoveryMeetsOneLength /\ TypeOK /\ FilesInv
    BY DEF RecoveryMeetsOneLength, EngineInv, FilesInv
  <2>2. FilesInv' /\ TypeOK'
    BY <1>1, <2>1, NextFiles DEF FilesInv
  <2>3. LoadedInIdOrder' /\ FlushIsDone' /\ OutIsRight' /\ ~OutIsShort' /\ UnlinkedInOrder'
    BY <1>1, <2>1, <2>2, NextIdOrder, NextFlushIsDone, NextOutIsRight, NextOutIsWhole,
       NextUnlinkedInOrder DEF EngineInv
  <2>4. LogHoldsKeys' /\ FlushedKeysAreLogged' /\ AllRead'
    BY <1>1, <2>1, NextLogHoldsKeys, NextFlushedKeys, NextAllRead DEF EngineInv
  <2>5. stops' = 0 => OrderInv'
    BY <1>1, <2>1, StopsGrow, NextOrder DEF EngineInv
  <2> QED
    BY <2>2, <2>3, <2>4, <2>5 DEF EngineInv
<1> QED
  BY <1>1, LogStepKeepsEngine

\* What key k answers once the running put or remove has reached the memtable.
Answering(k) == IF pc = "apply" /\ op.key = k THEN Answer(VersionOf(op)) ELSE Visible(k)

\* What a restart would find is a prefix of the batch: as long as the entry it
\* has reached, or one entry longer when that one failed or the process stopped.
PrefixIsDurable ==
  \E base \in {before, logged}, n \in {done, done + 1} :
    /\ n = done \/ (status \in {"false", "lost"} /\ done < Len(batch))
    /\ \A k \in Keys : Durable(k) = AfterOf(batch, base, n, k)

BatchInv ==
  /\ status # "none" => pc # "wipe" /\ PrefixIsDurable
  /\ status \in {"true", "false"} => pc = "idle"
  /\ status = "running" => pc # "down"
  /\ status = "lost" => pc \in {"idle", "down"} /\ (pc = "idle" => mem = Replayed(wal))
  /\ status \in {"running", "true", "false"}
       => \A k \in Keys : Answering(k) = AfterOf(batch, before, done, k)

\* The answers of a record are those of its value.
LEMMA NewAnswer ==
  ASSUME TypeOK, NEW k \in Keys, NEW v \in Values \union {Tombstone}
  PROVE  /\ Answer(VersionOf(NewRecord(k, v))) = IF v = Tombstone THEN None ELSE v
         /\ NewRecord(k, v).key = k
         /\ VersionOf(NewRecord(k, v)) # None
<1>1. VersionOf(NewRecord(k, v)) # None
  BY NewRecordType, VersionOfType, MarkersAreNotData
<1> QED
  BY <1>1 DEF Answer, VersionOf, NewRecord

LEMMA BatchBeginKeeps ==
  ASSUME FilesInv, BatchBegin
  PROVE  BatchInv'
<1>1. /\ pc = "idle" /\ UNCHANGED vars /\ done' = 0 /\ status' = "running"
      /\ before' = [k \in Keys |-> Visible(k)] /\ logged' = [k \in Keys |-> Durable(k)]
  BY DEF BatchBegin, Rewound
<1>2. \A k \in Keys : Visible(k)' = Visible(k) /\ Durable(k)' = Durable(k) /\ Answering(k)' = Visible(k)
  BY <1>1 DEF vars, memory, disk, Visible, Found, Durable, Answering
<1>3. \A k \in Keys : /\ AfterOf(batch', logged', done', k) = Durable(k)
                      /\ AfterOf(batch', before', done', k) = Visible(k)
  BY <1>1, AfterNothing
<1>4. PrefixIsDurable'
  BY <1>2, <1>3 DEF PrefixIsDurable
<1> QED
  BY <1>1, <1>2, <1>3, <1>4 DEF vars, BatchInv

LEMMA BatchNextKeeps ==
  ASSUME FilesInv, BatchShape, BatchInv, NothingBehindTorn', BatchNext
  PROVE  BatchInv'
<1> DEFINE key == NextPair[1]
<1> DEFINE val == NextPair[2]
<1> DEFINE ans == IF val = Tombstone THEN None ELSE val
<1>1. /\ status = "running" /\ done < Len(batch) /\ Log(key, val) /\ done' = done + 1
      /\ UNCHANGED <<batch, before, logged, status>>
  BY DEF BatchNext
<1>2. key \in Keys /\ val \in Values \union {Tombstone}
  BY <1>1, PairType
<1>3. /\ pc = "idle" /\ pc' = "apply" /\ op' = NewRecord(key, val)
      /\ UNCHANGED <<mem, imm, levels, files>>
  BY <1>1 DEF Log, TakeTimestamp
<1> HIDE DEF key, val, ans
<1>4. Answer(VersionOf(NewRecord(key, val))) = ans /\ NewRecord(key, val).key = key
      /\ VersionOf(NewRecord(key, val)) # None
  BY <1>2, NewAnswer DEF FilesInv, ans
<1>5. \A k \in Keys : Answering(k) = Visible(k) /\ Visible(k)' = Visible(k)
  BY <1>3 DEF Answering, Visible, Found
<1>6. \A k \in Keys : Answering(k)' = IF k = key THEN ans ELSE Answering(k)
  BY <1>3, <1>4, <1>5 DEF Answering
<1>7. \A k \in Keys : Durable(k)' = IF k = key THEN ans ELSE Durable(k)
  <2>1. /\ Replayed(wal') = [Replayed(wal) EXCEPT ![key] = VersionOf(NewRecord(key, val))]
        /\ Replayed(wal) \in Content
    BY <1>1, <1>2, LogReplayed DEF FilesInv, key, val
  <2> QED
    BY <1>2, <1>3, <1>4, <2>1 DEF Durable, Content
<1>8. \A k \in Keys : Answering(k)' = AfterOf(batch, before, done + 1, k)
  <2>1. \A k \in Keys : Answering(k) = AfterOf(batch, before, done, k)
    BY <1>1 DEF BatchInv
  <2> QED
    BY <1>1, <1>6, <2>1, AfterNext DEF BatchShape, NextPair, key, val, ans
<1>9. PICK base \in {before, logged} :
        \A k \in Keys : Durable(k) = AfterOf(batch, base, done, k)
  BY <1>1 DEF BatchInv, PrefixIsDurable
<1>10. \A k \in Keys : Durable(k)' = AfterOf(batch, base, done + 1, k)
  BY <1>1, <1>7, <1>9, AfterNext DEF BatchShape, NextPair, key, val, ans
<1>11. PrefixIsDurable'
  BY <1>1, <1>10 DEF PrefixIsDurable
<1> QED
  BY <1>1, <1>3, <1>8, <1>11 DEF BatchInv

LEMMA BatchStopsKeeps ==
  ASSUME FilesInv, BatchShape, BatchInv, BatchStops
  PROVE  BatchInv'
<1> DEFINE key == NextPair[1]
<1> DEFINE val == NextPair[2]
<1> DEFINE ans == IF val = Tombstone THEN None ELSE val
<1>1. /\ status = "running" /\ done < Len(batch) /\ LogFails(key, val) /\ status' = "false"
      /\ UNCHANGED <<batch, done, before, logged>>
  BY DEF BatchStops
<1>2. key \in Keys /\ val \in Values \union {Tombstone}
  BY <1>1, PairType
<1>3. /\ pc = "idle" /\ UNCHANGED <<mem, imm, levels, files, pc, op>>
      /\ wal' \in {wal, Append(wal, Torn), Append(wal, NewRecord(key, val))}
  BY <1>1, <1>2, LogFailsAppends DEF FilesInv
<1> HIDE DEF key, val, ans
<1>4. Answer(VersionOf(NewRecord(key, val))) = ans /\ NewRecord(key, val).key = key
      /\ VersionOf(NewRecord(key, val)) # None
  BY <1>2, NewAnswer DEF FilesInv, ans
<1>5. \A k \in Keys : Answering(k)' = Answering(k)
  BY <1>3 DEF Answering, Visible, Found
<1>6. IsLog(wal) /\ NewRecord(key, val) \in Record
  BY <1>2, NewRecordType DEF FilesInv, TypeOK, IsLog
<1>7. \/ \A k \in Keys : Durable(k)' = Durable(k)
      \/ \A k \in Keys : Durable(k)' = IF k = key THEN ans ELSE Durable(k)
  <2>1. CASE Replayed(wal') = Replayed(wal)
    BY <1>3, <2>1 DEF Durable
  <2>2. CASE Replayed(wal') # Replayed(wal)
    <3>1. wal' = Append(wal, NewRecord(key, val)) /\ \A i \in DOMAIN wal : wal[i] # Torn
      BY <1>3, <1>6, <2>2, AppendUnread
    <3>2. Replayed(wal') = [Replayed(wal) EXCEPT ![key] = VersionOf(NewRecord(key, val))]
      BY <1>4, <1>6, <3>1, AppendReplayed
    <3>3. Replayed(wal) \in Content
      BY ReplayedType DEF FilesInv
    <3> QED
      BY <1>2, <1>3, <1>4, <3>2, <3>3 DEF Durable, Content
  <2> QED
    BY <2>1, <2>2
<1>8. PICK base \in {before, logged} :
        \A k \in Keys : Durable(k) = AfterOf(batch, base, done, k)
  BY <1>1 DEF BatchInv, PrefixIsDurable
<1>9. PrefixIsDurable'
  <2>1. CASE \A k \in Keys : Durable(k)' = Durable(k)
    BY <1>1, <1>8, <2>1 DEF PrefixIsDurable
  <2>2. CASE \A k \in Keys : Durable(k)' = IF k = key THEN ans ELSE Durable(k)
    <3>1. \A k \in Keys : Durable(k)' = AfterOf(batch, base, done + 1, k)
      BY <1>1, <1>8, <2>2, AfterNext DEF BatchShape, NextPair, key, val, ans
    <3> QED
      BY <1>1, <3>1 DEF PrefixIsDurable
  <2> QED
    BY <1>7, <2>1, <2>2
<1> QED
  BY <1>1, <1>3, <1>5, <1>9 DEF BatchInv

\* The memtable takes over what the record promises.
LEMMA ApplyAnswers ==
  ASSUME TypeOK, Apply
  PROVE  \A k \in Keys : Answering(k)' = Answering(k)
<1>1. /\ pc = "apply" /\ pc' # "apply" /\ op \in Record /\ mem \in Content /\ UNCHANGED levels
      /\ op.key \in Keys /\ VersionOf(op) # None
  BY VersionOfType, MarkersAreNotData DEF Apply, TypeOK, Record
<1> DEFINE m == [mem EXCEPT ![op.key] = VersionOf(op)]
<1>2. \/ mem' = m /\ imm' = imm
      \/ imm = Empty /\ imm' = m /\ mem' = Empty
  BY DEF Apply
<1> SUFFICES ASSUME NEW k \in Keys PROVE Answering(k)' = Answering(k)
  OBVIOUS
<1>3. Empty[k] = None
  BY DEF Empty
<1>4. m[k] = IF k = op.key THEN VersionOf(op) ELSE mem[k]
  BY <1>1 DEF Content
<1> HIDE DEF m
<1>5. Found(k)' = IF m[k] # None THEN m[k] ELSE IF imm[k] # None THEN imm[k] ELSE InTables(levels, k)
  BY <1>1, <1>2, <1>3 DEF Found
<1> QED
  BY <1>1, <1>4, <1>5 DEF Answering, Visible, Found

\* No step of a flush or merge changes an answer, and the one that truncates
\* the log leaves on disk what gets answer.
LEMMA BackgroundAnswers ==
  ASSUME EngineInv, Assumed, [Next]_vars, InBackground, pc' # "down"
  PROVE  \A k \in Keys : Visible(k)' = Visible(k)
<1>1. MergesInOrder /\ TombstonesAreKept
  BY OrderedMerges DEF EngineInv, Assumed
<1>2. ~rotate
  BY DEF EngineInv, FlushIsDone
<1> QED
  BY <1>1, <1>2, BackgroundFinds DEF EngineInv, DropsImmutable, LeavesOut, AllRead

LEMMA InstallMakesDurable ==
  ASSUME EngineInv, Assumed, Install, NEW k \in Keys
  PROVE  Durable(k)' = Visible(k)
<1>1. wal' = <<>> /\ UNCHANGED files /\ pc = "install" /\ FilesInv /\ LoadedInIdOrder
      /\ NamesOfOneLength /\ ~OutIsShort /\ ~rotate
  BY DEF Install, TruncateLog, EngineInv, Assumed, FlushIsDone
<1>2. out # None /\ out.body = imm
  BY <1>1 DEF EngineInv, OutIsRight, OutBody, FilesInv, TypeOK
<1>3. mem[k] = None
  BY <1>1 DEF EngineInv, LogHoldsKeys, InBackground, Empty
<1>4. Replayed(wal')[k] = None
  BY <1>1, EmptyLogReplayed DEF Empty
<1>5. Durable(k)' = Answer(InFiles(files, k))
  BY <1>1, <1>4 DEF Durable
<1>6. CASE imm[k] # None
  BY <1>1, <1>2, <1>3, <1>5, <1>6, InstallKeeps DEF Visible, Found
<1>7. CASE imm[k] = None
  BY <1>1, <1>2, <1>3, <1>5, <1>7, TablesAgreeWithFiles DEF Visible, Found
<1> QED
  BY <1>6, <1>7

LEMMA StepOfCallKeeps ==
  ASSUME "sstFails" \notin Faults, "sstShort" \notin Faults,
         EngineInv, EngineInv', Assumed, Assumed', BatchShape, BatchInv, StepOfCall
  PROVE  BatchInv'
<1>1. Step /\ UNCHANGED <<batch, done, before, logged, status>>
  BY DEF StepOfCall, batchVars
<1>2. /\ pc \notin {"idle", "down"} /\ pc' # "down"
      /\ pc # "wipe" => pc' # "wipe"
      /\ pc' # "apply"
  BY <1>1 DEF Step, Apply, FlushWrite, FlushFails, FlushReturns, Install, CompactSkip, CompactDone,
     CompactToNothing, CompactWrite, CompactFails, MayCompact, Unlink, Replace, WipeFile, WipeDone
<1>3. CASE status = "none"
  BY <1>1, <1>3 DEF BatchInv
<1>4. CASE status # "none"
  <2>1. status = "running" /\ pc # "wipe" /\ pc' # "wipe"
    BY <1>2, <1>4 DEF BatchInv, BatchShape
  <2>2. \A k \in Keys : Answering(k)' = Answering(k)
    <3>1. CASE pc = "apply"
      <4>1. Apply
        BY <1>1, <3>1 DEF Step, FlushWrite, FlushFails, Install, CompactSkip, CompactDone,
           CompactToNothing, CompactWrite, CompactFails, MayCompact, Unlink, Replace, WipeFile,
           WipeDone
      <4> QED
        BY <4>1, ApplyAnswers DEF EngineInv, FilesInv
    <3>2. CASE pc # "apply"
      BY <1>1, <1>2, <2>1, <3>2, BackgroundAnswers
      DEF Answering, Next, InBackground, EngineInv, FilesInv, TypeOK
    <3> QED
      BY <3>1, <3>2
  <2>3. \A k \in Keys : Answering(k)' = AfterOf(batch, before, done, k)
    BY <2>1, <2>2 DEF BatchInv
  <2>4. PrefixIsDurable'
    <3>1. CASE Install
      <4>1. pc = "install"
        BY <3>1 DEF Install
      <4>2. \A k \in Keys : Durable(k)' = AfterOf(batch, before, done, k)
        BY <2>1, <3>1, <4>1, InstallMakesDurable DEF BatchInv, Answering
      <4> QED
        BY <1>1, <4>2 DEF PrefixIsDurable
    <3>2. CASE ~Install
      <4>1. \A k \in Keys : Durable(k)' = Durable(k)
        <5>1. CASE Apply
          BY <5>1 DEF Apply, disk, Durable
        <5>2. CASE ~Apply
          <6>1. InBackground
            BY <1>1, <2>1, <5>2 DEF Step, FlushWrite, FlushFails, Install, CompactSkip, CompactDone,
               CompactToNothing, CompactWrite, CompactFails, MayCompact, Unlink, Replace, WipeFile,
               WipeDone, InBackground
          <6>2. MergesInOrder /\ TombstonesAreKept /\ NamesOfOneLength /\ NamesOfOneLength'
            BY OrderedMerges DEF EngineInv, Assumed
          <6> QED
            BY <1>1, <3>2, <6>1, <6>2, BackgroundKeepsDisk DEF EngineInv
        <5> QED
          BY <5>1, <5>2
      <4> QED
        BY <1>1, <2>1, <4>1 DEF BatchInv, PrefixIsDurable
    <3> QED
      BY <3>1, <3>2
  <2> QED
    BY <1>1, <1>2, <2>1, <2>3, <2>4 DEF BatchInv
<1> QED
  BY <1>3, <1>4

LEMMA BatchLostKeeps ==
  ASSUME EngineInv, BatchInv, BatchLost
  PROVE  BatchInv'
<1>1. /\ StopOrCrash /\ UNCHANGED <<batch, done, before, logged>>
      /\ status' = IF status = "none" THEN "none" ELSE "lost"
  BY DEF BatchLost
<1>2. pc # "down" /\ pc' = "down"
  BY <1>1 DEF StopOrCrash, Stop, Crash, CrashInLog, CrashInTable, Down
<1>3. \A k \in Keys : Durable(k)' = Durable(k)
  BY <1>1, StopKeeps DEF EngineInv
<1>4. CASE status # "none"
  <2>1. PrefixIsDurable'
    BY <1>1, <1>3, <1>4 DEF BatchInv, PrefixIsDurable
  <2> QED
    BY <1>1, <1>2, <1>4, <2>1 DEF BatchInv
<1> QED
  BY <1>1, <1>4 DEF BatchInv

LEMMA ReopenKeeps ==
  ASSUME BatchShape, BatchInv, Reopen
  PROVE  BatchInv'
<1>1. /\ pc = "down" /\ pc' = "idle" /\ mem' = Replayed(wal) /\ UNCHANGED <<wal, files>>
      /\ UNCHANGED <<batch, done, before, logged, status>>
  BY DEF Reopen, Open, disk, batchVars
<1>2. status \in {"none", "lost"}
  BY <1>1 DEF BatchInv, BatchShape
<1>3. PrefixIsDurable' <=> PrefixIsDurable
  BY <1>1 DEF PrefixIsDurable, Durable
<1> QED
  BY <1>1, <1>2, <1>3 DEF BatchInv

LEMMA NextBatch ==
  ASSUME "sstFails" \notin Faults, "sstShort" \notin Faults,
         EngineInv, EngineInv', Assumed, Assumed', BatchShape, BatchInv, [BatchStep]_allVars
  PROVE  BatchInv'
<1>1. CASE UNCHANGED allVars
  BY <1>1 DEF allVars, batchVars, vars, memory, disk, BatchInv, PrefixIsDurable, Durable, Answering,
     Visible, Found
<1>2. CASE BatchBegin
  BY <1>2, BatchBeginKeeps DEF EngineInv
<1>3. CASE BatchNext \/ BatchStops
  BY <1>3, BatchNextKeeps, BatchStopsKeeps DEF EngineInv, Assumed
<1>4. CASE BatchReturns
  BY <1>4 DEF BatchReturns, vars, memory, disk, BatchInv, PrefixIsDurable, Durable, Answering,
     Visible, Found
<1>5. CASE SingleCall
  BY <1>5 DEF SingleCall, BatchInv
<1>6. CASE StepOfCall
  BY <1>6, StepOfCallKeeps
<1>7. CASE BatchLost
  BY <1>7, BatchLostKeeps
<1>8. CASE Reopen
  BY <1>8, ReopenKeeps
<1> QED
  BY <1>1, <1>2, <1>3, <1>4, <1>5, <1>6, <1>7, <1>8 DEF BatchStep

\* A batch that is running, has returned or was cut off by a stop has had the
\* effect of its first entries in their order and of nothing else, for every
\* list of puts and removes, any number of flushes and merges in its middle, of
\* stops and of crashes anywhere, and for rejected and torn log records, when
\* tables are written and read and what Assumed names holds.
THEOREM BatchHasPrefix ==
  ASSUME Faults \cap {"sstFails", "sstShort", "readFails"} = {}
  PROVE  BatchSpec /\ []Assumed => []BatchAppliesPrefix
<1>1. "sstFails" \notin Faults /\ "sstShort" \notin Faults /\ "readFails" \notin Faults
  OBVIOUS
<1>2. Assumed => NamesOfOneLength /\ NothingBehindTorn
  BY DEF Assumed
<1>3. BatchInit => EngineInv /\ BatchShape /\ BatchInv
  <2> SUFFICES ASSUME BatchInit PROVE EngineInv /\ BatchShape /\ BatchInv
    OBVIOUS
  <2>1. Init /\ batch = <<>> /\ done = 0 /\ status = "none"
    BY DEF BatchInit
  <2>2. LoadedInIdOrder /\ FlushIsDone /\ OutIsRight /\ ~OutIsShort /\ UnlinkedInOrder
        /\ LogHoldsKeys /\ FlushedKeysAreLogged /\ AllRead
    BY <2>1 DEF Init, AllRead, LoadedInIdOrder, FlushIsDone, OutIsRight, OutIsShort, UnlinkedInOrder,
       LogHoldsKeys, FlushedKeysAreLogged, InBackground, Empty
  <2> QED
    BY <2>1, <2>2, InitFiles, InitOrder DEF EngineInv, BatchShape, BatchInv
<1>4. EngineInv /\ BatchShape /\ Assumed /\ Assumed' /\ [BatchStep]_allVars
      => EngineInv' /\ BatchShape'
  BY <1>1, BatchStepIsStep, NextEngine, NextShape DEF Assumed
<1>5. /\ EngineInv /\ EngineInv' /\ BatchShape /\ BatchInv /\ Assumed /\ Assumed'
      /\ [BatchStep]_allVars
      => BatchInv'
  BY <1>1, NextBatch
<1>6. EngineInv /\ BatchShape /\ BatchInv /\ Assumed => BatchAppliesPrefix
  <2> SUFFICES ASSUME EngineInv, BatchShape, BatchInv, Assumed, pc = "idle", status # "none"
               PROVE  BatchAppliesPrefix
    BY DEF BatchAppliesPrefix
  <2>1. \A base, n, k : AfterOf(batch, base, n, k) = After(base, n, k)
    BY DEF AfterOf, After
  <2>2. CASE status # "lost"
    <3>1. \A k \in Keys : Visible(k) = AfterOf(batch, before, done, k)
      BY <2>2 DEF BatchInv, BatchShape, Answering
    <3> QED
      BY <2>1, <3>1 DEF BatchAppliesPrefix
  <2>3. CASE status = "lost"
    <3>1. PICK base \in {before, logged}, n \in {done, done + 1} :
            /\ n = done \/ done < Len(batch)
            /\ \A k \in Keys : Durable(k) = AfterOf(batch, base, n, k)
      BY <2>3 DEF BatchInv, PrefixIsDurable
    <3>2. n \in done .. Len(batch) /\ n <= done + 1
      BY <3>1 DEF BatchShape
    <3>3. ASSUME NEW k \in Keys PROVE Visible(k) = Durable(k)
      <4>1. mem = Replayed(wal) /\ imm[k] = None
        BY <2>3 DEF BatchInv, EngineInv, FlushIsDone, Empty
      <4>2. InTables(levels, k) = InFiles(files, k)
        BY TablesAgreeWithFiles DEF EngineInv, FilesInv, OutIsStored, Assumed
      <4> QED
        BY <4>1, <4>2 DEF Visible, Found, Durable
    <3>4. \A k \in Keys : Visible(k) = After(base, n, k)
      BY <2>1, <3>1, <3>3
    <3> QED
      BY <2>3, <3>1, <3>2, <3>4 DEF BatchAppliesPrefix
  <2> QED
    BY <2>2, <2>3
<1> QED
  BY <1>2, <1>3, <1>4, <1>5, <1>6, PTL DEF BatchSpec
=============================================================================
