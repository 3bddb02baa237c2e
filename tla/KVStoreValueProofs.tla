------------------------ MODULE KVStoreValueProofs ------------------------
(***************************************************************************)
(* What get() and keys() answer while flushes and compactions move the     *)
(* entries from the memtable to the tables and from level to level.        *)
(***************************************************************************)
EXTENDS KVStoreStateProofs

-----------------------------------------------------------------------------
(***************************************************************************)
(* maybe_compact leaves no level full but the last.                        *)
(***************************************************************************)

NotFull(l) == l + 1 < MaxLevel => Len(levels[l]) < Trigger

\* maybe_compact has dealt with the levels before lvl.
CompactedSoFar ==
  \A l \in Levels : (pc \in {"compact", "unlink"} => l < lvl) => NotFull(l)

\* The inductive invariant.
CompactedInv == TypeOK /\ CompactedSoFar

LEMMA InitCompacted == Init => CompactedInv
<1> SUFFICES ASSUME Init PROVE CompactedInv
  OBVIOUS
<1>1. \A l \in Levels : Len(levels[l]) = 0
  BY DEF Init
<1> QED
  BY <1>1, InitType, ParametersAreSane DEF CompactedInv, CompactedSoFar, NotFull

\* The levels that have been dealt with stay as they are.
LEMMA UnchangedLevelsCompacted ==
  ASSUME CompactedInv, TypeOK', UNCHANGED levels,
         \A l \in Levels : (pc' \in {"compact", "unlink"} => l < lvl') =>
           (pc \in {"compact", "unlink"} => l < lvl) \/ NotFull(l)
  PROVE  CompactedInv'
BY DEF CompactedInv, CompactedSoFar, NotFull

LEMMA NextCompacted ==
  ASSUME "sstFails" \notin Faults, CompactedInv, ~StopOrCrash, ~Open, [Next]_vars
  PROVE  CompactedInv'
<1> USE DEF CompactedInv
<1>1. TypeOK' /\ lvl \in 0 .. MaxLevel /\ MaxLevel \in Nat /\ lvl \in Nat
  BY NextType, ParametersAreSane DEF TypeOK
<1>2. \A l \in Levels : l \in Nat /\ l < MaxLevel
  BY ParametersAreSane DEF Levels
<1>3. CASE UNCHANGED vars
  BY <1>1, <1>3, UnchangedLevelsCompacted DEF vars, memory
<1>4. CASE Call
  BY <1>1, <1>4, UnchangedLevelsCompacted DEF Call, Put, Remove, Log, LogFails, TakeTimestamp,
     Clear, Read, vars, memory
<1>5. CASE Apply \/ FlushWrite \/ CompactToNothing \/ CompactWrite \/ Unlink \/ WipeFile
  BY <1>1, <1>5, UnchangedLevelsCompacted DEF Apply, FlushWrite, CompactToNothing, CompactWrite,
     MayCompact, Unlink, WipeFile, memory
<1>6. CASE FlushFails
  BY <1>6 DEF FlushFails
<1>7. CASE Install
  BY <1>1, <1>2, <1>7 DEF Install, CompactedSoFar
<1>8. CASE CompactSkip
  <2>1. UNCHANGED levels /\ lvl' = lvl + 1 /\ pc = "compact" /\ ~Full(lvl) /\ lvl < MaxLevel
    BY <1>8 DEF CompactSkip, NextLevel, memory
  <2>2. Len(levels[lvl]) \in Nat /\ Trigger \in Nat
    BY <1>1, <2>1, ParametersAreSane DEF TypeOK, Levels
  <2>3. NotFull(lvl)
    BY <2>1, <2>2 DEF NotFull, Full
  <2>4. \A l \in Levels : l < lvl + 1 => l < lvl \/ l = lvl
    BY <1>1, <1>2
  <2>5. \A l \in Levels : l < lvl' => l < lvl \/ NotFull(l)
    BY <2>1, <2>3, <2>4
  <2>6. pc' = pc
    BY <1>8 DEF CompactSkip
  <2> QED
    BY <1>1, <2>1, <2>5, <2>6, UnchangedLevelsCompacted
<1>9. CASE CompactDone
  <2>1. UNCHANGED levels /\ lvl = MaxLevel /\ pc = "compact"
    BY <1>9 DEF CompactDone
  <2> QED
    BY <1>1, <1>2, <2>1, UnchangedLevelsCompacted
<1>10. CASE CompactFails
  <2>1. /\ UNCHANGED levels /\ lvl' = lvl + 1 /\ lvl + 1 = MaxLevel
        /\ pc = "compact" /\ pc' = "compact"
    BY <1>10 DEF CompactFails, MayCompact
  <2>2. \A l \in Levels : l < lvl \/ NotFull(l)
    BY <1>1, <1>2, <2>1 DEF NotFull
  <2> QED
    BY <1>1, <2>1, <2>2, UnchangedLevelsCompacted
<1>11. CASE Replace
  <2> DEFINE elv == Emptied(levels, lvl)
  <2>1. /\ levels' = IF out = None THEN elv ELSE Listed(elv, lvl + 1, out)
        /\ lvl' = lvl + 1 /\ lvl \in Levels /\ pc = "unlink" /\ pc' = "compact"
    BY <1>1, <1>11, ParametersAreSane DEF Replace, Emptied, TypeOK, Levels
  <2>2. ASSUME NEW l \in Levels, l < lvl'
        PROVE  levels'[l] = elv[l]
    BY <1>1, <1>2, <2>1, <2>2 DEF Listed
  <2>3. \A l \in Levels : elv[l] = IF l = lvl THEN <<>> ELSE levels[l]
    BY <1>1 DEF Emptied, TypeOK
  <2> HIDE DEF elv
  <2>4. ASSUME NEW l \in Levels, l < lvl'
        PROVE  l + 1 < MaxLevel => Len(levels'[l]) < Trigger
    <3>1. CASE l = lvl
      <4>1. levels'[l] = <<>>
        BY <2>2, <2>3, <2>4, <3>1
      <4> QED
        BY <4>1, ParametersAreSane
    <3>2. CASE l # lvl
      <4>1. l \in Nat /\ l < lvl + 1
        BY <1>2, <2>1, <2>4
      <4>2. l < lvl
        BY <1>1, <3>2, <4>1
      <4>3. levels'[l] = levels[l]
        BY <2>2, <2>3, <2>4, <3>2
      <4> QED
        BY <2>1, <4>2, <4>3 DEF CompactedSoFar, NotFull
    <3> QED
      BY <3>1, <3>2
  <2> QED
    BY <1>1, <2>1, <2>4 DEF CompactedSoFar, NotFull
<1>12. CASE WipeDone
  <2>1. \A l \in Levels : Len(levels'[l]) = 0
    BY <1>12 DEF WipeDone
  <2> QED
    BY <1>1, <2>1, ParametersAreSane DEF CompactedSoFar, NotFull
<1> QED
  BY <1>3, <1>4, <1>5, <1>6, <1>7, <1>8, <1>9, <1>10, <1>11, <1>12 DEF Next, Step

\* Every flush leaves fewer than COMPACTION_TRIGGER tables on every level but
\* the last, whatever the number of levels and the trigger: a merge that fills
\* the next level is followed by a merge of that level, and so on down.
THEOREM NoLevelStaysFull ==
  ASSUME MaxStops = 0, "sstFails" \notin Faults
  PROVE  Spec => []LevelsAreCompacted
<1> DEFINE Inv == CompactedInv /\ pc # "down"
<1>1. Init => Inv
  BY InitCompacted DEF Init
<1>2. Inv /\ [Next]_vars => Inv'
  <2> SUFFICES ASSUME Inv, [Next]_vars PROVE Inv'
    OBVIOUS
  <2>1. ~StopOrCrash
    BY DEF CompactedInv, TypeOK, StopOrCrash, Stop, Crash, CrashInLog, CrashInTable, Down
  <2>2. ~Open
    BY DEF Open
  <2>3. pc' # "down"
    BY <2>1, <2>2 DEF Next, vars, memory, disk, Call, Put, Remove, Log, LogFails, Clear, Read,
       Step, Apply, FlushWrite, FlushFails, FlushReturns, Install, CompactSkip, CompactDone,
       CompactToNothing, CompactWrite, CompactFails, Unlink, Replace, WipeFile, WipeDone
  <2> QED
    BY <2>1, <2>2, <2>3, NextCompacted
<1>3. Inv => LevelsAreCompacted
  BY DEF CompactedInv, CompactedSoFar, NotFull, LevelsAreCompacted
<1> QED
  BY <1>1, <1>2, <1>3, PTL DEF Spec

-----------------------------------------------------------------------------
(***************************************************************************)
(* keys() and get().                                                       *)
(***************************************************************************)

\* No flush is outstanding, and the immutable memtable exists only during one.
FlushIsDone == ~rotate /\ (pc \notin {"flush", "install"} => imm = Empty)

LEMMA NextFlushIsDone ==
  ASSUME "sstFails" \notin Faults, TypeOK, FlushIsDone, [Next]_vars
  PROVE  FlushIsDone'
BY DEF TypeOK, FlushIsDone, Next, vars, memory, disk, Call, Put, Remove, Log, LogFails,
   TakeTimestamp, Clear, Read,
   Step, Apply, FlushWrite, FlushFails, FlushReturns, Install, CompactSkip, CompactDone,
   CompactToNothing, CompactWrite, CompactFails, MayCompact, Unlink, Replace, WipeFile, WipeDone,
   StopOrCrash, Stop, Crash, CrashInLog, CrashInTable, Down, Open

LEMMA FlushIsAlwaysDone ==
  ASSUME "sstFails" \notin Faults
  PROVE  Spec => []FlushIsDone
<1>1. Init => FlushIsDone
  BY DEF Init, FlushIsDone
<1>2. TypeOK /\ FlushIsDone /\ [Next]_vars => FlushIsDone'
  BY NextFlushIsDone
<1> QED
  BY TypeCorrect, <1>1, <1>2, PTL DEF Spec
-----------------------------------------------------------------------------
(***************************************************************************)
(* Where get() finds a key among the tables.                               *)
(***************************************************************************)

Holds(lv, k, l, i) == l \in Levels /\ i \in DOMAIN lv[l] /\ lv[l][i].body[k] # None

\* Table i of level l is the first that get() finds key k in.
IsFirst(lv, k, l, i) ==
  /\ Holds(lv, k, l, i)
  /\ \A m, j : Holds(lv, k, m, j) => (m = l /\ j = i) \/ SearchedBefore(<<l, i>>, <<m, j>>)

LEMMA HoldersAre ==
  ASSUME NEW lv, NEW k
  PROVE  /\ \A l, i : <<l, i>> \in Holders(lv, k) <=> Holds(lv, k, l, i)
         /\ \A p \in Holders(lv, k) : \E l, i : p = <<l, i>>
<1>1. ASSUME NEW p PROVE p \in Holders(lv, k) <=>
        \E l \in Levels : \E i \in DOMAIN lv[l] : lv[l][i].body[k] # None /\ p = <<l, i>>
  BY DEF Holders
<1>2. ASSUME NEW l, NEW i PROVE <<l, i>> \in Holders(lv, k) <=> Holds(lv, k, l, i)
  <2>1. \A m, j : <<l, i>> = <<m, j>> <=> l = m /\ i = j
    OBVIOUS
  <2> QED
    BY <1>1, <2>1 DEF Holds
<1> QED
  BY <1>1, <1>2

LEMMA PlaceType ==
  ASSUME NEW lv \in [Levels -> Seq(Table)], NEW k, NEW l, NEW i, Holds(lv, k, l, i)
  PROVE  l \in Nat /\ i \in Nat /\ i <= Len(lv[l]) /\ Len(lv[l]) \in Nat
<1>1. lv[l] \in Seq(Table)
  BY DEF Holds
<1> QED
  BY <1>1, ParametersAreSane DEF Holds, Levels

\* If some table holds the key, one is first: the last of those of the least
\* level.
LEMMA SomeFirst ==
  ASSUME NEW lv \in [Levels -> Seq(Table)], NEW k, NEW l0, NEW i0, Holds(lv, k, l0, i0)
  PROVE  \E l, i : IsFirst(lv, k, l, i)
<1> DEFINE S == {l \in Levels : \E i : Holds(lv, k, l, i)}
<1>1. S \in SUBSET Nat /\ S # {}
  BY PlaceType DEF Holds
<1>2. PICK l \in S : \A m \in S : l <= m
  <2> HIDE DEF S
  <2> QED
    BY <1>1, LeastNumber
<1> DEFINE R == {i \in DOMAIN lv[l] : Holds(lv, k, l, i)}
<1>3. /\ R \in SUBSET Nat /\ R # {} /\ Len(lv[l]) \in Nat
      /\ \A i \in R : i <= Len(lv[l])
  BY <1>2, PlaceType DEF Holds
<1>4. PICK i \in R : \A j \in R : j <= i
  <2> HIDE DEF R
  <2> QED
    BY <1>3, GreatestNumber
<1>5. ASSUME NEW m, NEW j, Holds(lv, k, m, j), ~(m = l /\ j = i)
      PROVE  SearchedBefore(<<l, i>>, <<m, j>>)
  <2>1. m \in S /\ l <= m /\ m \in Nat /\ j \in Nat
    BY <1>2, <1>5, PlaceType DEF Holds
  <2>2. CASE m = l
    <3>1. j \in R /\ j <= i /\ j # i
      BY <1>4, <1>5, <2>2 DEF Holds
    <3> QED
      BY <1>3, <2>1, <2>2, <3>1 DEF SearchedBefore
  <2>3. CASE m # l
    BY <1>1, <2>1, <2>3 DEF SearchedBefore
  <2> QED
    BY <2>2, <2>3
<1> QED
  BY <1>4, <1>5 DEF IsFirst

LEMMA FirstAnswers ==
  ASSUME NEW lv \in [Levels -> Seq(Table)], NEW k, NEW l, NEW i, IsFirst(lv, k, l, i)
  PROVE  InTables(lv, k) = lv[l][i].body[k]
<1> DEFINE H == Holders(lv, k)
           P(p) == \A q \in H \ {p} : SearchedBefore(p, q)
<1>1. <<l, i>> \in H /\ P(<<l, i>>)
  <2>1. <<l, i>> \in H
    BY HoldersAre DEF IsFirst
  <2>2. ASSUME NEW q \in H, q # <<l, i>> PROVE SearchedBefore(<<l, i>>, q)
    <3>1. PICK m, j : q = <<m, j>> /\ Holds(lv, k, m, j)
      BY HoldersAre
    <3> QED
      BY <2>2, <3>1 DEF IsFirst
  <2> QED
    BY <2>1, <2>2
<1>2. ASSUME NEW p \in H, P(p) PROVE p = <<l, i>>
  <2> SUFFICES ASSUME p # <<l, i>> PROVE FALSE
    OBVIOUS
  <2>1. PICK m, j : p = <<m, j>> /\ Holds(lv, k, m, j)
    BY HoldersAre
  <2>2. m \in Nat /\ j \in Nat /\ l \in Nat /\ i \in Nat
    BY <2>1, PlaceType DEF IsFirst
  <2>3. SearchedBefore(<<l, i>>, <<m, j>>) /\ SearchedBefore(<<m, j>>, <<l, i>>)
    BY <1>1, <1>2, <2>1
  <2> QED
    BY <2>2, <2>3 DEF SearchedBefore
<1>3. (CHOOSE p \in H : P(p)) = <<l, i>>
  <2> HIDE DEF H, P
  <2> QED
    BY <1>1, <1>2
<1> DEFINE c == CHOOSE p \in H : P(p)
<1>4. InTables(lv, k) = lv[c[1]][c[2]].body[k]
  BY <1>1, Zenon DEF InTables
<1>5. c[1] = l /\ c[2] = i
  <2>1. c = <<l, i>>
    BY <1>3, Zenon
  <2> HIDE DEF c
  <2> QED
    BY <2>1
<1> HIDE DEF c
<1> QED
  BY <1>4, <1>5

LEMMA NowhereAnswers ==
  ASSUME NEW lv, NEW k, \A l, i : ~Holds(lv, k, l, i)
  PROVE  InTables(lv, k) = None
<1>1. Holders(lv, k) = {}
  BY HoldersAre
<1> QED
  BY <1>1 DEF InTables

(***************************************************************************)
(* keys() passes the tables in the order get() searches them.              *)
(***************************************************************************)

\* With no memtable in front, the tables list the key if its first holder is
\* live, and only there.
LEMMA FirstLists ==
  ASSUME TypeOK, NEW k \in Keys, mem[k] = None, imm[k] = None,
         NEW l, NEW i, IsFirst(levels, k, l, i)
  PROVE  Listing(k) = IF Answer(levels[l][i].body[k]) = None THEN {} ELSE {<<l, i>>}
<1>1. levels \in [Levels -> Seq(Table)] /\ <<l, i>> \in Holders(levels, k)
  BY HoldersAre DEF TypeOK, IsFirst
<1>2. ~Seen(k, <<l, i>>)
  <2> SUFFICES ASSUME NEW q \in Holders(levels, k), SearchedBefore(q, <<l, i>>) PROVE FALSE
    BY DEF Seen
  <2>1. PICK m, j : q = <<m, j>> /\ Holds(levels, k, m, j)
    BY HoldersAre
  <2>2. m \in Nat /\ j \in Nat /\ l \in Nat /\ i \in Nat
    BY <1>1, <2>1, PlaceType DEF IsFirst
  <2> QED
    BY <2>1, <2>2 DEF IsFirst, SearchedBefore
<1>3. ASSUME NEW p \in Holders(levels, k), p # <<l, i>> PROVE Seen(k, p)
  <2>1. PICK m, j : p = <<m, j>> /\ Holds(levels, k, m, j)
    BY HoldersAre
  <2>2. SearchedBefore(<<l, i>>, p)
    BY <1>3, <2>1 DEF IsFirst
  <2> QED
    BY <1>1, <2>2 DEF Seen
<1>4. <<l, i>>[1] = l /\ <<l, i>>[2] = i
  OBVIOUS
<1>5. Listing(k) \subseteq {<<l, i>>}
  BY <1>3 DEF Listing
<1>6. <<l, i>> \in Listing(k) <=> Answer(levels[l][i].body[k]) # None
  BY <1>1, <1>2, <1>4 DEF Listing
<1> QED
  BY <1>5, <1>6

\* How many of the tables list a key.
LEMMA ListedByTables ==
  ASSUME TypeOK, NEW k \in Keys
  PROVE  Cardinality(Listing(k)) =
           IF mem[k] = None /\ imm[k] = None /\ Answer(InTables(levels, k)) # None
             THEN 1 ELSE 0
<1>1. Cardinality({}) = 0 /\ \A x : Cardinality({x}) = 1
  BY FS_EmptySet, FS_Singleton
<1>2. CASE mem[k] # None \/ imm[k] # None
  <2>1. Listing(k) = {}
    BY <1>2 DEF Listing, Seen
  <2> QED
    BY <1>1, <1>2, <2>1
<1>3. CASE \A l, i : ~Holds(levels, k, l, i)
  <2>1. Listing(k) = {} /\ Answer(InTables(levels, k)) = None
    BY <1>3, HoldersAre, NowhereAnswers DEF Listing, Answer
  <2> QED
    BY <1>1, <2>1
<1>4. CASE /\ mem[k] = None /\ imm[k] = None
           /\ \E l, i : Holds(levels, k, l, i)
  <2>1. levels \in [Levels -> Seq(Table)]
    BY DEF TypeOK
  <2>2. PICK l, i : IsFirst(levels, k, l, i)
    BY <1>4, <2>1, SomeFirst
  <2>3. InTables(levels, k) = levels[l][i].body[k]
    BY <2>1, <2>2, FirstAnswers
  <2>4. Listing(k) = IF Answer(levels[l][i].body[k]) = None THEN {} ELSE {<<l, i>>}
    BY <1>4, <2>2, FirstLists
  <2> QED
    BY <1>1, <1>4, <2>3, <2>4
<1> QED
  BY <1>2, <1>3, <1>4

\* Whatever fails or stops, keys() lists exactly the keys that get() finds,
\* each once - but for a key of a memtable whose flush has failed that has
\* been written again since: it is listed once more.
THEOREM KeysAlwaysListsFound == Spec => []KeysListsFound
<1>1. TypeOK => KeysListsFound
  <2> SUFFICES ASSUME TypeOK, NEW k \in Keys
               PROVE  KeyCount(k) =
                        (IF Visible(k) # None THEN 1 ELSE 0)
                          + (IF mem[k] # None /\ Answer(imm[k]) # None THEN 1 ELSE 0)
    BY DEF KeysListsFound
  <2>1. PICK n : n = Cardinality(Listing(k))
    OBVIOUS
  <2>2. n = IF mem[k] = None /\ imm[k] = None /\ Answer(InTables(levels, k)) # None
              THEN 1 ELSE 0
    BY <2>1, ListedByTables
  <2>3. KeyCount(k) = (IF Answer(mem[k]) = None THEN 0 ELSE 1)
                        + (IF Answer(imm[k]) = None THEN 0 ELSE 1) + n
    BY <2>1 DEF KeyCount
  <2>4. Answer(None) = None
    BY DEF Answer
  <2> QED
    BY <2>2, <2>3, <2>4 DEF Visible, Found
<1> QED
  BY TypeCorrect, <1>1, PTL
-----------------------------------------------------------------------------
(***************************************************************************)
(* What get() finds when a level is emptied or gains a table.              *)
(***************************************************************************)

\* What the lists lv hold of key k at place <<l, i>>, the lists lw hold too.
Keeps(lv, lw, k, l, i) == Holds(lw, k, l, i) /\ lw[l][i].body[k] = lv[l][i].body[k]

LEMMA FirstStays ==
  ASSUME NEW lv \in [Levels -> Seq(Table)], NEW lw \in [Levels -> Seq(Table)], NEW k,
         NEW l, NEW i, IsFirst(lv, k, l, i), Keeps(lv, lw, k, l, i),
         \A m, j : Holds(lw, k, m, j) => Holds(lv, k, m, j) \/ SearchedBefore(<<l, i>>, <<m, j>>)
  PROVE  InTables(lw, k) = InTables(lv, k)
<1>1. IsFirst(lw, k, l, i)
  BY DEF IsFirst, Keeps
<1> QED
  <2>1. InTables(lw, k) = lw[l][i].body[k]
    BY <1>1, FirstAnswers
  <2>2. InTables(lv, k) = lv[l][i].body[k]
    BY FirstAnswers
  <2> QED
    BY <2>1, <2>2 DEF Keeps

LEMMA SameHolders ==
  ASSUME NEW lv \in [Levels -> Seq(Table)], NEW lw \in [Levels -> Seq(Table)], NEW k,
         \A l, i : Holds(lv, k, l, i) => Keeps(lv, lw, k, l, i),
         \A l, i : Holds(lw, k, l, i) => Holds(lv, k, l, i)
  PROVE  InTables(lw, k) = InTables(lv, k)
<1>1. CASE \E l, i : Holds(lv, k, l, i)
  BY <1>1, SomeFirst, FirstStays DEF IsFirst
<1>2. CASE \A l, i : ~Holds(lv, k, l, i)
  BY <1>2, NowhereAnswers
<1> QED
  BY <1>1, <1>2

LEMMA ListedPlacesHold ==
  ASSUME NEW lv \in [Levels -> Seq(Table)], NEW l \in Levels, NEW t \in Table, NEW k
  PROVE  /\ Listed(lv, l, t) \in [Levels -> Seq(Table)]
         /\ \A m, i : Holds(lv, k, m, i) => Keeps(lv, Listed(lv, l, t), k, m, i)
         /\ \A m, i : Holds(Listed(lv, l, t), k, m, i) =>
              \/ Holds(lv, k, m, i)
              \/ m = l /\ i = Len(lv[l]) + 1 /\ t.body[k] # None
         /\ t.body[k] # None =>
              /\ Holds(Listed(lv, l, t), k, l, Len(lv[l]) + 1)
              /\ Listed(lv, l, t)[l][Len(lv[l]) + 1].body[k] = t.body[k]
<1>1. Listed(lv, l, t) \in [Levels -> Seq(Table)]
  BY ListedType
<1> DEFINE lw == Listed(lv, l, t)
<1>2. /\ \A m \in Levels : \A i \in DOMAIN lv[m] : i \in DOMAIN lw[m] /\ lw[m][i] = lv[m][i]
      /\ Len(lv[l]) + 1 \in DOMAIN lw[l] /\ lw[l][Len(lv[l]) + 1] = t
  BY ListedHolds
<1>3. \A m \in Levels : \A i \in DOMAIN lw[m] :
        \/ i \in DOMAIN lv[m] /\ lw[m][i] = lv[m][i]
        \/ m = l /\ i = Len(lv[l]) + 1 /\ lw[m][i] = t
  BY ListedPlaces
<1> HIDE DEF lw
<1>4. \A m, i : Holds(lv, k, m, i) => Keeps(lv, lw, k, m, i)
  BY <1>2 DEF Holds, Keeps
<1>5. ASSUME NEW m, NEW i, Holds(lw, k, m, i)
      PROVE  Holds(lv, k, m, i) \/ (m = l /\ i = Len(lv[l]) + 1 /\ t.body[k] # None)
  BY <1>3, <1>5 DEF Holds
<1>6. t.body[k] # None => /\ Holds(lw, k, l, Len(lv[l]) + 1)
                          /\ lw[l][Len(lv[l]) + 1].body[k] = t.body[k]
  BY <1>2 DEF Holds
<1> QED
  BY <1>1, <1>4, <1>5, <1>6 DEF lw

\* A table that does not hold the key makes no difference.
LEMMA ListedWithout ==
  ASSUME NEW lv \in [Levels -> Seq(Table)], NEW l \in Levels, NEW t \in Table, NEW k,
         t.body[k] = None
  PROVE  InTables(Listed(lv, l, t), k) = InTables(lv, k)
<1> DEFINE lw == Listed(lv, l, t)
<1>1. /\ lw \in [Levels -> Seq(Table)]
      /\ \A m, i : Holds(lv, k, m, i) => Keeps(lv, lw, k, m, i)
      /\ \A m, i : Holds(lw, k, m, i) => Holds(lv, k, m, i)
  BY ListedPlacesHold
<1> HIDE DEF lw
<1>2. InTables(lw, k) = InTables(lv, k)
  BY <1>1, SameHolders
<1> QED
  BY <1>2 DEF lw

\* Level l is searched before level m.
HigherUp(l, m) == l < m

\* A table behind a place that holds the key makes no difference.
LEMMA ListedBelow ==
  ASSUME NEW lv \in [Levels -> Seq(Table)], NEW l \in Levels, NEW t \in Table, NEW k,
         NEW m, NEW i, IsFirst(lv, k, m, i), HigherUp(m, l)
  PROVE  InTables(Listed(lv, l, t), k) = InTables(lv, k)
<1> SUFFICES ASSUME NEW lw, lw = Listed(lv, l, t)
             PROVE  InTables(lw, k) = InTables(lv, k)
  OBVIOUS
<1>1. lw \in [Levels -> Seq(Table)] /\ Keeps(lv, lw, k, m, i)
  BY ListedPlacesHold DEF IsFirst
<1>2. ASSUME NEW x, NEW j, Holds(lw, k, x, j)
      PROVE  Holds(lv, k, x, j) \/ SearchedBefore(<<m, i>>, <<x, j>>)
  <2>1. x # l => Holds(lv, k, x, j)
    BY <1>2 DEF Holds, Listed
  <2>2. x = l => SearchedBefore(<<m, i>>, <<x, j>>)
    BY DEF SearchedBefore, HigherUp
  <2> QED
    BY <2>1, <2>2
<1> QED
  BY <1>1, <1>2, FirstStays

\* A table that holds the key answers if no level above does.
LEMMA ListedOnTop ==
  ASSUME NEW lv \in [Levels -> Seq(Table)], NEW l \in Levels, NEW t \in Table, NEW k,
         t.body[k] # None, \A m, i : Holds(lv, k, m, i) => ~HigherUp(m, l)
  PROVE  InTables(Listed(lv, l, t), k) = t.body[k]
<1> SUFFICES ASSUME NEW lw, lw = Listed(lv, l, t), NEW n, n = Len(lv[l]) + 1
             PROVE  InTables(lw, k) = t.body[k]
  OBVIOUS
<1>1. /\ lw \in [Levels -> Seq(Table)] /\ Holds(lw, k, l, n)
      /\ lw[l][n].body[k] = t.body[k]
  BY ListedPlacesHold
<1>2. ASSUME NEW m, NEW i, Holds(lw, k, m, i), ~(m = l /\ i = n)
      PROVE  SearchedBefore(<<l, n>>, <<m, i>>)
  <2>1. Holds(lv, k, m, i) /\ ~HigherUp(m, l)
    BY <1>2, ListedPlacesHold
  <2>2. m \in Nat /\ i \in Nat /\ i <= Len(lv[m]) /\ Len(lv[m]) \in Nat
    BY <2>1, PlaceType
  <2>3. l \in Nat
    BY ParametersAreSane DEF Levels
  <2>4. m = l => i < n
    BY <2>2
  <2> QED
    BY <2>1, <2>2, <2>3, <2>4 DEF SearchedBefore, HigherUp
<1>3. IsFirst(lw, k, l, n)
  BY <1>1, <1>2 DEF IsFirst
<1>4. InTables(lw, k) = lw[l][n].body[k]
  <2>1. lw \in [Levels -> Seq(Table)]
    BY <1>1
  <2> QED
    BY <1>3, <2>1, FirstAnswers
<1> QED
  BY <1>1, <1>4

LEMMA EmptiedPlacesHold ==
  ASSUME NEW lv \in [Levels -> Seq(Table)], NEW l \in Levels, NEW k
  PROVE  \A m, i : /\ Holds(Emptied(lv, l), k, m, i) <=> Holds(lv, k, m, i) /\ m # l
                   /\ m # l /\ Holds(lv, k, m, i) => Keeps(lv, Emptied(lv, l), k, m, i)
<1>1. \A m \in Levels : Emptied(lv, l)[m] = IF m = l THEN <<>> ELSE lv[m]
  BY DEF Emptied
<1>2. DOMAIN <<>> = {}
  OBVIOUS
<1> QED
  BY <1>1, <1>2 DEF Holds, Keeps
-----------------------------------------------------------------------------
(***************************************************************************)
(* What the table that is about to be listed holds.                        *)
(***************************************************************************)

\* Its file has lost its end.
OutIsShort ==
  out # None /\ \E f \in files : f.level = OutLevel /\ f.id = out.id /\ f.body = Partial

OutBody == IF out = None THEN Empty ELSE out.body

\* The places of the tables that the running merge has read.
ReadPlaces == DOMAIN levels[lvl] \ unread

\* The memtable that is flushed, or a merge of the level that is compacted.
OutIsRight ==
  /\ pc = "install" => OutBody = imm \/ OutIsShort
  /\ pc = "unlink" => OutBody \in Merges(lvl, ReadPlaces) \/ OutIsShort

\* write_from_entries writes the table, or cuts it short.
LEMMA TableWrittenIsRight ==
  ASSUME TypeOK, NEW l \in Levels, NEW b \in Content, TableWritten(l, b), OutLevel' = l
  PROVE  OutBody' = b \/ OutIsShort'
<1>1. out' # None
  BY TableWrittenType
<1>2. CASE out' = [id |-> next_id, body |-> b]
  BY <1>1, <1>2 DEF OutBody
<1>3. CASE /\ files' = WriteFile(l, next_id, Partial)
           /\ out' = [id |-> next_id, body |-> Empty]
  <2>1. [level |-> l, id |-> next_id, body |-> Partial] \in files'
    BY <1>3 DEF WriteFile
  <2> QED
    BY <1>1, <1>3, <2>1 DEF OutIsShort
<1> QED
  BY <1>2, <1>3 DEF TableWritten

LEMMA MergesStay ==
  ASSUME UNCHANGED <<levels, lvl>>, NEW r
  PROVE  Merges(lvl, r)' = Merges(lvl, r)
BY DEF Merges, Kept, Entries, IsBottom

\* What a merge does not leave out it has read.
LEMMA LeavesTheRest ==
  ASSUME UNCHANGED <<levels, lvl>>, NEW r \in Readings(lvl), Leaves(r)
  PROVE  ReadPlaces' = r
BY ReadingsAreListed DEF Readings, Leaves, ReadPlaces

LEMMA NextOutIsRight ==
  ASSUME FilesInv, OutIsRight, [Next]_vars
  PROVE  OutIsRight'
<1> USE DEF FilesInv
<1>1. CASE FlushWrite
  <2>1. TableWritten(0, imm) /\ imm \in Content /\ pc' = "install" /\ UNCHANGED imm
    BY <1>1 DEF FlushWrite, TypeOK
  <2>2. OutLevel' = 0 /\ 0 \in Levels
    BY <2>1, ParametersAreSane DEF OutLevel, Levels
  <2> QED
    BY <2>1, <2>2, TableWrittenIsRight DEF OutIsRight
<1>2. CASE CompactWrite
  <2>1. PICK r \in Readings(lvl) : \E b \in Merges(lvl, r) :
                 TableWritten(lvl + 1, b) /\ Leaves(r)
    BY <1>2 DEF CompactWrite
  <2> PICK b \in Merges(lvl, r) : TableWritten(lvl + 1, b) /\ Leaves(r)
    BY <2>1
  <2>2. UNCHANGED <<levels, lvl>> /\ pc' = "unlink" /\ pc = "compact" /\ lvl + 1 < MaxLevel
    BY <1>2 DEF CompactWrite, MayCompact
  <2>3. lvl \in Levels /\ lvl + 1 \in Levels
    BY <2>2, ParametersAreSane DEF TypeOK, Levels
  <2>4. b \in Content /\ OutLevel' = lvl + 1
    BY <2>2, <2>3, MergesType DEF OutLevel
  <2>5. ReadPlaces' = r
    BY <2>2, LeavesTheRest
  <2>6. Merges(lvl, ReadPlaces)' = Merges(lvl, r)
    BY <2>2, <2>5, MergesStay
  <2> QED
    BY <2>2, <2>3, <2>4, <2>6, TableWrittenIsRight DEF OutIsRight
<1>3. CASE CompactToNothing
  <2>1. /\ UNCHANGED <<levels, lvl, out>>
        /\ pc = "compact" /\ pc' = "unlink"
    BY <1>3 DEF CompactToNothing, MayCompact, memory
  <2> PICK r \in Readings(lvl) : Empty \in Merges(lvl, r) /\ Leaves(r)
    BY <1>3 DEF CompactToNothing
  <2>2. out = None
    BY <2>1 DEF OutIsStored
  <2>3. ReadPlaces' = r
    BY <2>1, LeavesTheRest
  <2>4. Merges(lvl, ReadPlaces)' = Merges(lvl, r)
    BY <2>1, <2>3, MergesStay
  <2> QED
    BY <2>1, <2>2, <2>4 DEF OutIsRight, OutBody
<1>4. CASE Unlink
  <2>1. /\ UNCHANGED <<levels, lvl, out, unread, pc>> /\ pc = "unlink" /\ RemoveNext({lvl})
    BY <1>4 DEF Unlink, memory
  <2>2. lvl \in Levels /\ lvl \in Nat
    BY <2>1, ParametersAreSane DEF TypeOK, Levels
  <2>3. \A f \in files : f \notin files' => f.level = lvl
    BY <2>1, <2>2, RemoveNextKeeps
  <2>4. OutLevel = lvl + 1 /\ OutLevel' = lvl + 1 /\ lvl + 1 # lvl
    BY <2>1, <2>2 DEF OutLevel
  <2>5. OutIsShort => OutIsShort'
    BY <2>1, <2>3, <2>4 DEF OutIsShort
  <2>6. OutBody' = OutBody /\ Merges(lvl, ReadPlaces)' = Merges(lvl, ReadPlaces)
    BY <2>1, MergesStay DEF OutBody, ReadPlaces
  <2> QED
    BY <2>1, <2>5, <2>6 DEF OutIsRight
<1>5. CASE UNCHANGED vars
  <2>1. UNCHANGED <<levels, lvl, out, unread, pc, imm, files>>
    BY <1>5 DEF vars, memory, disk
  <2>2. Merges(lvl, ReadPlaces)' = Merges(lvl, ReadPlaces)
    BY <2>1, MergesStay DEF ReadPlaces
  <2> QED
    BY <2>1, <2>2 DEF OutIsRight, OutBody, OutIsShort, OutLevel
<1>6. CASE pc' \notin {"install", "unlink"}
  BY <1>6 DEF OutIsRight
<1>7. CASE Call
  BY <1>5, <1>6, <1>7 DEF Call, Put, Remove, Log, LogFails, TakeTimestamp, Clear, Read
<1>8. CASE Step
  BY <1>1, <1>2, <1>3, <1>4, <1>6, <1>8 DEF Step, Apply, FlushFails, FlushReturns, Install,
     CompactSkip, CompactDone, CompactFails, MayCompact, Replace, WipeFile, WipeDone
<1>9. CASE StopOrCrash \/ Open
  BY <1>6, <1>9 DEF StopOrCrash, Stop, Crash, CrashInLog, CrashInTable, Down, Open
<1> QED
  BY <1>5, <1>7, <1>8, <1>9 DEF Next

-----------------------------------------------------------------------------
(***************************************************************************)
(* What a merge keeps.                                                     *)
(***************************************************************************)

\* The key is in no table of the merged level, and in no merge of it.
LEMMA MergeOfNothing ==
  ASSUME NEW l \in Levels, NEW r, r \subseteq DOMAIN levels[l], NEW b \in Merges(l, r),
         NEW k \in Keys, \A i : ~Holds(levels, k, l, i)
  PROVE  b[k] = None
<1>1. Entries(l, r, k) = {}
  BY DEF Entries, Holds
<1>2. b[k] \in Kept(l, r, k)
  BY DEF Merges
<1> QED
  BY <1>1, <1>2 DEF Kept

\* A merge goes by timestamps: it keeps what get() finds if the tables of the
\* level are in the order of time.
MergesInOrder ==
  pc = "unlink" => \A k \in Keys : \A i, j \in DOMAIN levels[lvl] :
    (i < j /\ levels[lvl][j].body[k] # None)
      => Older(levels[lvl][i].body[k], levels[lvl][j].body[k].ts)

\* A merge drops no tombstone of a key that the next level holds.
TombstonesAreKept ==
  pc = "unlink" => \A k \in Keys :
    (/\ Entries(lvl, ReadPlaces, k) # {} /\ None \in Kept(lvl, ReadPlaces, k)
     /\ lvl + 1 \in Levels)
      => Entries(lvl + 1, DOMAIN levels[lvl + 1], k) = {}

LEMMA OrderedMerges == ASSUME OrderInv PROVE MergesInOrder
<1> SUFFICES ASSUME pc = "unlink", NEW k \in Keys,
                    NEW i \in DOMAIN levels[lvl], NEW j \in DOMAIN levels[lvl],
                    i < j, levels[lvl][j].body[k] # None
             PROVE  Older(levels[lvl][i].body[k], levels[lvl][j].body[k].ts)
  BY DEF MergesInOrder
<1>1. lvl \in Levels /\ levels[lvl] \in Seq(Table)
  BY ParametersAreSane DEF OrderInv, TypeOK, Levels
<1>2. SearchedBefore(<<lvl, j>>, <<lvl, i>>)
  BY <1>1 DEF SearchedBefore
<1>3. TablesInOrder(levels, k)
  BY DEF OrderInv, SearchOrderIsTimeOrder
<1> QED
  BY <1>1, <1>2, <1>3 DEF TablesInOrder

\* A merge keeps the version that get() finds on the level, if it has read
\* its table, unless it drops it as a tombstone with nothing two or more
\* levels further down.
LEMMA MergeKeepsNewest ==
  ASSUME TypeOK, NEW l \in Levels, NEW r, r \subseteq DOMAIN levels[l], NEW b \in Merges(l, r),
         NEW k \in Keys, NEW i \in r, Holds(levels, k, l, i),
         \A j : Holds(levels, k, l, j) =>
           j = i \/ Older(levels[l][j].body[k], levels[l][i].body[k].ts)
  PROVE  LET v == levels[l][i].body[k]
         IN  b[k] = v \/ (b[k] = None /\ IsBottom(l) /\ v.val = Tombstone)
<1> DEFINE v == levels[l][i].body[k]
<1>1. levels \in [Levels -> Seq(Table)]
  BY DEF TypeOK
<1>2. v \in Entries(l, r, k) /\ v \in Version
  BY <1>1, BodyType DEF Entries, Holds
<1>3. ASSUME NEW w \in Entries(l, r, k), w # v PROVE w.ts < v.ts /\ w.ts \in Nat
  <2>1. PICK j : Holds(levels, k, l, j) /\ w = levels[l][j].body[k]
    BY DEF Entries, Holds
  <2>2. Older(w, v.ts)
    BY <1>3, <2>1
  <2>3. w # None /\ w \in Version
    BY <1>1, <2>1, BodyType DEF Holds
  <2> QED
    BY <2>2, <2>3 DEF Older, Version
<1>4. v.ts \in Nat
  BY <1>2 DEF Version
<1> HIDE DEF v
<1>5. \A w \in Entries(l, r, k) : (\A u \in Entries(l, r, k) : u.ts <= w.ts) => w = v
  BY <1>2, <1>3, <1>4
<1>6. b[k] \in Kept(l, r, k)
  BY DEF Merges
<1>7. b[k] = IF IsBottom(l) /\ v.val = Tombstone THEN None ELSE v
  BY <1>2, <1>5, <1>6 DEF Kept
<1> QED
  BY <1>7 DEF v

\* Replacing the tables of the level by their merge changes what get() finds
\* of a key only if the merge has left its table out, or if get() finds a
\* tombstone, and then to what the next level holds.
LEMMA ReplaceFinds ==
  ASSUME TypeOK, OutIsStored, MergesInOrder, Replace, OutBody \in Merges(lvl, ReadPlaces),
         NEW k \in Keys
  PROVE  \/ InTables(levels, k)' = InTables(levels, k)
         \/ \E i \in unread : levels[lvl][i].body[k] = InTables(levels, k)
         \/ /\ Answer(InTables(levels, k)) = None
            /\ \/ InTables(levels, k)' = None
               \/ /\ lvl + 1 \in Levels /\ ~TombstonesAreKept
                  /\ \E j \in DOMAIN levels[lvl + 1] :
                       levels[lvl + 1][j].body[k] = InTables(levels, k)'
<1>1. pc = "unlink" /\ lvl \in Levels /\ levels \in [Levels -> Seq(Table)]
  BY ParametersAreSane DEF Replace, TypeOK, Levels
<1> PICK r : r = ReadPlaces
  OBVIOUS
<1>0. r \subseteq DOMAIN levels[lvl] /\ OutBody \in Merges(lvl, r)
  BY DEF ReadPlaces
<1>2. PICK elv : elv = Emptied(levels, lvl)
  OBVIOUS
<1>3. elv \in [Levels -> Seq(Table)]
  BY <1>1, <1>2, EmptiedType
<1>4. \A m, i : /\ Holds(elv, k, m, i) <=> Holds(levels, k, m, i) /\ m # lvl
                /\ m # lvl /\ Holds(levels, k, m, i) => Keeps(levels, elv, k, m, i)
  BY <1>1, <1>2, EmptiedPlacesHold
<1>5. levels' = IF out = None THEN elv ELSE Listed(elv, lvl + 1, out)
  BY <1>2 DEF Replace, Emptied
<1>6. out # None => out \in Table /\ lvl + 1 \in Levels
  BY <1>1 DEF OutIsStored, OutLevel, TypeOK
<1>7. ASSUME OutBody[k] = None PROVE InTables(levels', k) = InTables(elv, k)
  <2>1. CASE out = None
    BY <1>5, <2>1
  <2>2. CASE out # None
    <3>1. out.body[k] = None /\ levels' = Listed(elv, lvl + 1, out)
      BY <1>5, <1>7, <2>2 DEF OutBody
    <3> QED
      BY <1>3, <1>6, <2>2, <3>1, ListedWithout
  <2> QED
    BY <2>1, <2>2
<1>8. CASE \A i : ~Holds(levels, k, lvl, i)
  <2>1. OutBody[k] = None
    BY <1>0, <1>1, <1>8, MergeOfNothing
  <2>2. InTables(elv, k) = InTables(levels, k)
    <3>1. \A m, i : Holds(levels, k, m, i) => m # lvl
      BY <1>8
    <3> QED
      BY <1>1, <1>3, <1>4, <3>1, SameHolders
  <2> QED
    BY <1>7, <2>1, <2>2
<1>9. ASSUME NEW l, NEW i, IsFirst(levels, k, l, i), HigherUp(l, lvl)
      PROVE  InTables(levels', k) = InTables(levels, k)
  <2>1. l # lvl /\ HigherUp(l, lvl + 1)
    <3>1. l \in Nat /\ lvl \in Nat
      BY <1>1, <1>9, PlaceType, ParametersAreSane DEF IsFirst, Levels
    <3> QED
      BY <1>9, <3>1 DEF HigherUp
  <2>2. Keeps(levels, elv, k, l, i)
    BY <1>4, <1>9, <2>1 DEF IsFirst
  <2>3. InTables(elv, k) = InTables(levels, k)
    BY <1>1, <1>3, <1>4, <1>9, <2>2, FirstStays
  <2>4. IsFirst(elv, k, l, i)
    BY <1>4, <1>9, <2>2 DEF IsFirst, Keeps
  <2>5. out # None => InTables(Listed(elv, lvl + 1, out), k) = InTables(elv, k)
    BY <1>3, <1>6, <2>1, <2>4, ListedBelow
  <2> QED
    BY <1>5, <2>3, <2>5
<1>10. ASSUME NEW i \in r, IsFirst(levels, k, lvl, i)
       PROVE  \/ InTables(levels', k) = InTables(levels, k)
              \/ /\ Answer(InTables(levels, k)) = None
                 /\ \/ InTables(levels', k) = None
                    \/ /\ lvl + 1 \in Levels /\ ~TombstonesAreKept
                       /\ \E j \in DOMAIN levels[lvl + 1] :
                            levels[lvl + 1][j].body[k] = InTables(levels', k)
  <2>1. PICK v : v = levels[lvl][i].body[k]
    OBVIOUS
  <2>2. Holds(levels, k, lvl, i) /\ v # None /\ InTables(levels, k) = v
    BY <1>1, <1>10, <2>1, FirstAnswers DEF IsFirst, Holds
  <2>3. OutBody[k] = v \/ (OutBody[k] = None /\ IsBottom(lvl) /\ v.val = Tombstone)
    <3>1. levels[lvl] \in Seq(Table)
      BY <1>1
    <3>2. ASSUME NEW j, Holds(levels, k, lvl, j), j # i
          PROVE  Older(levels[lvl][j].body[k], v.ts)
      <4>1. j < i
        BY <1>1, <1>10, <3>1, <3>2, ParametersAreSane DEF IsFirst, SearchedBefore, Levels
      <4> QED
        BY <1>1, <2>1, <2>2, <3>2, <4>1 DEF MergesInOrder, Holds
    <3> QED
      BY <1>0, <1>1, <1>10, <2>1, <2>2, <3>2, MergeKeepsNewest
  <2>4. ASSUME NEW m, NEW j, Holds(elv, k, m, j)
        PROVE  /\ ~HigherUp(m, lvl + 1) /\ m \in Levels /\ m >= lvl + 1
               /\ Holds(levels, k, m, j) /\ elv[m][j].body[k] = levels[m][j].body[k]
    <3>1. Holds(levels, k, m, j) /\ m # lvl /\ Keeps(levels, elv, k, m, j)
      BY <1>4, <2>4
    <3>2. SearchedBefore(<<lvl, i>>, <<m, j>>)
      BY <1>10, <3>1 DEF IsFirst
    <3>3. m > lvl /\ m \in Nat /\ lvl \in Nat /\ m \in Levels
      BY <1>1, <2>2, <3>1, <3>2, PlaceType DEF SearchedBefore, Holds
    <3> QED
      BY <3>1, <3>3 DEF HigherUp, Keeps
  <2>5. CASE OutBody[k] = v
    <3>1. out # None /\ out.body[k] = v
      BY <2>2, <2>5 DEF OutBody, Empty
    <3>2. InTables(Listed(elv, lvl + 1, out), k) = v
      BY <1>3, <1>6, <2>2, <2>4, <3>1, ListedOnTop
    <3> QED
      BY <1>5, <2>2, <3>1, <3>2
  <2>6. CASE OutBody[k] = None /\ IsBottom(lvl) /\ v.val = Tombstone
    <3>1. Answer(InTables(levels, k)) = None
      BY <2>2, <2>6 DEF Answer
    <3>2. InTables(levels', k) = InTables(elv, k)
      BY <1>7, <2>6
    <3>3. CASE \A m, j : ~Holds(elv, k, m, j)
      BY <3>1, <3>2, <3>3, NowhereAnswers
    <3>4. CASE \E m, j : Holds(elv, k, m, j)
      <4>1. PICK m, j : IsFirst(elv, k, m, j)
        BY <1>3, <3>4, SomeFirst
      <4>2. InTables(elv, k) = elv[m][j].body[k] /\ Holds(elv, k, m, j)
        BY <1>3, <4>1, FirstAnswers DEF IsFirst
      <4>3. /\ m \in Levels /\ m >= lvl + 1 /\ j \in DOMAIN levels[m]
            /\ InTables(elv, k) = levels[m][j].body[k]
        BY <2>4, <4>2 DEF Holds
      <4>4. m = lvl + 1
        <5>1. m \in Nat /\ lvl \in Nat
          BY <1>1, <4>3, ParametersAreSane DEF Levels
        <5>2. ~(m >= lvl + 2)
          BY <2>6, <4>3 DEF IsBottom
        <5> QED
          BY <4>3, <5>1, <5>2
      <4>5. ~TombstonesAreKept
        <5>1. /\ Entries(lvl, r, k) # {}
              /\ Entries(lvl + 1, DOMAIN levels[lvl + 1], k) # {}
          BY <2>2, <2>4, <4>2, <4>4 DEF Entries, Holds
        <5>2. None \in Kept(lvl, r, k)
          BY <1>0, <1>1, <2>6 DEF Merges
        <5> QED
          BY <1>1, <4>3, <4>4, <5>1, <5>2 DEF TombstonesAreKept
      <4> QED
        BY <3>1, <3>2, <4>3, <4>4, <4>5
    <3> QED
      BY <3>3, <3>4
  <2> QED
    BY <2>3, <2>5, <2>6
<1>11. CASE \E i : Holds(levels, k, lvl, i)
  <2>1. PICK i0 : Holds(levels, k, lvl, i0)
    BY <1>11
  <2>2. PICK l, i : IsFirst(levels, k, l, i)
    BY <1>1, <2>1, SomeFirst
  <2>3. l = lvl \/ HigherUp(l, lvl)
    BY <2>1, <2>2 DEF IsFirst, SearchedBefore, HigherUp
  <2>4. CASE l = lvl /\ i \notin r
    <3>1. i \in unread /\ levels[lvl][i].body[k] = InTables(levels, k)
      BY <1>1, <2>2, <2>4, FirstAnswers DEF IsFirst, Holds, ReadPlaces
    <3> QED
      BY <3>1
  <2> QED
    BY <1>9, <1>10, <2>2, <2>3, <2>4
<1> QED
  BY <1>8, <1>11
\* Listing the table of the memtable that is flushed changes nothing.
LEMMA InstallFinds ==
  ASSUME TypeOK, Install, OutBody = imm, NEW k \in Keys
  PROVE  Visible(k)' = Visible(k)
<1>1. /\ levels' = Listed(levels, 0, out) /\ UNCHANGED mem /\ imm' = Empty
      /\ pc = "install" /\ out # None
  BY DEF Install, TypeOK
<1>2. out \in Table /\ out.body[k] = imm[k] /\ 0 \in Levels /\ levels \in [Levels -> Seq(Table)]
  BY <1>1, ParametersAreSane DEF OutBody, TypeOK, Levels
<1>3. CASE imm[k] = None
  <2>1. InTables(levels', k) = InTables(levels, k)
    BY <1>1, <1>2, <1>3, ListedWithout
  <2> QED
    BY <1>1, <1>3, <2>1 DEF Visible, Found, Empty
<1>4. CASE imm[k] # None
  <2>1. \A m, i : Holds(levels, k, m, i) => ~HigherUp(m, 0)
    BY <1>2, PlaceType DEF HigherUp
  <2>2. InTables(levels', k) = imm[k]
    BY <1>1, <1>2, <1>4, <2>1, ListedOnTop
  <2> QED
    BY <1>1, <1>4, <2>2 DEF Visible, Found, Empty
<1> QED
  BY <1>3, <1>4

\* maybe_flush rotates: what was in the memtable is in the immutable one.
LEMMA FlushReturnsFinds ==
  ASSUME TypeOK, FlushReturns, pc \in {"flush", "compact"}, UNCHANGED levels, NEW k \in Keys
  PROVE  Visible(k)' = Visible(k) \/ DropsImmutable(k)
BY DEF FlushReturns, DropsImmutable, Visible, Found, Empty

-----------------------------------------------------------------------------
(***************************************************************************)
(* What the background steps may change for a get.                         *)
(***************************************************************************)

ReturnsFromNextLevel(k) ==
  /\ pc = "unlink" /\ lvl + 1 \in Levels
  /\ \E i \in DOMAIN levels[lvl + 1] : Answer(levels[lvl + 1][i].body[k]) = Visible(k)'

LEMMA BackgroundFinds ==
  ASSUME FilesInv, OutIsRight, MergesInOrder, [Next]_vars, InBackground, pc' # "down",
         NEW k \in Keys
  PROVE  \/ Visible(k)' = Visible(k)
         \/ DropsImmutable(k)
         \/ LeavesOut(k)
         \/ pc \in {"install", "unlink"} /\ OutIsShort
         \/ Visible(k) = None /\ ReturnsFromNextLevel(k) /\ ~TombstonesAreKept
<1>1. TypeOK /\ TypeOK'
  BY NextType DEF FilesInv
<1>2. CASE UNCHANGED <<mem, imm, levels>>
  BY <1>2 DEF Visible, Found
<1>3. CASE FlushFails \/ CompactDone
  BY <1>1, <1>3, FlushReturnsFinds DEF FlushFails, CompactDone
<1>4. CASE Install
  BY <1>1, <1>4, InstallFinds DEF Install, OutIsRight
<1>5. CASE Replace /\ OutBody \in Merges(lvl, ReadPlaces)
  <2>1. UNCHANGED <<mem, imm>> /\ pc = "unlink"
    BY <1>5 DEF Replace
  <2>2. \/ InTables(levels, k)' = InTables(levels, k)
        \/ \E i \in unread : levels[lvl][i].body[k] = InTables(levels, k)
        \/ /\ Answer(InTables(levels, k)) = None
           /\ \/ InTables(levels, k)' = None
              \/ /\ lvl + 1 \in Levels /\ ~TombstonesAreKept
                 /\ \E j \in DOMAIN levels[lvl + 1] :
                      levels[lvl + 1][j].body[k] = InTables(levels, k)'
    BY <1>1, <1>5, ReplaceFinds DEF FilesInv
  <2>3. CASE mem[k] # None \/ imm[k] # None
    BY <2>1, <2>3 DEF Visible, Found
  <2>4. CASE mem[k] = None /\ imm[k] = None
    <3>1. /\ Visible(k) = Answer(InTables(levels, k))
          /\ Visible(k)' = Answer(InTables(levels, k)')
      BY <2>1, <2>4 DEF Visible, Found, Answer
    <3> QED
      BY <2>1, <2>2, <3>1 DEF ReturnsFromNextLevel, LeavesOut, Answer
  <2> QED
    BY <2>3, <2>4
<1>6. CASE Replace /\ OutIsShort
  BY <1>6 DEF Replace
<1>7. CASE Replace
  BY <1>5, <1>6, <1>7 DEF Replace, OutIsRight
<1>8. CASE Step
  BY <1>2, <1>3, <1>4, <1>7, <1>8 DEF InBackground, Step, Apply, FlushWrite, CompactSkip,
     CompactToNothing, CompactWrite, CompactFails, Unlink, WipeFile, WipeDone, memory, disk
<1>9. CASE UNCHANGED vars
  BY <1>2, <1>9 DEF vars, memory
<1>10. ~Call /\ ~StopOrCrash /\ ~Open
  BY DEF InBackground, Call, Put, Remove, Log, LogFails, TakeTimestamp, Clear, Read,
     StopOrCrash, Stop, Crash, CrashInLog, CrashInTable, Down, Open
<1> QED
  BY <1>8, <1>9, <1>10 DEF Next

\* Nothing is cut short if every table is written whole.
NoneIsShort == \A f \in files : f.body # Partial

LEMMA NextNoneIsShort ==
  ASSUME Faults \cap {"sstFails", "sstShort"} = {}, TypeOK, NoneIsShort, ~StopOrCrash, [Next]_vars
  PROVE  NoneIsShort'
<1>1. "sstFails" \notin Faults /\ "sstShort" \notin Faults
  OBVIOUS
<1>2. CASE FlushWrite
  <2>1. files' = WriteFile(0, next_id, imm) /\ imm # Partial
    BY <1>1, <1>2, MarkersAreNotData DEF FlushWrite, TableWritten, TypeOK
  <2> QED
    BY <2>1 DEF NoneIsShort, WriteFile
<1>3. CASE CompactWrite
  <2>1. lvl \in Levels
    BY <1>3, ParametersAreSane DEF CompactWrite, MayCompact, TypeOK, Levels
  <2>2. PICK r \in Readings(lvl) : \E b \in Merges(lvl, r) :
                 files' = WriteFile(lvl + 1, next_id, b)
    BY <1>1, <1>3 DEF CompactWrite, TableWritten
  <2> PICK b \in Merges(lvl, r) : files' = WriteFile(lvl + 1, next_id, b)
    BY <2>2
  <2>3. b # Partial
    BY <2>1, MergesType, MarkersAreNotData
  <2> QED
    BY <2>3 DEF NoneIsShort, WriteFile
<1>4. CASE files' \subseteq files
  BY <1>4 DEF NoneIsShort
<1>5. CASE Unlink \/ WipeFile
  <2>1. ASSUME NEW L, RemoveNext(L) PROVE files' \subseteq files
    BY <2>1 DEF RemoveNext
  <2> QED
    BY <1>4, <1>5, <2>1 DEF Unlink, WipeFile
<1>6. CASE Step
  BY <1>1, <1>2, <1>3, <1>4, <1>5, <1>6 DEF Step, Apply, FlushFails, Install, CompactSkip,
     CompactDone, CompactToNothing, CompactFails, MayCompact, Replace, WipeDone, disk, memory
<1>7. CASE Call \/ Open \/ UNCHANGED vars
  BY <1>4, <1>7 DEF Call, Put, Remove, Log, LogFails, Clear, Read, Open, vars, disk
<1> QED
  BY <1>6, <1>7 DEF Next

\* The file of the table that is about to be listed has lost its end.
LEMMA ShortTables ==
  ASSUME TypeOK, pc \in {"install", "unlink"}, OutIsShort
  PROVE  ShortTable
<1>1. CASE pc = "install"
  BY <1>1 DEF OutIsShort, OutLevel, ShortTable, ShortTableOn, FilesOf
<1>2. CASE pc = "unlink"
  BY <1>2 DEF OutIsShort, OutLevel, ShortTable, ShortTableOn, FilesOf
<1> QED
  BY <1>1, <1>2

\* All that the action properties are proved from.
LifetimeInv == OrderInv /\ FilesInv /\ OutIsRight

LEMMA LifetimeInvHolds == ASSUME MaxStops = 0 PROVE Spec => []LifetimeInv
<1>1. Init => LifetimeInv
  BY InitOrder, InitFiles DEF Init, OutIsRight, LifetimeInv
<1>2. LifetimeInv /\ [Next]_vars => LifetimeInv'
  <2> SUFFICES ASSUME LifetimeInv, [Next]_vars PROVE LifetimeInv'
    OBVIOUS
  <2>1. RecoveryMeetsOneLength
    BY DEF LifetimeInv, OrderInv, RecoveryMeetsOneLength
  <2>2. TypeOK'
    BY NextType DEF LifetimeInv, OrderInv
  <2>3. stops' = 0
    BY <2>2 DEF TypeOK
  <2> QED
    BY <2>1, <2>3, NextOrder, NextFiles, NextOutIsRight DEF LifetimeInv
<1> QED
  BY <1>1, <1>2, PTL DEF Spec

LEMMA NoneIsEverShort ==
  ASSUME MaxStops = 0, Faults \cap {"sstFails", "sstShort"} = {}
  PROVE  Spec => []NoneIsShort
<1>1. Init => NoneIsShort
  BY DEF Init, NoneIsShort
<1>2. TypeOK /\ NoneIsShort /\ [Next]_vars => NoneIsShort'
  <2> SUFFICES ASSUME TypeOK, NoneIsShort, [Next]_vars PROVE NoneIsShort'
    OBVIOUS
  <2>1. ~StopOrCrash
    BY DEF TypeOK, StopOrCrash, Stop, Crash, CrashInLog, CrashInTable, Down
  <2> QED
    BY <2>1, NextNoneIsShort
<1> QED
  BY TypeCorrect, <1>1, <1>2, PTL DEF Spec

\* No merge leaves a table out if every table can be read.
AllRead == unread = {}

LEMMA NextAllRead ==
  ASSUME "readFails" \notin Faults, AllRead, [Next]_vars
  PROVE  AllRead'
<1>1. CASE UNCHANGED unread
  BY <1>1 DEF AllRead
<1>2. CASE CompactToNothing \/ CompactWrite
  <2>1. PICK r \in Readings(lvl) : Leaves(r)
    BY <1>2 DEF CompactToNothing, CompactWrite
  <2> QED
    BY <2>1 DEF Readings, Leaves, AllRead
<1>3. CASE Replace \/ Down
  BY <1>3 DEF Replace, Down, AllRead
<1> QED
  BY <1>1, <1>2, <1>3 DEF Next, vars, Call, Put, Remove, Log, LogFails, Clear, Read, Step,
     Apply, FlushWrite, FlushFails, Install, CompactSkip, CompactDone, CompactFails, Unlink,
     WipeFile, WipeDone, StopOrCrash, Stop, Crash, CrashInLog, CrashInTable, Open

LEMMA AllIsAlwaysRead == ASSUME "readFails" \notin Faults PROVE Spec => []AllRead
<1>1. Init => AllRead
  BY DEF Init, AllRead
<1>2. AllRead /\ [Next]_vars => AllRead'
  BY NextAllRead
<1> QED
  BY <1>1, <1>2, PTL DEF Spec

\* In one lifetime of the process, whatever writes and reads fail, a flush, a
\* merge or a retry loses a value that get finds in no other way than by
\* dropping the immutable memtable of a flush that failed twice, by a merge
\* that cannot read the table that holds it, or by a file cut short.
THEOREM ValuesAreLostOnlyByDrop ==
  ASSUME MaxStops = 0
  PROVE  Spec => LiveLostOnlyByDrop
<1>1. LifetimeInv /\ [Next]_vars =>
        [ (InBackground /\ pc' # "down")
            => \A k \in Keys : (Visible(k) \in Values /\ Visible(k)' # Visible(k))
                 => DropsImmutable(k) \/ LeavesOut(k) \/ ShortTable ]_memory
  <2> SUFFICES ASSUME LifetimeInv, [Next]_vars, InBackground, pc' # "down",
                      NEW k \in Keys, Visible(k) \in Values, Visible(k)' # Visible(k)
               PROVE  DropsImmutable(k) \/ LeavesOut(k) \/ ShortTable
    OBVIOUS
  <2>1. Visible(k) # None
    BY MarkersAreNotData
  <2>2. DropsImmutable(k) \/ LeavesOut(k) \/ (pc \in {"install", "unlink"} /\ OutIsShort)
    BY <2>1, OrderedMerges, BackgroundFinds DEF LifetimeInv
  <2> QED
    BY <2>2, ShortTables DEF LifetimeInv, OrderInv
<1> QED
  BY LifetimeInvHolds, <1>1, PTL DEF Spec, LiveLostOnlyByDrop

\* If tables do not fail to be written or read, no value is lost at all: whatever is
\* flushed, merged, listed or removed, get goes on finding it.
THEOREM ValuesAreKept ==
  ASSUME MaxStops = 0, Faults \cap {"sstFails", "sstShort", "readFails"} = {}
  PROVE  Spec => LiveValuesKept
<1>1. LifetimeInv /\ FlushIsDone /\ NoneIsShort /\ AllRead /\ [Next]_vars =>
        [ (InBackground /\ pc' # "down")
            => \A k \in Keys : Visible(k) \in Values => Visible(k)' = Visible(k) ]_vars
  <2> SUFFICES ASSUME LifetimeInv, FlushIsDone, NoneIsShort, AllRead, [Next]_vars, InBackground,
                      pc' # "down", NEW k \in Keys, Visible(k) \in Values
               PROVE  Visible(k)' = Visible(k)
    OBVIOUS
  <2>1. Visible(k) # None
    BY MarkersAreNotData
  <2>2. ~DropsImmutable(k) /\ ~OutIsShort /\ ~LeavesOut(k)
    BY DEF FlushIsDone, NoneIsShort, AllRead, DropsImmutable, OutIsShort, LeavesOut
  <2> QED
    BY <2>1, <2>2, OrderedMerges, BackgroundFinds DEF LifetimeInv
<1>2. Spec => []FlushIsDone /\ []NoneIsShort /\ []AllRead
  BY FlushIsAlwaysDone, NoneIsEverShort, AllIsAlwaysRead
<1> QED
  BY LifetimeInvHolds, <1>1, <1>2, PTL DEF Spec, LiveValuesKept

\* And a deleted key comes back in one way only: its tombstone is dropped by a
\* merge whose next level holds the key.
THEOREM DeletedReturnsOnlyByMerge ==
  ASSUME MaxStops = 0, Faults \cap {"sstFails", "sstShort", "readFails"} = {}
  PROVE  Spec => DeletedReturnsOnlyFromNextLevel
<1>1. LifetimeInv /\ FlushIsDone /\ NoneIsShort /\ AllRead /\ [Next]_vars =>
        [ (InBackground /\ pc' # "down")
            => \A k \in Keys : (Visible(k) = None /\ Visible(k)' # None)
                 => /\ pc = "unlink" /\ lvl + 1 \in Levels
                    /\ \E i \in DOMAIN levels[lvl + 1] :
                         Answer(levels[lvl + 1][i].body[k]) = Visible(k)' ]_vars
  <2> SUFFICES ASSUME LifetimeInv, FlushIsDone, NoneIsShort, AllRead, [Next]_vars, InBackground,
                      pc' # "down", NEW k \in Keys, Visible(k) = None, Visible(k)' # None
               PROVE  ReturnsFromNextLevel(k)
    BY DEF ReturnsFromNextLevel
  <2>1. ~DropsImmutable(k) /\ ~OutIsShort /\ ~LeavesOut(k)
    BY DEF FlushIsDone, NoneIsShort, AllRead, DropsImmutable, OutIsShort, LeavesOut
  <2> QED
    BY <2>1, OrderedMerges, BackgroundFinds DEF LifetimeInv
<1>2. Spec => []FlushIsDone /\ []NoneIsShort /\ []AllRead
  BY FlushIsAlwaysDone, NoneIsEverShort, AllIsAlwaysRead
<1> QED
  BY LifetimeInvHolds, <1>1, <1>2, PTL DEF Spec, DeletedReturnsOnlyFromNextLevel
===========================================================================
