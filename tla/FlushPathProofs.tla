--------------------------- MODULE FlushPathProofs ---------------------------
(***************************************************************************)
(* The way of the entries from the memtable into a table and back.         *)
(*                                                                         *)
(* The skip list is right for any set of keys, any number of levels and    *)
(* any heights of its nodes: it is linked on every level, searches find    *)
(* what was inserted, walks pass everything in order, and the running      *)
(* total is the sum of the entries' sizes.  The encoding of entries is     *)
(* right for any entries, and the Bloom filter of a table, as it was built *)
(* and as it is read back, excludes no key that was written, for any keys  *)
(* and any hash functions.  What is found in a table is what was written:  *)
(* the data region is a chain of records, the index holds where each of    *)
(* them begins, the binary search finds the key, and whatever the object   *)
(* has loaded, after any failed opens, is right.                           *)
(***************************************************************************)
EXTENDS FlushPath, Induction, SequenceTheorems

-----------------------------------------------------------------------------
(***************************************************************************)
(* The skip list.                                                          *)
(***************************************************************************)

Nodes == Keys \union {header}
Alive == Present \union {header}

\* Node x, or no node, comes next behind n on level i.
NextOn(n, i, x) ==
  \/ x = Nil /\ \A m \in Present : ~(m > n /\ Len(forward[m]) >= i)
  \/ /\ x \in Present /\ x > n /\ Len(forward[x]) >= i
     /\ \A m \in Present : m > n /\ Len(forward[m]) >= i => x <= m

ListTypeOK ==
  /\ forward \in [Nodes -> Seq(Keys \union {Nil})]
  /\ Len(forward[header]) = MAX_LEVEL
  /\ value \in [Keys -> Entries \union {Nil}]
  /\ num_current_level_ \in Levels

Linkage == \A n \in Alive : \A i \in 1 .. Len(forward[n]) : NextOn(n, i, forward[n][i])

SizeOK == IsFiniteSet(Present) /\ size_ = Cardinality(Present)

ListOK ==
  /\ ListTypeOK /\ Linkage /\ SizeOK
  /\ \A k \in Present : Len(forward[k]) \in 1 .. num_current_level_

\* Node n is the last one before the key on level i.
LastBefore(i, n) ==
  /\ n \in Alive /\ n < key /\ i <= Len(forward[n])
  /\ \A m \in Present : m > n /\ Len(forward[m]) >= i => key <= m

Searches == pc \in {"find", "insert", "get"}

SearchOK ==
  /\ pc \in {"find", "insert"} => entry \in Entries
  /\ Searches =>
       /\ key \in Keys
       /\ current \in Alive /\ current < key
       /\ level \in 0 .. num_current_level_ /\ level <= Len(forward[current])
       /\ update \in [Levels -> Nodes \union {Nil}]
       /\ \A i \in level + 1 .. num_current_level_ : LastBefore(i, update[i])
       /\ level = 0 => current = update[1]

WalkOK ==
  pc = "collect" =>
    /\ current \in Alive /\ collected \in Seq(Keys)
    /\ \A i \in 1 .. Len(collected) : collected[i] <= current
    /\ \A i, j \in 1 .. Len(collected) : i < j => collected[i] < collected[j]
    /\ \A k \in Present : k <= current => \E i \in 1 .. Len(collected) : collected[i] = k

SkipInv == ListOK /\ SearchOK /\ WalkOK

-----------------------------------------------------------------------------
LEMMA NodesAreNumbers ==
  /\ Keys \subseteq Nat \ {0} /\ header = 0 /\ Nodes \subseteq Nat /\ Nil \notin Nodes
  /\ Present \subseteq Keys /\ Alive \subseteq Nodes
  /\ Keys \subseteq Nodes /\ Nil \notin Keys /\ Keys \subseteq Nat
  /\ MAX_LEVEL \in Nat \ {0} /\ Nil \notin Entries
BY KeysAreNumbers, MaxLevelIsPositive, EntriesAreSane DEF Nodes, header, Present, Alive

\* The heights of the nodes.
LEMMA Heights ==
  ASSUME ListOK
  PROVE  /\ num_current_level_ \in Nat \ {0} /\ num_current_level_ <= MAX_LEVEL
         /\ \A n \in Nodes : /\ forward[n] \in Seq(Keys \union {Nil})
                             /\ Len(forward[n]) \in Nat /\ DOMAIN forward[n] = 1 .. Len(forward[n])
         /\ \A n \in Alive : Len(forward[n]) \in Nat \ {0}
         /\ \A k \in Present : /\ Len(forward[k]) <= num_current_level_ /\ Len(forward[k]) >= 1
                              /\ Len(forward[k]) \in Nat /\ k \in Nat
         /\ Len(forward[header]) = MAX_LEVEL
<1>1. num_current_level_ \in Nat \ {0} /\ num_current_level_ <= MAX_LEVEL
  BY NodesAreNumbers DEF ListOK, ListTypeOK, Levels
<1>2. \A n \in Nodes : forward[n] \in Seq(Keys \union {Nil})
  BY DEF ListOK, ListTypeOK
<1>3. \A n \in Nodes : Len(forward[n]) \in Nat /\ DOMAIN forward[n] = 1 .. Len(forward[n])
  BY <1>2
<1>4. Len(forward[header]) = MAX_LEVEL
  BY DEF ListOK, ListTypeOK
<1>5. \A k \in Present : Len(forward[k]) \in Nat \ {0} /\ Len(forward[k]) <= num_current_level_
  BY <1>1 DEF ListOK
<1>6. \A n \in Alive : Len(forward[n]) \in Nat \ {0}
  BY <1>4, <1>5, NodesAreNumbers DEF Alive
<1>7. \A k \in Present : Len(forward[k]) >= 1 /\ Len(forward[k]) \in Nat /\ k \in Nat
  BY <1>5, NodesAreNumbers
<1> QED
  BY <1>1, <1>2, <1>3, <1>4, <1>5, <1>6, <1>7

LEMMA SameList ==
  ASSUME ListOK, UNCHANGED list
  PROVE  ListOK'
<1>1. forward' = forward /\ value' = value
      /\ num_current_level_' = num_current_level_ /\ size_' = size_
  BY DEF list
<1>2. Present' = Present /\ Alive' = Alive
  BY <1>1 DEF Present, Alive
<1>3. Linkage'
  BY <1>1, <1>2 DEF ListOK, Linkage, NextOn
<1> QED
  BY <1>1, <1>2, <1>3 DEF ListOK, ListTypeOK, SizeOK

LEMMA EmptiedIsOK ==
  ASSUME Emptied
  PROVE  ListOK'
<1>1. /\ forward' = [n \in Nodes |-> IF n = header THEN NoUpdate ELSE <<>>]
      /\ value' = [k \in Keys |-> Nil]
      /\ num_current_level_' = 1 /\ size_' = 0
  BY DEF Emptied, Nodes
<1>2. Present' = {}
  BY <1>1 DEF Present
<1>3. NoUpdate \in Seq(Keys \union {Nil}) /\ Len(NoUpdate) = MAX_LEVEL
      /\ \A i \in 1 .. MAX_LEVEL : NoUpdate[i] = Nil
  BY NodesAreNumbers DEF NoUpdate, Levels
<1>4. ListTypeOK'
  <2>1. header \in Nodes /\ <<>> \in Seq(Keys \union {Nil})
    BY DEF Nodes
  <2>2. forward' \in [Nodes -> Seq(Keys \union {Nil})] /\ forward'[header] = NoUpdate
    BY <1>1, <1>3, <2>1
  <2> QED
    BY <1>1, <1>3, <2>2, NodesAreNumbers DEF ListTypeOK, Levels
<1>5. Linkage'
  <2>1. Alive' = {header}
    BY <1>2 DEF Alive
  <2>2. forward'[header] = NoUpdate
    BY <1>1 DEF Nodes
  <2> QED
    BY <1>2, <1>3, <2>1, <2>2 DEF Linkage, NextOn
<1>6. SizeOK'
  BY <1>1, <1>2, FS_EmptySet DEF SizeOK
<1> QED
  BY <1>2, <1>4, <1>5, <1>6 DEF ListOK

LEMMA InitIsOK ==
  ASSUME ListInit
  PROVE  ListOK
<1>1. /\ forward = [n \in Nodes |-> IF n = header THEN NoUpdate ELSE <<>>]
      /\ value = [k \in Keys |-> Nil]
      /\ num_current_level_ = 1 /\ size_ = 0
  BY DEF ListInit, Nodes
<1>2. Present = {}
  BY <1>1 DEF Present
<1>3. NoUpdate \in Seq(Keys \union {Nil}) /\ Len(NoUpdate) = MAX_LEVEL
      /\ \A i \in 1 .. MAX_LEVEL : NoUpdate[i] = Nil
  BY NodesAreNumbers DEF NoUpdate, Levels
<1>4. ListTypeOK
  <2>1. header \in Nodes /\ <<>> \in Seq(Keys \union {Nil})
    BY DEF Nodes
  <2>2. forward \in [Nodes -> Seq(Keys \union {Nil})] /\ forward[header] = NoUpdate
    BY <1>1, <1>3, <2>1
  <2> QED
    BY <1>1, <1>3, <2>2, NodesAreNumbers DEF ListTypeOK, Levels
<1>5. Linkage
  <2>1. Alive = {header}
    BY <1>2 DEF Alive
  <2>2. forward[header] = NoUpdate
    BY <1>1 DEF Nodes
  <2> QED
    BY <1>2, <1>3, <2>1, <2>2 DEF Linkage, NextOn
<1>6. SizeOK
  BY <1>1, <1>2, FS_EmptySet DEF SizeOK
<1> QED
  BY <1>2, <1>4, <1>5, <1>6 DEF ListOK

-----------------------------------------------------------------------------
(***************************************************************************)
(* Searching.                                                              *)
(***************************************************************************)

\* A search begins at the header, on the highest level that is in use.
LEMMA SearchBegins ==
  ASSUME ListOK, UNCHANGED list, BeginSearch, key' \in Keys,
         pc' \in {"find", "insert"} => entry' \in Entries, pc' # "collect"
  PROVE  SearchOK' /\ WalkOK'
<1>1. /\ current' = header /\ level' = num_current_level_ /\ update' = NoUpdate
      /\ forward' = forward /\ value' = value /\ num_current_level_' = num_current_level_
  BY DEF BeginSearch, list
<1>2. /\ num_current_level_ \in Nat \ {0} /\ num_current_level_ <= Len(forward[header])
      /\ header < key' /\ header \in Alive'
  BY Heights, NodesAreNumbers DEF Alive
<1>3. update' \in [Levels -> Nodes \union {Nil}]
  BY <1>1 DEF NoUpdate
<1> QED
  BY <1>1, <1>2, <1>3 DEF SearchOK, WalkOK

\* What stands before the key.
LEMMA IsBeforeMeans ==
  ASSUME ListOK, NEW n \in Alive, NEW i \in 1 .. Len(forward[n]), NEW k \in Keys
  PROVE  /\ IsBefore(forward[n][i], k) =>
              /\ forward[n][i] \in Present /\ forward[n][i] < k
              /\ i <= Len(forward[forward[n][i]])
         /\ ~IsBefore(forward[n][i], k) =>
              \A m \in Present : m > n /\ Len(forward[m]) >= i => k <= m
<1>1. NextOn(n, i, forward[n][i])
  BY DEF ListOK, Linkage
<1>2. \A m \in Present : m \in Nat /\ m # Nil /\ Len(forward[m]) \in Nat
  BY NodesAreNumbers, Heights
<1>3. k \in Nat
  BY NodesAreNumbers
<1> QED
  BY <1>1, <1>2, <1>3 DEF NextOn, IsBefore

LEMMA WalkKeeps == ASSUME SkipInv, Walk PROVE SkipInv'
<1>1. /\ Searches /\ Step(key) /\ UNCHANGED list
      /\ pc' = pc /\ key' = key /\ entry' = entry
  BY DEF Walk, Step, tableRest, Searches
<1>2. ListOK'
  BY <1>1, SameList DEF SkipInv
<1>3. WalkOK'
  BY <1>1 DEF WalkOK, Searches
<1>4. /\ forward' = forward /\ num_current_level_' = num_current_level_
      /\ Present' = Present /\ Alive' = Alive
  BY <1>1 DEF list, Present, Alive
<1>5. /\ key \in Keys /\ current \in Alive /\ current < key
      /\ level \in 0 .. num_current_level_ /\ level <= Len(forward[current])
      /\ update \in [Levels -> Nodes \union {Nil}]
      /\ \A i \in level + 1 .. num_current_level_ : LastBefore(i, update[i])
  BY <1>1 DEF SkipInv, SearchOK
<1>6. num_current_level_ \in Nat \ {0} /\ num_current_level_ <= MAX_LEVEL /\ MAX_LEVEL \in Nat
  BY Heights, NodesAreNumbers DEF SkipInv
<1>7. level > 0
  BY <1>1 DEF Step, Right, Down
<1>8. level \in 1 .. Len(forward[current]) /\ level \in Levels /\ level \in Nat
  BY <1>5, <1>6, <1>7, Heights DEF SkipInv, Levels
<1>9. \A i, n : LastBefore(i, n)' <=> LastBefore(i, n)
  BY <1>1, <1>4 DEF LastBefore
<1>10. CASE Right(key)
  <2>1. /\ IsBefore(forward[current][level], key) /\ current' = forward[current][level]
        /\ UNCHANGED <<level, update>>
    BY <1>10 DEF Right
  <2>2. /\ current' \in Present /\ current' < key /\ level <= Len(forward[current'])
    BY <1>5, <1>8, <2>1, IsBeforeMeans DEF SkipInv
  <2>3. \A i \in level + 1 .. num_current_level_ : LastBefore(i, update[i])'
    BY <1>5, <1>9, <2>1 DEF LastBefore
  <2> QED
    BY <1>1, <1>2, <1>3, <1>4, <1>5, <1>7, <2>1, <2>2, <2>3 DEF SkipInv, SearchOK, Alive
<1>11. CASE Down(key)
  <2>1. /\ ~IsBefore(forward[current][level], key) /\ current' = current
        /\ update' = [update EXCEPT ![level] = current] /\ level' = level - 1
    BY <1>11 DEF Down
  <2>2. LastBefore(level, current)
    BY <1>5, <1>8, <2>1, IsBeforeMeans DEF SkipInv, LastBefore
  <2>3. update' \in [Levels -> Nodes \union {Nil}] /\ update'[level] = current
    BY <1>5, <1>8, <2>1, NodesAreNumbers
  <2>4. ASSUME NEW i \in level' + 1 .. num_current_level_
        PROVE  LastBefore(i, update'[i])
    <3>1. i \in Levels /\ (i = level \/ i \in level + 1 .. num_current_level_)
      BY <1>6, <1>8, <2>1 DEF Levels
    <3>2. i # level => update'[i] = update[i]
      BY <1>5, <2>1, <3>1
    <3> QED
      BY <1>5, <2>2, <2>3, <3>1, <3>2
  <2>5. \A i \in level' + 1 .. num_current_level_ : LastBefore(i, update[i])'
    BY <1>1, <1>4, <2>4 DEF LastBefore
  <2>6. level' \in 0 .. num_current_level_ /\ level' <= Len(forward[current])
    BY <1>5, <1>6, <1>8, <2>1, Heights DEF SkipInv
  <2>7. level' = 0 => current' = update'[1]
    BY <1>8, <2>1, <2>3
  <2> QED
    BY <1>1, <1>2, <1>3, <1>4, <1>5, <2>1, <2>3, <2>5, <2>6, <2>7 DEF SkipInv, SearchOK
<1> QED
  BY <1>1, <1>10, <1>11 DEF Step

\* A search that is through has found the place of the key.
LEMMA SearchEnds ==
  ASSUME SkipInv, Searches, level = 0
  PROVE  /\ key \in Keys
         /\ \A i \in 1 .. num_current_level_ : LastBefore(i, update[i])
         /\ Hit(key) <=> key \in Present
<1>1. /\ key \in Keys /\ current \in Alive /\ current < key /\ current = update[1]
      /\ \A i \in 1 .. num_current_level_ : LastBefore(i, update[i])
  BY DEF SkipInv, SearchOK
<1>2. num_current_level_ \in Nat \ {0} /\ Len(forward[current]) \in Nat \ {0}
  BY <1>1, Heights DEF SkipInv
<1>3. LastBefore(1, current)
  BY <1>1, <1>2
<1>4. NextOn(current, 1, forward[current][1])
  BY <1>1, <1>2 DEF SkipInv, ListOK, Linkage
<1>5. \A m \in Present : Len(forward[m]) >= 1 /\ m \in Nat
  BY Heights DEF SkipInv
<1>6. key \in Nat /\ key # Nil /\ current \in Nat
  BY <1>1, NodesAreNumbers
<1> QED
  BY <1>1, <1>3, <1>4, <1>5, <1>6 DEF LastBefore, NextOn, Hit

-----------------------------------------------------------------------------
(***************************************************************************)
(* Inserting.                                                              *)
(***************************************************************************)

LEMMA OverwriteIsOK ==
  ASSUME SkipInv, pc = "insert", level = 0, Overwrite(key, entry)
  PROVE  ListOK'
<1>1. /\ Hit(key) /\ value' = [value EXCEPT ![key] = entry]
      /\ forward' = forward /\ num_current_level_' = num_current_level_ /\ size_' = size_
  BY DEF Overwrite
<1>2. key \in Present /\ entry \in Entries /\ Nil \notin Entries
  BY <1>1, SearchEnds, NodesAreNumbers DEF Searches, SkipInv, SearchOK
<1>3. value \in [Keys -> Entries \union {Nil}]
  BY DEF SkipInv, ListOK, ListTypeOK
<1>4. value' \in [Keys -> Entries \union {Nil}] /\ Present' = Present
  BY <1>1, <1>2, <1>3 DEF Present
<1>5. Linkage'
  <2>1. Alive' = Alive
    BY <1>1, <1>4 DEF Alive
  <2>2. Linkage
    BY DEF SkipInv, ListOK
  <2>3. \A n, i, x : NextOn(n, i, x)' <=> NextOn(n, i, x)
    BY <1>1, <1>4 DEF NextOn
  <2> QED
    BY <1>1, <2>1, <2>2, <2>3 DEF Linkage
<1> QED
  BY <1>1, <1>4, <1>5 DEF SkipInv, ListOK, ListTypeOK, SizeOK

\* Each level has a last node before the new one, also the levels that were
\* not in use.
LEMMA Predecessors ==
  ASSUME SkipInv, pc = "insert", level = 0, NEW i \in Levels
  PROVE  LastBefore(i, Predecessor(i))
<1>1. /\ key \in Keys /\ \A j \in 1 .. num_current_level_ : LastBefore(j, update[j])
  BY SearchEnds DEF Searches
<1>2. num_current_level_ \in Nat \ {0} /\ i \in Nat \ {0} /\ i <= MAX_LEVEL
  BY Heights, NodesAreNumbers DEF SkipInv, Levels
<1>3. CASE i <= num_current_level_
  BY <1>1, <1>2, <1>3 DEF Predecessor
<1>4. CASE ~(i <= num_current_level_)
  <2>1. Predecessor(i) = header
    BY <1>4 DEF Predecessor
  <2>2. header < key /\ i <= Len(forward[header])
    BY <1>1, <1>2, Heights, NodesAreNumbers DEF SkipInv
  <2>3. \A m \in Present : ~(Len(forward[m]) >= i)
    <3> SUFFICES ASSUME NEW m \in Present
                 PROVE  ~(Len(forward[m]) >= i)
      OBVIOUS
    <3>1. Len(forward[m]) \in Nat /\ Len(forward[m]) <= num_current_level_
      BY Heights, NodesAreNumbers DEF SkipInv
    <3> QED
      BY <1>2, <1>4, <3>1
  <2> QED
    BY <2>1, <2>2, <2>3 DEF LastBefore, Alive
<1> QED
  BY <1>3, <1>4

LEMMA LinkIsOK ==
  ASSUME SkipInv, pc = "insert", level = 0, NEW h \in Levels, Link(key, entry, h)
  PROVE  ListOK'
<1> DEFINE k == key
<1> HIDE DEF k
<1>0. k = key
  BY DEF k
<1>1. /\ ~Hit(k)
      /\ forward' = [n \in DOMAIN forward |->
           IF n = k THEN [i \in 1 .. h |-> Successor(i)]
           ELSE [i \in DOMAIN forward[n] |->
                   IF i <= h /\ Predecessor(i) = n THEN k ELSE forward[n][i]]]
      /\ value' = [value EXCEPT ![k] = entry]
      /\ num_current_level_' = IF h > num_current_level_ THEN h ELSE num_current_level_
      /\ size_' = size_ + 1
  BY <1>0 DEF Link
<1>2. /\ k \in Keys /\ k \notin Present /\ entry \in Entries /\ Nil \notin Entries
      /\ k \in Nodes /\ k # header /\ k \in Nat
  BY <1>0, <1>1, SearchEnds, NodesAreNumbers DEF Searches, SkipInv, SearchOK, Nodes
<1>3. /\ num_current_level_ \in Nat \ {0} /\ num_current_level_ <= MAX_LEVEL
      /\ h \in Nat \ {0} /\ h <= MAX_LEVEL /\ MAX_LEVEL \in Nat
  BY Heights, NodesAreNumbers DEF SkipInv, Levels
<1>4. /\ DOMAIN forward = Nodes
      /\ \A n \in Nodes : /\ forward[n] \in Seq(Keys \union {Nil})
                          /\ Len(forward[n]) \in Nat /\ DOMAIN forward[n] = 1 .. Len(forward[n])
  BY Heights DEF SkipInv, ListOK, ListTypeOK
<1>5. \A i \in 1 .. h :
        /\ Predecessor(i) \in Alive /\ Predecessor(i) \in Nodes /\ Predecessor(i) \in Nat
        /\ Predecessor(i) < k
        /\ i <= Len(forward[Predecessor(i)])
        /\ \A m \in Present : m > Predecessor(i) /\ Len(forward[m]) >= i => k <= m
  <2>1. \A i \in 1 .. h : i \in Levels
    BY <1>3 DEF Levels
  <2>2. \A i \in 1 .. h : LastBefore(i, Predecessor(i))
    BY <2>1, Predecessors
  <2> QED
    BY <1>0, <2>2, NodesAreNumbers DEF LastBefore
<1>6. \A i \in 1 .. h : Successor(i) \in Keys \union {Nil}
                       /\ NextOn(Predecessor(i), i, Successor(i))
  <2> SUFFICES ASSUME NEW i \in 1 .. h
               PROVE  Successor(i) \in Keys \union {Nil}
                      /\ NextOn(Predecessor(i), i, Successor(i))
    OBVIOUS
  <2>1. i \in 1 .. Len(forward[Predecessor(i)])
    BY <1>3, <1>4, <1>5
  <2>2. NextOn(Predecessor(i), i, Successor(i))
    BY <1>5, <2>1 DEF SkipInv, ListOK, Linkage, Successor
  <2> QED
    BY <2>2, NodesAreNumbers DEF NextOn
\* The new node and the others.
<1>7. /\ forward'[k] \in Seq(Keys \union {Nil}) /\ Len(forward'[k]) = h
      /\ \A i \in 1 .. h : forward'[k][i] = Successor(i)
  <2>1. forward'[k] = [i \in 1 .. h |-> Successor(i)]
    BY <1>1, <1>2, <1>4
  <2>2. forward'[k] \in [1 .. h -> Keys \union {Nil}]
    BY <1>6, <2>1
  <2> QED
    BY <1>3, <2>1, <2>2
<1>8. ASSUME NEW n \in Nodes, n # k
      PROVE  /\ forward'[n] \in Seq(Keys \union {Nil}) /\ Len(forward'[n]) = Len(forward[n])
             /\ \A i \in 1 .. Len(forward[n]) :
                  forward'[n][i] = IF i <= h /\ Predecessor(i) = n THEN k ELSE forward[n][i]
  <2>1. forward'[n] = [i \in 1 .. Len(forward[n]) |->
                         IF i <= h /\ Predecessor(i) = n THEN k ELSE forward[n][i]]
    BY <1>1, <1>4, <1>8
  <2>2. \A i \in 1 .. Len(forward[n]) : forward[n][i] \in Keys \union {Nil}
    BY <1>4, <1>8
  <2>3. forward'[n] \in [1 .. Len(forward[n]) -> Keys \union {Nil}]
    BY <1>2, <2>1, <2>2
  <2> QED
    BY <1>4, <1>8, <2>1, <2>3
<1>9. Present' = Present \union {k} /\ Alive' = Alive \union {k}
  <2>1. value \in [Keys -> Entries \union {Nil}]
    BY DEF SkipInv, ListOK, ListTypeOK
  <2>2. Present' = Present \union {k}
    BY <1>1, <1>2, <2>1 DEF Present
  <2> QED
    BY <2>2 DEF Alive
<1>10. ListTypeOK'
  <2>1. DOMAIN forward' = Nodes /\ forward' = [n \in Nodes |-> forward'[n]]
    BY <1>1, <1>4
  <2>2. \A n \in Nodes : forward'[n] \in Seq(Keys \union {Nil})
    BY <1>7, <1>8
  <2>3. forward' \in [Nodes -> Seq(Keys \union {Nil})]
    BY <2>1, <2>2
  <2>4. Len(forward'[header]) = MAX_LEVEL
    BY <1>2, <1>8, Heights DEF SkipInv, Nodes
  <2>5. value' \in [Keys -> Entries \union {Nil}]
    BY <1>1, <1>2 DEF SkipInv, ListOK, ListTypeOK
  <2>6. num_current_level_' \in Levels
    BY <1>1, <1>3 DEF Levels
  <2> QED
    BY <2>3, <2>4, <2>5, <2>6 DEF ListTypeOK
<1>11. \A m \in Present : /\ m \in Nodes /\ m \in Nat /\ m # k /\ Len(forward'[m]) = Len(forward[m])
                          /\ Len(forward[m]) \in Nat \ {0} /\ Len(forward[m]) <= num_current_level_
  BY <1>2, <1>8, Heights, NodesAreNumbers DEF SkipInv, Alive
<1>12. Linkage'
  <2> SUFFICES ASSUME NEW n \in Alive', NEW i \in 1 .. Len(forward'[n])
               PROVE  NextOn(n, i, forward[n][i])'
    BY DEF Linkage
  <2>0. n \in Nodes /\ n \in Nat
    BY <1>2, <1>9, NodesAreNumbers
  <2>1. CASE n = k
    <3>1. i \in 1 .. h /\ forward'[n][i] = Successor(i) /\ NextOn(Predecessor(i), i, Successor(i))
      BY <1>6, <1>7, <2>1
    <3>2. ASSUME NEW m \in Present, m > k
          PROVE  m > Predecessor(i)
      BY <1>2, <1>5, <1>11, <3>1, <3>2
    <3>3. ASSUME NEW m \in Present, m > Predecessor(i), Len(forward[m]) >= i
          PROVE  m > k
      <4>1. k <= m /\ k # m /\ m \in Nat
        BY <1>5, <1>11, <3>1, <3>3
      <4> QED
        BY <1>2, <4>1
    <3>4. \A m \in Present : Len(forward'[m]) = Len(forward[m])
      BY <1>11
    <3>5. ~(k > k)
      BY <1>2
    <3> QED
      BY <1>9, <2>1, <3>1, <3>2, <3>3, <3>4, <3>5 DEF NextOn
  <2>2. CASE n # k
    <3>1. /\ n \in Alive /\ i \in 1 .. Len(forward[n]) /\ i \in Nat
          /\ forward'[n][i] = IF i <= h /\ Predecessor(i) = n THEN k ELSE forward[n][i]
      BY <1>8, <1>9, <2>0, <2>2
    <3>2. NextOn(n, i, forward[n][i])
      BY <3>1 DEF SkipInv, ListOK, Linkage
    <3>3. \A m \in Present : Len(forward'[m]) = Len(forward[m])
      BY <1>11
    <3>4. CASE i <= h /\ Predecessor(i) = n
      <4>1. i \in 1 .. h /\ forward'[n][i] = k /\ Len(forward'[k]) >= i /\ k > n
        BY <1>5, <1>7, <3>1, <3>4
      <4>2. \A m \in Present : m > n /\ Len(forward[m]) >= i => k <= m
        BY <1>5, <3>4, <4>1
      <4> QED
        BY <1>2, <1>9, <3>3, <4>1, <4>2 DEF NextOn
    <3>5. CASE i <= h /\ Predecessor(i) # n
      <4>1. i \in 1 .. h /\ forward'[n][i] = forward[n][i]
        BY <3>1, <3>5
      <4> DEFINE p == Predecessor(i)
      <4>2. /\ p \in Alive /\ p \in Nat /\ p < k /\ i <= Len(forward[p])
            /\ \A m \in Present : m > p /\ Len(forward[m]) >= i => k <= m
        BY <1>5, <4>1
      <4> HIDE DEF p
      \* A node between the predecessor and the new one does not exist.
      <4>3. k > n => p > n /\ p \in Present
        <5> SUFFICES ASSUME k > n
                     PROVE  p > n /\ p \in Present
          OBVIOUS
        <5>1. p # n
          BY <3>5 DEF p
        <5>2. ~(n > p)
          <6> SUFFICES ASSUME n > p
                       PROVE  FALSE
            OBVIOUS
          <6>1. n \in Present
            BY <2>0, <3>1, <4>2, NodesAreNumbers DEF Alive
          <6>2. Len(forward[n]) >= i
            BY <1>11, <3>1, <6>1
          <6> QED
            BY <1>2, <2>0, <4>2, <6>1, <6>2
        <5>3. p > n
          BY <2>0, <4>2, <5>1, <5>2
        <5> QED
          BY <2>0, <4>2, <5>3, NodesAreNumbers DEF Alive
      <4>4. k > n => /\ forward[n][i] \in Present /\ forward[n][i] <= p /\ forward[n][i] <= k
        <5> SUFFICES ASSUME k > n
                     PROVE  /\ forward[n][i] \in Present /\ forward[n][i] <= p
                            /\ forward[n][i] <= k
          OBVIOUS
        <5>1. p > n /\ p \in Present /\ Len(forward[p]) >= i
          BY <1>11, <3>1, <4>2, <4>3
        <5>2. forward[n][i] \in Present /\ forward[n][i] <= p
          BY <3>2, <5>1 DEF NextOn
        <5>3. forward[n][i] \in Nat
          BY <1>11, <5>2
        <5> QED
          BY <1>2, <4>2, <5>2, <5>3
      <4>5. NextOn(n, i, forward[n][i])'
        <5>1. CASE k > n
          <6> DEFINE y == forward[n][i]
          <6>1. y \in Present /\ y <= k
            BY <4>4, <5>1
          <6>2. y # Nil
            BY <6>1, NodesAreNumbers
          <6> HIDE DEF y
          <6>3. /\ y > n /\ Len(forward[y]) >= i
                /\ \A m \in Present : m > n /\ Len(forward[m]) >= i => y <= m
            BY <3>2, <6>1, <6>2 DEF NextOn, y
          <6> QED
            BY <1>9, <3>3, <4>1, <6>1, <6>3 DEF NextOn, y
        <5>2. CASE ~(k > n)
          BY <1>9, <3>2, <3>3, <4>1, <5>2 DEF NextOn
        <5> QED
          BY <5>1, <5>2
      <4> QED
        BY <4>5
    <3>6. CASE ~(i <= h)
      <4>1. forward'[n][i] = forward[n][i] /\ ~(Len(forward'[k]) >= i)
        BY <1>3, <1>7, <3>1, <3>6
      <4> QED
        BY <1>9, <3>2, <3>3, <4>1 DEF NextOn
    <3> QED
      BY <3>4, <3>5, <3>6
  <2> QED
    BY <2>1, <2>2
<1>13. SizeOK'
  BY <1>1, <1>2, <1>9, FS_AddElement DEF SkipInv, ListOK, SizeOK
<1>14. \A m \in Present' : Len(forward'[m]) \in 1 .. num_current_level_'
  <2> SUFFICES ASSUME NEW m \in Present'
               PROVE  Len(forward'[m]) \in 1 .. num_current_level_'
    OBVIOUS
  <2>1. /\ num_current_level_' \in Nat /\ h <= num_current_level_'
        /\ num_current_level_ <= num_current_level_'
    BY <1>1, <1>3
  <2>2. CASE m = k
    BY <1>3, <1>7, <2>1, <2>2
  <2>3. CASE m \in Present
    <3>1. Len(forward'[m]) \in Nat \ {0} /\ Len(forward'[m]) <= num_current_level_
      BY <1>11, <2>3
    <3> QED
      BY <1>3, <2>1, <3>1
  <2> QED
    BY <1>9, <2>2, <2>3
<1> QED
  BY <1>10, <1>12, <1>13, <1>14 DEF ListOK

LEMMA InsertNewKeeps == ASSUME SkipInv, InsertNew PROVE SkipInv'
<1>1. pc = "insert" /\ level = 0 /\ Insert(key, entry) /\ pc' = "idle"
  BY DEF InsertNew, Return
<1>2. ListOK'
  BY <1>1, OverwriteIsOK, LinkIsOK DEF Insert
<1> QED
  BY <1>1, <1>2 DEF SkipInv, SearchOK, WalkOK, Searches

-----------------------------------------------------------------------------
(***************************************************************************)
(* Walking along the lowest level.                                         *)
(***************************************************************************)

LEMMA get_all_entriesKeeps == ASSUME SkipInv, get_all_entries PROVE SkipInv'
<1>1. /\ pc' = "collect" /\ collected' = <<>> /\ current' = header /\ UNCHANGED list
  BY DEF get_all_entries, EndSearch
<1>2. ListOK'
  BY <1>1, SameList DEF SkipInv
<1>3. SearchOK'
  BY <1>1 DEF SearchOK, Searches
<1>4. Present' = Present
  BY <1>1 DEF list, Present
<1>5. \A k \in Present : ~(k <= header)
  BY NodesAreNumbers
<1> QED
  BY <1>1, <1>2, <1>3, <1>4, <1>5 DEF SkipInv, WalkOK, Alive

LEMMA CollectKeeps == ASSUME SkipInv, Collect PROVE SkipInv'
<1>1. /\ pc = "collect" /\ pc' = "collect" /\ forward[current][1] # Nil
      /\ current' = forward[current][1]
      /\ collected' = Append(collected, forward[current][1])
      /\ UNCHANGED list
  BY DEF Collect
<1>2. ListOK' /\ SearchOK'
  BY <1>1, SameList DEF SkipInv, SearchOK, Searches
<1>3. /\ current \in Alive /\ collected \in Seq(Keys)
      /\ \A i \in 1 .. Len(collected) : collected[i] <= current
      /\ \A i, j \in 1 .. Len(collected) : i < j => collected[i] < collected[j]
      /\ \A k \in Present : k <= current => \E i \in 1 .. Len(collected) : collected[i] = k
  BY <1>1 DEF SkipInv, WalkOK
<1> DEFINE x == forward[current][1]
           n == Len(collected)
<1>4. NextOn(current, 1, x)
  <2>1. Len(forward[current]) \in Nat \ {0}
    BY <1>3, Heights DEF SkipInv
  <2> QED
    BY <1>3, <2>1 DEF SkipInv, ListOK, Linkage
<1>5. \A k \in Present : Len(forward[k]) >= 1 /\ k \in Nat
  BY Heights DEF SkipInv
<1>6. current \in Nat
  BY <1>3, NodesAreNumbers
<1> HIDE DEF x
<1>7. x \in Present /\ x > current /\ \A k \in Present : k > current => x <= k
  BY <1>1, <1>4, <1>5 DEF NextOn, x
<1>8. x \in Keys /\ x \in Nat
  BY <1>5, <1>7, NodesAreNumbers
<1>9. /\ collected' \in Seq(Keys) /\ Len(collected') = n + 1 /\ n \in Nat
      /\ \A i \in 1 .. n : collected'[i] = collected[i]
      /\ collected'[n + 1] = x
  BY <1>1, <1>3, <1>8, AppendProperties DEF x
<1>10. \A i \in 1 .. n : collected[i] \in Nat
  <2>1. \A i \in 1 .. n : collected[i] \in Keys
    BY <1>3
  <2> QED
    BY <2>1, NodesAreNumbers
<1> HIDE DEF n
<1>11. Present' = Present /\ current' = x
  BY <1>1 DEF list, Present, x
<1>12. \A i \in 1 .. n + 1 : i \in 1 .. n \/ i = n + 1
  BY <1>9
<1>13. \A i \in 1 .. n : collected[i] < x
  BY <1>3, <1>6, <1>7, <1>8, <1>10 DEF n
<1>14. \A i \in 1 .. n + 1 : collected'[i] <= x
  BY <1>8, <1>9, <1>10, <1>12, <1>13
<1>15. ASSUME NEW i \in 1 .. n + 1, NEW j \in 1 .. n + 1, i < j
       PROVE  collected'[i] < collected'[j]
  <2>1. i \in 1 .. n
    BY <1>9, <1>15
  <2>2. CASE j = n + 1
    BY <1>9, <1>13, <2>1, <2>2
  <2>3. CASE j \in 1 .. n
    BY <1>3, <1>9, <1>15, <2>1, <2>3 DEF n
  <2> QED
    BY <1>12, <2>2, <2>3
<1>16. ASSUME NEW k \in Present, k <= x
       PROVE  \E i \in 1 .. n + 1 : collected'[i] = k
  <2>1. k \in Nat /\ n + 1 \in 1 .. n + 1
    BY <1>5, <1>9
  <2>2. CASE k <= current
    <3>1. PICK i \in 1 .. n : collected[i] = k
      BY <1>3, <2>2 DEF n
    <3>2. i \in 1 .. n + 1
      BY <1>9
    <3> QED
      BY <1>9, <3>1, <3>2
  <2>3. CASE ~(k <= current)
    <3>1. k = x
      BY <1>6, <1>7, <1>8, <1>16, <2>1, <2>3
    <3> QED
      BY <1>9, <2>1, <3>1
  <2> QED
    BY <2>2, <2>3
<1>17. WalkOK'
  BY <1>7, <1>9, <1>11, <1>14, <1>15, <1>16 DEF WalkOK, Alive
<1> QED
  BY <1>2, <1>17 DEF SkipInv

-----------------------------------------------------------------------------
(***************************************************************************)
(* The other steps, and the invariant.                                     *)
(***************************************************************************)

\* A step that keeps the list, and after which no call is under way.
LEMMA ReturnKeeps ==
  ASSUME SkipInv, UNCHANGED list, pc' \in {"idle", "table"}
  PROVE  SkipInv'
<1>1. ListOK'
  BY SameList DEF SkipInv
<1> QED
  BY <1>1 DEF SkipInv, SearchOK, WalkOK, Searches

\* A step that begins a search.
LEMMA BeginKeeps ==
  ASSUME SkipInv, UNCHANGED list, BeginSearch, key' \in Keys,
         pc' \in {"find", "insert"} => entry' \in Entries, pc' # "collect"
  PROVE  SkipInv'
BY SameList, SearchBegins DEF SkipInv

LEMMA FillKeeps == ASSUME SkipInv, Fill PROVE SkipInv'
<1>1. CASE \E k \in Keys : get(k)
  BY <1>1, BeginKeeps DEF get
<1>2. CASE \E k \in Keys : \E e \in Entries : write(k, e)
  BY <1>2, BeginKeeps DEF write
<1>3. CASE clear
  <2>1. Emptied /\ pc' = "idle"
    BY <1>3 DEF clear
  <2> QED
    BY <2>1, EmptiedIsOK DEF SkipInv, SearchOK, WalkOK, Searches
<1>4. CASE get_all_entries
  BY <1>4, get_all_entriesKeeps
<1>5. CASE Walk
  BY <1>5, WalkKeeps
<1>6. CASE FoundOld
  <2>1. /\ pc = "find" /\ pc' = "insert" /\ key' = key /\ entry' = entry
        /\ BeginSearch /\ UNCHANGED list
    BY <1>6 DEF FoundOld
  <2>2. key \in Keys /\ entry \in Entries
    BY <2>1 DEF SkipInv, SearchOK, Searches
  <2> QED
    BY <2>1, <2>2, BeginKeeps
<1>7. CASE InsertNew
  BY <1>7, InsertNewKeeps
<1>8. CASE Got
  BY <1>8, ReturnKeeps DEF Got, Return
<1>9. CASE Collect
  BY <1>9, CollectKeeps
<1> QED
  BY <1>1, <1>2, <1>3, <1>4, <1>5, <1>6, <1>7, <1>8, <1>9 DEF Fill, MemTableStep

LEMMA FlushKeeps == ASSUME SkipInv, Flush PROVE SkipInv'
<1>1. Emptied /\ pc' = "table"
  BY DEF Flush
<1> QED
  BY <1>1, EmptiedIsOK DEF SkipInv, SearchOK, WalkOK, Searches

\* The calls on the table leave the new memtable alone.
LEMMA TableKeeps ==
  ASSUME SkipInv, pc = "table", ListIsIdle
  PROVE  SkipInv'
BY ReturnKeeps DEF ListIsIdle

LEMMA SkipInvStays ==
  ASSUME SkipInv, [FlushNext]_flushVars
  PROVE  SkipInv'
<1>1. CASE Fill
  BY <1>1, FillKeeps
<1>2. CASE Flush
  BY <1>2, FlushKeeps
<1>3. CASE Look
  BY <1>3, ReturnKeeps DEF Look
<1>4. CASE \E o \in Opens : TableGetAll(o) \/ TableKeys(o) \/ \E k \in Keys : TableGet(k, o)
  <2>1. \E o \in Opens : Call(o)
    BY <1>4 DEF TableGetAll, TableKeys, TableGet
  <2> QED
    BY <2>1, TableKeeps DEF Call
<1>5. CASE Reopen
  BY <1>5, TableKeeps DEF Reopen
<1>6. CASE Damage
  BY <1>6, TableKeeps DEF Damage
<1>7. CASE UNCHANGED flushVars
  <2>1. UNCHANGED <<list, search, pc, key, entry, collected>>
    BY <1>7 DEF flushVars, memTable, tableRest
  <2>2. ListOK'
    BY <2>1, SameList DEF SkipInv
  <2>3. /\ forward' = forward /\ value' = value /\ num_current_level_' = num_current_level_
        /\ Present' = Present /\ Alive' = Alive
    BY <2>1 DEF list, Present, Alive
  <2>4. current' = current /\ level' = level /\ update' = update
    BY <2>1 DEF search
  <2>5. SearchOK'
    BY <2>1, <2>3, <2>4 DEF SkipInv, SearchOK, Searches, LastBefore
  <2>6. WalkOK'
    BY <2>1, <2>3, <2>4 DEF SkipInv, WalkOK
  <2> QED
    BY <2>2, <2>5, <2>6 DEF SkipInv
<1> QED
  BY <1>1, <1>2, <1>3, <1>4, <1>5, <1>6, <1>7 DEF FlushNext

LEMMA SkipInvStarts == ASSUME FlushInit PROVE SkipInv
<1>1. ListInit /\ pc = "idle"
  BY DEF FlushInit, MemTableInit
<1> QED
  BY <1>1, InitIsOK DEF SkipInv, SearchOK, WalkOK, Searches

LEMMA SkipInvHolds == FlushSpec => []SkipInv
<1>1. FlushInit => SkipInv
  BY SkipInvStarts
<1>2. SkipInv /\ [FlushNext]_flushVars => SkipInv'
  BY SkipInvStays
<1> QED
  BY <1>1, <1>2, PTL DEF FlushSpec

-----------------------------------------------------------------------------
(***************************************************************************)
(* What it says of the list.                                               *)
(***************************************************************************)

\* Whatever heights the nodes get, between any two steps of the calls of the
\* memtable the list is linked on every level, counts its nodes, and begins
\* its searches on a level that no node exceeds.
THEOREM ListIsAlwaysSound == FlushSpec => []ListIsSound
<1>1. SkipInv => ListIsSound
  <2> SUFFICES ASSUME SkipInv
               PROVE  Linked /\ Counted
    BY DEF ListIsSound
  <2>1. ASSUME NEW n \in Alive, NEW i \in DOMAIN forward[n]
        PROVE  LET behind == {m \in Present : m > n /\ Len(forward[m]) >= i}
               IN  IF behind = {} THEN forward[n][i] = Nil
                   ELSE forward[n][i] \in behind /\ \A m \in behind : forward[n][i] <= m
    <3>1. i \in 1 .. Len(forward[n])
      BY <2>1, Heights, NodesAreNumbers DEF SkipInv
    <3>2. NextOn(n, i, forward[n][i])
      BY <3>1 DEF SkipInv, ListOK, Linkage
    <3> QED
      BY <3>2 DEF NextOn
  <2>2. Linked
    BY <2>1 DEF Linked, Alive
  <2>3. Counted
    BY DEF Counted, SkipInv, ListOK, SizeOK
  <2> QED
    BY <2>2, <2>3
<1> QED
  BY <1>1, SkipInvHolds, PTL

\* A search of find() or insert() that is through has found the key exactly if
\* it was inserted and not cleared since.
THEOREM SearchAlwaysFinds == FlushSpec => []SearchFinds
<1>1. SkipInv => SearchFinds
  <2> SUFFICES ASSUME SkipInv, Searches, level = 0
               PROVE  Hit(key) <=> value[key] # Nil
    BY DEF SearchFinds, Searches
  <2> QED
    BY SearchEnds DEF Present
<1> QED
  BY <1>1, SkipInvHolds, PTL

\* What a walk that is through has passed.
LEMMA WalkPasses == ASSUME SkipInv PROVE WalkIsSorted
<1> SUFFICES ASSUME Collected
             PROVE  /\ \A i, j \in DOMAIN collected : i < j => collected[i] < collected[j]
                    /\ \A k \in Present : \E i \in DOMAIN collected : collected[i] = k
  BY DEF WalkIsSorted
<1>1. /\ current \in Alive /\ collected \in Seq(Keys) /\ forward[current][1] = Nil
      /\ \A i, j \in 1 .. Len(collected) : i < j => collected[i] < collected[j]
      /\ \A k \in Present : k <= current => \E i \in 1 .. Len(collected) : collected[i] = k
  BY DEF Collected, SkipInv, WalkOK
<1>2. DOMAIN collected = 1 .. Len(collected)
  BY <1>1
<1>3. NextOn(current, 1, Nil)
  <2>1. Len(forward[current]) \in Nat \ {0}
    BY <1>1, Heights DEF SkipInv
  <2> QED
    BY <1>1, <2>1 DEF SkipInv, ListOK, Linkage
<1>4. \A k \in Present : Len(forward[k]) >= 1 /\ k \in Nat /\ k # Nil
  BY Heights, NodesAreNumbers DEF SkipInv
<1>5. current \in Nat
  BY <1>1, NodesAreNumbers
<1>6. \A k \in Present : k <= current
  BY <1>3, <1>4, <1>5 DEF NextOn
<1> QED
  BY <1>1, <1>2, <1>6

\* What a walk along the lowest level has passed, from which flush_immutable
\* writes a table, is every key of the memtable, once and in order.
THEOREM WalkIsAlwaysSorted == FlushSpec => []WalkIsSorted
<1>1. SkipInv => WalkIsSorted
  BY WalkPasses
<1> QED
  BY <1>1, SkipInvHolds, PTL

-----------------------------------------------------------------------------
(***************************************************************************)
(* Sums over finite sets, as the library computes them.                    *)
(***************************************************************************)

\* The member that the library takes first.
AnyOf(s) == CHOOSE x \in s : TRUE

\* The sum over s, if g is the sum over smaller sets.
Adding(f, g, s) == IF s = {} THEN 0 ELSE f[AnyOf(s)] + g[s \ {AnyOf(s)}]

AddsUp(f, g, S) == g = [s \in SUBSET S |-> Adding(f, g, s)]

LEMMA AnyIsMember == ASSUME NEW s, s # {} PROVE AnyOf(s) \in s
BY DEF AnyOf

LEMMA Smaller ==
  ASSUME NEW s, IsFiniteSet(s), NEW x \in s
  PROVE  IsFiniteSet(s \ {x}) /\ Cardinality(s) \in Nat
         /\ Cardinality(s \ {x}) = Cardinality(s) - 1 /\ Cardinality(s) # 0
<1>1. IsFiniteSet(s \ {x}) /\ Cardinality(s \ {x}) = Cardinality(s) - 1
  BY FS_RemoveElement
<1>2. Cardinality(s) \in Nat /\ Cardinality(s \ {x}) \in Nat
  BY <1>1, FS_CardinalityType
<1> QED
  BY <1>1, <1>2

\* The recursive function that adds up f exists.
LEMMA SumExists ==
  ASSUME NEW S, IsFiniteSet(S), NEW f \in [S -> Nat]
  PROVE  \E g \in [SUBSET S -> Nat] : AddsUp(f, g, S)
<1> DEFINE UpTo(g, n) == \A s \in SUBSET S : Cardinality(s) <= n => g[s] = Adding(f, g, s)
           N == {n \in Nat : \E g \in [SUBSET S -> Nat] : UpTo(g, n)}
<1>1. \A s \in SUBSET S : IsFiniteSet(s) /\ Cardinality(s) \in Nat /\ Cardinality(s) <= Cardinality(S)
  BY FS_Subset, FS_CardinalityType
<1>2. 0 \in N
  <2> DEFINE g == [s \in SUBSET S |-> 0]
  <2>1. UpTo(g, 0)
    <3> SUFFICES ASSUME NEW s \in SUBSET S, Cardinality(s) <= 0
                 PROVE  g[s] = Adding(f, g, s)
      OBVIOUS
    <3>1. s = {}
      BY <1>1, FS_EmptySet
    <3> QED
      BY <3>1 DEF Adding
  <2>2. g \in [SUBSET S -> Nat]
    OBVIOUS
  <2> QED
    BY <2>1, <2>2
<1>3. \A n \in N : n + 1 \in N
  <2> TAKE n \in N
  <2> HIDE DEF UpTo
  <2>0. n \in Nat /\ n + 1 \in Nat
    OBVIOUS
  <2> SUFFICES \E h \in [SUBSET S -> Nat] : UpTo(h, n + 1)
    BY <2>0
  <2>5. PICK g \in [SUBSET S -> Nat] : UpTo(g, n)
    OBVIOUS
  <2> HIDE DEF N
  <2> USE DEF UpTo
  <2> DEFINE h == [s \in SUBSET S |-> Adding(f, g, s)]
  <2>1. \A s \in SUBSET S : s # {} => AnyOf(s) \in s
    BY AnyIsMember
  <2>2. h \in [SUBSET S -> Nat]
    <3> SUFFICES ASSUME NEW s \in SUBSET S
                 PROVE  Adding(f, g, s) \in Nat
      OBVIOUS
    <3>1. s # {} => f[AnyOf(s)] \in Nat /\ g[s \ {AnyOf(s)}] \in Nat
      BY <2>1
    <3> QED
      BY <3>1 DEF Adding
  <2>3. UpTo(h, n + 1)
    <3> SUFFICES ASSUME NEW s \in SUBSET S, Cardinality(s) <= n + 1
                 PROVE  h[s] = Adding(f, h, s)
      OBVIOUS
    <3>1. CASE s = {}
      BY <3>1 DEF Adding
    <3>2. CASE s # {}
      <4>1. AnyOf(s) \in s
        BY <2>1, <3>2
      <4> DEFINE t == s \ {AnyOf(s)}
      <4>2. Cardinality(t) <= n
        BY <1>1, <2>0, <4>1, Smaller
      <4>3. t \in SUBSET S
        OBVIOUS
      <4>4. h[t] = g[t]
        BY <2>5, <4>2, <4>3
      <4> QED
        BY <3>2, <4>4 DEF Adding
    <3> QED
      BY <3>1, <3>2
  <2> QED
    BY <2>2, <2>3
<1>4. Cardinality(S) \in N
  <2>1. N \in SUBSET Nat
    OBVIOUS
  <2> HIDE DEF N
  <2> QED
    BY <1>1, <1>2, <1>3, <2>1, SetInduction
<1>5. PICK g \in [SUBSET S -> Nat] : UpTo(g, Cardinality(S))
  BY <1>4
<1>6. \A s \in SUBSET S : g[s] = Adding(f, g, s)
  BY <1>1, <1>5
<1>7. g = [s \in SUBSET S |-> Adding(f, g, s)]
  BY <1>6
<1> QED
  BY <1>7 DEF AddsUp

\* Nothing but the numbers to add decides a sum.
LEMMA SumsAreEqual ==
  ASSUME NEW S, NEW T, NEW f, NEW e, NEW g, NEW h,
         AddsUp(f, g, S), AddsUp(e, h, T),
         NEW R \in SUBSET (S \intersect T), IsFiniteSet(R), \A x \in R : f[x] = e[x]
  PROVE  g[R] = h[R]
<1> DEFINE N == {n \in Nat : \A s \in SUBSET R : Cardinality(s) = n => g[s] = h[s]}
<1>1. \A s \in SUBSET R : IsFiniteSet(s) /\ Cardinality(s) \in Nat
  BY FS_Subset, FS_CardinalityType
<1>2. \A s \in SUBSET R : g[s] = Adding(f, g, s) /\ h[s] = Adding(e, h, s)
  <2>1. \A s \in SUBSET R : s \in SUBSET S /\ s \in SUBSET T
    OBVIOUS
  <2> QED
    BY <2>1 DEF AddsUp
<1>3. 0 \in N
  <2> SUFFICES ASSUME NEW s \in SUBSET R, Cardinality(s) = 0
               PROVE  g[s] = h[s]
    OBVIOUS
  <2>1. s = {}
    BY <1>1, FS_EmptySet
  <2> QED
    BY <1>2, <2>1 DEF Adding
<1>4. \A n \in N : n + 1 \in N
  <2> SUFFICES ASSUME NEW n \in N, NEW s \in SUBSET R, Cardinality(s) = n + 1
               PROVE  g[s] = h[s]
    OBVIOUS
  <2>1. s # {}
    BY FS_EmptySet
  <2>2. AnyOf(s) \in s
    BY <2>1, AnyIsMember
  <2> DEFINE t == s \ {AnyOf(s)}
  <2>3. t \in SUBSET R /\ Cardinality(t) = n
    BY <1>1, <2>2, Smaller
  <2>4. g[t] = h[t]
    BY <2>3
  <2>5. f[AnyOf(s)] = e[AnyOf(s)]
    BY <2>2
  <2> QED
    BY <1>2, <2>1, <2>4, <2>5 DEF Adding
<1>5. Cardinality(R) \in N
  <2>1. N \in SUBSET Nat /\ Cardinality(R) \in Nat
    BY <1>1
  <2> HIDE DEF N
  <2> QED
    BY <1>3, <1>4, <2>1, SetInduction
<1> QED
  BY <1>5

\* It does not matter which member is added first.
LEMMA SumWithout ==
  ASSUME NEW S, IsFiniteSet(S), NEW f \in [S -> Nat], NEW g \in [SUBSET S -> Nat],
         AddsUp(f, g, S), NEW a \in S
  PROVE  g[S] = f[a] + g[S \ {a}]
<1> DEFINE N == {n \in Nat : \A s \in SUBSET S : Cardinality(s) = n =>
                               \A x \in s : g[s] = f[x] + g[s \ {x}]}
<1>1. \A s \in SUBSET S : IsFiniteSet(s) /\ Cardinality(s) \in Nat
  BY FS_Subset, FS_CardinalityType
<1>2. \A s \in SUBSET S : g[s] = Adding(f, g, s)
  BY DEF AddsUp
<1>3. 0 \in N
  <2> SUFFICES ASSUME NEW s \in SUBSET S, Cardinality(s) = 0, NEW x \in s
               PROVE  FALSE
    OBVIOUS
  <2> QED
    BY <1>1, FS_EmptySet
<1>4. \A n \in N : n + 1 \in N
  <2> SUFFICES ASSUME NEW n \in N
               PROVE  n + 1 \in N
    OBVIOUS
  <2> SUFFICES ASSUME NEW s \in SUBSET S, Cardinality(s) = n + 1, NEW x \in s
               PROVE  g[s] = f[x] + g[s \ {x}]
    OBVIOUS
  <2> DEFINE y == AnyOf(s)
  <2>1. y \in s
    BY AnyIsMember
  <2>2. g[s] = f[y] + g[s \ {y}]
    <3>1. g[s] = Adding(f, g, s)
      BY <1>2
    <3>2. s # {}
      OBVIOUS
    <3> QED
      BY <3>1, <3>2 DEF Adding
  <2> HIDE DEF y
  <2>3. CASE x = y
    BY <2>2, <2>3
  <2>4. CASE x # y
    <3> DEFINE t == s \ {y}
               u == s \ {x}
               r == s \ {x, y}
    <3>1. Cardinality(t) = n /\ t \in SUBSET S /\ x \in t /\ t \ {x} = r
      BY <1>1, <2>1, <2>4, Smaller
    <3>2. Cardinality(u) = n /\ u \in SUBSET S /\ y \in u /\ u \ {y} = r
      BY <1>1, <2>1, <2>4, Smaller
    <3>3. g[t] = f[x] + g[r] /\ g[u] = f[y] + g[r]
      BY <3>1, <3>2
    <3>4. f[x] \in Nat /\ f[y] \in Nat /\ g[r] \in Nat
      BY <2>1
    <3> HIDE DEF t, u, r
    <3>5. g[s] = f[y] + g[t]
      BY <2>2 DEF t
    <3>6. g[s] = f[x] + g[u]
      BY <3>3, <3>4, <3>5
    <3> QED
      BY <3>6 DEF u
  <2> QED
    BY <2>3, <2>4
<1>5. Cardinality(S) \in N
  <2>1. N \in SUBSET Nat /\ Cardinality(S) \in Nat
    BY <1>1
  <2> HIDE DEF N
  <2> QED
    BY <1>3, <1>4, <2>1, SetInduction
<1> QED
  BY <1>5

TotalOf(v, S) == MapThenSumSet(LAMBDA k : SizeOf(k, v[k]), S)

IsSizes(f, v, S) == f \in [S -> Nat] /\ \A k \in S : f[k] = SizeOf(k, v[k])

\* What the library computes is such a sum.
LEMMA TotalIsSumOf ==
  ASSUME NEW v, NEW S, IsFiniteSet(S), NEW f, IsSizes(f, v, S)
  PROVE  \E g \in [SUBSET S -> Nat] : AddsUp(f, g, S) /\ TotalOf(v, S) = g[S]
<1> DEFINE Adds(g, s) == IF s = {} THEN 0 ELSE SizeOf(AnyOf(s), v[AnyOf(s)]) + g[s \ {AnyOf(s)}]
           it == CHOOSE g : g = [s \in SUBSET S |-> Adds(g, s)]
<1>1. TotalOf(v, S) = it[S]
  BY DEF TotalOf, MapThenSumSet, MapThenFoldSet, AnyOf
<1>2. PICK g \in [SUBSET S -> Nat] : AddsUp(f, g, S)
  BY SumExists DEF IsSizes
<1>3. \A s \in SUBSET S : \A h : Adds(h, s) = Adding(f, h, s)
  BY AnyIsMember DEF Adding, IsSizes
<1>4. g = [s \in SUBSET S |-> Adds(g, s)]
  BY <1>2, <1>3 DEF AddsUp
<1>5. it = [s \in SUBSET S |-> Adds(it, s)]
  <2> HIDE DEF Adds
  <2> QED
    BY <1>4
<1> HIDE DEF it
<1>6. AddsUp(f, it, S)
  BY <1>3, <1>5 DEF AddsUp
<1>7. S \in SUBSET (S \intersect S)
  OBVIOUS
<1>8. g[S] = it[S]
  BY <1>2, <1>6, <1>7, SumsAreEqual
<1> QED
  BY <1>1, <1>2, <1>8

LEMMA TotalWithout ==
  ASSUME NEW v, NEW S, IsFiniteSet(S), \A k \in S : SizeOf(k, v[k]) \in Nat
  PROVE  /\ TotalOf(v, S) \in Nat
         /\ \A a \in S : TotalOf(v, S) = SizeOf(a, v[a]) + TotalOf(v, S \ {a})
<1> DEFINE f == [k \in S |-> SizeOf(k, v[k])]
<1>1. IsSizes(f, v, S)
  BY DEF IsSizes
<1> HIDE DEF f
<1>2. PICK g \in [SUBSET S -> Nat] : AddsUp(f, g, S) /\ TotalOf(v, S) = g[S]
  BY <1>1, TotalIsSumOf
<1>3. ASSUME NEW a \in S
      PROVE  TotalOf(v, S) = SizeOf(a, v[a]) + TotalOf(v, S \ {a})
  <2> DEFINE T == S \ {a}
             e == [k \in T |-> SizeOf(k, v[k])]
  <2>1. IsFiniteSet(T) /\ T \in SUBSET (S \intersect T)
    BY FS_Subset
  <2>2. IsSizes(e, v, T) /\ \A k \in T : f[k] = e[k]
    BY <1>1 DEF IsSizes
  <2> HIDE DEF T, e
  <2>3. PICK h \in [SUBSET T -> Nat] : AddsUp(e, h, T) /\ TotalOf(v, T) = h[T]
    <3>1. IsFiniteSet(T) /\ IsSizes(e, v, T)
      BY <2>1, <2>2
    <3> QED
      BY ONLY <3>1, TotalIsSumOf
  <2>4. g[T] = h[T]
    BY <1>2, <2>1, <2>2, <2>3, SumsAreEqual
  <2>5. g[S] = f[a] + g[T]
    <3>1. f \in [S -> Nat] /\ AddsUp(f, g, S)
      BY <1>1, <1>2 DEF IsSizes
    <3>2. g[S] = f[a] + g[S \ {a}]
      BY <3>1, SumWithout
    <3> QED
      BY <3>2 DEF T
  <2> QED
    BY <1>1, <1>2, <2>3, <2>4, <2>5 DEF T, IsSizes
<1> QED
  BY <1>2, <1>3

LEMMA TotalDependsOnMembers ==
  ASSUME NEW v, NEW w, NEW S, IsFiniteSet(S),
         \A k \in S : SizeOf(k, v[k]) \in Nat /\ v[k] = w[k]
  PROVE  TotalOf(v, S) = TotalOf(w, S)
<1> DEFINE f == [k \in S |-> SizeOf(k, v[k])]
<1>1. IsSizes(f, v, S) /\ IsSizes(f, w, S)
  BY DEF IsSizes
<1> HIDE DEF f
<1>2. PICK g \in [SUBSET S -> Nat] : AddsUp(f, g, S) /\ TotalOf(v, S) = g[S]
  <2>1. IsSizes(f, v, S) /\ IsFiniteSet(S)
    BY <1>1
  <2> QED
    BY ONLY <2>1, TotalIsSumOf
<1>3. PICK h \in [SUBSET S -> Nat] : AddsUp(f, h, S) /\ TotalOf(w, S) = h[S]
  <2>1. IsSizes(f, w, S) /\ IsFiniteSet(S)
    BY <1>1
  <2> QED
    BY ONLY <2>1, TotalIsSumOf
<1>4. g[S] = h[S]
  <2>1. S \in SUBSET (S \intersect S)
    OBVIOUS
  <2> QED
    BY <1>2, <1>3, <2>1, SumsAreEqual
<1> QED
  BY <1>2, <1>3, <1>4

LEMMA TotalOfNothing == ASSUME NEW v PROVE TotalOf(v, {}) = 0
<1> DEFINE f == [k \in {} |-> 0]
<1>1. IsSizes(f, v, {}) /\ IsFiniteSet({}) /\ {} \in SUBSET {}
  BY FS_EmptySet DEF IsSizes
<1>2. \E g : AddsUp(f, g, {}) /\ TotalOf(v, {}) = g[{}]
  <2> HIDE DEF f
  <2> QED
    BY <1>1, TotalIsSumOf
<1> QED
  BY <1>1, <1>2 DEF AddsUp, Adding

-----------------------------------------------------------------------------
(***************************************************************************)
(* The types of the memtable and its total.                                *)
(***************************************************************************)

\* Outside of a search there is no key, outside of a walk nothing collected.
RestOK ==
  /\ pc \in {"idle", "find", "insert", "get", "collect", "table"}
  /\ ~Searches => level = 0 /\ update = NoUpdate /\ key = Nil
  /\ pc \in {"idle", "table"} => current = header
  /\ pc \notin {"find", "insert"} => entry = Nil
  /\ pc # "collect" => collected = <<>>

\* Between its two searches, an insertion has taken the old entry off.
TotalOK ==
  total_encoded_size_ = TotalOf(value, IF pc = "insert" THEN Present \ {key} ELSE Present)

LEMMA SizeIsNumber ==
  ASSUME NEW k \in Keys, NEW e \in Entries
  PROVE  SizeOf(k, e) \in Nat
<1>1. KeyText[k] \in Seq(Nat) /\ e.value \in Seq(Nat)
  BY EntriesAreSane DEF EntryType
<1>2. Len(KeyText[k]) \in Nat /\ Len(e.value) \in Nat
  BY <1>1
<1> DEFINE n == Len(KeyText[k])
           m == Len(e.value)
<1>3. SizeOf(k, e) = 4 + n + m
  BY DEF SizeOf, encode_size, Full
<1> HIDE DEF n, m
<1>4. n \in Nat /\ m \in Nat
  BY <1>2 DEF n, m
<1> QED
  BY <1>3, <1>4

LEMMA SizesAreNumbers ==
  ASSUME ListOK
  PROVE  IsFiniteSet(Present) /\ \A k \in Present : SizeOf(k, value[k]) \in Nat
<1>1. \A k \in Present : k \in Keys /\ value[k] \in Entries
  BY DEF ListOK, ListTypeOK, Present
<1> QED
  BY <1>1, SizeIsNumber DEF ListOK, SizeOK

LEMMA FoundOldKeepsTotal == ASSUME SkipInv, TotalOK, FoundOld PROVE TotalOK'
<1>1. /\ pc = "find" /\ level = 0 /\ pc' = "insert" /\ UNCHANGED <<list, key>>
      /\ total_encoded_size_' = SizeWithoutOld
  BY DEF FoundOld
<1>2. value' = value /\ Present' = Present
  BY <1>1 DEF list, Present
<1>3. Hit(key) <=> key \in Present
  BY <1>1, SearchEnds DEF Searches
<1>4. total_encoded_size_ = TotalOf(value, Present)
  BY <1>1 DEF TotalOK
<1>5. total_encoded_size_' = TotalOf(value, Present \ {key})
  <2>1. CASE key \in Present
    <3>1. total_encoded_size_' = total_encoded_size_ - SizeOf(key, value[key])
      BY <1>1, <1>3, <2>1 DEF SizeWithoutOld
    <3>2. IsFiniteSet(Present) /\ \A k \in Present : SizeOf(k, value[k]) \in Nat
      BY SizesAreNumbers DEF SkipInv
    <3> DEFINE T == Present \ {key}
    <3>3. IsFiniteSet(T) /\ \A k \in T : SizeOf(k, value[k]) \in Nat
      BY <3>2, FS_Subset
    <3>4. /\ TotalOf(value, Present) = SizeOf(key, value[key]) + TotalOf(value, T)
          /\ TotalOf(value, T) \in Nat
      BY <2>1, <3>2, <3>3, TotalWithout
    <3> HIDE DEF T
    <3>5. total_encoded_size_' = TotalOf(value, T)
      BY <1>4, <2>1, <3>1, <3>2, <3>4
    <3> QED
      BY <3>5 DEF T
  <2>2. CASE key \notin Present
    <3>1. total_encoded_size_' = total_encoded_size_ /\ Present \ {key} = Present
      BY <1>1, <1>3, <2>2 DEF SizeWithoutOld
    <3> QED
      BY <1>4, <3>1
  <2> QED
    BY <2>1, <2>2
<1> QED
  BY <1>1, <1>2, <1>5 DEF TotalOK

LEMMA InsertNewKeepsTotal == ASSUME SkipInv, TotalOK, InsertNew PROVE TotalOK'
<1>1. /\ pc = "insert" /\ pc' = "idle" /\ Insert(key, entry)
      /\ total_encoded_size_' = total_encoded_size_ + SizeOf(key, entry)
  BY DEF InsertNew, Return
<1>2. key \in Keys /\ entry \in Entries /\ entry # Nil
  BY <1>1, NodesAreNumbers DEF SkipInv, SearchOK, Searches
<1>3. value \in [Keys -> Entries \union {Nil}] /\ value' = [value EXCEPT ![key] = entry]
  BY <1>1 DEF Insert, Overwrite, Link, SkipInv, ListOK, ListTypeOK
<1>4. Present' = Present \union {key}
  BY <1>2, <1>3 DEF Present
<1> DEFINE T == Present \ {key}
           P == Present \union {key}
           v == value'
<1>5. IsFiniteSet(Present) /\ \A k \in Present : SizeOf(k, value[k]) \in Nat
  BY SizesAreNumbers DEF SkipInv
<1>6. IsFiniteSet(P) /\ IsFiniteSet(T) /\ P \ {key} = T /\ key \in P
  BY <1>5, FS_Subset, FS_AddElement
<1>7. /\ \A k \in T : v[k] = value[k] /\ SizeOf(k, value[k]) \in Nat
      /\ v[key] = entry
  BY <1>2, <1>3, <1>5 DEF Present
<1>8. \A k \in P : SizeOf(k, v[k]) \in Nat
  <2>1. SizeOf(key, entry) \in Nat
    BY <1>2, SizeIsNumber
  <2> QED
    BY <1>7, <2>1
<1> HIDE DEF T, P, v
<1>9. TotalOf(v, P) = SizeOf(key, entry) + TotalOf(v, T) /\ TotalOf(v, T) = TotalOf(value, T)
  BY <1>6, <1>7, <1>8, TotalWithout, TotalDependsOnMembers
<1>10. SizeOf(key, entry) \in Nat /\ TotalOf(value, T) \in Nat
  BY <1>2, <1>6, <1>7, SizeIsNumber, TotalWithout
<1>11. total_encoded_size_ = TotalOf(value, T)
  BY <1>1 DEF TotalOK, T
<1>12. total_encoded_size_' = TotalOf(v, P)
  BY <1>1, <1>9, <1>10, <1>11
<1> QED
  BY <1>1, <1>4, <1>12 DEF TotalOK, v, P

LEMMA EmptiedHasNoTotal ==
  ASSUME Emptied, total_encoded_size_' = 0, pc' # "insert"
  PROVE  TotalOK'
<1>1. Present' = {}
  BY DEF Emptied, Present
<1> QED
  BY <1>1, TotalOfNothing DEF TotalOK

LEMMA SameTotal ==
  ASSUME TotalOK, UNCHANGED <<value, total_encoded_size_>>,
         \/ pc # "insert" /\ pc' # "insert"
         \/ pc = "insert" /\ pc' = "insert" /\ key' = key
  PROVE  TotalOK'
<1>1. Present' = Present
  BY DEF Present
<1> QED
  BY <1>1 DEF TotalOK

LEMMA RestStays ==
  ASSUME SkipInv, RestOK, TotalOK, [FlushNext]_flushVars
  PROVE  RestOK' /\ TotalOK'
<1>1. CASE \E k \in Keys : get(k) \/ \E e \in Entries : write(k, e)
  <2>1. /\ pc = "idle" /\ pc' \in {"find", "get"} /\ UNCHANGED <<value, total_encoded_size_, collected>>
        /\ pc' = "get" => entry' = entry
    BY <1>1 DEF get, write, list
  <2> QED
    BY <2>1, SameTotal DEF RestOK, Searches
<1>2. CASE clear
  <2>1. /\ pc = "idle" /\ pc' = "idle" /\ UNCHANGED <<search, key, entry, collected>>
        /\ Emptied /\ total_encoded_size_' = 0
    BY <1>2 DEF clear
  <2> QED
    BY <2>1, EmptiedHasNoTotal DEF RestOK, Searches, search
<1>3. CASE get_all_entries
  <2>1. /\ pc = "idle" /\ pc' = "collect" /\ UNCHANGED <<value, total_encoded_size_, key, entry>>
        /\ EndSearch
    BY <1>3 DEF get_all_entries, list
  <2> QED
    BY <2>1, SameTotal DEF RestOK, Searches, EndSearch
<1>4. CASE Walk
  <2>1. /\ Searches /\ pc' = pc /\ UNCHANGED <<value, total_encoded_size_, key, entry, collected>>
    BY <1>4 DEF Walk, Step, list, tableRest, Searches
  <2> QED
    BY <2>1, SameTotal DEF RestOK, Searches
<1>5. CASE FoundOld
  <2>1. pc = "find" /\ pc' = "insert" /\ collected' = collected
    BY <1>5 DEF FoundOld
  <2> QED
    BY <1>5, <2>1, FoundOldKeepsTotal DEF RestOK, Searches
<1>6. CASE InsertNew
  <2>1. pc = "insert" /\ Return /\ EndSearch /\ collected' = collected
    BY <1>6 DEF InsertNew
  <2> QED
    BY <1>6, <2>1, InsertNewKeepsTotal DEF RestOK, Searches, Return, EndSearch
<1>7. CASE Got
  <2>1. /\ pc = "get" /\ Return /\ EndSearch
        /\ UNCHANGED <<value, total_encoded_size_, collected>>
    BY <1>7 DEF Got, list
  <2> QED
    BY <2>1, SameTotal DEF RestOK, Searches, Return, EndSearch
<1>8. CASE Collect
  <2>1. /\ pc = "collect" /\ pc' = "collect"
        /\ UNCHANGED <<value, total_encoded_size_, level, update, key, entry>>
    BY <1>8 DEF Collect, list
  <2> QED
    BY <2>1, SameTotal DEF RestOK, Searches
<1>9. CASE Flush
  <2>1. /\ pc = "collect" /\ pc' = "table" /\ Emptied /\ EndSearch
        /\ total_encoded_size_' = 0 /\ collected' = <<>> /\ UNCHANGED <<key, entry>>
    BY <1>9 DEF Flush, Collected
  <2> QED
    BY <2>1, EmptiedHasNoTotal DEF RestOK, Searches, EndSearch
<1>10. CASE Look
  <2>1. /\ pc = "collect" /\ pc' = "idle" /\ collected' = <<>> /\ EndSearch
        /\ UNCHANGED <<value, total_encoded_size_, key, entry>>
    BY <1>10 DEF Look, list, Collected
  <2> QED
    BY <2>1, SameTotal DEF RestOK, Searches, EndSearch
<1>11. CASE (\E o \in Opens : TableGetAll(o) \/ TableKeys(o) \/ \E k \in Keys : TableGet(k, o))
            \/ Reopen \/ Damage \/ UNCHANGED flushVars
  <2>1. UNCHANGED <<value, current, level, update, total_encoded_size_, pc, key, entry, collected>>
    BY <1>11 DEF TableGetAll, TableKeys, TableGet, Call, Reopen, Damage, ListIsIdle, list, search,
                 flushVars, memTable, tableRest
  <2>2. RestOK'
    BY <2>1 DEF RestOK, Searches
  <2> QED
    BY <2>1, <2>2, SameTotal
<1> QED
  BY <1>1, <1>2, <1>3, <1>4, <1>5, <1>6, <1>7, <1>8, <1>9, <1>10, <1>11 DEF FlushNext, Fill, MemTableStep

LEMMA RestInvHolds == FlushSpec => [](SkipInv /\ RestOK /\ TotalOK)
<1>1. FlushInit => RestOK /\ TotalOK
  <2> SUFFICES ASSUME FlushInit
               PROVE  RestOK /\ TotalOK
    OBVIOUS
  <2>1. MemTableInit /\ ListInit
    BY DEF FlushInit, MemTableInit
  <2>2. Present = {}
    BY <2>1 DEF ListInit, Present
  <2> QED
    BY <2>1, <2>2, TotalOfNothing DEF MemTableInit, ListInit, RestOK, TotalOK, Searches
<1>2. SkipInv /\ RestOK /\ TotalOK /\ [FlushNext]_flushVars => RestOK' /\ TotalOK'
  BY RestStays
<1> QED
  BY <1>1, <1>2, SkipInvHolds, PTL DEF FlushSpec

\* The running total of the memtable is the sum over the entries it holds,
\* after any overwrites: no old entry is taken off twice or never.
THEOREM TotalIsAlwaysSum == FlushSpec => []TotalIsSum
<1>1. TotalOK => TotalIsSum
  BY DEF TotalOK, TotalIsSum, TotalOf
<1> QED
  BY <1>1, RestInvHolds, PTL

\* The variables of the memtable have their types; the total, an unsigned
\* number in the code, is never below zero.
THEOREM MemTableTypeIsRight == FlushSpec => []MemTableTypeOK
<1>1. SkipInv /\ RestOK /\ TotalOK => MemTableTypeOK
  <2> SUFFICES ASSUME SkipInv, RestOK, TotalOK
               PROVE  MemTableTypeOK
    OBVIOUS
  <2>1. /\ ListTypeOK /\ DOMAIN forward = Keys \union {header}
        /\ \A n \in DOMAIN forward : forward[n] \in Seq(Keys \union {Nil})
    BY DEF SkipInv, ListOK, ListTypeOK, Nodes
  <2>2. size_ \in Nat
    BY FS_CardinalityType DEF SkipInv, ListOK, SizeOK
  <2>3. Alive \subseteq Nodes /\ header \in Nodes
    BY NodesAreNumbers DEF Nodes
  <2>4. current \in Nodes
    BY <2>3 DEF SkipInv, SearchOK, WalkOK, RestOK, Searches
  <2>5. level \in Levels \union {0}
    <3>1. num_current_level_ \in Nat /\ num_current_level_ <= MAX_LEVEL
      BY Heights DEF SkipInv
    <3>2. level \in 0 .. num_current_level_ \/ level = 0
      BY DEF SkipInv, SearchOK, RestOK
    <3> QED
      BY <3>1, <3>2, NodesAreNumbers DEF Levels
  <2>6. update \in [Levels -> Nodes \union {Nil}]
    BY DEF SkipInv, SearchOK, RestOK, NoUpdate
  <2>7. key \in Keys \union {Nil} /\ entry \in Entries \union {Nil}
    BY DEF SkipInv, SearchOK, RestOK, Searches
  <2>8. collected \in Seq(Keys)
    <3>1. <<>> \in Seq(Keys)
      OBVIOUS
    <3> QED
      BY <3>1 DEF SkipInv, WalkOK, RestOK
  <2>9. total_encoded_size_ \in Nat
    <3>1. IsFiniteSet(Present) /\ \A k \in Present : SizeOf(k, value[k]) \in Nat
      BY SizesAreNumbers DEF SkipInv
    <3> DEFINE T == IF pc = "insert" THEN Present \ {key} ELSE Present
    <3>2. IsFiniteSet(T) /\ \A k \in T : SizeOf(k, value[k]) \in Nat
      BY <3>1, FS_Subset
    <3> HIDE DEF T
    <3>3. TotalOf(value, T) \in Nat
      BY <3>2, TotalWithout
    <3> QED
      BY <3>3 DEF TotalOK, T
  <2> QED
    BY <2>1, <2>2, <2>4, <2>5, <2>6, <2>7, <2>8, <2>9 DEF MemTableTypeOK, ListTypeOK, Nodes
<1> QED
  BY <1>1, RestInvHolds, PTL

-----------------------------------------------------------------------------
(***************************************************************************)
(* The encoding.                                                           *)
(***************************************************************************)

LEMMA Joined ==
  ASSUME NEW s \in Seq(Nat), NEW t \in Seq(Nat)
  PROVE  /\ s \o t \in Seq(Nat) /\ Len(s \o t) = Len(s) + Len(t)
         /\ \A i \in 1 .. Len(s) : (s \o t)[i] = s[i]
         /\ \A i \in 1 .. Len(t) : (s \o t)[Len(s) + i] = t[i]
<1>1. Len(s) \in Nat /\ Len(t) \in Nat
  OBVIOUS
<1>2. /\ s \o t \in Seq(Nat) /\ Len(s \o t) = Len(s) + Len(t)
      /\ \A i \in 1 .. Len(s) + Len(t) :
           (s \o t)[i] = IF i <= Len(s) THEN s[i] ELSE t[i - Len(s)]
  BY ConcatProperties
<1>3. \A i \in 1 .. Len(s) : i \in 1 .. Len(s) + Len(t) /\ i <= Len(s)
  BY <1>1
<1>4. \A i \in 1 .. Len(t) : /\ Len(s) + i \in 1 .. Len(s) + Len(t)
                              /\ ~(Len(s) + i <= Len(s)) /\ Len(s) + i - Len(s) = i
  BY <1>1
<1> QED
  BY <1>2, <1>3, <1>4

\* Type, time stamp, key and value, encoded.
Code(t, ts, k, v) == <<t, ts, Len(k)>> \o k \o <<Len(v)>> \o v

\* Where the fields of an encoded entry e are.
Fields(e, t, ts, k, v) ==
  /\ e \in Seq(Nat) /\ Len(e) = 4 + Len(k) + Len(v)
  /\ e[1] = t /\ e[2] = ts /\ e[3] = Len(k)
  /\ \A i \in 1 .. Len(k) : e[3 + i] = k[i]
  /\ e[4 + Len(k)] = Len(v)
  /\ \A i \in 1 .. Len(v) : e[4 + Len(k) + i] = v[i]

LEMMA EncodedFields ==
  ASSUME NEW t \in Nat, NEW ts \in Nat, NEW k \in Seq(Nat), NEW v \in Seq(Nat)
  PROVE  Fields(Code(t, ts, k, v), t, ts, k, v)
<1> DEFINE n == Len(k)
           m == Len(v)
           a == <<t, ts, n>>
           b == a \o k
           c == b \o <<m>>
           d == c \o v
<1>1. n \in Nat /\ m \in Nat
  OBVIOUS
<1>2. a \in Seq(Nat) /\ Len(a) = 3 /\ a[1] = t /\ a[2] = ts /\ a[3] = n
  BY <1>1
<1> HIDE DEF a
<1>3. /\ b \in Seq(Nat) /\ Len(b) = 3 + n
      /\ \A i \in 1 .. 3 : b[i] = a[i]
      /\ \A i \in 1 .. n : b[3 + i] = k[i]
  <2>1. /\ b \in Seq(Nat) /\ Len(b) = Len(a) + Len(k)
        /\ \A i \in 1 .. Len(a) : b[i] = a[i]
        /\ \A i \in 1 .. Len(k) : b[Len(a) + i] = k[i]
    BY <1>2, Joined
  <2> QED
    BY <1>2, <2>1
<1> HIDE DEF b
<1>4. /\ c \in Seq(Nat) /\ Len(c) = 4 + n
      /\ \A i \in 1 .. 3 + n : c[i] = b[i]
      /\ c[4 + n] = m
  <2>1. <<m>> \in Seq(Nat) /\ Len(<<m>>) = 1 /\ 1 \in 1 .. 1 /\ <<m>>[1] = m
    BY <1>1
  <2>2. Len(b) + 1 = 4 + n /\ Len(b) = 3 + n
    BY <1>1, <1>3
  <2> QED
    BY <1>3, <2>1, <2>2, Joined
<1> HIDE DEF c
<1>5. /\ d \in Seq(Nat) /\ Len(d) = 4 + n + m
      /\ \A i \in 1 .. 4 + n : d[i] = c[i]
      /\ \A i \in 1 .. m : d[4 + n + i] = v[i]
  <2>1. /\ d \in Seq(Nat) /\ Len(d) = Len(c) + Len(v)
        /\ \A i \in 1 .. Len(c) : d[i] = c[i]
        /\ \A i \in 1 .. Len(v) : d[Len(c) + i] = v[i]
    BY <1>4, Joined
  <2> QED
    BY <1>4, <2>1
<1>6. Code(t, ts, k, v) = d
  BY DEF Code, a, b, c
<1> HIDE DEF d
<1>7. d[1] = t /\ d[2] = ts /\ d[3] = n /\ d[4 + n] = m
  <2>1. /\ 4 + n \in 1 .. 4 + n
        /\ \A i \in 1 .. 3 : i \in 1 .. 3 + n /\ i \in 1 .. 4 + n
    BY <1>1
  <2>2. \A i \in 1 .. 3 : d[i] = a[i]
    BY <1>3, <1>4, <1>5, <2>1
  <2>3. d[1] = a[1] /\ d[2] = a[2] /\ d[3] = a[3]
    BY <2>2
  <2> QED
    BY <1>2, <1>4, <1>5, <2>1, <2>3
<1>8. \A i \in 1 .. n : d[3 + i] = k[i]
  <2> SUFFICES ASSUME NEW i \in 1 .. n
               PROVE  d[3 + i] = k[i]
    OBVIOUS
  <2>1. 3 + i \in 1 .. 4 + n /\ 3 + i \in 1 .. 3 + n
    BY <1>1
  <2> QED
    BY <1>3, <1>4, <1>5, <2>1
<1> QED
  BY <1>5, <1>6, <1>7, <1>8 DEF Fields, n, m

\* A piece of a sequence that agrees with another sequence is that sequence.
LEMMA PieceIs ==
  ASSUME NEW d \in Seq(Nat), NEW s \in Seq(Nat), NEW from \in Nat \ {0}, NEW to \in Nat,
         to = from + Len(s) - 1, to <= Len(d),
         \A i \in 1 .. Len(s) : d[from + i - 1] = s[i]
  PROVE  SubSeq(d, from, to) = s
<1>1. Len(s) \in Nat /\ Len(d) \in Nat
  OBVIOUS
<1>2. \A i \in from .. to : d[i] \in Nat
  BY <1>1
<1> DEFINE t == SubSeq(d, from, to)
<1>3. /\ t \in Seq(Nat) /\ Len(t) = Len(s)
      /\ \A i \in 1 .. Len(s) : t[i] = d[from + i - 1]
  BY <1>1, <1>2, SubSeqProperties
<1> HIDE DEF t
<1>4. t = s
  BY <1>1, <1>3, SeqEqual
<1> QED
  BY <1>4 DEF t

BeginsWith(d, e) == Len(e) <= Len(d) /\ \A i \in 1 .. Len(e) : d[i] = e[i]

\* Decoding finds an encoded entry again, whatever follows it.
LEMMA DecodeFinds ==
  ASSUME NEW t \in Nat, NEW ts \in Nat, NEW k \in Seq(Nat), NEW v \in Seq(Nat),
         NEW d \in Seq(Nat), BeginsWith(d, Code(t, ts, k, v))
  PROVE  decode(d) = [key |-> k, type |-> t, timestamp |-> ts, value |-> v]
<1> DEFINE n == Len(k)
           m == Len(v)
           e == Code(t, ts, k, v)
<1>0. n \in Nat /\ m \in Nat
  OBVIOUS
<1>1. /\ n \in Nat /\ m \in Nat /\ Len(e) = 4 + n + m
      /\ e[1] = t /\ e[2] = ts /\ e[3] = n
      /\ \A i \in 1 .. n : e[3 + i] = k[i]
      /\ e[4 + n] = m
      /\ \A i \in 1 .. m : e[4 + n + i] = v[i]
  <2>1. Fields(e, t, ts, k, v)
    BY EncodedFields
  <2> HIDE DEF e
  <2> QED
    BY <1>0, <2>1 DEF Fields
<1>2. Len(d) \in Nat /\ Len(e) <= Len(d) /\ \A i \in 1 .. Len(e) : d[i] = e[i]
  BY DEF BeginsWith
<1> HIDE DEF n, m, e
<1>3. d[1] = t /\ d[2] = ts /\ d[3] = n /\ d[4 + n] = m
  <2>1. 1 \in 1 .. Len(e) /\ 2 \in 1 .. Len(e) /\ 3 \in 1 .. Len(e) /\ 4 + n \in 1 .. Len(e)
    BY <1>1
  <2> QED
    BY <1>1, <1>2, <2>1
<1>4. \A i \in 1 .. n : d[4 + i - 1] = k[i]
  <2> SUFFICES ASSUME NEW i \in 1 .. n
               PROVE  d[4 + i - 1] = k[i]
    OBVIOUS
  <2>1. 3 + i \in 1 .. Len(e) /\ 4 + i - 1 = 3 + i
    BY <1>1
  <2> QED
    BY <1>1, <1>2, <2>1
<1>5. \A i \in 1 .. m : d[5 + n + i - 1] = v[i]
  <2> SUFFICES ASSUME NEW i \in 1 .. m
               PROVE  d[5 + n + i - 1] = v[i]
    OBVIOUS
  <2>1. 4 + n + i \in 1 .. Len(e) /\ 5 + n + i - 1 = 4 + n + i
    BY <1>1
  <2> QED
    BY <1>1, <1>2, <2>1
<1>6. SubSeq(d, 4, 3 + n) = k
  <2>1. 4 \in Nat \ {0} /\ 3 + n \in Nat /\ 3 + n = 4 + n - 1 /\ 3 + n <= Len(d)
    BY <1>1, <1>2
  <2> QED
    BY <1>4, <2>1, PieceIs DEF n
<1>7. SubSeq(d, 5 + n, 4 + n + m) = v
  <2>1. 5 + n \in Nat \ {0} /\ 4 + n + m \in Nat /\ 4 + n + m = 5 + n + m - 1
        /\ 4 + n + m <= Len(d)
    BY <1>1, <1>2
  <2> QED
    BY <1>5, <2>1, PieceIs DEF m
<1>8. HoldsEntry(d)
  <2>1. Len(e) = 4 + n + m /\ n \in Nat /\ m \in Nat /\ Len(d) \in Nat /\ Len(e) <= Len(d)
    BY <1>1, <1>2
  <2>2. Len(d) >= 3 /\ Len(d) >= 4 + n /\ Len(d) >= 4 + n + m
    BY <2>1
  <2> QED
    BY <1>3, <2>2 DEF HoldsEntry
<1> QED
  BY <1>3, <1>6, <1>7, <1>8 DEF decode

\* An encoded entry that is cut short is not decoded.
LEMMA DecodeRefuses ==
  ASSUME NEW t \in Nat, NEW ts \in Nat, NEW k \in Seq(Nat), NEW v \in Seq(Nat),
         NEW l \in 0 .. Len(Code(t, ts, k, v)) - 1
  PROVE  decode(SubSeq(Code(t, ts, k, v), 1, l)) = Nil
<1> DEFINE n == Len(k)
           m == Len(v)
           e == Code(t, ts, k, v)
           d == SubSeq(e, 1, l)
<1>0. n \in Nat /\ m \in Nat /\ l \in 0 .. Len(e) - 1
  OBVIOUS
<1>1. /\ n \in Nat /\ m \in Nat /\ Len(e) = 4 + n + m /\ e \in Seq(Nat)
      /\ e[3] = n /\ e[4 + n] = m
  <2>1. Fields(e, t, ts, k, v)
    BY EncodedFields
  <2> HIDE DEF e
  <2> QED
    BY <1>0, <2>1 DEF Fields
<1> HIDE DEF n, m, e
<1>2. l \in Nat /\ l < 4 + n + m
  BY <1>0, <1>1
<1>3. \A i \in 1 .. l : e[i] \in Nat
  <2>1. \A i \in 1 .. l : i \in 1 .. Len(e)
    BY <1>1, <1>2
  <2> QED
    BY <1>1, <2>1, ElementOfSeq
<1>4. /\ d \in Seq(Nat) /\ Len(d) = l /\ \A i \in 1 .. l : d[i] = e[1 + i - 1]
  <2>1. (IF 1 <= l THEN l - 1 + 1 ELSE 0) = l /\ l - 1 + 1 = l /\ 1 \in Int /\ l \in Int
    BY <1>2
  <2>2. /\ d \in Seq(Nat) /\ Len(d) = IF 1 <= l THEN l - 1 + 1 ELSE 0
        /\ \A i \in 1 .. l - 1 + 1 : d[i] = e[1 + i - 1]
    <3> HIDE DEF d
    <3>1. d = SubSeq(e, 1, l)
      BY DEF d
    <3> QED
      BY <1>3, <2>1, <3>1, SubSeqProperties
  <2> QED
    BY <2>1, <2>2
<1> HIDE DEF d
<1>5. \A i \in 1 .. l : d[i] = e[i]
  <2>1. \A i \in 1 .. l : 1 + i - 1 = i
    BY <1>2
  <2> QED
    BY <1>4, <2>1
<1>6. ~HoldsEntry(d)
  <2> SUFFICES ASSUME l >= 3, l >= 4 + d[3], l >= 4 + d[3] + d[4 + d[3]]
               PROVE  FALSE
    BY <1>4 DEF HoldsEntry
  <2>1. d[3] = n
    <3>1. 3 \in 1 .. l
      BY <1>2
    <3> QED
      BY <1>1, <1>5, <3>1
  <2>2. 4 + n \in 1 .. l
    BY <1>1, <1>2, <2>1
  <2>3. d[4 + n] = m
    BY <1>1, <1>5, <2>2
  <2> QED
    BY <1>1, <1>2, <2>1, <2>3
<1> QED
  BY <1>6 DEF decode, d, e

\* Whatever is written - any key, any value, any time stamp - is found again
\* by decode, alone and with more behind it, an entry cut short anywhere is
\* refused, and encode_size is the size.
THEOREM CodecIsRoundTrip == FlushSpec => []CodecRoundTrip
<1>1. SkipInv => CodecRoundTrip
  <2> SUFFICES ASSUME SkipInv, pc = "insert"
               PROVE  LET f == Full(key, entry)
                          d == encode(f)
                      IN  /\ Len(d) = encode_size(f)
                          /\ decode(d) = f /\ decode(d \o d) = f
                          /\ \A n \in 0 .. Len(d) - 1 : decode(SubSeq(d, 1, n)) = Nil
    BY DEF CodecRoundTrip
  <2> DEFINE t  == entry.type
             ts == entry.timestamp
             k  == KeyText[key]
             v  == entry.value
             f  == Full(key, entry)
             d  == encode(f)
  <2>1. key \in Keys /\ entry \in Entries
    BY DEF SkipInv, SearchOK, Searches
  <2>2. t \in Nat /\ ts \in Nat /\ k \in Seq(Nat) /\ v \in Seq(Nat)
    BY <2>1, EntriesAreSane DEF EntryType, PUT, DELETE
  <2>3. f = [key |-> k, type |-> t, timestamp |-> ts, value |-> v]
    BY DEF Full
  <2>4. d = Code(t, ts, k, v) /\ encode_size(f) = 4 + Len(k) + Len(v)
    BY DEF Full, encode, Code, encode_size
  <2> HIDE DEF t, ts, k, v, f, d
  <2>5. d \in Seq(Nat) /\ Len(d) = 4 + Len(k) + Len(v)
    BY <2>2, <2>4, EncodedFields DEF Fields
  <2>6. decode(d) = f
    <3>1. BeginsWith(d, Code(t, ts, k, v))
      BY <2>4, <2>5 DEF BeginsWith
    <3>2. decode(d) = [key |-> k, type |-> t, timestamp |-> ts, value |-> v]
      BY <2>2, <2>5, <3>1, DecodeFinds
    <3> QED
      BY <2>3, <3>2
  <2>7. decode(d \o d) = f
    <3> DEFINE dd == d \o d
    <3>1. /\ dd \in Seq(Nat) /\ Len(d) <= Len(dd)
          /\ \A i \in 1 .. Len(d) : dd[i] = d[i]
      BY <2>5, Joined
    <3> HIDE DEF dd
    <3>2. BeginsWith(dd, Code(t, ts, k, v))
      BY <2>4, <3>1 DEF BeginsWith
    <3>3. decode(dd) = [key |-> k, type |-> t, timestamp |-> ts, value |-> v]
      BY <2>2, <3>1, <3>2, DecodeFinds
    <3> QED
      BY <2>3, <3>3 DEF dd
  <2>8. \A n \in 0 .. Len(d) - 1 : decode(SubSeq(d, 1, n)) = Nil
    BY <2>2, <2>4, DecodeRefuses
  <2> QED
    BY <2>4, <2>5, <2>6, <2>7, <2>8 DEF f, d
<1> QED
  BY <1>1, SkipInvHolds, PTL

-----------------------------------------------------------------------------
(***************************************************************************)
(* The Bloom filter.                                                       *)
(***************************************************************************)

\* Every position of a key is one of a bit, which lies in one of the bytes.
LEMMA PositionsAreBits ==
  ASSUME NEW f, NEW m \in Nat \ {0}, f.bit_count = m, NEW h \in Nat, f.num_hashes = h,
         NEW k \in Keys, NEW p \in Positions(f, k)
  PROVE  p \in Nat /\ p \div 8 \in 0 .. ByteCount(m) - 1
<1>1. PICK i \in 0 .. h - 1 : p = ((Hash1[k] + i * Hash2[k]) % HashLimit) % m
  BY DEF Positions, hash
<1> DEFINE y == Hash1[k] + i * Hash2[k]
           x == y % HashLimit
<1>2. Hash1[k] \in Nat /\ Hash2[k] \in Nat /\ HashLimit \in Nat \ {0} /\ i \in Nat
  BY HashesAreNumbers, HashLimitIsPositive
<1>3. y \in Int
  <2>1. i * Hash2[k] \in Int
    BY <1>2
  <2> QED
    BY <1>2, <2>1
<1> HIDE DEF y
<1>4. x \in Int
  BY <1>2, <1>3
<1> HIDE DEF x
<1>5. p = x % m
  BY <1>1 DEF x, y
<1>6. p \in 0 .. m - 1
  BY <1>4, <1>5
<1> QED
  BY <1>6 DEF ByteCount

\* What a filter for n items, to which the keys ks were added, consists of.
LEMMA Added ==
  ASSUME NEW n \in Nat \ {0}, NEW ks,
         NEW m, m = optimal_bit_count(n), NEW h, h = optimal_num_hashes(m, n),
         NEW f, f = add_all(Filter(n), ks)
  PROVE  /\ m \in Nat \ {0} /\ h \in Nat \ {0}
         /\ f.bit_count = m /\ f.num_hashes = h
         /\ DOMAIN f.bits = 0 .. ByteCount(m) - 1
         /\ \A k \in ks : \A p \in Positions(f, k) :
              p \div 8 \in 0 .. ByteCount(m) - 1 => IsSet(f, p)
<1> DEFINE g == Filter(n)
           Bits(b) == {p % 8 : p \in {q \in UNION {Positions(g, k) : k \in ks} : q \div 8 = b}}
<1>1. m \in Nat \ {0}
  <2>1. (958506 * n) \div 100000 \in Int
    OBVIOUS
  <2> QED
    BY <2>1 DEF optimal_bit_count, AtLeastOne
<1>2. h \in Nat \ {0}
  <2>1. 1000000 * n \in Nat \ {0} /\ 693147 * m \in Nat
    BY <1>1
  <2>2. (693147 * m) \div (1000000 * n) \in Int
    BY <2>1
  <2> QED
    BY <2>2 DEF optimal_num_hashes, AtLeastOne
<1>3. g = [bit_count |-> m, num_hashes |-> h, bits |-> [b \in 0 .. ByteCount(m) - 1 |-> {}]]
  BY DEF Filter
<1>4. f = [g EXCEPT !.bits = [b \in DOMAIN g.bits |-> g.bits[b] \union Bits(b)]]
  BY DEF add_all
<1> HIDE DEF g, Bits
<1>5. /\ f.bit_count = m /\ f.num_hashes = h
      /\ f.bits = [b \in 0 .. ByteCount(m) - 1 |-> {} \union Bits(b)]
  BY <1>3, <1>4
<1>6. \A k : Positions(f, k) = Positions(g, k)
  BY <1>3, <1>5 DEF Positions, hash
<1>7. ASSUME NEW k \in ks, NEW p \in Positions(f, k), p \div 8 \in 0 .. ByteCount(m) - 1
      PROVE  IsSet(f, p)
  <2>1. p % 8 \in Bits(p \div 8)
    BY <1>6, <1>7 DEF Bits
  <2> QED
    BY <1>5, <1>7, <2>1 DEF IsSet
<1> QED
  BY <1>1, <1>2, <1>5, <1>7

\* A filter with bits contains what was added to it, ...
LEMMA AddedIsContained ==
  ASSUME NEW n \in Nat \ {0}, NEW ks \in SUBSET Keys, NEW k \in ks
  PROVE  may_contain(add_all(Filter(n), ks), k)
<1> DEFINE m == optimal_bit_count(n)
           h == optimal_num_hashes(m, n)
           f == add_all(Filter(n), ks)
<1>1. /\ m \in Nat \ {0} /\ h \in Nat \ {0} /\ f.bit_count = m /\ f.num_hashes = h
      /\ \A p \in Positions(f, k) : p \div 8 \in 0 .. ByteCount(m) - 1 => IsSet(f, p)
  BY Added
<1> HIDE DEF m, h, f
<1>2. \A p \in Positions(f, k) : p \div 8 \in 0 .. ByteCount(m) - 1
  BY <1>1, PositionsAreBits
<1> QED
  BY <1>1, <1>2 DEF may_contain, f

\* ... also after it was written to the file and read back.
LEMMA ReadBackIsContained ==
  ASSUME NEW n \in Nat \ {0}, NEW ks \in SUBSET Keys, NEW k \in ks
  PROVE  may_contain(deserialize(serialize(add_all(Filter(n), ks))), k)
<1> DEFINE m == optimal_bit_count(n)
           h == optimal_num_hashes(m, n)
           f == add_all(Filter(n), ks)
           bytes == ByteCount(m)
           S == {m, h} \union {f.bits[b] : b \in 0 .. bytes - 1}
           d == serialize(f)
           g == deserialize(d)
<1>1. /\ m \in Nat \ {0} /\ h \in Nat \ {0} /\ f.bit_count = m /\ f.num_hashes = h
      /\ DOMAIN f.bits = 0 .. bytes - 1
      /\ \A p \in Positions(f, k) : p \div 8 \in 0 .. bytes - 1 => IsSet(f, p)
  BY Added
<1>2. bytes \in Nat
  BY <1>1 DEF ByteCount
<1> HIDE DEF m, h, f, bytes
<1>3. /\ d[1] = h /\ d[2] = m
      /\ \A b \in 0 .. bytes - 1 : d[b + 3] = f.bits[b]
  <2> DEFINE head == <<h, m>>
             rest == [b \in 1 .. bytes |-> f.bits[b - 1]]
  <2>1. head \in Seq(S) /\ Len(head) = 2 /\ head[1] = h /\ head[2] = m
    OBVIOUS
  <2>2. rest \in Seq(S) /\ Len(rest) = bytes
    <3>1. \A b \in 1 .. bytes : f.bits[b - 1] \in S
      <4>1. \A b \in 1 .. bytes : b - 1 \in 0 .. bytes - 1
        BY <1>2
      <4> QED
        BY <4>1
    <3> HIDE DEF S
    <3> QED
      BY <1>2, <3>1
  <2>3. d = head \o rest
    BY <1>1 DEF serialize, bytes
  <2>4. \A b \in 0 .. bytes - 1 : rest[b + 1] = f.bits[b]
    <3> SUFFICES ASSUME NEW b \in 0 .. bytes - 1
                 PROVE  rest[b + 1] = f.bits[b]
      OBVIOUS
    <3>1. b + 1 \in 1 .. bytes /\ b + 1 - 1 = b
      BY <1>2
    <3> QED
      BY <3>1
  <2> HIDE DEF head, rest, S, d
  <2>5. \A i \in 1 .. 2 + bytes : d[i] = IF i <= 2 THEN head[i] ELSE rest[i - 2]
    <3>1. \A i \in 1 .. Len(head) + Len(rest) :
            (head \o rest)[i] = IF i <= Len(head) THEN head[i] ELSE rest[i - Len(head)]
      BY <2>1, <2>2, ConcatProperties
    <3> QED
      BY <2>1, <2>2, <2>3, <3>1
  <2>6. d[1] = h /\ d[2] = m
    BY <1>2, <2>1, <2>5
  <2>7. ASSUME NEW b \in 0 .. bytes - 1
        PROVE  d[b + 3] = f.bits[b]
    <3>1. b + 3 \in 1 .. 2 + bytes /\ ~(b + 3 <= 2) /\ b + 3 - 2 = b + 1
      BY <1>2
    <3> QED
      BY <2>4, <2>5, <3>1
  <2> QED
    BY <2>6, <2>7
<1> HIDE DEF d
<1>4. g = [num_hashes |-> h, bit_count |-> m, bits |-> [b \in 0 .. bytes - 1 |-> d[b + 3]]]
  BY <1>3 DEF deserialize, bytes
<1> HIDE DEF g
<1>5. g.num_hashes = h /\ g.bit_count = m /\ \A b \in 0 .. bytes - 1 : g.bits[b] = f.bits[b]
  BY <1>3, <1>4
<1>6. Positions(g, k) = Positions(f, k)
  BY <1>1, <1>5 DEF Positions, hash
<1>7. \A p \in Positions(f, k) : p \div 8 \in 0 .. bytes - 1
  BY <1>1, PositionsAreBits DEF bytes
<1>8. \A p \in Positions(g, k) : IsSet(g, p)
  <2> SUFFICES ASSUME NEW p \in Positions(f, k)
               PROVE  IsSet(g, p)
    BY <1>6
  <2>1. IsSet(f, p) /\ p \div 8 \in 0 .. bytes - 1
    BY <1>1, <1>7
  <2> QED
    BY <1>5, <2>1 DEF IsSet
<1> QED
  BY <1>8 DEF may_contain, g, d, f

-----------------------------------------------------------------------------
(***************************************************************************)
(* The filter of the table, as it is cached and as it is in the file.      *)
(***************************************************************************)

CacheFields == {"footer", "footer_loaded", "bloom", "bloom_loaded", "index", "data", "data_loaded"}
FileFields  == {"size", "data", "index", "bloom", "footer"}

ExcludesNone(f) == \A k \in WrittenKeys : may_contain(f, k)

FileOK ==
  /\ DOMAIN file = FileFields
  /\ file.footer.version >= 2 => ExcludesNone(deserialize(file.bloom))

\* The footer that a cached filter is loaded by is that of the file.
CacheOK(c) ==
  /\ DOMAIN c = CacheFields
  /\ c.footer \in {NoFooter, file.footer}
  /\ ExcludesNone(c.bloom)

TableOK == pc = "table" => FileOK /\ CacheOK(cache)

LEMMA UnloadedIsOK == CacheOK(Unloaded)
BY DEF CacheOK, CacheFields, Unloaded, ExcludesNone, may_contain, NoFilter

LEMMA FooterIsOK ==
  ASSUME NEW c, CacheOK(c), NEW o
  PROVE  CacheOK(load_footer(c, o))
BY DEF CacheOK, CacheFields, load_footer

LEMMA FilterIsOK ==
  ASSUME NEW c, FileOK, CacheOK(c), HasFilter(c)
  PROVE  CacheOK(WithFilter(c))
<1>1. c.footer = file.footer /\ file.footer.version >= 2
  <2>1. c.footer.version >= 2 /\ c.footer \in {NoFooter, file.footer}
    BY DEF HasFilter, CacheOK
  <2>2. NoFooter.version = 0
    BY DEF NoFooter
  <2>3. c.footer # NoFooter
    BY <2>1, <2>2
  <2> QED
    BY <2>1, <2>3
<1> DEFINE b == deserialize(file.bloom)
<1>2. ExcludesNone(b)
  BY <1>1 DEF FileOK
<1> HIDE DEF b
<1>3. WithFilter(c) = [c EXCEPT !.bloom = b, !.bloom_loaded = TRUE]
  BY DEF WithFilter, b
<1> QED
  BY <1>2, <1>3 DEF CacheOK, CacheFields

LEMMA LoadedFilterIsOK ==
  ASSUME NEW c, FileOK, CacheOK(c), NEW o, NEW p
  PROVE  CacheOK(load_bloom_filter(c, o, p))
<1> DEFINE f == load_footer(c, o)
<1>1. CacheOK(f)
  BY FooterIsOK
<1> HIDE DEF f
<1>2. CacheOK([f EXCEPT !.bloom_loaded = TRUE])
  BY <1>1 DEF CacheOK, CacheFields
<1>3. HasFilter(f) => CacheOK(WithFilter(f))
  BY <1>1, FilterIsOK
<1> QED
  BY <1>1, <1>2, <1>3 DEF load_bloom_filter, f

LEMMA LoadedIndexIsOK ==
  ASSUME NEW c, FileOK, CacheOK(c), NEW o, NEW p
  PROVE  CacheOK(load_index(c, o, p))
<1> DEFINE f == load_footer(c, o)
           i == [f EXCEPT !.index = IndexOf(f)]
<1>1. CacheOK(f)
  BY FooterIsOK
<1> HIDE DEF f
<1>2. CacheOK(i) /\ i.footer = f.footer
  BY <1>1 DEF CacheOK, CacheFields
<1> HIDE DEF i
<1>3. HasFilter(f) => CacheOK(WithFilter(i))
  BY <1>2, FilterIsOK DEF HasFilter
<1> QED
  BY <1>1, <1>2, <1>3 DEF load_index, f, i

LEMMA LoadedDataIsOK ==
  ASSUME NEW c, CacheOK(c), NEW o
  PROVE  CacheOK(LoadedData(c, o))
BY DEF LoadedData, load_data, CacheOK, CacheFields

\* A table is written with a filter that was made for all keys of the memtable.
LEMMA FlushMakesTable == ASSUME SkipInv, Flush PROVE TableOK'
<1> DEFINE es == Passed
           ks == {es[i].key : i \in DOMAIN es}
           f  == FilterOf(es)
<1>1. /\ Collected /\ written' = value
      /\ \/ write_from_entries(es)
         \/ \E v \in Versions \ {3} : file' = Written(es, v) /\ cache' = Unloaded
  BY DEF Flush
<1>2. WrittenKeys' = Present
  BY <1>1 DEF WrittenKeys, Present
<1>3. collected \in Seq(Keys)
  BY <1>1 DEF Collected, SkipInv, WalkOK
<1>4. /\ DOMAIN es = 1 .. Len(collected) /\ Len(es) = Len(collected) /\ Len(es) \in Nat
      /\ \A i \in 1 .. Len(collected) : es[i].key = collected[i] /\ collected[i] \in Keys
  BY <1>3 DEF Passed
<1>5. ks \in SUBSET Keys
  BY <1>4
<1>6. \A k \in Present : k \in ks /\ Len(es) \in Nat \ {0}
  <2>1. \A k \in Present : \E i \in DOMAIN collected : collected[i] = k
    BY <1>1, WalkPasses DEF WalkIsSorted
  <2> QED
    BY <1>3, <1>4, <2>1
<1>7. f = add_all(Filter(Len(es)), ks)
  BY DEF FilterOf
<1> HIDE DEF es, ks, f
<1>8. \A k \in Present : may_contain(f, k) /\ may_contain(deserialize(serialize(f)), k)
  BY <1>5, <1>6, <1>7, AddedIsContained, ReadBackIsContained
<1>9. ASSUME NEW v, file' = Written(es, v)
      PROVE  FileOK'
  <2>1. /\ DOMAIN file' = FileFields /\ file'.footer.version = v
        /\ file'.bloom = IF v = 1 THEN <<>> ELSE serialize(f)
    BY <1>9 DEF Written, FileFields, f
  <2>2. v >= 2 => file'.bloom = serialize(f)
    BY <2>1
  <2> QED
    BY <1>2, <1>8, <2>1, <2>2 DEF FileOK, ExcludesNone
<1>10. CASE write_from_entries(es)
  <2>1. file' = Written(es, 3) /\ cache' = [Unloaded EXCEPT !.bloom = f]
    BY <1>10 DEF write_from_entries, f
  <2>2. /\ DOMAIN cache' = CacheFields /\ cache'.footer = NoFooter /\ cache'.bloom = f
    BY <2>1 DEF Unloaded, CacheFields
  <2> QED
    BY <1>2, <1>8, <1>9, <2>1, <2>2 DEF TableOK, CacheOK, ExcludesNone
<1>11. CASE \E v \in Versions \ {3} : file' = Written(es, v) /\ cache' = Unloaded
  <2>1. FileOK' /\ cache' = Unloaded
    BY <1>9, <1>11
  <2>2. CacheOK(cache)'
    BY <2>1 DEF CacheOK, CacheFields, Unloaded, ExcludesNone, may_contain, NoFilter
  <2> QED
    BY <2>1, <2>2 DEF TableOK
<1> QED
  BY <1>1, <1>10, <1>11

LEMMA CallKeepsTable ==
  ASSUME TableOK, NEW o \in Opens,
         TableGetAll(o) \/ TableKeys(o) \/ \E k \in Keys : TableGet(k, o)
  PROVE  TableOK'
<1>1. pc = "table" /\ pc' = "table" /\ UNCHANGED <<file, written>>
  BY DEF TableGetAll, TableKeys, TableGet, Call, ListIsIdle
<1>2. FileOK /\ CacheOK(cache)
  BY <1>1 DEF TableOK
<1>3. WrittenKeys' = WrittenKeys
  BY <1>1 DEF WrittenKeys
<1>4. FileOK'
  BY <1>1, <1>2, <1>3 DEF FileOK, ExcludesNone
<1>5. ASSUME CacheOK(cache')
      PROVE  CacheOK(cache)'
  BY <1>1, <1>3, <1>5 DEF CacheOK, ExcludesNone
<1>6. CacheOK(cache')
  <2>1. CASE TableGetAll(o)
    <3> DEFINE i == load_index(cache, o[1], o[2])
    <3>1. CacheOK(i)
      BY <1>2, LoadedIndexIsOK
    <3>2. CacheOK(LoadedData(i, o[3]))
      BY <3>1, LoadedDataIsOK
    <3>3. cache' = i \/ cache' = LoadedData(i, o[3])
      BY <2>1 DEF TableGetAll, AfterGetAll
    <3> HIDE DEF i
    <3> QED
      BY <3>1, <3>2, <3>3
  <2>2. CASE TableKeys(o)
    <3>1. cache' = load_index(cache, o[1], o[2])
      BY <2>2 DEF TableKeys, AfterKeys
    <3> QED
      BY <1>2, <3>1, LoadedIndexIsOK
  <2>3. CASE \E k \in Keys : TableGet(k, o)
    <3> DEFINE b == load_bloom_filter(cache, o[1], o[2])
               i == load_index(b, o[3], o[4])
    <3>1. CacheOK(b)
      BY <1>2, LoadedFilterIsOK
    <3>2. CacheOK(i)
      BY <1>2, <3>1, LoadedIndexIsOK
    <3>3. CacheOK(LoadedData(i, o[5]))
      BY <3>2, LoadedDataIsOK
    <3>4. cache' \in {b, i, LoadedData(i, o[5])}
      BY <2>3 DEF TableGet, AfterGet
    <3> HIDE DEF b, i
    <3> QED
      BY <3>1, <3>2, <3>3, <3>4
  <2> QED
    BY <2>1, <2>2, <2>3
<1> QED
  BY <1>4, <1>5, <1>6 DEF TableOK

LEMMA ReopenKeepsTable == ASSUME TableOK, Reopen PROVE TableOK'
<1>1. pc = "table" /\ cache' = Unloaded /\ UNCHANGED <<file, written>>
  BY DEF Reopen
<1>2. WrittenKeys' = WrittenKeys
  BY <1>1 DEF WrittenKeys
<1>3. FileOK'
  BY <1>1, <1>2 DEF TableOK, FileOK, ExcludesNone
<1>4. CacheOK(cache)'
  BY <1>1 DEF CacheOK, CacheFields, Unloaded, ExcludesNone, may_contain, NoFilter
<1> QED
  BY <1>3, <1>4 DEF TableOK

\* What becomes of the file leaves the filter alone or the footer without a
\* version.
LEMMA DamageKeepsTable == ASSUME TableOK, Damage PROVE TableOK'
<1>1. /\ pc = "table" /\ cache = Unloaded /\ cache' = cache /\ written' = written
      /\ CutShort \/ DamageData
  BY DEF Damage, ListIsIdle
<1>2. FileOK /\ WrittenKeys' = WrittenKeys
  BY <1>1 DEF TableOK, WrittenKeys
<1>3. FileOK'
  <2>1. CASE CutShort
    <3>1. file' = [file EXCEPT !.footer = [NoFooter EXCEPT !.magic = "other"]]
      BY <2>1 DEF CutShort
    <3>2. DOMAIN file' = FileFields /\ file'.footer.version = 0
      BY <1>2, <3>1 DEF FileOK, FileFields, NoFooter
    <3> QED
      BY <3>2 DEF FileOK
  <2>2. CASE DamageData
    <3>1. \/ file' = [file EXCEPT !.data = Tail(@)]
          \/ file' = [file EXCEPT !.size = @ - 1]
      BY <2>2 DEF DamageData
    <3>2. DOMAIN file' = FileFields /\ file'.footer = file.footer /\ file'.bloom = file.bloom
      BY <1>2, <3>1 DEF FileOK, FileFields
    <3> QED
      BY <1>2, <3>2 DEF FileOK, ExcludesNone
  <2> QED
    BY <1>1, <2>1, <2>2
<1>4. CacheOK(cache)'
  BY <1>1 DEF CacheOK, CacheFields, Unloaded, ExcludesNone, may_contain, NoFilter
<1> QED
  BY <1>3, <1>4 DEF TableOK

LEMMA TableOKStays ==
  ASSUME SkipInv, TableOK, [FlushNext]_flushVars
  PROVE  TableOK'
<1>1. CASE Fill
  <2>1. pc' # "table"
    BY <1>1 DEF Fill, get, write, clear, get_all_entries, MemTableStep, Walk, FoundOld,
                InsertNew, Got, Collect, Return, tableRest
  <2> QED
    BY <2>1 DEF TableOK
<1>2. CASE Flush
  BY <1>2, FlushMakesTable
<1>3. CASE Look
  BY <1>3 DEF Look, TableOK
<1>4. CASE \E o \in Opens : TableGetAll(o) \/ TableKeys(o) \/ \E k \in Keys : TableGet(k, o)
  BY <1>4, CallKeepsTable
<1>5. CASE Reopen
  BY <1>5, ReopenKeepsTable
<1>6. CASE Damage
  BY <1>6, DamageKeepsTable
<1>7. CASE UNCHANGED flushVars
  BY <1>7 DEF flushVars, memTable, tableRest, tableVars, TableOK, FileOK, CacheOK,
              ExcludesNone, WrittenKeys
<1> QED
  BY <1>1, <1>2, <1>3, <1>4, <1>5, <1>6, <1>7 DEF FlushNext

\* For any keys, any number of entries and any hash functions, the filter of a
\* table excludes no key that was written: as it was built, as it is in a file
\* of version 2 or 3, and as any sequence of loadings has read it back.
THEOREM NoKeyIsExcluded == FlushSpec => []NoFalseNegative
<1>1. FlushInit => TableOK
  BY DEF FlushInit, MemTableInit, TableOK
<1>2. SkipInv /\ TableOK /\ [FlushNext]_flushVars => TableOK'
  BY TableOKStays
<1>3. TableOK => NoFalseNegative
  BY DEF TableOK, FileOK, CacheOK, ExcludesNone, NoFalseNegative
<1> QED
  BY <1>1, <1>2, <1>3, SkipInvHolds, PTL DEF FlushSpec

-----------------------------------------------------------------------------
(***************************************************************************)
(* The binary search in the index.                                         *)
(***************************************************************************)

\* One step of the search in s for k, if g does the shorter searches.
Probing(s, k, g, n) ==
  [low \in 1 .. Len(s) + 1 |->
     LET middle == low + n \div 2
     IN  IF n = 0 THEN low
         ELSE IF s[middle].key < k THEN g[n - n \div 2 - 1][middle + 1]
         ELSE g[n \div 2][low]]

LEMMA ShorterSearches ==
  ASSUME NEW n \in Nat \ {0}
  PROVE  /\ n \div 2 \in Nat /\ n \div 2 < n
         /\ n - n \div 2 - 1 \in Nat /\ n - n \div 2 - 1 < n
OBVIOUS

\* Shorter searches decide a search.
LEMMA SameProbing ==
  ASSUME NEW s, NEW k, NEW n \in Nat, NEW g, NEW h,
         \A m \in Nat : m < n => g[m] = h[m]
  PROVE  Probing(s, k, g, n) = Probing(s, k, h, n)
<1>1. CASE n = 0
  BY <1>1 DEF Probing
<1>2. CASE n # 0
  <2> DEFINE a == n - n \div 2 - 1
             b == n \div 2
  <2>1. g[a] = h[a] /\ g[b] = h[b]
    BY <1>2, ShorterSearches
  <2> HIDE DEF a
  <2>2. \A low \in 1 .. Len(s) + 1 :
          (IF s[low + b].key < k THEN g[a][low + b + 1] ELSE g[b][low])
          = (IF s[low + b].key < k THEN h[a][low + b + 1] ELSE h[b][low])
    BY <2>1
  <2> QED
    BY <1>2, <2>2 DEF Probing, a
<1> QED
  BY <1>1, <1>2

\* The recursive function that searches exists.
LEMMA ProbeExists ==
  ASSUME NEW s, Len(s) \in Nat, NEW k
  PROVE  \E g : g = [n \in 0 .. Len(s) |-> Probing(s, k, g, n)]
<1> DEFINE L == Len(s)
           UpTo(g, m) == \A n \in 0 .. L : n <= m => g[n] = Probing(s, k, g, n)
           N == {m \in Nat : \E g : UpTo(g, m)}
<1>0. L \in Nat
  OBVIOUS
<1> HIDE DEF L
<1>1. ASSUME NEW m \in Nat, NEW g, \A n \in 0 .. L : n < m => g[n] = Probing(s, k, g, n)
      PROVE  UpTo([n \in 0 .. L |-> Probing(s, k, g, n)], m)
  <2> DEFINE h == [n \in 0 .. L |-> Probing(s, k, g, n)]
  <2>1. \A n \in 0 .. L : h[n] = Probing(s, k, g, n)
    OBVIOUS
  <2> HIDE DEF h
  <2>2. \A n \in 0 .. L : n < m => h[n] = g[n]
    BY <1>1, <2>1
  <2> SUFFICES ASSUME NEW n \in 0 .. L, n <= m
               PROVE  h[n] = Probing(s, k, h, n)
    BY DEF h
  <2>3. \A l \in Nat : l < n => g[l] = h[l]
    BY <1>0, <2>2
  <2>4. Probing(s, k, g, n) = Probing(s, k, h, n)
    BY <1>0, <2>3, SameProbing
  <2> QED
    BY <2>1, <2>4
<1>2. 0 \in N
  <2>1. \A g : \A n \in 0 .. L : n < 0 => g[n] = Probing(s, k, g, n)
    BY <1>0
  <2> HIDE DEF UpTo
  <2> QED
    BY <1>1, <2>1
<1>3. \A m \in N : m + 1 \in N
  <2> SUFFICES ASSUME NEW m \in Nat, NEW g, UpTo(g, m)
               PROVE  m + 1 \in N
    OBVIOUS
  <2>1. \A n \in 0 .. L : n < m + 1 => g[n] = Probing(s, k, g, n)
    BY <1>0
  <2>2. m + 1 \in Nat
    OBVIOUS
  <2> HIDE DEF UpTo
  <2> QED
    BY <1>1, <2>1, <2>2
<1>4. L \in N
  <2>1. N \in SUBSET Nat
    OBVIOUS
  <2> HIDE DEF N
  <2> QED
    BY <1>0, <1>2, <1>3, <2>1, SetInduction
<1>5. PICK g : UpTo(g, L)
  BY <1>4
<1> DEFINE h == [n \in 0 .. L |-> Probing(s, k, g, n)]
<1>6. \A n \in 0 .. L : h[n] = Probing(s, k, h, n)
  <2>1. UpTo(h, L)
    <3> HIDE DEF h
    <3>1. \A n \in 0 .. L : n < L => g[n] = Probing(s, k, g, n)
      BY <1>0, <1>5
    <3> HIDE DEF UpTo
    <3> QED
      BY <1>0, <1>1, <3>1 DEF h
  <2> HIDE DEF h
  <2> QED
    BY <1>0, <2>1
<1>7. h = [n \in 0 .. L |-> Probing(s, k, h, n)]
  <2> DEFINE e == [n \in 0 .. L |-> Probing(s, k, h, n)]
  <2>1. \A n \in 0 .. L : h[n] = e[n]
    BY <1>6
  <2>2. DOMAIN h = 0 .. L
    OBVIOUS
  <2>3. h = [n \in 0 .. L |-> h[n]]
    OBVIOUS
  <2> HIDE DEF h
  <2> QED
    BY <1>6, <2>3
<1> QED
  BY <1>7 DEF L

\* Position p separates the keys of s that are less than k from the others.
Separates(s, k, p) ==
  /\ p \in 1 .. Len(s) + 1
  /\ \A i \in 1 .. Len(s) : IF i < p THEN s[i].key < k ELSE ~(s[i].key < k)

\* In a sequence in the order of keys, of any length, the search finds the
\* first position whose key is not less.
LEMMA LowerBoundSeparates ==
  ASSUME NEW s, Len(s) \in Nat, NEW k \in Nat,
         \A i \in 1 .. Len(s) : s[i].key \in Nat,
         \A i, j \in 1 .. Len(s) : i < j => s[i].key < s[j].key
  PROVE  Separates(s, k, lower_bound(s, k))
<1> DEFINE L == Len(s)
           g == CHOOSE g : g = [n \in 0 .. L |-> Probing(s, k, g, n)]
<1>0. L \in Nat /\ k \in Nat
  OBVIOUS
<1>1. g = [n \in 0 .. L |-> Probing(s, k, g, n)]
  BY ProbeExists
<1>2. lower_bound(s, k) = g[L][1]
  BY DEF lower_bound, Probing
<1> HIDE DEF g
<1>3. ASSUME NEW n \in 0 .. L, NEW low \in 1 .. L + 1
      PROVE  g[n][low] = IF n = 0 THEN low
                         ELSE IF s[low + n \div 2].key < k
                              THEN g[n - n \div 2 - 1][low + n \div 2 + 1]
                              ELSE g[n \div 2][low]
  <2>1. g[n] = Probing(s, k, g, n)
    BY <1>1
  <2> QED
    BY <2>1 DEF Probing
<1> DEFINE Between(n, low) ==
             /\ low \in 1 .. L + 1 /\ low + n <= L + 1
             /\ \A i \in 1 .. L : i < low => s[i].key < k
             /\ \A i \in 1 .. L : i >= low + n => ~(s[i].key < k)
           Wrong == {n \in 0 .. L : \E low \in 1 .. L + 1 :
                                      Between(n, low) /\ ~Separates(s, k, g[n][low])}
<1>4. Wrong = {}
  <2> SUFFICES ASSUME Wrong # {}
               PROVE  FALSE
    OBVIOUS
  <2>1. PICK n \in Wrong : \A m \in Wrong : n <= m
    <3>1. Wrong \in SUBSET Nat
      BY <1>0
    <3> HIDE DEF Wrong
    <3> QED
      BY <3>1, LeastNumber
  <2>2. PICK low \in 1 .. L + 1 : Between(n, low) /\ ~Separates(s, k, g[n][low])
    OBVIOUS
  <2>3. n \in 0 .. L /\ \A m \in 0 .. L : \A l \in 1 .. L + 1 :
          m < n /\ Between(m, l) => Separates(s, k, g[m][l])
    <3>1. n \in 0 .. L
      OBVIOUS
    <3>2. \A m \in 0 .. L : m < n => m \notin Wrong
      <4> HIDE DEF Wrong
      <4> QED
        BY <1>0, <2>1, <3>1
    <3> HIDE DEF Between
    <3> QED
      BY <3>1, <3>2
  <2>6. /\ low \in 1 .. L + 1 /\ low + n <= L + 1 /\ n \in Nat /\ low \in Nat
        /\ \A i \in 1 .. L : i < low => s[i].key < k
        /\ \A i \in 1 .. L : i >= low + n => ~(s[i].key < k)
    BY <1>0, <2>2, <2>3
  <2>7. \A m, l : Between(m, l) <=>
          /\ l \in 1 .. L + 1 /\ l + m <= L + 1
          /\ \A i \in 1 .. L : i < l => s[i].key < k
          /\ \A i \in 1 .. L : i >= l + m => ~(s[i].key < k)
    OBVIOUS
  <2> HIDE DEF Between, Wrong
  <2>4. CASE n = 0
    <3>1. g[n][low] = low
      BY <1>0, <1>3, <2>3, <2>4
    <3>2. Separates(s, k, low)
      BY <1>0, <2>4, <2>6 DEF Separates
    <3> QED
      BY <2>2, <3>1, <3>2
  <2>5. CASE n # 0
    <3> DEFINE b == n \div 2
               a == n - b - 1
               middle == low + b
    <3>1. /\ a \in 0 .. L /\ b \in 0 .. L /\ a < n /\ b < n
          /\ middle \in 1 .. L /\ middle + 1 \in 1 .. L + 1
          /\ middle + 1 + a = low + n /\ low + b = middle
          /\ low \in Nat /\ n \in Nat
      BY <1>0, <2>3, <2>5, <2>6
    <3>2. g[n][low] = IF s[middle].key < k THEN g[a][middle + 1] ELSE g[b][low]
      BY <1>3, <2>3, <2>5
    <3> HIDE DEF middle, a, b
    <3>3. CASE s[middle].key < k
      <4>1. \A i \in 1 .. L : i < middle + 1 => s[i].key < k
        <5> SUFFICES ASSUME NEW i \in 1 .. L, i < middle + 1
                     PROVE  s[i].key < k
          OBVIOUS
        <5>0. i = middle \/ i < middle
          BY <1>0, <3>1
        <5>1. i = middle \/ s[i].key < s[middle].key
          BY <3>1, <5>0
        <5>2. s[i].key \in Nat /\ s[middle].key \in Nat
          BY <1>0, <3>1
        <5> QED
          BY <1>0, <3>3, <5>1, <5>2
      <4>2. Between(a, middle + 1)
        <5>1. middle + 1 + a <= L + 1
          BY <2>6, <3>1
        <5>2. \A i \in 1 .. L : i >= middle + 1 + a => ~(s[i].key < k)
          BY <2>6, <3>1
        <5> QED
          BY <2>7, <3>1, <4>1, <5>1, <5>2
      <4> QED
        BY <2>2, <2>3, <3>1, <3>2, <3>3, <4>2
    <3>4. CASE ~(s[middle].key < k)
      <4>1. \A i \in 1 .. L : i >= low + b => ~(s[i].key < k)
        <5> SUFFICES ASSUME NEW i \in 1 .. L, i >= middle
                     PROVE  ~(s[i].key < k)
          BY <3>1
        <5>0. i = middle \/ middle < i
          BY <1>0, <3>1
        <5>1. i = middle \/ s[middle].key < s[i].key
          BY <3>1, <5>0
        <5>2. s[i].key \in Nat /\ s[middle].key \in Nat
          BY <1>0, <3>1
        <5> QED
          BY <1>0, <3>4, <5>1, <5>2
      <4>2. Between(b, low)
        <5>1. low + b <= L + 1
          BY <1>0, <3>1
        <5> QED
          BY <2>6, <2>7, <4>1, <5>1
      <4> QED
        BY <2>2, <2>3, <3>1, <3>2, <3>4, <4>2
    <3> QED
      BY <3>3, <3>4
  <2> QED
    BY <2>4, <2>5
<1>5. Between(L, 1) /\ 1 \in 1 .. L + 1 /\ L \in 0 .. L
  BY <1>0
<1>6. Separates(s, k, g[L][1])
  <2> HIDE DEF Between
  <2> QED
    BY <1>4, <1>5
<1> QED
  BY <1>2, <1>6

-----------------------------------------------------------------------------
(***************************************************************************)
(* The data region.                                                        *)
(***************************************************************************)

\* f[i] is what the first i members of r make, one behind the other.
Chains(f, r, n) == f[0] = <<>> /\ \A i \in 1 .. n : f[i] = f[i - 1] \o r[i]

LEMMA ChainExists ==
  ASSUME NEW n \in Nat, NEW r \in [1 .. n -> Seq(Nat)]
  PROVE  \E f \in [0 .. n -> Seq(Nat)] : Chains(f, r, n)
<1> DEFINE UpTo(f, m) == f[0] = <<>> /\ \A i \in 1 .. n : i <= m => f[i] = f[i - 1] \o r[i]
           N == {m \in Nat : \E f \in [0 .. n -> Seq(Nat)] : UpTo(f, m)}
<1>1. 0 \in N
  <2> DEFINE f == [i \in 0 .. n |-> <<>>]
  <2>1. f \in [0 .. n -> Seq(Nat)]
    <3>1. <<>> \in Seq(Nat)
      OBVIOUS
    <3> QED
      BY <3>1
  <2>2. UpTo(f, 0)
    <3>1. 0 \in 0 .. n /\ \A i \in 1 .. n : ~(i <= 0)
      OBVIOUS
    <3>2. f[0] = <<>>
      BY <3>1
    <3> HIDE DEF f
    <3> QED
      BY <3>1, <3>2
  <2> HIDE DEF f, UpTo
  <2> QED
    BY <2>1, <2>2
<1>2. \A m \in N : m + 1 \in N
  <2> SUFFICES ASSUME NEW m \in Nat, NEW f \in [0 .. n -> Seq(Nat)], UpTo(f, m)
               PROVE  \E h \in [0 .. n -> Seq(Nat)] : UpTo(h, m + 1)
    <3> HIDE DEF UpTo
    <3>1. \A m \in Nat : m + 1 \in Nat
      OBVIOUS
    <3> QED
      BY <3>1
  <2> HIDE DEF N
  <2>1. CASE m + 1 \in 1 .. n
    <3> DEFINE h == [f EXCEPT ![m + 1] = f[m] \o r[m + 1]]
    <3>0. m \in 0 .. n /\ m + 1 \in 0 .. n /\ m # m + 1 /\ 0 \in 0 .. n /\ 0 # m + 1
      BY <2>1
    <3>1. f[m] \in Seq(Nat) /\ r[m + 1] \in Seq(Nat)
      BY <2>1, <3>0
    <3>2. f[m] \o r[m + 1] \in Seq(Nat)
      BY <3>1, Joined
    <3>3. h \in [0 .. n -> Seq(Nat)]
      BY <3>0, <3>2
    <3>4. UpTo(h, m + 1)
      <4>1. h[m + 1] = f[m] \o r[m + 1] /\ \A i \in 0 .. n : i # m + 1 => h[i] = f[i]
        BY <3>0
      <4> HIDE DEF h
      <4>2. h[0] = <<>> /\ h[m] = f[m]
        BY <3>0, <4>1
      <4> SUFFICES ASSUME NEW i \in 1 .. n, i <= m + 1
                   PROVE  h[i] = h[i - 1] \o r[i]
        BY <4>2
      <4>3. CASE i = m + 1
        <5>1. i - 1 = m
          BY <4>3
        <5> QED
          BY <4>1, <4>2, <4>3, <5>1
      <4>4. CASE i # m + 1
        <5>1. i <= m /\ i - 1 \in 0 .. n /\ i - 1 # m + 1 /\ i \in 0 .. n
          BY <4>4
        <5>2. f[i] = f[i - 1] \o r[i]
          BY <5>1
        <5>3. h[i] = f[i] /\ h[i - 1] = f[i - 1]
          BY <4>1, <4>4, <5>1
        <5> QED
          BY <5>2, <5>3
      <4> QED
        BY <4>3, <4>4
    <3> QED
      BY <3>3, <3>4
  <2>2. CASE m + 1 \notin 1 .. n
    <3>1. \A i \in 1 .. n : i <= m
      BY <2>2
    <3>2. UpTo(f, m + 1)
      BY <3>1
    <3> QED
      BY <3>2
  <2> QED
    BY <2>1, <2>2
<1>3. n \in N
  <2>1. N \in SUBSET Nat
    OBVIOUS
  <2> HIDE DEF N
  <2> QED
    BY <1>1, <1>2, <2>1, SetInduction
<1>4. PICK f \in [0 .. n -> Seq(Nat)] : UpTo(f, n)
  BY <1>3
<1>5. Chains(f, r, n)
  <2>1. \A i \in 1 .. n : i <= n
    OBVIOUS
  <2> QED
    BY <1>4, <2>1 DEF Chains
<1> QED
  BY <1>5

\* FlattenSeq makes the same chain.
LEMMA FlattenIsChain ==
  ASSUME NEW n \in Nat, NEW r \in [1 .. n -> Seq(Nat)], NEW f \in [0 .. n -> Seq(Nat)],
         Chains(f, r, n), NEW m \in 0 .. n, NEW t \in Seq(Seq(Nat)), Len(t) = m,
         \A i \in 1 .. m : t[i] = r[i]
  PROVE  FlattenSeq(t) = f[m]
<1>1. CASE m = 0
  <2>1. t = <<>>
    BY <1>1, EmptySeq
  <2> QED
    BY <1>1, <2>1 DEF FlattenSeq, Chains
<1>2. CASE m # 0
  <2> DEFINE c == CHOOSE g : g = [i \in 1 .. Len(t) |-> IF i = 1 THEN t[i] ELSE g[i - 1] \o t[i]]
             h == [i \in 1 .. Len(t) |-> f[i]]
  <2>1. FlattenSeq(t) = c[m]
    BY <1>2 DEF FlattenSeq
  <2>2. f[1] = t[1]
    <3>1. 1 \in 1 .. n /\ 1 \in 1 .. m /\ 1 - 1 = 0
      BY <1>2
    <3>2. f[1] = <<>> \o r[1]
      BY <3>1 DEF Chains
    <3>3. r[1] \in Seq(Nat)
      BY <3>1
    <3> HIDE DEF c, h
    <3>4. <<>> \o r[1] = r[1]
      BY <3>3
    <3> QED
      BY <3>1, <3>2, <3>4
  <2>3. \A i \in 1 .. m : i # 1 => f[i] = f[i - 1] \o t[i]
    <3> HIDE DEF c, h
    <3> SUFFICES ASSUME NEW i \in 1 .. m
                 PROVE  f[i] = f[i - 1] \o t[i]
      OBVIOUS
    <3>1. i \in 1 .. n
      OBVIOUS
    <3>2. f[i] = f[i - 1] \o r[i]
      BY <3>1 DEF Chains
    <3>3. t[i] = r[i]
      OBVIOUS
    <3> QED
      BY <3>2, <3>3
  <2>4. h = [i \in 1 .. Len(t) |-> IF i = 1 THEN t[i] ELSE h[i - 1] \o t[i]]
    <3>1. \A i \in 1 .. m : i # 1 => i - 1 \in 1 .. m
      OBVIOUS
    <3> QED
      BY <2>2, <2>3, <3>1
  <2> HIDE DEF h
  <2>5. c = [i \in 1 .. Len(t) |-> IF i = 1 THEN t[i] ELSE c[i - 1] \o t[i]]
    BY <2>4
  <2> HIDE DEF c
  <2> DEFINE Wrong == {i \in 1 .. m : c[i] # f[i]}
  <2>6. Wrong = {}
    <3> SUFFICES ASSUME Wrong # {}
                 PROVE  FALSE
      OBVIOUS
    <3>1. PICK i \in Wrong : \A j \in Wrong : i <= j
      <4>1. Wrong \in SUBSET Nat
        OBVIOUS
      <4> HIDE DEF Wrong
      <4> QED
        BY <4>1, LeastNumber
    <3>2. i \in 1 .. m /\ c[i] # f[i]
      OBVIOUS
    <3>3. i # 1
      BY <2>2, <2>5, <3>2
    <3>4. i - 1 \in 1 .. m /\ i - 1 \notin Wrong
      BY <3>1, <3>2, <3>3
    <3>5. c[i - 1] = f[i - 1]
      BY <3>4
    <3>6. c[i] = c[i - 1] \o t[i]
      BY <2>5, <3>2, <3>3
    <3> QED
      BY <2>3, <3>2, <3>3, <3>5, <3>6
  <2>7. c[m] = f[m]
    <3>1. m \in 1 .. m
      BY <1>2
    <3> QED
      BY <2>6, <3>1
  <2> QED
    BY <2>1, <2>7
<1> QED
  BY <1>1, <1>2

\* A chain begins with every shorter one.
LEMMA ChainGrows ==
  ASSUME NEW n \in Nat, NEW r \in [1 .. n -> Seq(Nat)], NEW f \in [0 .. n -> Seq(Nat)],
         Chains(f, r, n), NEW m \in 0 .. n
  PROVE  \A i \in m .. n : BeginsWith(f[i], f[m])
<1> DEFINE Wrong == {i \in m .. n : ~BeginsWith(f[i], f[m])}
<1> SUFFICES ASSUME Wrong # {}
             PROVE  FALSE
  OBVIOUS
<1>1. PICK i \in Wrong : \A j \in Wrong : i <= j
  <2>1. Wrong \in SUBSET Nat
    OBVIOUS
  <2> HIDE DEF Wrong
  <2> QED
    BY <2>1, LeastNumber
<1>2. i \in m .. n /\ ~BeginsWith(f[i], f[m])
  OBVIOUS
<1>3. f[m] \in Seq(Nat) /\ Len(f[m]) \in Nat
  OBVIOUS
<1>4. i # m
  BY <1>2, <1>3 DEF BeginsWith
<1>5. i - 1 \in m .. n /\ i - 1 \notin Wrong /\ i \in 1 .. n /\ i - 1 \in 0 .. n
  BY <1>1, <1>2, <1>4
<1>6. BeginsWith(f[i - 1], f[m])
  BY <1>5
<1>7. f[i] = f[i - 1] \o r[i]
  BY <1>5 DEF Chains
<1> DEFINE a == f[m]
           b == f[i - 1]
           c == r[i]
           d == f[i]
<1>8. /\ a \in Seq(Nat) /\ b \in Seq(Nat) /\ c \in Seq(Nat) /\ d = b \o c
      /\ BeginsWith(b, a) /\ ~BeginsWith(d, a)
  BY <1>2, <1>3, <1>5, <1>6, <1>7
<1> HIDE DEF Wrong, a, b, c, d
<1>9. /\ Len(d) = Len(b) + Len(c)
      /\ \A x \in 1 .. Len(b) : d[x] = b[x]
  BY <1>8, Joined
<1>10. Len(a) \in Nat /\ Len(b) \in Nat /\ Len(c) \in Nat
  BY <1>8
<1>11. Len(a) <= Len(b) /\ \A x \in 1 .. Len(a) : b[x] = a[x]
  BY <1>8 DEF BeginsWith
<1>12. \A x \in 1 .. Len(a) : x \in 1 .. Len(b) /\ d[x] = a[x]
  BY <1>9, <1>10, <1>11
<1>13. Len(a) <= Len(d)
  BY <1>9, <1>10, <1>11
<1> QED
  BY <1>8, <1>12, <1>13 DEF BeginsWith

\* Member i of r is in the whole chain where the shorter chain ends.
LEMMA ChainHolds ==
  ASSUME NEW n \in Nat, NEW r \in [1 .. n -> Seq(Nat)], NEW f \in [0 .. n -> Seq(Nat)],
         Chains(f, r, n), NEW i \in 1 .. n
  PROVE  /\ Len(f[i - 1]) \in Nat /\ Len(f[i - 1]) + Len(r[i]) <= Len(f[n])
         /\ \A x \in 1 .. Len(r[i]) : f[n][Len(f[i - 1]) + x] = r[i][x]
<1>1. i - 1 \in 0 .. n /\ i \in 0 .. n /\ n \in i .. n
  OBVIOUS
<1>2. f[i] = f[i - 1] \o r[i]
  BY DEF Chains
<1>3. BeginsWith(f[n], f[i])
  <2> HIDE DEF Chains
  <2> QED
    BY <1>1, ChainGrows
<1> DEFINE b == f[i - 1]
           c == r[i]
           d == f[i]
           e == f[n]
<1>4. b \in Seq(Nat) /\ c \in Seq(Nat) /\ d = b \o c /\ BeginsWith(e, d) /\ e \in Seq(Nat)
  BY <1>1, <1>2, <1>3
<1> HIDE DEF b, c, d, e
<1>5. /\ Len(d) = Len(b) + Len(c)
      /\ \A x \in 1 .. Len(c) : d[Len(b) + x] = c[x]
  BY <1>4, Joined
<1>6. Len(b) \in Nat /\ Len(c) \in Nat /\ Len(e) \in Nat
  BY <1>4
<1>7. Len(d) <= Len(e) /\ \A x \in 1 .. Len(d) : e[x] = d[x]
  BY <1>4 DEF BeginsWith
<1>8. \A x \in 1 .. Len(c) : Len(b) + x \in 1 .. Len(d)
  BY <1>5, <1>6
<1>9. \A x \in 1 .. Len(c) : e[Len(b) + x] = c[x]
  BY <1>5, <1>7, <1>8
<1> QED
  BY <1>5, <1>6, <1>7, <1>9 DEF b, c, d, e

-----------------------------------------------------------------------------
\* es is a sequence of keys with their entries.
AreEntries(es) ==
  /\ Len(es) \in Nat /\ DOMAIN es = 1 .. Len(es) /\ es = [i \in 1 .. Len(es) |-> es[i]]
  /\ \A i \in 1 .. Len(es) : es[i].key \in Keys /\ es[i].entry \in Entries

\* A record y of the entry x: the length, and behind it what decodes to x.
IsRecord(y, c, x) ==
  /\ c \in Seq(Nat) /\ y \in Seq(Nat)
  /\ Len(y) = 1 + Len(c) /\ Len(c) \in Nat /\ y[1] = Len(c)
  /\ \A i \in 1 .. Len(c) : y[1 + i] = c[i]
  /\ decode(c) = Full(x.key, x.entry)

LEMMA RecordIs ==
  ASSUME NEW x, x.key \in Keys, x.entry \in Entries
  PROVE  Record(x) \in Seq(Nat) /\ \E c : IsRecord(Record(x), c, x)
<1> DEFINE k == x.key
           e == x.entry
           c == encode(Full(k, e))
<1>0. k \in Keys /\ e \in Entries /\ k = x.key /\ e = x.entry
  OBVIOUS
<1> HIDE DEF k, e
<1>1. /\ KeyText[k] \in Seq(Nat) /\ e.value \in Seq(Nat) /\ e.type \in Nat /\ e.timestamp \in Nat
  BY <1>0, EntriesAreSane DEF EntryType, PUT, DELETE
<1>2. c = Code(e.type, e.timestamp, KeyText[k], e.value)
  BY DEF encode, Full, Code
<1> HIDE DEF c
<1>3. c \in Seq(Nat) /\ Len(c) \in Nat
  <2>1. Fields(c, e.type, e.timestamp, KeyText[k], e.value)
    BY <1>1, <1>2, EncodedFields
  <2>2. c \in Seq(Nat)
    BY <2>1 DEF Fields
  <2> QED
    BY <2>2
<1>4. decode(c) = Full(k, e)
  <2>1. BeginsWith(c, c)
    BY <1>3 DEF BeginsWith
  <2>2. BeginsWith(c, Code(e.type, e.timestamp, KeyText[k], e.value))
    BY <1>2, <2>1
  <2> QED
    BY <1>1, <1>3, <2>2, DecodeFinds DEF Full
<1>5. Record(x) = <<Len(c)>> \o c
  BY <1>0 DEF Record, c
<1>6. /\ <<Len(c)>> \in Seq(Nat) /\ Len(<<Len(c)>>) = 1 /\ <<Len(c)>>[1] = Len(c)
      /\ 1 \in 1 .. Len(<<Len(c)>>)
  BY <1>3
<1> DEFINE l == <<Len(c)>>
<1>7. Record(x) = l \o c /\ l \in Seq(Nat) /\ Len(l) = 1 /\ l[1] = Len(c) /\ 1 \in 1 .. Len(l)
  BY <1>5, <1>6
<1> HIDE DEF l
<1>8. /\ Record(x) \in Seq(Nat) /\ Len(Record(x)) = 1 + Len(c)
      /\ Record(x)[1] = l[1]
      /\ \A i \in 1 .. Len(c) : Record(x)[1 + i] = c[i]
  <2>1. /\ l \o c \in Seq(Nat) /\ Len(l \o c) = Len(l) + Len(c)
        /\ \A i \in 1 .. Len(l) : (l \o c)[i] = l[i]
        /\ \A i \in 1 .. Len(c) : (l \o c)[Len(l) + i] = c[i]
    BY <1>3, <1>7, Joined
  <2> QED
    BY <1>7, <2>1
<1>9. IsRecord(Record(x), c, x)
  BY <1>0, <1>3, <1>4, <1>7, <1>8 DEF IsRecord
<1> QED
  BY <1>8, <1>9

\* f is the chain of the records r of the n entries es.
Records(f, r, n, es) ==
  /\ n = Len(es) /\ r \in [1 .. n -> Seq(Nat)] /\ f \in [0 .. n -> Seq(Nat)]
  /\ \A i \in 1 .. n : r[i] = Record(es[i])
  /\ Chains(f, r, n)

\* The buffer of some first entries is a chain of records.
LEMMA BufferIsChain ==
  ASSUME NEW es, AreEntries(es), NEW f, NEW r, NEW n, Records(f, r, n, es)
  PROVE  /\ Buffer(es) = f[n]
         /\ \A i \in 1 .. n : Offset(es, i) = Len(f[i - 1])
<1>0. /\ n = Len(es) /\ n \in Nat /\ r \in [1 .. n -> Seq(Nat)] /\ f \in [0 .. n -> Seq(Nat)]
      /\ \A i \in 1 .. n : r[i] = Record(es[i])
      /\ Chains(f, r, n)
  BY DEF AreEntries, Records
<1>1. \A i \in 1 .. n : Record(es[i]) \in Seq(Nat)
  BY <1>0
<1>2. r \in [1 .. n -> Seq(Nat)]
  BY <1>0
<1>3. Buffer(es) = f[n]
  <2>1. [i \in DOMAIN es |-> Record(es[i])] = r
    BY <1>0 DEF AreEntries
  <2>2. r \in Seq(Seq(Nat)) /\ Len(r) = n
    BY <1>0
  <2>3. FlattenSeq(r) = f[n]
    <3>1. n \in 0 .. n /\ \A i \in 1 .. n : r[i] = r[i]
      BY <1>0
    <3> QED
      BY ONLY <1>2, <2>2, <3>1, FlattenIsChain, <1>0
  <2> QED
    BY <2>1, <2>3 DEF Buffer
<1>4. ASSUME NEW i \in 1 .. n
      PROVE  Buffer(SubSeq(es, 1, i - 1)) = f[i - 1]
  <2> DEFINE p == SubSeq(es, 1, i - 1)
             t == [j \in DOMAIN p |-> Record(p[j])]
  <2>1. DOMAIN p = 1 .. i - 1 /\ \A j \in 1 .. i - 1 : p[j] = es[j]
    <3>1. p = [j \in 1 .. i - 1 |-> es[j]]
      BY <1>0 DEF AreEntries
    <3> QED
      BY <3>1
  <2> HIDE DEF p
  <2>2. t = [j \in 1 .. i - 1 |-> Record(es[j])]
    BY <2>1
  <2>3. /\ t \in Seq(Seq(Nat)) /\ Len(t) = i - 1 /\ i - 1 \in 0 .. n
        /\ \A j \in 1 .. i - 1 : t[j] = r[j]
    <3>1. i - 1 \in 0 .. n /\ \A j \in 1 .. i - 1 : j \in 1 .. n
      BY <1>0
    <3>2. \A j \in 1 .. i - 1 : Record(es[j]) \in Seq(Nat)
      BY <1>1, <3>1
    <3>3. t \in [1 .. i - 1 -> Seq(Nat)]
      BY <2>2, <3>2
    <3>4. i - 1 \in Nat
      BY <1>0
    <3>5. \A j \in 1 .. i - 1 : t[j] = Record(es[j]) /\ r[j] = Record(es[j])
      BY <1>0, <2>2, <3>1
    <3> DEFINE m == i - 1
    <3>6. t \in [1 .. m -> Seq(Nat)] /\ m \in Nat
      BY <3>3, <3>4
    <3> HIDE DEF t, m
    <3>7. t \in Seq(Seq(Nat)) /\ Len(t) = m
      BY <3>6
    <3>8. t \in Seq(Seq(Nat)) /\ Len(t) = i - 1
      BY <3>7 DEF m
    <3> QED
      BY <3>1, <3>5, <3>8
  <2>4. FlattenSeq(t) = f[i - 1]
    <3> HIDE DEF t
    <3> QED
      BY <1>0, <1>2, <2>3, FlattenIsChain
  <2> QED
    BY <2>4 DEF Buffer, p
<1> QED
  BY <1>3, <1>4 DEF Offset

LEMMA BufferIsSeq ==
  ASSUME NEW es, AreEntries(es)
  PROVE  Buffer(es) \in Seq(Nat)
<1> DEFINE n == Len(es)
           r == [j \in 1 .. n |-> Record(es[j])]
<1>1. n \in Nat /\ r \in [1 .. n -> Seq(Nat)]
  <2>1. \A j \in 1 .. n : Record(es[j]) \in Seq(Nat)
    BY RecordIs DEF AreEntries
  <2> QED
    BY <2>1 DEF AreEntries
<1>2. \A j \in 1 .. n : r[j] = Record(es[j])
  OBVIOUS
<1> HIDE DEF r
<1>3. PICK f : f \in [0 .. n -> Seq(Nat)] /\ Chains(f, r, n)
  <2> HIDE DEF n
  <2> QED
    BY <1>1, ChainExists
<1>4. Records(f, r, n, es)
  BY <1>1, <1>2, <1>3 DEF Records
<1>5. Buffer(es) = f[n] /\ n \in 0 .. n
  BY <1>1, <1>4, BufferIsChain
<1> QED
  BY <1>3, <1>5

\* d is the data of es or, if 32 bits do not tell its size, some part of it.
IsPart(d, es) ==
  \/ d = Buffer(es)
  \/ ~fits /\ \E n \in 0 .. Len(Buffer(es)) : d = SubSeq(Buffer(es), 1, n)

LEMMA PartIs ==
  ASSUME NEW es, AreEntries(es), NEW d, IsPart(d, es)
  PROVE  /\ d \in Seq(Nat) /\ Len(d) \in Nat /\ Len(d) <= Len(Buffer(es))
         /\ \A x \in 1 .. Len(d) : d[x] = Buffer(es)[x]
         /\ fits => Len(d) = Len(Buffer(es))
<1> DEFINE b == Buffer(es)
<1>1. b \in Seq(Nat)
  BY BufferIsSeq
<1>2. \/ d = b
      \/ ~fits /\ \E n \in 0 .. Len(b) : d = SubSeq(b, 1, n)
  BY DEF IsPart
<1> HIDE DEF b
<1>3. CASE d = b
  BY <1>1, <1>3 DEF b
<1>4. CASE ~fits /\ \E n \in 0 .. Len(b) : d = SubSeq(b, 1, n)
  <2>1. PICK n \in 0 .. Len(b) : d = SubSeq(b, 1, n)
    BY <1>4
  <2>2. n \in Nat /\ Len(b) \in Nat /\ n <= Len(b)
    BY <1>1
  <2>3. \A x \in 1 .. n : b[x] \in Nat
    BY <1>1, <2>2
  <2>4. (IF 1 <= n THEN n - 1 + 1 ELSE 0) = n /\ n - 1 + 1 = n /\ 1 \in Int /\ n \in Int
    BY <2>2
  <2>5. /\ d \in Seq(Nat) /\ Len(d) = IF 1 <= n THEN n - 1 + 1 ELSE 0
        /\ \A x \in 1 .. n - 1 + 1 : d[x] = b[1 + x - 1]
    BY <2>1, <2>3, <2>4, SubSeqProperties
  <2>6. \A x \in 1 .. n : d[x] = b[x]
    <3>1. \A x \in 1 .. n : 1 + x - 1 = x
      BY <2>2
    <3> QED
      BY <2>4, <2>5, <3>1
  <2>7. Len(d) = n
    BY <2>4, <2>5
  <2> QED
    BY <1>4, <2>2, <2>5, <2>6, <2>7 DEF b
<1> QED
  BY <1>2, <1>3, <1>4

\* For any entries of any lengths: what is read at the offset that the index
\* notes for an entry is this entry, unless the end of the data is missing.
LEMMA ReadsBack ==
  ASSUME NEW es, AreEntries(es), NEW i \in 1 .. Len(es), NEW part, IsPart(part, es)
  PROVE  EntryAt(part, Offset(es, i)) \in {Full(es[i].key, es[i].entry)} \union Misread
<1> DEFINE n == Len(es)
           r == [j \in 1 .. n |-> Record(es[j])]
<1>1. n \in Nat /\ r \in [1 .. n -> Seq(Nat)]
  <2>1. \A j \in 1 .. n : Record(es[j]) \in Seq(Nat)
    BY RecordIs DEF AreEntries
  <2> QED
    BY <2>1 DEF AreEntries
<1>2. PICK f : f \in [0 .. n -> Seq(Nat)] /\ Chains(f, r, n)
  <2> HIDE DEF n, r
  <2> QED
    BY <1>1, ChainExists
<1> DEFINE d == Buffer(es)
           o == Offset(es, i)
<1>3. d = f[n] /\ o = Len(f[i - 1]) /\ d \in Seq(Nat)
  <2>1. d = f[n] /\ \A j \in 1 .. n : Offset(es, j) = Len(f[j - 1])
    <3>1. Records(f, r, n, es)
      BY <1>1, <1>2 DEF Records
    <3> HIDE DEF r, n, o, d
    <3>2. /\ Buffer(es) = f[n]
          /\ \A j \in 1 .. n : Offset(es, j) = Len(f[j - 1])
      BY <3>1, BufferIsChain
    <3> QED
      BY <3>2 DEF d
  <2>2. n \in 0 .. n
    BY <1>1
  <2>3. f[n] \in Seq(Nat)
    BY <1>2, <2>2
  <2> QED
    BY <2>1, <2>3
<1>4. PICK c : IsRecord(r[i], c, es[i])
  <2>1. es[i].key \in Keys /\ es[i].entry \in Entries /\ r[i] = Record(es[i])
    BY DEF AreEntries
  <2> HIDE DEF r
  <2> QED
    BY <2>1, RecordIs
<1>5. /\ o \in Nat /\ o + Len(r[i]) <= Len(d)
      /\ \A x \in 1 .. Len(r[i]) : d[o + x] = r[i][x]
  <2> HIDE DEF n, r, d, o
  <2>1. i \in 1 .. n
    BY DEF n
  <2> QED
    BY <1>1, <1>2, <1>3, <2>1, ChainHolds
<1> DEFINE q == r[i]
<1>6. /\ c \in Seq(Nat) /\ decode(c) = Full(es[i].key, es[i].entry)
      /\ Len(q) = 1 + Len(c) /\ Len(c) \in Nat /\ q[1] = Len(c)
      /\ \A j \in 1 .. Len(c) : q[1 + j] = c[j]
      /\ o \in Nat /\ o + Len(q) <= Len(d) /\ d \in Seq(Nat)
      /\ \A x \in 1 .. Len(q) : d[o + x] = q[x]
  BY <1>3, <1>4, <1>5 DEF IsRecord
<1> HIDE DEF n, r, d, o, q
<1>7. d[o + 1] = Len(c)
  <2>1. 1 \in 1 .. Len(q)
    BY <1>6
  <2> QED
    BY <1>6, <2>1
<1>8. /\ part \in Seq(Nat) /\ Len(part) \in Nat
      /\ \A x \in 1 .. Len(part) : part[x] = d[x]
      /\ fits => Len(part) = Len(d)
  BY PartIs DEF d
<1>9. CASE o + 1 > Len(part) \/ o + 1 + part[o + 1] > Len(part)
  <2>1. EntryAt(part, o) = Garbage
    BY <1>9 DEF EntryAt
  <2>2. ~fits
    <3> SUFFICES ASSUME fits
                 PROVE  FALSE
      OBVIOUS
    <3>1. Len(part) = Len(d) /\ o + 1 + Len(c) <= Len(d) /\ Len(d) \in Nat
      BY <1>6, <1>8
    <3>2. o + 1 \in 1 .. Len(part)
      BY <1>6, <3>1
    <3>3. part[o + 1] = Len(c)
      BY <1>7, <1>8, <3>2
    <3>4. o + 1 > Len(part) \/ o + 1 + Len(c) > Len(part)
      BY <1>9, <3>3
    <3>5. o \in Nat /\ Len(c) \in Nat
      BY <1>6
    <3> QED
      BY ONLY <3>1, <3>4, <3>5
  <2> QED
    BY <2>1, <2>2 DEF Misread, o
<1>10. CASE ~(o + 1 > Len(part) \/ o + 1 + part[o + 1] > Len(part))
  <2>1. o + 1 \in 1 .. Len(part)
    BY <1>6, <1>8, <1>10
  <2>2. part[o + 1] = Len(c)
    BY <1>7, <1>8, <2>1
  <2>3. o + 1 + Len(c) <= Len(part)
    <3>1. ~(o + 1 + part[o + 1] > Len(part))
      BY <1>10
    <3>2. ~(o + 1 + Len(c) > Len(part))
      BY <2>2, <3>1
    <3> QED
      BY <1>6, <1>8, <3>2
  <2>4. ASSUME NEW j \in 1 .. Len(c)
        PROVE  part[o + 2 + j - 1] = c[j]
    <3>1. 1 + j \in 1 .. Len(q) /\ o + (1 + j) = o + 2 + j - 1
      BY <1>6
    <3>2. d[o + (1 + j)] = q[1 + j] /\ q[1 + j] = c[j]
      BY <1>6, <3>1
    <3>3. o + (1 + j) \in 1 .. Len(part)
      <4>1. o \in Nat /\ Len(c) \in Nat /\ Len(part) \in Nat
        BY <1>6, <1>8
      <4>2. j \in Nat /\ 1 <= j /\ j <= Len(c)
        BY <4>1
      <4> QED
        BY ONLY <2>3, <4>1, <4>2
    <3> QED
      BY <1>8, <3>1, <3>2, <3>3
  <2>5. /\ o + 2 \in Nat \ {0} /\ o + 1 + Len(c) \in Nat
        /\ o + 1 + Len(c) = o + 2 + Len(c) - 1
        /\ o + 1 + Len(c) <= Len(part)
    <3>1. o \in Nat /\ Len(c) \in Nat
      BY <1>6
    <3> QED
      BY ONLY <2>3, <3>1
  <2>6. SubSeq(part, o + 2, o + 1 + Len(c)) = c
    BY ONLY <1>6, <1>8, <2>4, <2>5, PieceIs
  <2>7. EntryAt(part, o) = Full(es[i].key, es[i].entry)
    BY <1>6, <1>10, <2>2, <2>6 DEF EntryAt
  <2> QED
    BY <2>7 DEF o
<1> QED
  BY <1>9, <1>10

-----------------------------------------------------------------------------
(***************************************************************************)
(* What is found in the table.                                             *)
(***************************************************************************)

\* es lists the keys that were written, in their order, with what was written.
Lists(es) ==
  /\ AreEntries(es)
  /\ \A i, j \in 1 .. Len(es) : i < j => es[i].key < es[j].key
  /\ \A i \in 1 .. Len(es) : es[i].entry = written[es[i].key]
  /\ \A k \in WrittenKeys : \E i \in 1 .. Len(es) : es[i].key = k

\* A file that ends with a footer is the one es was written to; data that is
\* accepted is right.
FileHolds(es) ==
  file.footer.magic = "SST" =>
    /\ file.footer.version \in {1, 2, 3} /\ file.footer.num_entries = Len(es)
    /\ file.index = Index(es)
    /\ file.footer.version < 3 => file.data = Buffer(es)
    /\ /\ file.footer.version = 3
       /\ file.data = file.footer.checksum /\ Decompresses(file.data, file.size)
       => file.data \in Seq(Nat) /\ IsPart(Tail(file.data), es)

\* What the object has loaded is right.
CacheHolds(es, c) ==
  /\ c.footer_loaded => c.footer = file.footer /\ file.footer.magic = "SST"
  /\ c.index \in {<<>>, Index(es)}
  /\ c.index # <<>> => c.footer_loaded
  /\ c.data_loaded => IsPart(c.data, es)

\* The file and the object c hold es.
Holding(es, c) ==
  Lists(es) /\ FileOK /\ FileHolds(es) /\ CacheOK(c) /\ CacheHolds(es, c)

LEMMA FooterHolds ==
  ASSUME NEW es, NEW c, NEW o, Holding(es, c)
  PROVE  /\ Holding(es, load_footer(c, o))
         /\ o /\ file.footer.magic = "SST" => load_footer(c, o).footer_loaded
         /\ load_footer(c, o).index = c.index /\ load_footer(c, o).bloom_loaded = c.bloom_loaded
<1> DEFINE f == load_footer(c, o)
<1>1. CacheOK(f)
  BY FooterIsOK DEF Holding
<1>2. DOMAIN c = CacheFields
  BY DEF Holding, CacheOK
<1>3. CASE c.footer_loaded \/ ~o
  <2>1. f = c
    BY <1>3 DEF load_footer
  <2> HIDE DEF f
  <2> QED
    BY <1>1, <1>3, <2>1 DEF Holding, f
<1>4. CASE ~(c.footer_loaded \/ ~o)
  <2>1. f = [c EXCEPT !.footer = file.footer, !.footer_loaded = (file.footer.magic = "SST")]
    BY <1>4 DEF load_footer
  <2> HIDE DEF f
  <2>2. /\ f.footer = file.footer /\ f.footer_loaded = (file.footer.magic = "SST")
        /\ f.index = c.index /\ f.data_loaded = c.data_loaded /\ f.data = c.data
        /\ f.bloom_loaded = c.bloom_loaded
    BY <1>2, <2>1 DEF CacheFields
  <2>3. CacheHolds(es, f)
    BY <1>4, <2>2 DEF Holding, CacheHolds
  <2> QED
    BY <1>1, <2>2, <2>3 DEF Holding, f
<1> QED
  BY <1>3, <1>4

\* A change of the filter alone, which CacheOK is about.
LEMMA FilterHolds ==
  ASSUME NEW es, NEW c, NEW d, Holding(es, c), CacheOK(d),
         d.footer = c.footer, d.footer_loaded = c.footer_loaded, d.index = c.index,
         d.data = c.data, d.data_loaded = c.data_loaded
  PROVE  Holding(es, d)
BY DEF Holding, CacheHolds

LEMMA LoadedFilterHolds ==
  ASSUME NEW es, NEW c, NEW o, NEW p, Holding(es, c)
  PROVE  Holding(es, load_bloom_filter(c, o, p))
<1> DEFINE f == load_footer(c, o)
           b == load_bloom_filter(c, o, p)
           m == [f EXCEPT !.bloom_loaded = TRUE]
<1>1. Holding(es, f)
  BY FooterHolds
<1>2. CacheOK(b)
  BY LoadedFilterIsOK DEF Holding
<1>3. b \in {c, f, m, WithFilter(f)}
  BY DEF load_bloom_filter
<1> HIDE DEF f, b
<1>4. DOMAIN f = CacheFields
  BY <1>1 DEF Holding, CacheOK
<1>5. CASE b \in {c, f}
  BY <1>1, <1>5 DEF b
<1>6. CASE b = m
  <2>1. /\ b.footer = f.footer /\ b.footer_loaded = f.footer_loaded /\ b.index = f.index
        /\ b.data = f.data /\ b.data_loaded = f.data_loaded
    BY <1>4, <1>6 DEF CacheFields
  <2>2. Holding(es, b)
    BY <1>1, <1>2, <2>1, FilterHolds
  <2> QED
    BY <2>2 DEF b
<1>7. CASE b = WithFilter(f)
  <2>1. b = [f EXCEPT !.bloom = deserialize(file.bloom), !.bloom_loaded = TRUE]
    BY <1>7 DEF WithFilter
  <2>2. /\ b.footer = f.footer /\ b.footer_loaded = f.footer_loaded /\ b.index = f.index
        /\ b.data = f.data /\ b.data_loaded = f.data_loaded
    BY <1>4, <2>1 DEF CacheFields
  <2>3. Holding(es, b)
    BY <1>1, <1>2, <2>2, FilterHolds
  <2> QED
    BY <2>3 DEF b
<1> QED
  BY <1>3, <1>5, <1>6, <1>7

\* The index of es, as it is written and as it is searched.
LEMMA IndexIs ==
  ASSUME NEW es, Lists(es)
  PROVE  /\ Len(Index(es)) = Len(es) /\ Len(es) \in Nat
         /\ SubSeq(Index(es), 1, Len(es)) = Index(es)
         /\ \A i \in 1 .. Len(es) : /\ Index(es)[i].key = es[i].key /\ es[i].key \in Nat
                                    /\ Index(es)[i].offset = Offset(es, i)
                                    /\ Index(es)[i].type = es[i].entry.type
<1> DEFINE n == Len(es)
<1>1. n \in Nat /\ DOMAIN es = 1 .. n /\ \A i \in 1 .. n : es[i].key \in Nat
  BY KeysAreNumbers DEF Lists, AreEntries
<1>2. Index(es) = [i \in 1 .. n |-> [key |-> es[i].key, offset |-> Offset(es, i),
                                      type |-> es[i].entry.type]]
  BY <1>1 DEF Index
<1> DEFINE s == Index(es)
<1>3. DOMAIN s = 1 .. n /\ s = [i \in 1 .. n |-> s[i]]
  BY <1>2
<1> HIDE DEF n
<1>4. Len(s) = n
  BY <1>1, <1>2
<1> HIDE DEF s
<1>5. SubSeq(s, 1, n) = s
  <2>1. SubSeq(s, 1, n) = [i \in 1 .. n |-> s[i]]
    BY <1>1, <1>3
  <2> QED
    BY <1>3, <2>1
<1>6. \A i \in 1 .. n : /\ s[i].key = es[i].key
                         /\ s[i].offset = Offset(es, i)
                         /\ s[i].type = es[i].entry.type
  BY <1>2 DEF s
<1> QED
  BY <1>1, <1>4, <1>5, <1>6 DEF s, n

LEMMA LoadedIndexHolds ==
  ASSUME NEW es, NEW c, NEW o, NEW p, Holding(es, c)
  PROVE  /\ Holding(es, load_index(c, o, p))
         /\ o /\ p /\ file.footer.magic = "SST" => load_index(c, o, p).index = Index(es)
<1> DEFINE f == load_footer(c, o)
           m == [f EXCEPT !.index = IndexOf(f)]
           i == load_index(c, o, p)
<1>1. /\ Holding(es, f) /\ f.index = c.index
      /\ o /\ file.footer.magic = "SST" => f.footer_loaded
  BY FooterHolds
<1>2. CacheOK(i)
  BY LoadedIndexIsOK DEF Holding
<1>3. CASE c.index # <<>>
  <2>1. i = c
    BY <1>3 DEF load_index
  <2>2. c.index = Index(es)
    BY <1>3 DEF Holding, CacheHolds
  <2> HIDE DEF i
  <2> QED
    BY <2>1, <2>2 DEF i
<1>4. CASE c.index = <<>> /\ ~(f.footer_loaded /\ p)
  <2>1. i = f
    BY <1>4 DEF load_index
  <2> HIDE DEF i, f
  <2> QED
    BY <1>1, <1>4, <2>1 DEF i
<1>5. CASE c.index = <<>> /\ f.footer_loaded /\ p
  <2>1. i \in {m, WithFilter(m)}
    BY <1>5 DEF load_index
  <2> HIDE DEF i, f
  <2>2. file.footer.magic = "SST" /\ f.footer = file.footer /\ DOMAIN f = CacheFields
    BY <1>1, <1>5 DEF Holding, CacheHolds, CacheOK
  <2>3. IndexOf(f) = Index(es)
    <3>1. file.index = Index(es) /\ file.footer.num_entries = Len(es) /\ Lists(es)
      BY <1>1, <2>2 DEF Holding, FileHolds
    <3> QED
      BY <2>2, <3>1, IndexIs DEF IndexOf
  <2>4. /\ m.footer = f.footer /\ m.footer_loaded = f.footer_loaded /\ m.index = Index(es)
        /\ m.data = f.data /\ m.data_loaded = f.data_loaded /\ DOMAIN m = CacheFields
    BY <2>2, <2>3 DEF CacheFields
  <2> HIDE DEF m
  <2>5. /\ i.footer = f.footer /\ i.footer_loaded = f.footer_loaded /\ i.index = Index(es)
        /\ i.data = f.data /\ i.data_loaded = f.data_loaded
    <3>1. CASE i = m
      BY <2>4, <3>1
    <3>2. CASE i = WithFilter(m)
      <4>1. i = [m EXCEPT !.bloom = deserialize(file.bloom), !.bloom_loaded = TRUE]
        BY <3>2 DEF WithFilter
      <4> QED
        BY <2>4, <4>1 DEF CacheFields
    <3> QED
      BY <2>1, <3>1, <3>2
  <2>6. CacheHolds(es, i)
    BY <1>1, <1>5, <2>5 DEF Holding, CacheHolds
  <2>7. Holding(es, i)
    BY <1>1, <1>2, <2>6 DEF Holding
  <2> QED
    BY <2>5, <2>7 DEF i
<1> QED
  BY <1>3, <1>4, <1>5

\* After the footer, the data: what can be read is the data of es, and if
\* nothing has happened to it, it can be read.
LEMMA LoadedDataHolds ==
  ASSUME NEW es, NEW c, NEW o, Holding(es, c), c.footer_loaded
  PROVE  /\ Holding(es, LoadedData(c, o)) /\ LoadedData(c, o).index = c.index
         /\ CanRead(LoadedData(c, o), o) => IsPart(DataOf(LoadedData(c, o)), es)
         /\ o /\ Readable => CanRead(LoadedData(c, o), o)
<1> DEFINE d == LoadedData(c, o)
<1>1. CacheOK(d)
  BY LoadedDataIsOK DEF Holding
<1>2. /\ c.footer = file.footer /\ file.footer.magic = "SST" /\ DOMAIN c = CacheFields
      /\ c.data_loaded => IsPart(c.data, es)
  BY DEF Holding, CacheHolds, CacheOK
<1>3. /\ file.footer.version \in {1, 2, 3}
      /\ file.footer.version < 3 => file.data = Buffer(es)
      /\ /\ file.footer.version = 3
         /\ file.data = file.footer.checksum /\ Decompresses(file.data, file.size)
         => IsPart(Tail(file.data), es)
  BY <1>2 DEF Holding, FileHolds
<1>4. CASE d = c /\ file.footer.version < 3
  <2>1. CanRead(d, o) = o /\ IsPart(DataOf(d), es)
    BY <1>2, <1>3, <1>4 DEF CanRead, DataOf, IsPart
  <2> HIDE DEF d
  <2> QED
    BY <1>4, <2>1 DEF d
<1>5. CASE d = c /\ ~(file.footer.version < 3) /\ (c.data_loaded \/ ~(o /\ Readable))
  <2>1. file.footer.version >= 3
    BY <1>3, <1>5
  <2>2. CanRead(d, o) = c.data_loaded /\ DataOf(d) = c.data
    BY <1>2, <1>5, <2>1 DEF CanRead, DataOf
  <2> HIDE DEF d
  <2> QED
    BY <1>2, <1>5, <2>2 DEF d
<1>6. CASE /\ d = [c EXCEPT !.data = Tail(file.data), !.data_loaded = TRUE]
           /\ file.data = file.footer.checksum /\ Decompresses(file.data, file.size)
           /\ ~(file.footer.version < 3)
  <2>1. IsPart(Tail(file.data), es) /\ file.footer.version >= 3
    BY <1>3, <1>6
  <2> HIDE DEF d
  <2>2. /\ d.footer = c.footer /\ d.footer_loaded = c.footer_loaded /\ d.index = c.index
        /\ d.data = Tail(file.data) /\ d.data_loaded = TRUE
    BY <1>2, <1>6, <2>1 DEF CacheFields
  <2>3. Holding(es, d)
    BY <1>1, <2>1, <2>2 DEF Holding, CacheHolds
  <2>4. CanRead(d, o) /\ IsPart(DataOf(d), es)
    BY <1>2, <2>1, <2>2 DEF CanRead, DataOf
  <2> QED
    BY <2>2, <2>3, <2>4 DEF d
<1>7. \/ d = c /\ file.footer.version < 3
      \/ d = c /\ ~(file.footer.version < 3) /\ (c.data_loaded \/ ~(o /\ Readable))
      \/ /\ d = [c EXCEPT !.data = Tail(file.data), !.data_loaded = TRUE]
         /\ file.data = file.footer.checksum /\ Decompresses(file.data, file.size)
         /\ ~(file.footer.version < 3)
  <2>1. CASE file.footer.version < 3
    <3>1. ~(c.footer.version >= 3)
      BY <1>2, <1>3, <2>1
    <3> QED
      BY <2>1, <3>1 DEF LoadedData
  <2>2. CASE ~(file.footer.version < 3)
    <3>1. c.footer.version >= 3 /\ file.footer.version = 3
      BY <1>2, <1>3, <2>2
    <3>2. d = load_data(c, o)
      BY <3>1 DEF LoadedData
    <3>3. ChecksumIsRight(c) <=> file.footer.checksum = file.data
      BY <1>2 DEF ChecksumIsRight
    <3>4. Readable => file.data = file.footer.checksum /\ Decompresses(file.data, file.size)
      BY <3>1 DEF Readable
    <3> QED
      BY <2>2, <3>2, <3>3, <3>4 DEF load_data
  <2> QED
    BY <2>1, <2>2
<1> QED
  BY <1>4, <1>5, <1>6, <1>7

\* The search in a loaded index finds the keys that were written.
LEMMA SearchOfIndex ==
  ASSUME NEW es, NEW c, Lists(es), c.index = Index(es), NEW k \in Keys
  PROVE  /\ k \in WrittenKeys => Holds(c, k)
         /\ Holds(c, k) => \E i \in 1 .. Len(es) :
              /\ es[i].key = k
              /\ IndexEntry(c, k).offset = Offset(es, i)
              /\ IndexEntry(c, k).type = es[i].entry.type
<1> DEFINE s == Index(es)
           p == lower_bound(s, k)
           n == Len(es)
<1>1. /\ Len(s) = n /\ n \in Nat
      /\ \A i \in 1 .. n : /\ s[i].key = es[i].key /\ es[i].key \in Nat
                           /\ s[i].offset = Offset(es, i)
                           /\ s[i].type = es[i].entry.type
  BY IndexIs
<1>2. \A i, j \in 1 .. n : i < j => es[i].key < es[j].key
  BY DEF Lists
<1>3. k \in Nat
  BY KeysAreNumbers
<1> HIDE DEF s, n
<1>4. Separates(s, k, p)
  <2>1. /\ Len(s) \in Nat /\ \A i \in 1 .. Len(s) : s[i].key \in Nat
        /\ \A i, j \in 1 .. Len(s) : i < j => s[i].key < s[j].key
    BY <1>1, <1>2
  <2> QED
    BY <1>3, <2>1, LowerBoundSeparates
<1> HIDE DEF p
<1>5. p \in 1 .. n + 1 /\ \A i \in 1 .. n : IF i < p THEN s[i].key < k ELSE ~(s[i].key < k)
  BY <1>1, <1>4 DEF Separates
<1>6. Holds(c, k) <=> p <= n /\ s[p].key = k
  BY <1>1 DEF Holds, s, p
<1>7. ASSUME k \in WrittenKeys
      PROVE  Holds(c, k)
  <2>1. PICK i \in 1 .. n : es[i].key = k
    BY <1>7 DEF Lists, n
  <2>2. s[i].key = k /\ ~(i < p)
    BY <1>1, <1>3, <1>5, <2>1
  <2>3. p \in 1 .. n
    BY <1>1, <1>5, <2>2
  <2>4. ~(s[p].key < k)
    BY <1>1, <1>5, <2>3
  <2>5. i = p \/ p < i
    BY <1>1, <2>2, <2>3
  <2>6. s[p].key \in Nat /\ (p < i => s[p].key < s[i].key)
    BY <1>1, <1>2, <2>3
  <2> QED
    BY <1>3, <1>6, <2>2, <2>3, <2>4, <2>5, <2>6
<1>8. ASSUME Holds(c, k)
      PROVE  \E i \in 1 .. n : /\ es[i].key = k
                               /\ IndexEntry(c, k).offset = Offset(es, i)
                               /\ IndexEntry(c, k).type = es[i].entry.type
  <2>1. p \in 1 .. n /\ s[p].key = k
    BY <1>1, <1>5, <1>6, <1>8
  <2>2. IndexEntry(c, k) = s[p]
    BY DEF IndexEntry, s, p
  <2> QED
    BY <1>1, <2>1, <2>2
<1> QED
  BY <1>7, <1>8 DEF n

LEMMA EmptyIndexHoldsNone ==
  ASSUME NEW c, c.index = <<>>, NEW k \in Keys
  PROVE  ~Holds(c, k)
<1> DEFINE s == c.index
<1>1. Len(s) = 0 /\ k \in Nat
  BY KeysAreNumbers
<1> HIDE DEF s
<1>2. /\ Len(s) \in Nat /\ \A i \in 1 .. Len(s) : s[i].key \in Nat
      /\ \A i, j \in 1 .. Len(s) : i < j => s[i].key < s[j].key
  BY <1>1
<1>3. lower_bound(s, k) \in 1 .. 1
  <2>1. Separates(s, k, lower_bound(s, k))
    BY <1>1, <1>2, LowerBoundSeparates
  <2> QED
    BY <1>1, <2>1 DEF Separates
<1> QED
  BY <1>1, <1>3 DEF Holds, s

-----------------------------------------------------------------------------
\* What is read at the place the index notes for key k.
LEMMA EntryIsFound ==
  ASSUME NEW es, NEW c, Lists(es), c.index = Index(es), NEW k \in Keys, Holds(c, k)
  PROVE  /\ \A d : IsPart(d, es) =>
              Told(EntryAt(d, IndexEntry(c, k).offset)) \in {EntryIn(written, k)} \union Misread
         /\ IndexEntry(c, k).type = DELETE => EntryIn(written, k) = Nil
<1>1. PICK i \in 1 .. Len(es) : /\ es[i].key = k
                                /\ IndexEntry(c, k).offset = Offset(es, i)
                                /\ IndexEntry(c, k).type = es[i].entry.type
  BY SearchOfIndex
<1>2. AreEntries(es) /\ es[i].entry = written[k] /\ written[k] \in Entries
  BY <1>1 DEF Lists, AreEntries
<1>3. \A d : IsPart(d, es) =>
        EntryAt(d, IndexEntry(c, k).offset) \in {Full(k, written[k])} \union Misread
  BY <1>1, <1>2, ReadsBack
<1>4. Full(k, written[k]).type = written[k].type /\ written[k] # Nil
  BY <1>2, EntriesAreSane DEF Full
<1>5. IndexEntry(c, k).type = written[k].type
  BY <1>1, <1>2
<1>6. Garbage # Full(k, written[k]) /\ Full(k, written[k]) # Nil
  BY <1>2, GarbageIsNotData, FullIsNotNil
<1>7. Told(Full(k, written[k])) = EntryIn(written, k)
  BY <1>4, <1>6 DEF Told, Visible, EntryIn, is_tombstone
<1>8. \A e \in Misread : Told(e) \in Misread
  BY DEF Told, Misread
<1>9. IndexEntry(c, k).type = DELETE => EntryIn(written, k) = Nil
  BY <1>5 DEF Visible, EntryIn, is_tombstone
<1> QED
  BY <1>3, <1>7, <1>8, <1>9

\* What get finds in a table and keeps of it.
LEMMA GetFinds ==
  ASSUME NEW es, Holding(es, cache), NEW k \in Keys, NEW o, NEW skips
  PROVE  /\ Holding(es, AfterGet(k, o, skips).cache)
         /\ AfterGet(k, o, skips).found \in {EntryIn(written, k), Nil} \union Misread
         /\ (\A i \in 1 .. 5 : o[i]) /\ Readable =>
              AfterGet(k, o, skips).found \in {EntryIn(written, k)} \union Misread
<1> DEFINE b == load_bloom_filter(cache, o[1], o[2])
           i == load_index(b, o[3], o[4])
           d == LoadedData(i, o[5])
           at == IndexEntry(i, k).offset
           r == AfterGet(k, o, skips)
           wanted == EntryIn(written, k)
           best == (\A j \in 1 .. 5 : o[j]) /\ Readable
<1>1. r = CASE ~MayContain(b, k) -> [cache |-> b, found |-> Nil]
            [] MayContain(b, k) /\ (~Holds(i, k) \/ (skips /\ IndexEntry(i, k).type = DELETE)) ->
                 [cache |-> i, found |-> Nil]
            [] OTHER -> [cache |-> d,
                         found |-> IF CanRead(d, o[5]) THEN Told(EntryAt(DataOf(d), at)) ELSE Nil]
  BY DEF AfterGet
<1>2. Holding(es, b)
  BY LoadedFilterHolds
<1> HIDE DEF b
<1>3. Holding(es, i) /\ (o[3] /\ o[4] /\ file.footer.magic = "SST" => i.index = Index(es))
  BY <1>2, LoadedIndexHolds
<1> HIDE DEF i
<1>4. best => o[3] /\ o[4] /\ o[5] /\ file.footer.magic = "SST"
  BY DEF Readable
<1> HIDE DEF r, d
<1>5. k \notin WrittenKeys => wanted = Nil
  BY DEF WrittenKeys, EntryIn, Visible
<1>6. CASE ~MayContain(b, k)
  <2>1. k \notin WrittenKeys
    BY <1>2, <1>6 DEF Holding, CacheOK, ExcludesNone, MayContain
  <2>2. r.cache = b /\ r.found = Nil
    BY <1>1, <1>6
  <2> QED
    BY <1>2, <1>5, <2>1, <2>2 DEF r
<1>7. CASE MayContain(b, k) /\ ~Holds(i, k)
  <2>1. r.cache = i /\ r.found = Nil
    BY <1>1, <1>7
  <2>2. best => k \notin WrittenKeys
    <3>1. Lists(es)
      BY <1>3 DEF Holding
    <3> QED
      BY <1>3, <1>4, <1>7, <3>1, SearchOfIndex
  <2> QED
    BY <1>3, <1>5, <2>1, <2>2 DEF r
<1>8. ASSUME Holds(i, k)
      PROVE  i.index = Index(es) /\ i.footer_loaded /\ Lists(es)
  <2>1. i.index # <<>>
    BY <1>8, EmptyIndexHoldsNone
  <2> QED
    BY <1>3, <2>1 DEF Holding, CacheHolds
<1>9. CASE MayContain(b, k) /\ Holds(i, k) /\ skips /\ IndexEntry(i, k).type = DELETE
  <2>1. r.cache = i /\ r.found = Nil
    BY <1>1, <1>9
  <2>2. wanted = Nil
    BY <1>8, <1>9, EntryIsFound
  <2> QED
    BY <1>3, <2>1, <2>2 DEF r
<1>10. CASE MayContain(b, k) /\ Holds(i, k) /\ ~(skips /\ IndexEntry(i, k).type = DELETE)
  <2>1. /\ r.cache = d
        /\ r.found = IF CanRead(d, o[5]) THEN Told(EntryAt(DataOf(d), at)) ELSE Nil
    BY <1>1, <1>10
  <2>2. \A x : IsPart(x, es) => Told(EntryAt(x, at)) \in {wanted} \union Misread
    BY <1>8, <1>10, EntryIsFound
  <2>3. /\ Holding(es, d)
        /\ CanRead(d, o[5]) => IsPart(DataOf(d), es)
        /\ o[5] /\ Readable => CanRead(d, o[5])
    BY <1>3, <1>8, <1>10, LoadedDataHolds DEF d
  <2> HIDE DEF at, wanted
  <2>4. /\ r.found \in {wanted, Nil} \union Misread
        /\ best => r.found \in {wanted} \union Misread
    BY <1>4, <2>1, <2>2, <2>3
  <2> QED
    BY <2>1, <2>3, <2>4 DEF r, wanted
<1> QED
  BY <1>6, <1>7, <1>9, <1>10

-----------------------------------------------------------------------------
\* A walk passes nodes that exist.
WalkMeets == pc = "collect" => \A i \in 1 .. Len(collected) : collected[i] \in Present

\* While a table is read it holds what was written.
TableHolds == pc = "table" => \E es : Holding(es, cache)

\* An answer is told before the next call begins.
AnswerOK ==
  /\ FoundIsWritten
  /\ pc \in {"find", "insert", "get", "collect"} => answer = Nil

LEMMA WalkMeetsStays ==
  ASSUME SkipInv, RestOK, WalkMeets, [FlushNext]_flushVars
  PROVE  WalkMeets'
<1>1. CASE pc' = "collect" /\ pc = "collect"
  <2>1. CASE Collect
    <3>1. /\ pc = "collect" /\ forward[current][1] # Nil /\ value' = value
          /\ collected' = Append(collected, forward[current][1])
      BY <2>1 DEF Collect, list
    <3>2. ListOK /\ current \in Alive /\ collected \in Seq(Keys)
      BY <3>1 DEF SkipInv, WalkOK
    <3>3. Len(forward[current]) \in Nat \ {0}
      BY <3>2, Heights
    <3>4. NextOn(current, 1, forward[current][1])
      BY <3>2, <3>3 DEF ListOK, Linkage
    <3>5. forward[current][1] \in Present
      BY <3>1, <3>4 DEF NextOn
    <3> DEFINE x == forward[current][1]
    <3> HIDE DEF x
    <3>6. x \in Keys
      BY <3>5, NodesAreNumbers DEF x
    <3>7. Present' = Present
      BY <3>1 DEF Present
    <3>8. /\ Len(collected) \in Nat /\ Len(Append(collected, x)) = Len(collected) + 1
          /\ Append(collected, x)[Len(collected) + 1] = x
          /\ \A i \in 1 .. Len(collected) : Append(collected, x)[i] = collected[i]
      BY <3>2, <3>6, AppendProperties
    <3>9. collected' = Append(collected, x) /\ x \in Present
      BY <3>1, <3>5 DEF x
    <3> SUFFICES ASSUME NEW i \in 1 .. Len(collected')
                 PROVE  collected'[i] \in Present
      BY <3>7 DEF WalkMeets
    <3>10. i \in 1 .. Len(collected) \/ i = Len(collected) + 1
      BY <3>8, <3>9
    <3> QED
      BY <3>1, <3>8, <3>9, <3>10 DEF WalkMeets
  <2>2. CASE ~Collect
    <3>1. UNCHANGED <<value, collected>>
      BY <1>1, <2>2 DEF FlushNext, Fill, MemTableStep, get, write, clear, get_all_entries, Walk,
          FoundOld, InsertNew, Got, Return, Flush, Look, Collected, TableGet, TableGetAll, TableKeys,
          Call, Reopen, Damage, ListIsIdle, list, flushVars, memTable, tableRest, Step
    <3> QED
      BY <1>1, <3>1 DEF WalkMeets, Present
  <2> QED
    BY <2>1, <2>2
<1>2. CASE pc' = "collect" /\ pc # "collect"
  <2>1. collected' = <<>>
    BY <1>2 DEF RestOK, FlushNext, Fill, MemTableStep, get, write, clear, get_all_entries, Walk,
        FoundOld, InsertNew, Got, Collect, Return, Flush, Look, Collected, TableGet, TableGetAll,
        TableKeys, Call, Reopen, Damage, ListIsIdle, list, flushVars, memTable, tableRest
  <2> QED
    BY <2>1 DEF WalkMeets
<1> QED
  BY <1>1, <1>2 DEF WalkMeets

-----------------------------------------------------------------------------
\* What the walk hands over is what the table is to hold.
LEMMA PassedIsWritten ==
  ASSUME SkipInv, WalkMeets, Flush, NEW es, es = Passed
  PROVE  Lists(es)'
<1>1. Collected /\ pc = "collect" /\ written' = value
  BY DEF Flush, Collected
<1>2. collected \in Seq(Keys) /\ value \in [Keys -> Entries \union {Nil}]
  BY <1>1 DEF SkipInv, WalkOK, ListOK, ListTypeOK
<1> DEFINE n == Len(collected)
<1>3. n \in Nat /\ DOMAIN collected = 1 .. n
  BY <1>2
<1>4. es = [i \in 1 .. n |-> [key |-> collected[i], entry |-> value[collected[i]]]]
  BY <1>3 DEF Passed
<1>5. \A i \in 1 .. n : collected[i] \in Present
  BY <1>1 DEF WalkMeets
<1> HIDE DEF n
<1>6. Len(es) = n /\ DOMAIN es = 1 .. n /\ es = [i \in 1 .. n |-> es[i]]
  BY <1>3, <1>4
<1>7. \A i \in 1 .. n : es[i].key = collected[i] /\ es[i].entry = value[collected[i]]
  BY <1>4
<1>8. \A k \in Present : k \in Keys /\ value[k] \in Entries
  BY <1>2 DEF Present
<1>9. AreEntries(es)
  BY <1>3, <1>5, <1>6, <1>7, <1>8 DEF AreEntries
<1>10. /\ \A i, j \in 1 .. n : i < j => collected[i] < collected[j]
       /\ \A k \in Present : \E i \in 1 .. n : collected[i] = k
  BY <1>1, <1>3, WalkPasses DEF WalkIsSorted
<1>11. WrittenKeys' = Present
  BY <1>1 DEF WrittenKeys, Present
<1>12. AreEntries(es)'
  BY <1>9 DEF AreEntries
<1> QED
  BY <1>1, <1>6, <1>7, <1>10, <1>11, <1>12 DEF Lists

\* A fresh object has loaded nothing.
LEMMA UnloadedHolds ==
  ASSUME NEW c, NEW es, c.footer_loaded = FALSE, c.index = <<>>, c.data_loaded = FALSE
  PROVE  CacheHolds(es, c)
BY DEF CacheHolds

\* What LZ4 is told to compress of the data.
LEMMA BeginningIsPart ==
  ASSUME NEW b \in Seq(Nat), NEW n, n = Len(b) % Word
  PROVE  /\ n \in 0 .. Len(b) /\ SubSeq(b, 1, n) \in Seq(Nat)
         /\ Len(b) < Word => SubSeq(b, 1, n) = b
<1>1. Len(b) \in Nat /\ Word \in Nat \ {0}
  BY WordIsLarge
<1> DEFINE l == Len(b)
<1>2. l \in Nat /\ n = l % Word
  BY <1>1
<1> HIDE DEF l
<1>3. n \in 0 .. Word - 1
  BY ONLY <1>1, <1>2
<1>4. l < Word => n = l
  BY ONLY <1>1, <1>2
<1>5. n \in 0 .. l
  BY ONLY <1>1, <1>2, <1>3, <1>4
<1>6. SubSeq(b, 1, n) \in Seq(Nat)
  <2>1. n \in Nat /\ n <= Len(b)
    BY <1>1, <1>5 DEF l
  <2>2. \A i \in 1 .. n : b[i] \in Nat
    BY <2>1
  <2> QED
    BY <2>1, <2>2, SubSeqProperties
<1>7. SubSeq(b, 1, Len(b)) = b
  <2>1. \A i \in 1 .. Len(b) : b[1 + i - 1] = b[i]
    BY <1>1
  <2> QED
    BY <1>1, <2>1, PieceIs
<1> QED
  BY <1>4, <1>5, <1>6, <1>7 DEF l

\* LZ4 gives back what is behind its token.
LEMMA TokenIsTaken ==
  ASSUME NEW p \in Seq(Nat)
  PROVE  <<0>> \o p \in Seq(Nat) /\ Tail(<<0>> \o p) = p
<1> DEFINE t == <<0>> \o p
           u == Tail(t)
           o == <<0>>
<1>1. o \in Seq(Nat) /\ Len(o) = 1 /\ Len(p) \in Nat
  OBVIOUS
<1> HIDE DEF o
<1>2. /\ o \o p \in Seq(Nat) /\ Len(o \o p) = 1 + Len(p)
      /\ \A i \in 1 .. Len(p) : (o \o p)[1 + i] = p[i]
  <2>1. /\ o \o p \in Seq(Nat) /\ Len(o \o p) = Len(o) + Len(p)
        /\ \A i \in 1 .. Len(p) : (o \o p)[Len(o) + i] = p[i]
    BY <1>1, Joined
  <2> QED
    BY <1>1, <2>1
<1>3. /\ t \in Seq(Nat) /\ Len(t) = 1 + Len(p)
      /\ \A i \in 1 .. Len(p) : t[1 + i] = p[i]
  BY <1>2 DEF o
<1> HIDE DEF t
<1>4. t # <<>>
  BY <1>1, <1>3
<1>5. u \in Seq(Nat) /\ Len(u) = Len(p) /\ \A i \in 1 .. Len(p) : u[i] = t[i + 1]
  BY <1>1, <1>3, <1>4
<1> HIDE DEF u
<1>6. \A i \in 1 .. Len(p) : u[i] = p[i]
  <2>1. \A i \in 1 .. Len(p) : i + 1 = 1 + i
    BY <1>1
  <2> QED
    BY <1>3, <1>5, <2>1
<1>7. u = p
  BY <1>5, <1>6, SeqEqual
<1> QED
  BY <1>3, <1>7 DEF t, u

LEMMA FlushHolds ==
  ASSUME SkipInv, WalkMeets, Flush
  PROVE  TableHolds'
<1>1. PICK es : es = Passed
  OBVIOUS
<1>2. Lists(es)'
  BY <1>1, PassedIsWritten
<1>3. \/ write_from_entries(es) /\ fits' = (Len(Buffer(es)) < Word)
      \/ \E v \in Versions \ {3} : file' = Written(es, v) /\ cache' = Unloaded
  BY <1>1 DEF Flush
<1>4. PICK v \in {1, 2, 3} :
        /\ file' = Written(es, v) /\ (v = 3 => fits' = (Len(Buffer(es)) < Word))
        /\ cache'.footer_loaded = FALSE /\ cache'.index = <<>> /\ cache'.data_loaded = FALSE
  <2>1. CASE write_from_entries(es) /\ fits' = (Len(Buffer(es)) < Word)
    <3>1. file' = Written(es, 3) /\ cache' = [Unloaded EXCEPT !.bloom = FilterOf(es)]
      BY <2>1 DEF write_from_entries
    <3> QED
      BY <2>1, <3>1 DEF Unloaded
  <2>2. CASE \E v \in Versions \ {3} : file' = Written(es, v) /\ cache' = Unloaded
    BY <2>2, VersionsAreKnown DEF Unloaded
  <2> QED
    BY <1>3, <2>1, <2>2
<1>5. FileHolds(es)'
  <2> DEFINE b == Buffer(es)
             n == Len(b) % Word
             p == SubSeq(b, 1, n)
  <2>1. b \in Seq(Nat) /\ Len(b) \in Nat
    BY <1>2, BufferIsSeq DEF Lists, AreEntries
  <2>2. file'.footer.version = v /\ file'.footer.num_entries = Len(es) /\ file'.index = Index(es)
    BY <1>4 DEF Written
  <2>3. v < 3 => file'.data = b
    BY <1>4 DEF Written
  <2>4. ASSUME v = 3, Decompresses(file'.data, file'.size)
        PROVE  file'.data \in Seq(Nat) /\ Tail(file'.data) = p
    <3>1. file'.data = Compressed(b)
      BY <1>4, <2>4 DEF Written
    <3> HIDE DEF b, n
    <3>2. file'.data = <<0>> \o p
      BY <2>4, <3>1 DEF Compressed, Decompresses, n
    <3>3. p \in Seq(Nat)
      BY <2>1, BeginningIsPart DEF n
    <3> HIDE DEF p
    <3> QED
      BY <3>2, <3>3, TokenIsTaken
  <2>5. v = 3 => (IF Len(b) < Word THEN p = b ELSE ~fits' /\ n \in 0 .. Len(b))
    <3> SUFFICES ASSUME v = 3
                 PROVE  IF Len(b) < Word THEN p = b ELSE ~fits' /\ n \in 0 .. Len(b)
      OBVIOUS
    <3>1. fits' = (Len(b) < Word)
      BY <1>4
    <3> HIDE DEF b
    <3> QED
      BY <2>1, <3>1, BeginningIsPart DEF n
  <2> HIDE DEF p, n, b
  <2>6. v = 3 => IsPart(p, es)'
    BY <2>5 DEF IsPart, p, b
  <2> QED
    BY <2>2, <2>3, <2>4, <2>6 DEF FileHolds, b
<1>6. CacheHolds(es, cache)'
  BY <1>4 DEF CacheHolds
<1>7. TableOK' /\ pc' = "table"
  BY FlushMakesTable DEF Flush
<1> QED
  BY <1>2, <1>5, <1>6, <1>7 DEF TableHolds, Holding, TableOK

\* A call that reads the table.
LEMMA CallHolds ==
  ASSUME TableHolds, NEW o \in Opens,
         TableGetAll(o) \/ TableKeys(o) \/ \E k \in Keys : TableGet(k, o)
  PROVE  TableHolds' /\ AnswerOK'
<1>1. /\ pc = "table" /\ pc' = "table" /\ file' = file /\ written' = written /\ fits' = fits
      /\ opened' = \A i \in 1 .. 5 : o[i]
  BY DEF TableGetAll, TableKeys, TableGet, Call, ListIsIdle
<1>2. PICK es : Holding(es, cache)
  BY <1>1 DEF TableHolds
<1>3. ASSUME Holding(es, cache')
      PROVE  TableHolds'
  <2>1. WrittenKeys' = WrittenKeys
    BY <1>1 DEF WrittenKeys
  <2>2. Lists(es)'
    BY <1>1, <1>3, <2>1 DEF Holding, Lists, AreEntries
  <2>3. FileOK' /\ FileHolds(es)'
    BY <1>1, <1>3, <2>1 DEF Holding, FileOK, FileHolds, ExcludesNone, IsPart
  <2>4. CacheOK(cache)' /\ CacheHolds(es, cache)'
    BY <1>1, <1>3, <2>1 DEF Holding, CacheOK, CacheHolds, ExcludesNone, IsPart
  <2> QED
    BY <2>2, <2>3, <2>4 DEF TableHolds, Holding
<1>4. ASSUME answer' = Nil
      PROVE  AnswerOK'
  BY <1>4 DEF AnswerOK, FoundIsWritten
<1>5. CASE TableGetAll(o)
  <2> DEFINE i == load_index(cache, o[1], o[2])
  <2>1. Holding(es, i)
    BY <1>2, LoadedIndexHolds
  <2>2. cache' = IF i.index = <<>> THEN i ELSE LoadedData(i, o[3])
    BY <1>5 DEF TableGetAll, AfterGetAll
  <2> HIDE DEF i
  <2>3. i.index # <<>> => i.footer_loaded
    BY <2>1 DEF Holding, CacheHolds
  <2>4. i.index # <<>> => Holding(es, LoadedData(i, o[3]))
    BY <2>1, <2>3, LoadedDataHolds
  <2>5. answer' = Nil
    BY <1>5 DEF TableGetAll
  <2> QED
    BY <1>3, <1>4, <2>1, <2>2, <2>4, <2>5
<1>6. CASE TableKeys(o)
  <2>1. cache' = load_index(cache, o[1], o[2]) /\ answer' = Nil
    BY <1>6 DEF TableKeys, AfterKeys
  <2>2. Holding(es, cache')
    BY <1>2, <2>1, LoadedIndexHolds
  <2> QED
    BY <1>3, <1>4, <2>1, <2>2
<1>7. CASE \E k \in Keys : TableGet(k, o)
  <2>1. PICK k \in Keys, skips \in BOOLEAN :
          /\ cache' = AfterGet(k, o, skips).cache
          /\ answer' = [key |-> k, found |-> AfterGet(k, o, skips).found]
    BY <1>7 DEF TableGet
  <2> DEFINE r == AfterGet(k, o, skips)
  <2>2. /\ Holding(es, r.cache)
        /\ r.found \in {EntryIn(written, k), Nil} \union Misread
        /\ (\A i \in 1 .. 5 : o[i]) /\ Readable => r.found \in {EntryIn(written, k)} \union Misread
    BY <1>2, GetFinds
  <2> HIDE DEF r
  <2>3. answer'.key = k /\ answer'.found = r.found /\ cache' = r.cache
    BY <2>1 DEF r
  <2>4. Readable' = Readable /\ EntryIn(written, k)' = EntryIn(written, k) /\ Misread' = Misread
    BY <1>1 DEF Readable, EntryIn, Misread
  <2>5. AnswerOK'
    BY <1>1, <2>2, <2>3, <2>4 DEF AnswerOK, FoundIsWritten, EntryIn
  <2> QED
    BY <1>3, <2>2, <2>3, <2>5
<1> QED
  BY <1>5, <1>6, <1>7

LEMMA ReopenHolds == ASSUME TableHolds, TableOK, Reopen PROVE TableHolds' /\ AnswerOK'
<1>1. /\ pc = "table" /\ file' = file /\ written' = written /\ fits' = fits
      /\ cache' = Unloaded /\ answer' = Nil
  BY DEF Reopen, NoResults
<1>2. PICK es : Holding(es, cache)
  BY <1>1 DEF TableHolds
<1>3. WrittenKeys' = WrittenKeys
  BY <1>1 DEF WrittenKeys
<1>4. Lists(es)'
  BY <1>1, <1>2, <1>3 DEF Holding, Lists, AreEntries
<1>5. FileHolds(es)'
  BY <1>1, <1>2 DEF Holding, FileHolds, IsPart
<1>6. CacheHolds(es, cache)'
  BY <1>1 DEF CacheHolds, Unloaded
<1>7. TableOK'
  BY ReopenKeepsTable
<1>8. TableHolds'
  BY <1>4, <1>5, <1>6, <1>7 DEF TableHolds, Holding, TableOK
<1> QED
  BY <1>1, <1>8 DEF AnswerOK, FoundIsWritten

\* Damage makes data unacceptable or takes the footer away.
LEMMA DamageHolds == ASSUME TableHolds, TableOK, Damage PROVE TableHolds' /\ AnswerOK'
<1>1. /\ pc = "table" /\ written' = written /\ fits' = fits /\ Readable
      /\ cache = Unloaded /\ cache' = cache /\ answer' = Nil
      /\ CutShort \/ DamageData
  BY DEF Damage, NoResults, ListIsIdle
<1>2. PICK es : Holding(es, cache)
  BY <1>1 DEF TableHolds
<1>3. WrittenKeys' = WrittenKeys
  BY <1>1 DEF WrittenKeys
<1>4. Lists(es)'
  BY <1>1, <1>2, <1>3 DEF Holding, Lists, AreEntries
<1>5. DOMAIN file = FileFields
  BY <1>2 DEF Holding, FileOK
<1>6. FileHolds(es)'
  <2>1. CASE CutShort
    <3>1. file'.footer.magic = "other"
      BY <1>5, <2>1 DEF CutShort, FileFields, NoFooter
    <3> QED
      BY <3>1 DEF FileHolds
  <2>2. CASE DamageData
    <3>1. /\ file.footer.version = 3 /\ file.footer.magic = "SST"
          /\ file.data = file.footer.checksum /\ Decompresses(file.data, file.size)
      BY <1>1, <2>2 DEF DamageData, Readable
    <3>2. /\ file.footer.num_entries = Len(es) /\ file.index = Index(es)
          /\ file.data \in Seq(Nat) /\ IsPart(Tail(file.data), es)
      BY <1>2, <3>1 DEF Holding, FileHolds
    <3>3. CASE file' = [file EXCEPT !.data = Tail(@)]
      <4>1. /\ file'.footer = file.footer /\ file'.index = file.index
            /\ file'.data = Tail(file.data)
        BY <1>5, <3>3 DEF FileFields
      <4>2. Tail(file.data) # file.data
        <5>1. file.data \in Seq(Nat) /\ file.data # <<>>
          BY <3>1, <3>2 DEF Decompresses
        <5> DEFINE d == file.data
        <5> HIDE DEF d
        <5>2. d \in Seq(Nat) /\ d # <<>>
          BY <5>1 DEF d
        <5>3. Len(Tail(d)) = Len(d) - 1 /\ Len(d) \in Nat
          BY <5>2
        <5>4. Tail(d) # d
          BY <5>3
        <5> QED
          BY <5>4 DEF d
      <4>3. file'.data # file'.footer.checksum
        BY <3>1, <4>1, <4>2
      <4> QED
        BY <3>1, <3>2, <4>1, <4>3 DEF FileHolds
    <3>4. CASE file' = [file EXCEPT !.size = @ - 1]
      <4>1. /\ file'.footer = file.footer /\ file'.index = file.index
            /\ file'.data = file.data
        BY <1>5, <3>4 DEF FileFields
      <4> QED
        BY ONLY <1>1, <3>1, <3>2, <4>1 DEF FileHolds, IsPart
    <3> QED
      BY <2>2, <3>3, <3>4 DEF DamageData
  <2> QED
    BY <1>1, <2>1, <2>2
<1>7. CacheHolds(es, cache)'
  BY <1>1 DEF CacheHolds, Unloaded
<1>8. TableOK'
  BY DamageKeepsTable
<1>9. TableHolds'
  BY <1>4, <1>6, <1>7, <1>8 DEF TableHolds, Holding, TableOK
<1> QED
  BY <1>1, <1>9 DEF AnswerOK, FoundIsWritten

\* The memtable's get.
LEMMA GotIsWritten == ASSUME SkipInv, Got PROVE AnswerOK'
<1>1. /\ pc = "get" /\ level = 0 /\ pc' = "idle" /\ value' = value
      /\ answer' = [key |-> key, found |-> IF Hit(key) THEN Visible(value[key]) ELSE Nil]
  BY DEF Got, Return, list
<1>2. Hit(key) <=> value[key] # Nil
  <2>1. Hit(key) <=> key \in Present
    BY <1>1, SearchEnds DEF Searches
  <2>2. key \in Keys
    BY <1>1 DEF SkipInv, SearchOK, Searches
  <2> QED
    BY <2>1, <2>2 DEF Present
<1>3. answer'.key = key /\ answer'.found = Visible(value[key])
  BY <1>1, <1>2 DEF Visible
<1> QED
  BY <1>1, <1>3 DEF AnswerOK, FoundIsWritten

FindInv == SkipInv /\ RestOK /\ TableOK /\ WalkMeets /\ TableHolds /\ AnswerOK

LEMMA FindStays ==
  ASSUME FindInv, [FlushNext]_flushVars
  PROVE  TableHolds' /\ AnswerOK'
<1> USE DEF FindInv
<1>1. CASE \/ \E k \in Keys : get(k) \/ \E e \in Entries : write(k, e)
           \/ clear \/ get_all_entries
  <2>1. answer' = Nil /\ pc' # "table"
    BY <1>1 DEF get, write, clear, get_all_entries
  <2> QED
    BY <2>1 DEF TableHolds, AnswerOK, FoundIsWritten
<1>2. CASE Walk \/ FoundOld \/ InsertNew \/ Collect \/ Look
  <2>1. pc \in {"find", "insert", "get", "collect"} /\ answer' = answer /\ pc' # "table"
    BY <1>2 DEF Walk, FoundOld, InsertNew, Collect, Look, Collected, Return, tableRest
  <2> QED
    BY <2>1 DEF TableHolds, AnswerOK, FoundIsWritten
<1>3. CASE Got
  <2>1. pc' = "idle"
    BY <1>3 DEF Got, Return
  <2> QED
    BY <1>3, <2>1, GotIsWritten DEF TableHolds
<1>4. CASE Flush
  <2>1. answer' = answer /\ pc = "collect"
    BY <1>4 DEF Flush, Collected
  <2>2. AnswerOK'
    BY <2>1 DEF AnswerOK, FoundIsWritten
  <2> QED
    BY <1>4, <2>2, FlushHolds
<1>5. CASE \E o \in Opens : TableGetAll(o) \/ TableKeys(o) \/ \E k \in Keys : TableGet(k, o)
  BY <1>5, CallHolds
<1>6. CASE Reopen
  BY <1>6, ReopenHolds
<1>7. CASE Damage
  BY <1>7, DamageHolds
<1>8. CASE UNCHANGED flushVars
  <2>1. UNCHANGED <<pc, file, cache, written, fits, value, answer, opened>>
    BY <1>8 DEF flushVars, memTable, tableRest, tableVars, list
  <2>2. WrittenKeys' = WrittenKeys
    BY <2>1 DEF WrittenKeys
  <2>3. TableHolds'
    <3> SUFFICES ASSUME pc = "table"
                 PROVE  \E es : Holding(es, cache)'
      BY <2>1 DEF TableHolds
    <3>1. PICK es : Holding(es, cache)
      BY DEF TableHolds
    <3>2. Lists(es)'
      BY <2>1, <2>2, <3>1 DEF Holding, Lists, AreEntries
    <3>3. FileOK' /\ FileHolds(es)'
      BY <2>1, <2>2, <3>1 DEF Holding, FileOK, FileHolds, ExcludesNone, IsPart
    <3>4. CacheOK(cache)' /\ CacheHolds(es, cache)'
      BY <2>1, <2>2, <3>1 DEF Holding, CacheOK, CacheHolds, ExcludesNone, IsPart
    <3> QED
      BY <3>2, <3>3, <3>4 DEF Holding
  <2> QED
    BY <2>1, <2>3 DEF AnswerOK, FoundIsWritten, EntryIn, Readable, Misread
<1> QED
  BY <1>1, <1>2, <1>3, <1>4, <1>5, <1>6, <1>7, <1>8 DEF FlushNext, Fill, MemTableStep

LEMMA FindInvHolds == FlushSpec => []FindInv
<1>1. FlushInit => TableOK /\ WalkMeets /\ TableHolds /\ AnswerOK
  BY DEF FlushInit, MemTableInit, TableOK, WalkMeets, TableHolds, AnswerOK, FoundIsWritten
<1>2. FindInv /\ SkipInv' /\ RestOK' /\ [FlushNext]_flushVars => FindInv'
  BY TableOKStays, WalkMeetsStays, FindStays DEF FindInv
<1> QED
  BY <1>1, <1>2, RestInvHolds, PTL DEF FlushSpec, FindInv

\* For any keys, entries, versions, hash functions, limits of LZ4 and widths of
\* the sizes: what get finds in the memtable or in the table is what was written
\* last under the key.  Opens that fail and files that are damaged make a key
\* unfindable and never answer it with an entry of another key or another time;
\* with every open and undamaged data the entry is found.  A key of a table whose
\* size the width does not tell may also be misread.
THEOREM FoundIsAlwaysWritten == FlushSpec => []FoundIsWritten
<1>1. FindInv => FoundIsWritten
  BY DEF FindInv, AnswerOK
<1> QED
  BY <1>1, FindInvHolds, PTL

-----------------------------------------------------------------------------
(***************************************************************************)
(* What compaction and keys() get of the table.                            *)
(***************************************************************************)

\* Sequences of one member each make one sequence.
LEMMA FlattenSingles ==
  ASSUME NEW n \in Nat \ {0}, NEW x, NEW t, Len(t) = n, \A i \in 1 .. n : t[i] = <<x[i]>>
  PROVE  FlattenSeq(t) = [i \in 1 .. n |-> x[i]]
<1> DEFINE X == {x[i] : i \in 1 .. n}
           P(i) == [j \in 1 .. i |-> x[j]]
           c == CHOOSE g : g = [i \in 1 .. Len(t) |-> IF i = 1 THEN t[i] ELSE g[i - 1] \o t[i]]
           h == [i \in 1 .. Len(t) |-> P(i)]
<1>1. FlattenSeq(t) = c[n]
  BY DEF FlattenSeq
<1>2. ASSUME NEW i \in 1 .. n
      PROVE  /\ P(i) \in Seq(X) /\ Len(P(i)) = i /\ \A j \in 1 .. i : P(i)[j] = x[j]
             /\ t[i] \in Seq(X) /\ Len(t[i]) = 1 /\ t[i][1] = x[i]
  <2>1. x[i] \in X /\ t[i] = <<x[i]>> /\ i \in Nat
    OBVIOUS
  <2>2. \A j \in 1 .. i : x[j] \in X
    OBVIOUS
  <2> HIDE DEF X
  <2> QED
    BY <2>1, <2>2
<1> HIDE DEF X, P
<1>3. t[1] = P(1)
  <2>1. 1 \in 1 .. n
    OBVIOUS
  <2>2. \A j \in 1 .. 1 : t[1][j] = P(1)[j]
    BY <1>2, <2>1
  <2> QED
    BY <1>2, <2>1, <2>2, SeqEqual
<1>4. ASSUME NEW i \in 1 .. n, i # 1
      PROVE  P(i) = P(i - 1) \o t[i]
  <2> DEFINE p == P(i - 1)
             q == t[i]
             r == P(i)
  <2>1. i - 1 \in 1 .. n
    BY <1>4
  <2>2. /\ p \in Seq(X) /\ Len(p) = i - 1 /\ q \in Seq(X) /\ Len(q) = 1
        /\ r \in Seq(X) /\ Len(r) = i
        /\ \A j \in 1 .. i - 1 : p[j] = x[j] /\ r[j] = x[j]
        /\ q[1] = x[i] /\ r[i] = x[i]
    <3>1. \A j \in 1 .. i - 1 : j \in 1 .. i
      OBVIOUS
    <3>2. i \in 1 .. i
      OBVIOUS
    <3> QED
      BY <1>2, <2>1, <3>1, <3>2
  <2> HIDE DEF p, q, r
  <2>3. /\ p \o q \in Seq(X) /\ Len(p \o q) = Len(p) + Len(q)
        /\ \A j \in 1 .. Len(p) + Len(q) :
             (p \o q)[j] = IF j <= Len(p) THEN p[j] ELSE q[j - Len(p)]
    BY <2>2, ConcatProperties
  <2>4. Len(p \o q) = i
    BY <2>2, <2>3
  <2>5. \A j \in 1 .. i : (p \o q)[j] = r[j]
    <3> SUFFICES ASSUME NEW j \in 1 .. i
                 PROVE  (p \o q)[j] = r[j]
      OBVIOUS
    <3>1. (p \o q)[j] = IF j <= i - 1 THEN p[j] ELSE q[j - (i - 1)]
      BY <2>2, <2>3
    <3>2. CASE j <= i - 1
      BY <2>2, <3>1, <3>2
    <3>3. CASE ~(j <= i - 1)
      <4>1. j = i /\ j - (i - 1) = 1
        BY <3>3
      <4> QED
        BY <2>2, <3>1, <3>3, <4>1
    <3> QED
      BY <3>2, <3>3
  <2>6. p \o q = r
    BY <2>2, <2>3, <2>4, <2>5, SeqEqual
  <2> QED
    BY <2>6 DEF p, q, r
<1>5. h = [i \in 1 .. Len(t) |-> IF i = 1 THEN t[i] ELSE h[i - 1] \o t[i]]
  <2>1. \A i \in 1 .. n : i # 1 => i - 1 \in 1 .. n
    OBVIOUS
  <2> QED
    BY <1>3, <1>4, <2>1
<1>6. \A i \in 1 .. n : h[i] = P(i)
  OBVIOUS
<1> HIDE DEF h
<1>7. c = [i \in 1 .. Len(t) |-> IF i = 1 THEN t[i] ELSE c[i - 1] \o t[i]]
  BY <1>5
<1> HIDE DEF c
<1> DEFINE Wrong == {i \in 1 .. n : c[i] # P(i)}
<1>8. Wrong = {}
  <2> SUFFICES ASSUME Wrong # {}
               PROVE  FALSE
    OBVIOUS
  <2>1. PICK i \in Wrong : \A j \in Wrong : i <= j
    <3>1. Wrong \in SUBSET Nat
      OBVIOUS
    <3> HIDE DEF Wrong
    <3> QED
      BY <3>1, LeastNumber
  <2>2. i \in 1 .. n /\ c[i] # P(i)
    OBVIOUS
  <2>3. i # 1
    BY <1>3, <1>7, <2>2
  <2>4. i - 1 \in 1 .. n /\ i - 1 \notin Wrong
    BY <2>1, <2>2, <2>3
  <2>5. c[i - 1] = P(i - 1)
    BY <2>4
  <2>6. c[i] = c[i - 1] \o t[i]
    BY <1>7, <2>2, <2>3
  <2> QED
    BY <1>4, <2>2, <2>3, <2>5, <2>6
<1>9. c[n] = P(n)
  BY <1>8
<1> QED
  BY <1>1, <1>9 DEF P

\* What is read for each entry of es is this entry, or misread.
LEMMA ReadAreWritten ==
  ASSUME NEW es, Lists(es), NEW s, Len(s) = Len(es),
         \A i \in 1 .. Len(es) : s[i] \in {Full(es[i].key, es[i].entry)} \union Misread
  PROVE  AreWritten(s)
<1> DEFINE n == Len(es)
           ks == [i \in 1 .. n |-> es[i].key]
<1>1. /\ n \in Nat
      /\ \A i \in 1 .. n : es[i].key \in Keys /\ es[i].entry \in Entries /\ es[i].entry = written[es[i].key]
      /\ \A i, j \in 1 .. n : i < j => es[i].key < es[j].key
      /\ \A k \in WrittenKeys : \E i \in 1 .. n : es[i].key = k
  BY DEF Lists, AreEntries
<1>2. \A i \in 1 .. n : es[i].key \in WrittenKeys
  BY <1>1, EntriesAreSane DEF WrittenKeys
<1>3. Len(s) = n /\ \A i \in 1 .. n : s[i] \in {Full(es[i].key, es[i].entry)} \union Misread
  OBVIOUS
<1> HIDE DEF n
<1>4. ks \in [1 .. n -> WrittenKeys] /\ \A i \in 1 .. n : ks[i] = es[i].key
  BY <1>2
<1> HIDE DEF ks
<1>5. \A i, j \in 1 .. n : i < j => ks[i] < ks[j]
  BY <1>1, <1>4
<1>6. \A k \in WrittenKeys : \E i \in 1 .. n : ks[i] = k
  BY <1>1, <1>4
<1>7. \A i \in 1 .. n : s[i] \in {Full(ks[i], written[ks[i]])} \union Misread
  BY <1>1, <1>3, <1>4
<1> QED
  BY <1>3, <1>4, <1>5, <1>6, <1>7 DEF AreWritten

\* What get_all_entries returns of a table and keeps of it.
LEMMA GetAllLists ==
  ASSUME NEW es, Holding(es, cache), NEW o
  PROVE  /\ AreWritten(AfterGetAll(o).entries) \/ AfterGetAll(o).entries = <<>>
         /\ (\A i \in 1 .. 5 : o[i]) /\ Readable => AreWritten(AfterGetAll(o).entries)
<1> DEFINE i == load_index(cache, o[1], o[2])
           d == LoadedData(i, o[3])
           read == [j \in DOMAIN d.index |-> Kept(EntryAt(DataOf(d), d.index[j].offset))]
           got == AfterGetAll(o).entries
           best == (\A j \in 1 .. 5 : o[j]) /\ Readable
<1>1. got = IF i.index = <<>> THEN <<>> ELSE IF CanRead(d, o[3]) THEN FlattenSeq(read) ELSE <<>>
  BY DEF AfterGetAll
<1>2. Holding(es, i) /\ (o[1] /\ o[2] /\ file.footer.magic = "SST" => i.index = Index(es))
  BY LoadedIndexHolds
<1>3. best => o[1] /\ o[2] /\ o[3] /\ file.footer.magic = "SST"
  BY DEF Readable
<1> HIDE DEF got, i
<1>4. /\ Len(Index(es)) = Len(es) /\ Len(es) \in Nat /\ Lists(es) /\ AreEntries(es)
      /\ \A j \in 1 .. Len(es) : Index(es)[j].offset = Offset(es, j)
  BY <1>2, IndexIs DEF Holding, Lists
<1>5. CASE i.index = <<>>
  <2>1. got = <<>>
    BY <1>1, <1>5
  <2>2. best => AreWritten(got)
    <3> SUFFICES ASSUME best
                 PROVE  AreWritten(got)
      OBVIOUS
    <3>1. Index(es) = <<>>
      BY <1>2, <1>3, <1>5
    <3>2. Len(es) = 0
      BY <1>4, <3>1
    <3>3. Len(got) = Len(es) /\ 1 .. Len(es) = {}
      BY <2>1, <3>2
    <3> QED
      BY <1>4, <3>3, ReadAreWritten
  <2> QED
    BY <2>1, <2>2 DEF got
<1>6. CASE i.index # <<>>
  <2>1. i.index = Index(es) /\ i.footer_loaded
    BY <1>2, <1>6 DEF Holding, CacheHolds
  <2>2. /\ d.index = Index(es)
        /\ CanRead(d, o[3]) => IsPart(DataOf(d), es)
        /\ o[3] /\ Readable => CanRead(d, o[3])
    BY <1>2, <2>1, LoadedDataHolds
  <2> HIDE DEF d
  <2>3. ASSUME CanRead(d, o[3])
        PROVE  AreWritten(FlattenSeq(read))
    <3> DEFINE n == Len(es)
               x == [j \in 1 .. n |-> EntryAt(DataOf(d), Index(es)[j].offset)]
    <3>1. DOMAIN Index(es) = 1 .. n
      BY <1>4 DEF Index, AreEntries
    <3>2. ASSUME NEW j \in 1 .. n
          PROVE  /\ x[j] \in {Full(es[j].key, es[j].entry)} \union Misread
                 /\ Kept(x[j]) = <<x[j]>>
      <4>1. x[j] \in {Full(es[j].key, es[j].entry)} \union Misread
        BY <1>4, <2>2, <2>3, ReadsBack
      <4>2. x[j] # Nil
        BY <1>4, <4>1, FullIsNotNil, GarbageIsNotData DEF AreEntries, Misread
      <4> HIDE DEF x
      <4> QED
        BY <4>1, <4>2 DEF Kept
    <3>3. read = [j \in 1 .. n |-> Kept(x[j])]
      BY <2>2, <3>1
    <3>4. n \in Nat \ {0}
      <4>1. n # 0
        <5> SUFFICES ASSUME n = 0
                     PROVE  Index(es) = <<>>
          BY <1>6, <2>1
        <5>1. DOMAIN es = {}
          BY <1>4 DEF AreEntries
        <5> QED
          BY <5>1 DEF Index
      <4> QED
        BY <1>4, <4>1
    <3> HIDE DEF read, x, n
    <3>5. Len(read) = n /\ \A j \in 1 .. n : read[j] = <<x[j]>>
      BY <3>2, <3>3, <3>4
    <3>6. FlattenSeq(read) = [j \in 1 .. n |-> x[j]]
      BY <3>4, <3>5, FlattenSingles
    <3>7. Len(FlattenSeq(read)) = n /\ \A j \in 1 .. n : FlattenSeq(read)[j] = x[j]
      BY <3>4, <3>6
    <3> QED
      BY <1>4, <3>2, <3>7, ReadAreWritten DEF n
  <2> HIDE DEF read
  <2> QED
    BY <1>1, <1>3, <1>6, <2>2, <2>3 DEF got
<1> QED
  BY <1>5, <1>6

\* What keys() lists of a table.
LEMMA KeysLists ==
  ASSUME NEW es, Holding(es, cache), NEW o, NEW live,
         live = {k \in Keys : Visible(written[k]) # Nil}
  PROVE  /\ AfterKeys(o).keys \in {live, {}}
         /\ (\A i \in 1 .. 5 : o[i]) /\ Readable => AfterKeys(o).keys = live
<1> DEFINE i == load_index(cache, o[1], o[2])
           got == AfterKeys(o).keys
           best == (\A j \in 1 .. 5 : o[j]) /\ Readable
<1>1. got = {i.index[j].key : j \in {m \in DOMAIN i.index : i.index[m].type # DELETE}}
  BY DEF AfterKeys
<1>2. Holding(es, i) /\ (o[1] /\ o[2] /\ file.footer.magic = "SST" => i.index = Index(es))
  BY LoadedIndexHolds
<1>3. best => o[1] /\ o[2] /\ file.footer.magic = "SST"
  BY DEF Readable
<1> HIDE DEF got, i
<1>4. ASSUME i.index = <<>>
      PROVE  got = {}
  BY <1>1, <1>4
<1>5. ASSUME i.index = Index(es)
      PROVE  got = live
  <2> DEFINE n == Len(es)
  <2>1. /\ DOMAIN Index(es) = 1 .. n
        /\ \A j \in 1 .. n : Index(es)[j].key = es[j].key /\ Index(es)[j].type = es[j].entry.type
    BY <1>2, IndexIs DEF Holding, Lists, AreEntries, Index
  <2>2. got = {es[j].key : j \in {m \in 1 .. n : es[m].entry.type # DELETE}}
    BY <1>1, <1>5, <2>1
  <2>3. /\ \A j \in 1 .. n : /\ es[j].key \in Keys /\ es[j].entry = written[es[j].key]
                             /\ es[j].entry \in Entries
        /\ \A k \in WrittenKeys : \E j \in 1 .. n : es[j].key = k
    BY <1>2 DEF Holding, Lists, AreEntries
  <2> HIDE DEF n
  <2>4. ASSUME NEW k \in got
        PROVE  k \in live
    <3>1. PICK j \in 1 .. n : es[j].key = k /\ es[j].entry.type # DELETE
      BY <2>2
    <3>2. k \in Keys /\ written[k] \in Entries /\ written[k].type # DELETE
      BY <2>3, <3>1
    <3> QED
      BY <3>2, EntriesAreSane DEF Visible, is_tombstone
  <2>5. ASSUME NEW k \in live
        PROVE  k \in got
    <3>1. k \in Keys /\ written[k] # Nil /\ written[k].type # DELETE
      BY DEF Visible, is_tombstone
    <3>2. PICK j \in 1 .. n : es[j].key = k
      BY <2>3, <3>1 DEF WrittenKeys
    <3>3. es[j].entry.type # DELETE
      BY <2>3, <3>1, <3>2
    <3> QED
      BY <2>2, <3>2, <3>3
  <2> QED
    BY <2>4, <2>5
<1>6. i.index \in {<<>>, Index(es)}
  BY <1>2 DEF Holding, CacheHolds
<1> QED
  BY <1>2, <1>3, <1>4, <1>5, <1>6 DEF got

-----------------------------------------------------------------------------
\* Lists are told before another call begins.
ListedOK == AllOrNothing /\ (pc # "table" => entries = Nil /\ listed = Nil)

LEMMA CallLists ==
  ASSUME TableHolds, NEW o \in Opens,
         TableGetAll(o) \/ TableKeys(o) \/ \E k \in Keys : TableGet(k, o)
  PROVE  ListedOK'
<1>1. /\ pc = "table" /\ pc' = "table" /\ file' = file /\ written' = written /\ fits' = fits
      /\ opened' = \A i \in 1 .. 5 : o[i]
  BY DEF TableGetAll, TableKeys, TableGet, Call, ListIsIdle
<1>2. PICK es : Holding(es, cache)
  BY <1>1 DEF TableHolds
<1>3. WrittenKeys' = WrittenKeys /\ Readable' = Readable
  BY <1>1 DEF WrittenKeys, Readable
<1>4. CASE TableGetAll(o)
  <2>1. entries' = AfterGetAll(o).entries /\ listed' = Nil
    BY <1>4 DEF TableGetAll
  <2> DEFINE s == AfterGetAll(o).entries
  <2>2. /\ AreWritten(s) \/ s = <<>>
        /\ (\A i \in 1 .. 5 : o[i]) /\ Readable => AreWritten(s)
    BY <1>2, GetAllLists
  <2> HIDE DEF s
  <2>3. entries' = s
    BY <2>1 DEF s
  <2>4. AreWritten(s) => AreWritten(entries)'
    BY <1>1, <1>3, <2>3 DEF AreWritten, Misread
  <2> QED
    BY <1>1, <1>3, <2>1, <2>2, <2>3, <2>4 DEF ListedOK, AllOrNothing
<1>5. CASE TableKeys(o)
  <2>1. entries' = Nil /\ listed' = AfterKeys(o).keys
    BY <1>5 DEF TableKeys
  <2> DEFINE live == {k \in Keys : Visible(written[k]) # Nil}
  <2>2. /\ AfterKeys(o).keys \in {live, {}}
        /\ (\A i \in 1 .. 5 : o[i]) /\ Readable => AfterKeys(o).keys = live
    BY <1>2, KeysLists
  <2>3. {k \in Keys : Visible(written'[k]) # Nil} = live
    BY <1>1
  <2> HIDE DEF live
  <2> QED
    BY <1>1, <1>3, <2>1, <2>2, <2>3 DEF ListedOK, AllOrNothing
<1>6. CASE \E k \in Keys : TableGet(k, o)
  BY <1>1, <1>6 DEF TableGet, ListedOK, AllOrNothing
<1> QED
  BY <1>4, <1>5, <1>6

LEMMA ListedStays ==
  ASSUME TableHolds, ListedOK, [FlushNext]_flushVars
  PROVE  ListedOK'
<1>1. CASE Fill \/ Look
  <2>1. pc # "table" /\ UNCHANGED <<entries, listed>>
    BY <1>1 DEF Fill, Look, Collected, get, write, clear, get_all_entries, MemTableStep, Walk,
                FoundOld, InsertNew, Got, Collect, tableVars
  <2> QED
    BY <2>1 DEF ListedOK, AllOrNothing
<1>2. CASE Flush
  <2>1. pc # "table" /\ UNCHANGED <<entries, listed>>
    BY <1>2 DEF Flush, Collected
  <2> QED
    BY <2>1 DEF ListedOK, AllOrNothing
<1>3. CASE \E o \in Opens : TableGetAll(o) \/ TableKeys(o) \/ \E k \in Keys : TableGet(k, o)
  BY <1>3, CallLists
<1>4. CASE Reopen \/ Damage
  <2>1. entries' = Nil /\ listed' = Nil
    BY <1>4 DEF Reopen, Damage, NoResults
  <2> QED
    BY <2>1 DEF ListedOK, AllOrNothing
<1>5. CASE UNCHANGED flushVars
  <2>1. UNCHANGED <<pc, file, written, fits, opened, entries, listed>>
    BY <1>5 DEF flushVars, memTable, tableRest, tableVars
  <2>2. WrittenKeys' = WrittenKeys /\ Readable' = Readable
    BY <2>1 DEF WrittenKeys, Readable
  <2>3. AreWritten(entries)' <=> AreWritten(entries)
    BY <2>1, <2>2 DEF AreWritten, Misread
  <2> QED
    BY <2>1, <2>2, <2>3 DEF ListedOK, AllOrNothing
<1> QED
  BY <1>1, <1>2, <1>3, <1>4, <1>5 DEF FlushNext

\* For any table: compaction gets all entries that were written, each once and
\* in the order of keys, or none; keys() lists exactly the live keys or none.
\* With every open and undamaged data both succeed.  Of a table whose size the
\* width does not tell, some of the entries may be misread in their places.
THEOREM AlwaysAllOrNothing == FlushSpec => []AllOrNothing
<1>1. FlushInit => ListedOK
  BY DEF FlushInit, ListedOK, AllOrNothing
<1>2. FindInv /\ ListedOK /\ [FlushNext]_flushVars => ListedOK'
  BY ListedStays DEF FindInv
<1>3. ListedOK => AllOrNothing
  BY DEF ListedOK
<1> QED
  BY <1>1, <1>2, <1>3, FindInvHolds, PTL DEF FlushSpec

=============================================================================
