------------------------------ MODULE SkipList ------------------------------
(***************************************************************************)
(* The skip list of the memtable: nodes in the order of their keys, each   *)
(* on the levels 1 .. Len(forward[node]), level 1 being level 0 of the     *)
(* code.  A node is named by its key; the header stands before all keys.   *)
(*                                                                         *)
(* find() and insert() walk to the right and down, one step at a time.     *)
(* Reading forward[node][i] beyond the node's array is undefined in the    *)
(* code and outside the domain here.                                       *)
(***************************************************************************)
EXTENDS KeyOrder, FiniteSets

CONSTANT MAX_LEVEL

ASSUME MaxLevelIsPositive == MAX_LEVEL \in Nat \ {0}

header == 0

VARIABLES
  forward,  \* of every node, <<>> for a node that does not exist
  value,    \* of every node, Nil for a node that does not exist
  num_current_level_,
  size_,
  \* The search that runs or ran last.
  current,  \* the node it has reached
  level,    \* the level it walks on, 0 when it is through
  update    \* on each level it has left, the last node before the key

list   == <<forward, value, num_current_level_, size_>>
search == <<current, level, update>>

Levels == 1 .. MAX_LEVEL

NoUpdate == [i \in Levels |-> Nil]

\* What clear() leaves: the header with no node behind it.
Emptied ==
  /\ forward' = [n \in Keys \union {header} |-> IF n = header THEN NoUpdate ELSE <<>>]
  /\ value' = [k \in Keys |-> Nil]
  /\ num_current_level_' = 1 /\ size_' = 0

ListInit ==
  /\ forward = [n \in Keys \union {header} |-> IF n = header THEN NoUpdate ELSE <<>>]
  /\ value = [k \in Keys |-> Nil]
  /\ num_current_level_ = 1 /\ size_ = 0
  /\ current = header /\ level = 0 /\ update = NoUpdate

-----------------------------------------------------------------------------
(***************************************************************************)
(* The search for key k.                                                   *)
(***************************************************************************)

BeginSearch == current' = header /\ level' = num_current_level_ /\ update' = NoUpdate
EndSearch   == current' = header /\ level' = 0 /\ update' = NoUpdate

\* Faulty variant: goes one node too far.
IsBeforeOrAt(pointer, k) == pointer # Nil /\ pointer <= k

\* The node to which a pointer leads stands before key k.
IsBefore(pointer, k) == pointer # Nil /\ pointer < k

Right(k) ==
  /\ level > 0 /\ IsBefore(forward[current][level], k)
  /\ current' = forward[current][level]
  /\ UNCHANGED <<level, update>>

Down(k) ==
  /\ level > 0 /\ ~IsBefore(forward[current][level], k)
  /\ update' = [update EXCEPT ![level] = current]
  /\ level' = level - 1
  /\ UNCHANGED current

Step(k) == (Right(k) \/ Down(k)) /\ UNCHANGED list

\* The search is through, and the next node on the lowest level is the key's.
Hit(k) == forward[current][1] = k

-----------------------------------------------------------------------------
(***************************************************************************)
(* The end of insert().                                                    *)
(***************************************************************************)

\* insert() finds the key and replaces what its node holds.
Overwrite(k, v) ==
  /\ Hit(k)
  /\ value' = [value EXCEPT ![k] = v]
  /\ UNCHANGED <<forward, num_current_level_, size_>>

\* Faulty variant: the search is not looked at.
AfterHeader(i) == header

\* The node after which a new node is linked on level i.
Predecessor(i) == IF i <= num_current_level_ THEN update[i] ELSE header

\* Faulty variant: the nodes behind the new one are dropped.
NothingBehind(i) == Nil

\* The node before which a new node is linked on level i.
Successor(i) == forward[Predecessor(i)][i]

\* A new node of height h is linked on the levels 1 .. h.
Link(k, v, h) ==
  /\ ~Hit(k)
  /\ forward' = [n \in DOMAIN forward |->
       IF n = k THEN [i \in 1 .. h |-> Successor(i)]
       ELSE [i \in DOMAIN forward[n] |->
               IF i <= h /\ Predecessor(i) = n THEN k ELSE forward[n][i]]]
  /\ value' = [value EXCEPT ![k] = v]
  /\ num_current_level_' = IF h > num_current_level_ THEN h ELSE num_current_level_
  /\ size_' = size_ + 1

\* random_level() may choose every height.
Insert(k, v) == Overwrite(k, v) \/ \E h \in Levels : Link(k, v, h)

-----------------------------------------------------------------------------
Present == {k \in Keys : value[k] # Nil}

\* On every level the pointer of a node leads to the next node that reaches
\* this level: no node is skipped, none is out of order, none is left behind.
Linked ==
  \A n \in Present \union {header} : \A i \in DOMAIN forward[n] :
    LET behind == {m \in Present : m > n /\ Len(forward[m]) >= i}
    IN  IF behind = {} THEN forward[n][i] = Nil
        ELSE forward[n][i] \in behind /\ \A m \in behind : forward[n][i] <= m

Counted ==
  /\ size_ = Cardinality(Present)
  /\ \A k \in Present : Len(forward[k]) \in 1 .. num_current_level_

\* Between any two steps of any calls the list is linked on all levels, it
\* counts its nodes, and none is higher than the level searches begin on.
ListIsSound == Linked /\ Counted
=============================================================================
