------------------------------ MODULE MemTable ------------------------------
(***************************************************************************)
(* The memtable: a skip list of entries and the running total of their     *)
(* encoded sizes.  put() and remove() search twice, once for the size of   *)
(* the old entry and once to insert the new one.                           *)
(*                                                                         *)
(*   idle     no call is running                                           *)
(*   find     put() or remove() searches for the old entry                 *)
(*   insert   put() or remove() searches for the place of the new one      *)
(*   get      get() searches                                               *)
(*   collect  get_all_entries() walks along the lowest level               *)
(***************************************************************************)
EXTENDS SkipList, EntryCodec, FiniteSetsExt

VARIABLES
  total_encoded_size_,
  pc,
  key,        \* the key the running call is about
  entry,      \* the entry it writes
  answer,     \* what the last call of get() found
  collected   \* the nodes the last walk has passed

\* All but the list and the search.
tableRest == <<total_encoded_size_, pc, key, entry, answer, collected>>
memTable  == <<list, search, tableRest>>

SizeOf(k, e) == encode_size(Full(k, e))

MemTableInit ==
  /\ ListInit
  /\ total_encoded_size_ = 0
  /\ pc = "idle" /\ key = Nil /\ entry = Nil /\ answer = Nil /\ collected = <<>>

\* put(k, v) and remove(k), with a time stamp: e is a value or a tombstone.
write(k, e) ==
  /\ pc = "idle"
  /\ key' = k /\ entry' = e /\ pc' = "find"
  /\ BeginSearch /\ answer' = Nil
  /\ UNCHANGED <<list, total_encoded_size_, collected>>

Walk ==
  /\ pc \in {"find", "insert", "get"} /\ Step(key)
  /\ UNCHANGED tableRest

\* Faulty variant: the old entry is not taken off.
SizeNotTaken == total_encoded_size_

\* Faulty variant: the size of the new entry is taken off.
SizeWithoutNew == total_encoded_size_ - SizeOf(key, entry)

SizeWithoutOld ==
  IF Hit(key) THEN total_encoded_size_ - SizeOf(key, value[key]) ELSE total_encoded_size_

FoundOld ==
  /\ pc = "find" /\ level = 0
  /\ total_encoded_size_' = SizeWithoutOld
  /\ pc' = "insert" /\ BeginSearch
  /\ UNCHANGED <<list, key, entry, answer, collected>>

Return == pc' = "idle" /\ key' = Nil /\ entry' = Nil

InsertNew ==
  /\ pc = "insert" /\ level = 0
  /\ Insert(key, entry)
  /\ total_encoded_size_' = total_encoded_size_ + SizeOf(key, entry)
  /\ Return /\ EndSearch
  /\ UNCHANGED <<answer, collected>>

get(k) ==
  /\ pc = "idle"
  /\ key' = k /\ pc' = "get"
  /\ BeginSearch /\ answer' = Nil
  /\ UNCHANGED <<list, total_encoded_size_, entry, collected>>

Got ==
  /\ pc = "get" /\ level = 0
  /\ answer' = [key |-> key, found |-> IF Hit(key) THEN Visible(value[key]) ELSE Nil]
  /\ Return /\ EndSearch
  /\ UNCHANGED <<list, total_encoded_size_, collected>>

\* clear() is called when no other call is running.
clear ==
  /\ pc = "idle"
  /\ Emptied
  /\ total_encoded_size_' = 0 /\ answer' = Nil
  /\ UNCHANGED <<search, pc, key, entry, collected>>

\* get_all_entries(), keys() and size() make the same walk.
get_all_entries ==
  /\ pc = "idle" /\ size_ # 0
  /\ pc' = "collect" /\ collected' = <<>> /\ answer' = Nil
  /\ EndSearch
  /\ UNCHANGED <<list, total_encoded_size_, key, entry>>

Collect ==
  /\ pc = "collect" /\ forward[current][1] # Nil
  /\ current' = forward[current][1]
  /\ collected' = Append(collected, forward[current][1])
  /\ UNCHANGED <<list, level, update, total_encoded_size_, pc, key, entry, answer>>

Collected == pc = "collect" /\ forward[current][1] = Nil

MemTableStep == Walk \/ FoundOld \/ InsertNew \/ Got \/ Collect

-----------------------------------------------------------------------------
\* Every variable has its type; sizes do not run below zero, where the
\* unsigned total would wrap.
MemTableTypeOK ==
  /\ DOMAIN forward = Keys \union {header} /\ Len(forward[header]) = MAX_LEVEL
  /\ \A n \in DOMAIN forward : forward[n] \in Seq(Keys \union {Nil})
  /\ value \in [Keys -> Entries \union {Nil}]
  /\ num_current_level_ \in Levels /\ size_ \in Nat
  /\ current \in DOMAIN forward /\ level \in Levels \union {0}
  /\ update \in [Levels -> DOMAIN forward \union {Nil}]
  /\ total_encoded_size_ \in Nat
  /\ key \in Keys \union {Nil} /\ entry \in Entries \union {Nil}
  /\ collected \in Seq(Keys)

\* A search that is through has found the key exactly if it was ever inserted,
\* whatever heights the nodes were given and on whatever path it came.
SearchFinds ==
  pc \in {"find", "insert", "get"} /\ level = 0 => (Hit(key) <=> value[key] # Nil)

\* Between two calls the total is the sum over the entries, after any number
\* of overwrites by values of another size or by tombstones.
TotalIsSum ==
  pc = "idle" =>
    total_encoded_size_ = MapThenSumSet(LAMBDA k : SizeOf(k, value[k]), Present)

\* A walk that is through has passed every node once, in the order of keys.
WalkIsSorted ==
  Collected => /\ \A i, j \in DOMAIN collected : i < j => collected[i] < collected[j]
               /\ \A k \in Present : \E i \in DOMAIN collected : collected[i] = k
=============================================================================
