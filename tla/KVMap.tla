------------------------------- MODULE KVMap -------------------------------
(***************************************************************************)
(* What a key-value store promises its one client: a map that every put,   *)
(* remove and clear changes in one step, that a call which fails leaves    *)
(* either unchanged or changed, and that nothing else changes - no flush,  *)
(* no compaction, no crash, no restart.  The call is seen to run for a     *)
(* while after it has taken effect, and in the end it returns.             *)
(***************************************************************************)
CONSTANTS Keys, Values, None

VARIABLES
  dict,  \* the value of each key, None if it has none
  busy   \* a call has taken effect and has not returned

vars == <<dict, busy>>

TypeOK == dict \in [Keys -> Values \union {None}] /\ busy \in BOOLEAN

Init == dict = [k \in Keys |-> None] /\ busy = FALSE

\* put and remove; remove sets the value to None.
Set(k, v) == ~busy /\ busy' = TRUE /\ dict' = [dict EXCEPT ![k] = v]

\* A put or remove that returns false may have taken effect or not.
SetFails(k, v) ==
  ~busy /\ UNCHANGED busy /\ dict' \in {dict, [dict EXCEPT ![k] = v]}

Clear == ~busy /\ busy' = TRUE /\ dict' = [k \in Keys |-> None]

\* The call returns, or its process dies.
Return == busy /\ busy' = FALSE /\ UNCHANGED dict

Next == \/ \E k \in Keys, v \in Values \union {None} : Set(k, v) \/ SetFails(k, v)
        \/ Clear
        \/ Return

Spec == Init /\ [][Next]_vars /\ WF_vars(Return)
=============================================================================
