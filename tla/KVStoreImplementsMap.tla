----------------------- MODULE KVStoreImplementsMap -----------------------
(***************************************************************************)
(* KVStore implements the map of KVMap.                                    *)
(*                                                                         *)
(* The map is what the disk holds: what get() would answer if the process  *)
(* stopped at this very step and were started again.  A put takes effect   *)
(* when its log record is durable, a clear when it has truncated the log;  *)
(* while it removes the table files the map is empty already.  Flush,      *)
(* compaction, stop, crash and recovery are steps that must not change     *)
(* this map.                                                               *)
(***************************************************************************)
EXTENDS KVStore

DurableMap == [k \in Keys |-> IF pc = "wipe" THEN None ELSE Durable(k)]

Running == pc \notin {"idle", "down"}

Map == INSTANCE KVMap WITH dict <- DurableMap, busy <- Running

\* Every behaviour of the store is one of an atomic, durable map: put, remove
\* and clear take effect at once and exactly once, and no flush, compaction,
\* crash or restart changes what a client can read.
ImplementsMap == Map!Spec

\* What ImplementsMap says of single steps, without fairness.
MapSteps == Map!Init /\ [][Map!Next]_(Map!vars)
=============================================================================
