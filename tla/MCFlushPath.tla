---------------------------- MODULE MCFlushPath ----------------------------
(***************************************************************************)
(* Values of the constants of FlushPath for TLC.  The keys are the texts   *)
(* "", "a" and "ab"; an entry is a short value, a long one or a tombstone; *)
(* LZ4 takes the data of small tables and refuses that of larger ones; of  *)
(* the largest ones, whose sizes begin at 0 again, it takes a part.        *)
(***************************************************************************)
EXTENDS FlushPath

MCKeys    == 1 .. 3
MCKeyText == <<<<>>, <<7>>, <<7, 8>>>>

MCEntries == {[type |-> PUT,    timestamp |-> 1, value |-> <<>>],
              [type |-> PUT,    timestamp |-> 2, value |-> <<9, 9, 9, 9, 9, 9>>],
              [type |-> DELETE, timestamp |-> 3, value |-> <<>>]}

\* The second hash of key 2 is even, that of key 3 is large.
MCHash1 == <<5, 30, 17>>
MCHash2 == <<3, 8, 31>>
=============================================================================
