--------------------------- MODULE MCKVStoreBatch ---------------------------
(***************************************************************************)
(* KVStoreBatch with the constants of MCKVStore, for TLC.                  *)
(***************************************************************************)
EXTENDS MCKVStore, KVStoreBatch

\* A batch put that names a key twice, and a batch remove.
MCBatches == {<< <<k1, v1>>, <<k2, v2>>, <<k1, v2>> >>,
              << <<k2, Tombstone>>, <<k1, Tombstone>> >>}
=============================================================================
