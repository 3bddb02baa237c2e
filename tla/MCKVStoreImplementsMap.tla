----------------------- MODULE MCKVStoreImplementsMap -----------------------
(***************************************************************************)
(* KVStoreImplementsMap with the constants of MCKVStore, for TLC.          *)
(***************************************************************************)
EXTENDS MCKVStore, KVStoreImplementsMap
=============================================================================
