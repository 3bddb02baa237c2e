------------------------------ MODULE KeyOrder ------------------------------
(***************************************************************************)
(* The keys of the memtable and of a table, which are kept in their order. *)
(* std::string compares them byte by byte; here a key is a number.         *)
(***************************************************************************)
EXTENDS Integers, Sequences

CONSTANTS
  Keys,  \* the keys, as positive numbers
  Nil    \* nullptr and std::nullopt

ASSUME KeysAreNumbers == Keys \subseteq Nat \ {0} /\ Nil \notin Nat
=============================================================================
