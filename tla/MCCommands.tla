----------------------------- MODULE MCCommands -----------------------------
(***************************************************************************)
(* Values of the constants of Commands for TLC: longs of three bits, and   *)
(* values that are such a number, a text that begins with one, and a text  *)
(* that does not.                                                          *)
(***************************************************************************)
EXTENDS Commands

CONSTANTS k1, k2, begins1, junk

MCValues == Long \union {begins1, junk}

MCNumberOf == [v \in Values |-> IF v = junk THEN None ELSE IF v = begins1 THEN 1 ELSE v]
MCTextOf   == [n \in Long |-> n]

\* A number put before a text begins it; all other results are text.
MCConcat == [p \in Values \X Values |-> IF p[1] = 1 THEN begins1 ELSE junk]
=============================================================================
