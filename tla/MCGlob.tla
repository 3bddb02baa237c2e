------------------------------- MODULE MCGlob -------------------------------
(***************************************************************************)
(* All patterns of up to four characters, and all texts of as many.        *)
(***************************************************************************)
EXTENDS Glob
=============================================================================
