------------------------------- MODULE MCPool -------------------------------
(***************************************************************************)
(* Small instances of Pool for TLC.                                        *)
(***************************************************************************)
EXTENDS PoolRefinement

SizeUnit  == [s \in Seqs |-> 1]
SizeMixed == [s \in Seqs |-> CASE s = 1 -> 9 [] s = 2 -> 3 [] OTHER -> 1]
Alternate == [s \in Seqs |-> IF s % 2 = 0 THEN "success" ELSE "error"]
=============================================================================
