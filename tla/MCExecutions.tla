---------------------------- MODULE MCExecutions ----------------------------
(***************************************************************************)
(* Small instances of Executions for TLC.                                  *)
(***************************************************************************)
EXTENDS Executions

CONSTANTS r1, r2, r3, p1, p2

(* One window; and a window beside the command line.                        *)
OneWindow == [r \in Runs |-> p1]
Mixed     == [r \in Runs |-> IF r = r1 THEN p1 ELSE "cli"]
=============================================================================
