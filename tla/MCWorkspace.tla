---------------------------- MODULE MCWorkspace ----------------------------
(***************************************************************************)
(* A small instance of Workspace for TLC.                                  *)
(***************************************************************************)
EXTENDS Workspace

CONSTANTS s1, p1, e1, e2

(* Both executions ask for the same name.                                   *)
SameName == [e \in Execs |-> "name"]

Scene(v, es, t, fs) ==
  [version |-> v, execs |-> es, ticks |-> t, faults |-> fs]

(* Migrations from every version; executions made, deleted and listed while      *)
(* things go wrong; and the same without faults, as time passes.               *)
SomeScenes ==
  {Scene(v, {}, 0, {"crash", "io"}) : v \in 0..(Current + 1)}
    \cup {Scene(Current, {e1, e2}, 0, {"crash", "io"}),
          Scene(Current, {e1}, 4, {})}
=============================================================================
