----------------------------- MODULE MCHandlers -----------------------------
(***************************************************************************)
(* Small instances of Handlers for TLC.                                    *)
(***************************************************************************)
EXTENDS Handlers, TLC

CONSTANTS c1, c2, r1, b1

SomeFixtures ==
  {("csv" :> <<"object", "object", "object">>) @@ ("jsonl" :> <<"garbled", "object", "blank", "object">>),
   "json" :> <<"object", "garbled">>}

Scene(who, o, e, t) == [parties |-> who, ops |-> o, edits |-> e, talks |-> t]

(* Two smoke tests that talk to their handlers in full; and calls, an attempt  *)
(* and a builder among operations on directories, with handlers that never    *)
(* get ready.                                                               *)
SomeScenes ==
  {Scene({c1, c2}, 0, 0, TRUE), Scene({c1, r1, b1}, 1, 1, FALSE),
   Scene({c1}, 2, 1, FALSE)}
=============================================================================
