------------------------------ MODULE MCResults ------------------------------
(***************************************************************************)
(* Small instances of Results for TLC.                                     *)
(***************************************************************************)
EXTENDS Results

File(fmt, lines) == [format |-> fmt, ends |-> "lf", lines |-> lines]
ReturnsOnly == [format |-> "csv", ends |-> "cr", lines |-> <<"row", "row">>]

SomeFiles ==
  {File("jsonl", l) :
     l \in {<<>>, <<"blank">>, <<"blank", "row", "row">>,
            <<"row", "blank", "row">>, <<"row", "malformed", "keyless", "blank">>,
            <<"invalid", "row">>}}
    \cup
  {File("csv", l) :
     l \in {<<>>, <<"row">>, <<"keyless", "row">>,
            <<"blank", "row", "row", "blank", "row">>, <<"row", "quote", "quote">>,
            <<"row", "quote", "row">>, <<"row", "spaces">>, <<"row", "gap", "row">>}}
    \cup {ReturnsOnly}

TwoAttempts == <<"a1", "a2">>
=============================================================================
