----------------------------- MODULE Resolution -----------------------------
(***************************************************************************)
(* Row resolution (row_resolution.rs): what the attempts of an execution,  *)
(* taken together, say of each input row. compute_resolution walks the     *)
(* terminal attempts in the order they were started and folds their logs   *)
(* into one record per row.                                                *)
(*                                                                         *)
(* A log holds at most one outcome of a row (Pool's OutcomeAtMostOnce), so *)
(* it is a function from rows to kinds, "none" where it has no outcome.    *)
(***************************************************************************)
EXTENDS Integers, SequencesExt

CONSTANTS Rows, Runs, Kinds
ASSUME ResolutionAssumption ==
  /\ Kinds \subseteq {"success", "error", "crash", "cancelled", "too_large"}
  /\ "none" \notin Runs

NoLog == [row \in Rows |-> "none"]

(* A row of which no attempt has said anything. canonical and failure name  *)
(* the attempts the exported success and the exported failure come from.    *)
NeverAttempted ==
  [state |-> "NeverAttempted", canonical |-> "none", failure |-> "none"]

(* Mutant of classify_failure: a row that is too large counts as untried.   *)
ClassifyTooLargeUntried(kind) ==
  CASE kind = "crash"     -> "CrashedLast"
    [] kind = "cancelled" -> "CancelledLast"
    [] kind = "too_large" -> "NeverAttempted"
    [] OTHER              -> "FailedLast"

classify_failure(kind) ==
  CASE kind = "crash"     -> "CrashedLast"
    [] kind = "cancelled" -> "CancelledLast"
    [] kind = "too_large" -> "TooLarge"
    [] OTHER              -> "FailedLast"

(* Mutant of apply_row_outcome: a later success takes the place of the first. *)
ApplyLastSuccess(p, a, kind) ==
  IF kind = "success" THEN [p EXCEPT !.state = "Resolved", !.canonical = a]
  ELSE IF kind = "none" \/ p.state = "Resolved" THEN p
  ELSE [p EXCEPT !.state = classify_failure(kind), !.failure = a]

(* Mutant of apply_row_outcome: a failure takes a row out of Resolved.      *)
ApplyDowngrades(p, a, kind) ==
  CASE kind = "none"    -> p
    [] kind = "success" ->
         [p EXCEPT !.state = "Resolved",
                   !.canonical = IF p.canonical = "none" THEN a ELSE p.canonical]
    [] OTHER -> [p EXCEPT !.state = classify_failure(kind), !.failure = a]

(* A success is absorbing and the first one stays the exported one; a       *)
(* failure replaces an earlier failure and never a success.                 *)
apply_row_outcome(p, a, kind) ==
  IF kind = "success"
  THEN [p EXCEPT !.state = "Resolved",
                 !.canonical = IF p.canonical = "none" THEN a ELSE p.canonical]
  ELSE IF kind = "none" \/ p.state = "Resolved" THEN p
  ELSE [p EXCEPT !.state = classify_failure(kind), !.failure = a]

(* The record of a row after a walk over the attempts, oldest first, that   *)
(* passes over those not in merged.                                         *)
per_seq(attempts, merged, log, row) ==
  FoldLeft(LAMBDA p, a : IF a \in merged THEN apply_row_outcome(p, a, log[a][row]) ELSE p,
           NeverAttempted, attempts)

(* Mutant of attempted_seqs: only rows that succeeded count.                *)
AttemptedMeansResolved(attempts, merged, log) ==
  {row \in Rows : per_seq(attempts, merged, log, row).state = "Resolved"}

attempted_seqs(attempts, merged, log) ==
  {row \in Rows : per_seq(attempts, merged, log, row).state # "NeverAttempted"}

resolved_seqs(attempts, merged, log) ==
  {row \in Rows : per_seq(attempts, merged, log, row).state = "Resolved"}

failed_seqs(attempts, merged, log) ==
  {row \in Rows : per_seq(attempts, merged, log, row).state \in
                    {"FailedLast", "CrashedLast", "CancelledLast", "TooLarge"}}

---------------------------------------------------------------------------
(* The reference: the derivation of the data model, stated over the whole   *)
(* history of a row rather than one outcome at a time.                      *)

Said(attempts, merged, log, row) ==
  {i \in DOMAIN attempts : attempts[i] \in merged /\ log[attempts[i]][row] # "none"}
Wins(attempts, merged, log, row) ==
  {i \in DOMAIN attempts : attempts[i] \in merged /\ log[attempts[i]][row] = "success"}

DerivedState(attempts, merged, log, row) ==
  LET said == Said(attempts, merged, log, row)
      last == log[attempts[Max(said)]][row]
  IN  IF said = {} THEN "NeverAttempted"
      ELSE IF Wins(attempts, merged, log, row) # {} THEN "Resolved"
      ELSE CASE last = "crash"     -> "CrashedLast"
             [] last = "cancelled" -> "CancelledLast"
             [] last = "too_large" -> "TooLarge"
             [] OTHER              -> "FailedLast"

DerivedCanonical(attempts, merged, log, row) ==
  LET wins == Wins(attempts, merged, log, row)
  IN  IF wins = {} THEN "none" ELSE attempts[Min(wins)]
=============================================================================
