------------------------------- MODULE Attempt ------------------------------
(***************************************************************************)
(* What one attempt promises about its rows, with no tasks, channels or    *)
(* handlers: a row waits, is claimed by one worker, and is recorded once   *)
(* in outcomes.jsonl. A cancellation abandons waiting rows only, and ends  *)
(* the claims; a failed append may abandon any row in hand. The attempt    *)
(* ends with no row claimed, and then nothing changes any more. Rows that  *)
(* still wait are what the next attempt sees as NeverAttempted.            *)
(***************************************************************************)
CONSTANT Rows

VARIABLES
  stage,   (* of each row: "waiting", "claimed", "recorded", "abandoned" *)
  stop,    (* the attempt has been cancelled                             *)
  failed,  (* an append to the log has failed                            *)
  over     (* the attempt has ended                                      *)

vars == <<stage, stop, failed, over>>

In(st) == {r \in Rows : stage[r] = st}

Move(S, st) == stage' = [r \in Rows |-> IF r \in S THEN st ELSE stage[r]]

Init ==
  /\ stage = [r \in Rows |-> "waiting"]
  /\ stop = FALSE /\ failed = FALSE /\ over = FALSE

(* A worker takes a batch; none is handed out after a stop.                 *)
Claim ==
  /\ ~over /\ ~stop
  /\ \E S \in SUBSET In("waiting") : Move(S, "claimed")
  /\ UNCHANGED <<stop, failed, over>>

(* The outcomes of a claimed batch are written as one.                      *)
Record ==
  /\ ~over
  /\ \E S \in SUBSET In("claimed") : Move(S, "recorded")
  /\ UNCHANGED <<stop, failed, over>>

(* A row no worker may see is recorded without being claimed.               *)
Refuse ==
  /\ ~over /\ ~stop
  /\ \E r \in In("waiting") : Move({r}, "recorded")
  /\ UNCHANGED <<stop, failed, over>>

Drop ==
  /\ ~over /\ stop
  /\ \E S \in SUBSET In("waiting") : Move(S, "abandoned")
  /\ UNCHANGED <<stop, failed, over>>

Fail ==
  /\ ~over
  /\ \E S \in SUBSET (In("waiting") \cup In("claimed")) : Move(S, "abandoned")
  /\ failed' = TRUE
  /\ UNCHANGED <<stop, over>>

Stop == ~over /\ stop' = TRUE /\ UNCHANGED <<stage, failed, over>>

End == ~over /\ In("claimed") = {} /\ over' = TRUE /\ UNCHANGED <<stage, stop, failed>>

Next == Claim \/ Record \/ Refuse \/ Drop \/ Fail \/ Stop \/ End

Spec == Init /\ [][Next]_vars
=============================================================================
