--------------------------- MODULE PoolRefinement ---------------------------
(***************************************************************************)
(* The pipeline implements Attempt.                                        *)
(***************************************************************************)
EXTENDS Pool

Stage(s) ==
  IF written[s] # <<>> THEN "recorded"
  ELSE IF s \in dropped THEN "abandoned"
  ELSE IF s \in InWorker THEN "claimed"
  ELSE "waiting"

AppendFailed == accErr = "io" \/ \E w \in Workers : werr[w]

Promise == INSTANCE Attempt WITH
  Rows <- Seqs, stage <- [s \in Seqs |-> Stage(s)],
  stop <- cancel, failed <- AppendFailed, over <- (report # "none")

(* The whole pipeline, whatever crashes, stalls or is cancelled, does to a  *)
(* row only what one attempt promises: claimed once and only before a stop, *)
(* recorded once, never after the report; a cancellation alone abandons no  *)
(* row that a worker holds (run_pool_streaming and the tasks it starts).    *)
ImplementsAttempt == Promise!Spec
=============================================================================
