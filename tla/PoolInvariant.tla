---------------------------- MODULE PoolInvariant ---------------------------
(***************************************************************************)
(* The inductive invariants behind the safety properties of Pool.          *)
(***************************************************************************)
EXTENDS Pool

Accumulating == pending \cup taken \cup held
Recorded     == {s \in Seqs : written[s] # <<>>}
Sent         == {s \in Seqs : s < nextSeq /\ Selected(s)}

(* Queues and workers share no row among themselves.                        *)
NoSharing ==
  /\ \A i, j \in DOMAIN rowQ : i # j => rowQ[i] # rowQ[j]
  /\ \A i, j \in DOMAIN jobQ : i # j => jobQ[i] \cap jobQ[j] = {}
  /\ \A v, w \in Workers : v # w => wbatch[v] \cap wbatch[w] = {}
  /\ taken \cap held = {}

(* The six places are disjoint, and together hold what the reader has sent. *)
OnePlace ==
  /\ \A s \in Elems(rowQ) : s \notin Accumulating \cup InJobQ \cup InWorker \cup Recorded \cup dropped
  /\ \A s \in Accumulating : s \notin InJobQ \cup InWorker \cup Recorded \cup dropped
  /\ \A s \in InJobQ : s \notin InWorker \cup Recorded \cup dropped
  /\ \A s \in InWorker : s \notin Recorded \cup dropped
  /\ \A s \in Recorded : s \notin dropped
  /\ Sent = Elems(rowQ) \cup Accumulating \cup InJobQ \cup InWorker \cup Recorded \cup dropped

(* What the program counters say of each other and of the rows in hand.     *)
Phases ==
  /\ ppc \in {"spawn", "startup_failed"} => rpc = "idle" /\ apc = "idle"
  /\ \A w \in Workers : w >= spawned => wpc[w] = "unspawned"
  /\ rpc = "send" => Selected(nextSeq)
  /\ apc # "recv" => pending = {}
  /\ apc \notin {"flush", "flush_eof"} => taken = {} /\ held = {}
  /\ apc = "flush_eof" => held = {}
  /\ \A w \in Workers :
       wbatch[w] # {} => wpc[w] \in {"send", "wait", "write", "write_exit"}

WrittenOnce == \A s \in Seqs : Len(written[s]) <= 1

(* The inductive invariant of RowsConserved and AtMostOnce.                 *)
RowInv == TypeOK /\ NoSharing /\ OnePlace /\ Phases /\ WrittenOnce

(* How the attempt is being ended, and by whom: the inductive invariant of  *)
(* OperatorCancelIsReal, LogFinalAtReport and OnlyFailuresLeaveHandlers.    *)
ControlInv ==
  /\ ppc \in {"spawn", "startup_failed"} => mpc = "idle"
  /\ ppc \in {"notified", "done"} => WorkersJoined /\ apc \in {"idle", "done"}
  /\ report # "none" => ppc = "done"
  /\ cancel => \/ opCancel \/ mpc = "stalled"
               \/ ppc \in {"startup_failed", "notified", "done"}
  /\ accErr = "flush_cancelled" => opCancel \/ mpc = "stalled"
  /\ report = "operator_cancel" => opCancel
  /\ \A w \in Workers :
       hstate[w] = "up" => wpc[w] \notin {"unspawned", "exited"} \/ werr[w]
  /\ \A w \in Workers : hstate[w] = "unready" =>
       w = spawned /\ (ppc = "startup_failed" \/ report = "startup_failed")

(* The inductive invariant of TooLargeNeverDelivered: no oversized row is   *)
(* on its way to a handler, no worker decides on ROW_TOO_LARGE, and the log *)
(* has it for oversized rows only.                                          *)
OnTheirWay == \A s \in Seqs : Oversize(s) =>
  s \notin Accumulating /\ s \notin InJobQ /\ s \notin InWorker /\ s \notin delivered
NotDecided == \A w \in Workers : \A s \in Seqs : wout[w][s] # "too_large"
Labelled == \A s \in Seqs : \A i \in DOMAIN written[s] :
              (written[s][i] = "too_large") = Oversize(s)

SizeInv == OnTheirWay /\ NotDecided /\ Labelled

(* What ImplementsAttempt needs besides: an append that failed is never     *)
(* forgotten, and the pool does not end before the token is set, so that a  *)
(* late stall cancels nothing that is over.                                 *)
TokenInv ==
  /\ accErr # "none" => apc = "done"
  /\ ppc \in {"startup_failed", "notified", "done"} => cancel

(* The inductive invariant of OnlyDueRowsTouched: the limit counts the rows *)
(* sent, and the row in hand is still below it.                             *)
LimitInv ==
  /\ emitted = Cardinality(Sent)
  /\ \A n \in RowLimit : emitted <= n
  /\ rpc = "send" => \A n \in RowLimit : emitted < n

(* The inductive invariant of BatchWithinCaps: the batch being built is     *)
(* never full, so that the row held over a byte-cap flush can be pushed.    *)
WithinCaps(batch) ==
  /\ Cardinality(batch) <= MaxCount
  /\ Cardinality(batch) > 1 => Bytes(batch) <= BytesTarget /\ Bytes(batch) <= BytesMax

CapsInv ==
  /\ pendBytes = Bytes(pending)
  /\ Cardinality(pending) < MaxCount
  /\ held # {} => MaxCount > 1 /\ \E s \in Seqs : held = {s}
  /\ WithinCaps(pending) /\ WithinCaps(taken)
  /\ \A b \in Elems(jobQ) : WithinCaps(b)
  /\ \A w \in Workers : WithinCaps(wbatch[w])

(* The inductive invariant of AnswersMatchRows. A worker that waits has one *)
(* batch in the pipes of its handler: unread, answered, or lost with it;    *)
(* one that will read again has none. A worker that leaves its loop reads   *)
(* no more, whatever is left in the pipes.                                  *)
InStep(w) ==
  \/ hstate[w] = "up" /\ hin[w] = <<wbatch[w]>> /\ hout[w] = <<>>
  \/ hin[w] = <<>> /\ \E ok \in BOOLEAN : hout[w] = <<Reply(wbatch[w], ok)>>
  \/ hstate[w] = "dead" /\ hin[w] = <<>> /\ hout[w] = <<>>

Pipes(w) ==
  /\ wpc[w] = "wait" => InStep(w) /\ wbatch[w] \subseteq delivered
  /\ wpc[w] \in {"unspawned", "idle", "pull", "send", "write"} =>
       hin[w] = <<>> /\ hout[w] = <<>>

TrueAnswer(s, kind) ==
  kind \in {"success", "error"} => s \in delivered /\ kind = Verdict[s]

AnswerInv ==
  /\ \A w \in Workers : Pipes(w)
  /\ \A w \in Workers : \A s \in Seqs : TrueAnswer(s, wout[w][s])
  /\ \A s \in Seqs : \A i \in DOMAIN written[s] : TrueAnswer(s, written[s][i])

(* The inductive invariant of StatefulInOrder: the places a row goes        *)
(* through hold the input in its order, latest rows first.                  *)
Before(S, T) == \A s \in S : \A t \in T : s < t

OrderInv ==
  /\ \A i, j \in DOMAIN rowQ : i < j => rowQ[i] < rowQ[j]
  /\ \A i, j \in DOMAIN jobQ : i < j => Before(jobQ[i], jobQ[j])
  /\ Before(Accumulating, Elems(rowQ)) /\ Before(taken, held)
  /\ Before(InJobQ, Elems(rowQ) \cup Accumulating)
  /\ delivered \subseteq Sent
  /\ Stateful =>
       /\ Before(InWorker \cup delivered, Elems(rowQ) \cup Accumulating \cup InJobQ)
       /\ \A w \in Workers : wpc[w] = "send" => Before(delivered, wbatch[w])

(* The inductive invariant of OneSurvivorSuffices. As long as nothing stops *)
(* the attempt early, no task ends before the one that feeds it has ended   *)
(* and its channel is empty, but for a worker whose handler is dead.        *)
Unstopped ==
  /\ ~opCancel /\ mpc # "stalled" /\ accErr = "none"
  /\ \A w \in Workers : ~werr[w]
  /\ ppc # "startup_failed" /\ report # "startup_failed"

Draining ==
  /\ dropped = {}
  /\ rpc = "done" => Due \subseteq Sent
  /\ apc \in {"flush_eof", "done"} => rpc = "done" /\ rowQ = <<>>
  /\ \A w \in Workers :
       wpc[w] \in {"write_exit", "teardown", "grace", "exited"} =>
         hstate[w] = "dead" \/ (apc = "done" /\ jobQ = <<>>)

Ending ==
  /\ rpc = "idle" <=> apc = "idle"
  /\ \A w \in Workers : hstate[w] = "gone" => wpc[w] = "exited"
  /\ ppc = "notified" \/ report \notin {"none", "startup_failed"} => apc = "done"
  /\ report = "completed" =>
       mpc = "ok" /\ accErr = "none" /\ \A w \in Workers : ~werr[w]

SurvivorInv == (Unstopped => Draining) /\ Ending
=============================================================================
