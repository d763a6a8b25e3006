----------------------------- MODULE WorkerLoop -----------------------------
(***************************************************************************)
(* run_worker_loop (worker_loop.rs) and the handler process it drives over *)
(* stdio (worker.rs). The handler is the environment: it answers when it   *)
(* pleases, or never, and may die at any time.                             *)
(***************************************************************************)
EXTENDS Pipeline

WorkerFrame == <<poolVars, tokenVars, readerVars, accVars, monitorVars, rowQ>>

(* The mutex around the job receiver is held exactly while a worker waits   *)
(* in recv().                                                               *)
LockFree == \A w \in Workers : wpc[w] # "pull"

WLock(w) ==
  /\ wpc[w] = "idle" /\ LockFree
  /\ wpc' = [wpc EXCEPT ![w] = "pull"]
  /\ UNCHANGED <<wbatch, wout, werr, handlerVars, logVars, jobQ, dropped, delivered>>
  /\ UNCHANGED WorkerFrame

(* Mutant of WPull: a waiting batch wins over the token.                    *)
WPullLate(w) ==
  /\ wpc[w] = "pull" /\ jobQ # <<>>
  /\ wbatch' = [wbatch EXCEPT ![w] = Head(jobQ)]
  /\ jobQ' = Tail(jobQ)
  /\ wpc' = [wpc EXCEPT ![w] = "send"]
  /\ UNCHANGED <<wout, werr, handlerVars, logVars, dropped, delivered>>
  /\ UNCHANGED WorkerFrame

(* The biased select!: the token wins over a batch that is waiting.         *)
WPull(w) ==
  /\ wpc[w] = "pull"
  /\ ~cancel /\ jobQ # <<>>
  /\ wbatch' = [wbatch EXCEPT ![w] = Head(jobQ)]
  /\ jobQ' = Tail(jobQ)
  /\ wpc' = [wpc EXCEPT ![w] = "send"]
  /\ UNCHANGED <<wout, werr, handlerVars, logVars, dropped, delivered>>
  /\ UNCHANGED WorkerFrame

(* Mutant of WPullNone: an empty channel is taken for a closed one.         *)
WPullGivesUp(w) ==
  /\ wpc[w] = "pull"
  /\ cancel \/ jobQ = <<>>
  /\ wpc' = [wpc EXCEPT ![w] = "teardown"]
  /\ UNCHANGED <<wbatch, wout, werr, handlerVars, logVars, jobQ, dropped, delivered>>
  /\ UNCHANGED WorkerFrame

(* None: cancelled, or the channel is closed and empty. The loop ends.      *)
WPullNone(w) ==
  /\ wpc[w] = "pull"
  /\ cancel \/ (jobQ = <<>> /\ JobTxDropped)
  /\ wpc' = [wpc EXCEPT ![w] = "teardown"]
  /\ UNCHANGED <<wbatch, wout, werr, handlerVars, logVars, jobQ, dropped, delivered>>
  /\ UNCHANGED WorkerFrame

(* send_row / send_batch_envelopes: no cancel arm. A batch that fits the    *)
(* pipe is written at once; one that does not waits for a reading handler.  *)
FitsPipe(w) == wbatch[w] \cap Clogging = {}

WSend(w) ==
  /\ wpc[w] = "send" /\ hstate[w] = "up"
  /\ hin' = [hin EXCEPT ![w] = Append(@, wbatch[w])]
  /\ delivered' = delivered \cup wbatch[w]
  /\ wpc' = [wpc EXCEPT ![w] = "wait"]
  /\ UNCHANGED <<wbatch, wout, werr, hstate, hout, logVars, jobQ, dropped>>
  /\ UNCHANGED WorkerFrame

(* The worker decides on outcomes k[s] for its batch and goes on to `next`, *)
(* where they are written.                                                  *)
Decide(w, k, next) ==
  /\ wout' = [wout EXCEPT ![w] =
                [s \in Seqs |-> IF s \in wbatch[w] THEN k[s] ELSE "none"]]
  /\ wpc' = [wpc EXCEPT ![w] = next]

Crashed == [s \in Seqs |-> "crash"]

(* Writing to a dead handler fails: the batch crashes and the loop ends.    *)
WSendFails(w) ==
  /\ wpc[w] = "send" /\ hstate[w] = "dead"
  /\ Decide(w, Crashed, "write_exit")
  /\ UNCHANGED <<wbatch, werr, handlerVars, logVars, jobQ, dropped, delivered>>
  /\ UNCHANGED WorkerFrame

(* The cancel arm of the receive: the batch crashes and the loop ends.      *)
WRecvCancelled(w) ==
  /\ wpc[w] = "wait" /\ cancel
  /\ Decide(w, Crashed, "write_exit")
  /\ UNCHANGED <<wbatch, werr, handlerVars, logVars, jobQ, dropped, delivered>>
  /\ UNCHANGED WorkerFrame

(* Results are matched to rows by position; the seq a row-mode reply        *)
(* carries is not looked at.                                                *)
Position(S, s) == Cardinality({t \in S : t < s})
Counterpart(batch, reply, s) ==
  CHOOSE t \in reply : Position(reply, t) = Position(batch, s)

Aligned(batch, reply) ==
  [s \in Seqs |-> IF s \in batch THEN Verdict[Counterpart(batch, reply, s)]
                                 ELSE "none"]
ProtocolError == [s \in Seqs |-> "protocol_error"]

(* Mutant of WRecv: the reply is left in the pipe.                          *)
WRecvPeeks(w) ==
  /\ wpc[w] = "wait" /\ ~cancel
  /\ hout[w] # <<>>
  /\ Decide(w, Aligned(wbatch[w], Head(hout[w]).rows), "write")
  /\ UNCHANGED <<wbatch, werr, handlerVars, logVars, jobQ, dropped, delivered>>
  /\ UNCHANGED WorkerFrame

WRecv(w) ==
  LET r == Head(hout[w]) IN
  /\ wpc[w] = "wait" /\ ~cancel
  /\ hout[w] # <<>>
  /\ hout' = [hout EXCEPT ![w] = Tail(@)]
  /\ Decide(w,
       IF r.ok /\ Cardinality(r.rows) = Cardinality(wbatch[w])
       THEN Aligned(wbatch[w], r.rows) ELSE ProtocolError,
       "write")
  /\ UNCHANGED <<wbatch, werr, hstate, hin, logVars, jobQ, dropped, delivered>>
  /\ UNCHANGED WorkerFrame

(* stdout closed: the batch crashes, and the loop goes on.                  *)
WRecvEof(w) ==
  /\ wpc[w] = "wait" /\ ~cancel
  /\ hout[w] = <<>> /\ hstate[w] = "dead"
  /\ Decide(w, Crashed, "write")
  /\ UNCHANGED <<wbatch, werr, handlerVars, logVars, jobQ, dropped, delivered>>
  /\ UNCHANGED WorkerFrame

(* The append, which no cancellation interrupts.                            *)
WWrite(w) ==
  /\ wpc[w] \in {"write", "write_exit"}
  /\ AppendLine(wbatch[w], wout[w])
  /\ wbatch' = [wbatch EXCEPT ![w] = {}]
  /\ wout' = [wout EXCEPT ![w] = NoOutcome]
  /\ wpc' = [wpc EXCEPT ![w] = IF wpc[w] = "write" THEN "idle" ELSE "teardown"]
  /\ UNCHANGED <<werr, handlerVars, jobQ, dropped, delivered>>
  /\ UNCHANGED WorkerFrame

(* An append that fails ends the task with Err, skipping the teardown.      *)
WWriteFails(w) ==
  /\ "io" \in Faults
  /\ wpc[w] \in {"write", "write_exit"}
  /\ dropped' = dropped \cup wbatch[w]
  /\ wbatch' = [wbatch EXCEPT ![w] = {}]
  /\ wout' = [wout EXCEPT ![w] = NoOutcome]
  /\ wpc' = [wpc EXCEPT ![w] = "exited"]
  /\ werr' = [werr EXCEPT ![w] = TRUE]
  /\ UNCHANGED <<handlerVars, logVars, jobQ, delivered>>
  /\ UNCHANGED WorkerFrame

(* Teardown: hard_kill if the flag is set, else shutdown(grace). Either way *)
(* a handler that was still up is gone afterwards.                          *)
Exit(w) ==
  /\ hstate' = [hstate EXCEPT ![w] = IF @ = "up" THEN "gone" ELSE @]
  /\ wpc' = [wpc EXCEPT ![w] = "exited"]
  /\ UNCHANGED <<wbatch, wout, werr, hin, hout, logVars, jobQ, dropped, delivered>>
  /\ UNCHANGED WorkerFrame

WHardKill(w) == wpc[w] = "teardown" /\ hard /\ Exit(w)

WShutdown(w) ==
  /\ wpc[w] = "teardown" /\ ~hard
  /\ wpc' = [wpc EXCEPT ![w] = "grace"]
  /\ UNCHANGED <<wbatch, wout, werr, handlerVars, logVars, jobQ, dropped, delivered>>
  /\ UNCHANGED WorkerFrame

(* The handler exits within the grace period, or is killed at its end ...   *)
WShutdownDone(w) == wpc[w] = "grace" /\ Exit(w)

(* ... or as soon as the flag is seen to be set.                            *)
WEscalate(w) == wpc[w] = "grace" /\ hard /\ Exit(w)

WorkerStep(w) ==
  \/ WLock(w) \/ WPull(w) \/ WPullNone(w)
  \/ WSend(w) \/ WSendFails(w)
  \/ WRecv(w) \/ WRecvEof(w) \/ WRecvCancelled(w)
  \/ WWrite(w) \/ WWriteFails(w)
  \/ WHardKill(w) \/ WShutdown(w) \/ WShutdownDone(w) \/ WEscalate(w)

-----------------------------------------------------------------------------
(* The handler process of worker w.                                         *)

HandlerFrame == <<workerVars, logVars, jobQ, dropped, delivered, WorkerFrame>>

(* It reads an envelope and writes `lines` to its stdout.                   *)
Answers(w, lines) ==
  /\ hstate[w] = "up" /\ hin[w] # <<>>
  /\ hin' = [hin EXCEPT ![w] = Tail(@)]
  /\ hout' = [hout EXCEPT ![w] = @ \o lines]
  /\ UNCHANGED hstate
  /\ UNCHANGED HandlerFrame

Reply(rows, ok) == [rows |-> rows, ok |-> ok]

HAnswer(w) == Answers(w, <<Reply(Head(hin[w]), TRUE)>>)

(* A wrong envelope, or a batch_result of the wrong length.                 *)
HMisanswer(w) == "protocol" \in Faults /\ Answers(w, <<Reply(Head(hin[w]), FALSE)>>)

HEcho(w) ==
  /\ "echo" \in Faults
  /\ Answers(w, <<Reply(Head(hin[w]), TRUE), Reply(Head(hin[w]), TRUE)>>)

(* It dies: what it had not read is lost, what it had written can be read.  *)
HCrash(w) ==
  /\ "crash" \in Faults
  /\ hstate[w] = "up"
  /\ hstate' = [hstate EXCEPT ![w] = "dead"]
  /\ hin' = [hin EXCEPT ![w] = <<>>]
  /\ UNCHANGED hout
  /\ UNCHANGED HandlerFrame

HandlerStep(w) == HAnswer(w) \/ HMisanswer(w) \/ HEcho(w) \/ HCrash(w)
=============================================================================
