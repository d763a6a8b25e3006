----------------------------- MODULE Accumulator ----------------------------
(***************************************************************************)
(* accumulator_task (accumulator.rs): group rows into batches under a      *)
(* count cap and two byte caps, write oversized rows straight to the log,  *)
(* and hand batches to the job channel with a cancel-aware flush.          *)
(***************************************************************************)
EXTENDS Pipeline

AccFrame == <<poolVars, tokenVars, readerVars, workerVars, handlerVars,
              monitorVars, delivered>>

(* Cancelled while it waits for a row: what is pending is dropped.          *)
AccCancelled ==
  /\ apc = "recv"
  /\ cancel
  /\ apc' = "done"
  /\ pending' = {} /\ pendBytes' = 0
  /\ dropped' = dropped \cup pending
  /\ UNCHANGED <<taken, held, accErr, rowQ, jobQ, logVars>> /\ UNCHANGED AccFrame

(* Mutant of AccEof: the last, incomplete batch is never flushed.           *)
AccEofForgets ==
  /\ apc = "recv" /\ ~cancel
  /\ rowQ = <<>> /\ rpc = "done"
  /\ apc' = "done"
  /\ UNCHANGED <<pending, pendBytes, taken, held, accErr, rowQ, jobQ, dropped, logVars>>
  /\ UNCHANGED AccFrame

(* The row channel is closed and empty: the remainder is flushed.           *)
AccEof ==
  /\ apc = "recv"
  /\ ~cancel
  /\ rowQ = <<>> /\ rpc = "done"
  /\ apc' = IF pending = {} THEN "done" ELSE "flush_eof"
  /\ taken' = pending /\ pending' = {} /\ pendBytes' = 0
  /\ UNCHANGED <<held, accErr, rowQ, jobQ, dropped, logVars>> /\ UNCHANGED AccFrame

Receives(s) ==
  /\ apc = "recv"
  /\ ~cancel
  /\ rowQ # <<>> /\ s = Head(rowQ)
  /\ rowQ' = Tail(rowQ)

(* (1) A row over the hard cap goes to the log and to no worker. The append *)
(* has no cancel arm.                                                       *)
AccTooLarge(s) ==
  /\ Receives(s)
  /\ Oversize(s)
  /\ AppendLine({s}, [NoOutcome EXCEPT ![s] = "too_large"])
  /\ UNCHANGED <<accVars, jobQ, dropped>> /\ UNCHANGED AccFrame

(* ... and an append that fails ends the task, with whatever it held.       *)
AccAppendFails(s) ==
  /\ "io" \in Faults
  /\ Receives(s)
  /\ Oversize(s)
  /\ apc' = "done" /\ accErr' = "io"
  /\ pending' = {} /\ pendBytes' = 0
  /\ dropped' = dropped \cup pending \cup {s}
  /\ UNCHANGED <<taken, held, jobQ, logVars>> /\ UNCHANGED AccFrame

(* Mutant of OverByteCap: the soft target is not looked at.                 *)
OverHardCap(s) == pending # {} /\ pendBytes + Size[s] > BytesMax

(* (2), (3) The row would take the batch over a byte cap.                   *)
OverByteCap(s) ==
  /\ pending # {}
  /\ \/ pendBytes + Size[s] > BytesMax
     \/ pendBytes + Size[s] > BytesTarget

AccByteFlush(s) ==
  /\ Receives(s)
  /\ ~Oversize(s) /\ OverByteCap(s)
  /\ taken' = pending /\ held' = {s}
  /\ pending' = {} /\ pendBytes' = 0
  /\ apc' = "flush"
  /\ UNCHANGED <<accErr, jobQ, dropped, logVars>> /\ UNCHANGED AccFrame

(* Mutant of AccPush: a row over the hard cap is not turned away.           *)
AccPushAny(s) ==
  LET full == Cardinality(pending \cup {s}) >= MaxCount IN
  /\ Receives(s)
  /\ ~OverByteCap(s)
  /\ pending'   = IF full THEN {} ELSE pending \cup {s}
  /\ pendBytes' = IF full THEN 0 ELSE pendBytes + Size[s]
  /\ taken'     = IF full THEN pending \cup {s} ELSE {}
  /\ apc'       = IF full THEN "flush" ELSE "recv"
  /\ UNCHANGED <<held, accErr, jobQ, dropped, logVars>> /\ UNCHANGED AccFrame

(* The row joins the batch; (4) a full batch is flushed at once.            *)
AccPush(s) ==
  LET full == Cardinality(pending \cup {s}) >= MaxCount IN
  /\ Receives(s)
  /\ ~Oversize(s) /\ ~OverByteCap(s)
  /\ pending'   = IF full THEN {} ELSE pending \cup {s}
  /\ pendBytes' = IF full THEN 0 ELSE pendBytes + Size[s]
  /\ taken'     = IF full THEN pending \cup {s} ELSE {}
  /\ apc'       = IF full THEN "flush" ELSE "recv"
  /\ UNCHANGED <<held, accErr, jobQ, dropped, logVars>> /\ UNCHANGED AccFrame

(* Mutant of AccSend: the buffer is sent without being emptied.             *)
AccSendKeeps ==
  /\ apc \in {"flush", "flush_eof"}
  /\ ~cancel
  /\ Len(jobQ) < JobCap
  /\ jobQ' = Append(jobQ, taken)
  /\ taken' = {} /\ held' = {}
  /\ pending' = held \cup taken
  /\ pendBytes' = 0
  /\ apc' = IF apc = "flush" THEN "recv" ELSE "done"
  /\ UNCHANGED <<accErr, rowQ, dropped, logVars>> /\ UNCHANGED AccFrame

(* flush: the send. After a byte-cap flush the row that caused it is        *)
(* pushed; the batch it starts cannot be full, since pending was not empty  *)
(* before, so that MaxCount > 1.                                            *)
AccSend ==
  /\ apc \in {"flush", "flush_eof"}
  /\ ~cancel
  /\ Len(jobQ) < JobCap
  /\ jobQ' = Append(jobQ, taken)
  /\ taken' = {} /\ held' = {}
  /\ pending' = held
  /\ pendBytes' = IF held = {} THEN 0 ELSE Size[CHOOSE s \in held : TRUE]
  /\ apc' = IF apc = "flush" THEN "recv" ELSE "done"
  /\ UNCHANGED <<accErr, rowQ, dropped, logVars>> /\ UNCHANGED AccFrame

(* Mutant of AccFlushCancelled: the row that waits for the flush is lost.   *)
AccFlushLosesRow ==
  /\ apc \in {"flush", "flush_eof"}
  /\ cancel
  /\ apc' = "done" /\ accErr' = "flush_cancelled"
  /\ taken' = {} /\ held' = {}
  /\ dropped' = dropped \cup taken
  /\ UNCHANGED <<pending, pendBytes, rowQ, jobQ, logVars>> /\ UNCHANGED AccFrame

(* flush: the cancel arm, which wins over room in the channel.              *)
AccFlushCancelled ==
  /\ apc \in {"flush", "flush_eof"}
  /\ cancel
  /\ apc' = "done" /\ accErr' = "flush_cancelled"
  /\ taken' = {} /\ held' = {}
  /\ dropped' = dropped \cup taken \cup held
  /\ UNCHANGED <<pending, pendBytes, rowQ, jobQ, logVars>> /\ UNCHANGED AccFrame

AccStep ==
  \/ AccCancelled \/ AccEof \/ AccSend \/ AccFlushCancelled
  \/ \E s \in Seqs : \/ AccTooLarge(s) \/ AccAppendFails(s)
                     \/ AccByteFlush(s) \/ AccPush(s)
=============================================================================
