------------------------------- MODULE Reader -------------------------------
(***************************************************************************)
(* reader_task (reader.rs): iterate over the input, filter, and send every *)
(* selected row to the row channel with a cancel-aware send.               *)
(***************************************************************************)
EXTENDS Pipeline

ReaderFrame == <<poolVars, tokenVars, accVars, workerVars, handlerVars,
                 monitorVars, logVars, jobQ, dropped, delivered>>

(* Mutant of LimitReached: the row that meets the limit is still sent.      *)
LimitPassed == \E n \in RowLimit : emitted > n

(* The row limit counts the rows sent.                                      *)
LimitReached == \E n \in RowLimit : emitted >= n

(* The iterator is exhausted.                                               *)
ReaderEof ==
  /\ rpc = "next" /\ nextSeq = NumRows
  /\ rpc' = "done"
  /\ UNCHANGED <<nextSeq, emitted, rowQ>> /\ UNCHANGED ReaderFrame

(* The token is looked at before any work on a row.                         *)
ReaderCancelled ==
  /\ rpc = "next" /\ nextSeq < NumRows
  /\ cancel
  /\ rpc' = "done"
  /\ UNCHANGED <<nextSeq, emitted, rowQ>> /\ UNCHANGED ReaderFrame

(* A row that does not parse or that the filter rejects is passed over.     *)
ReaderSkip ==
  /\ rpc = "next" /\ nextSeq < NumRows
  /\ ~cancel
  /\ ~Selected(nextSeq)
  /\ nextSeq' = nextSeq + 1
  /\ UNCHANGED <<rpc, emitted, rowQ>> /\ UNCHANGED ReaderFrame

ReaderLimit ==
  /\ rpc = "next" /\ nextSeq < NumRows
  /\ ~cancel
  /\ Selected(nextSeq) /\ LimitReached
  /\ rpc' = "done"
  /\ UNCHANGED <<nextSeq, emitted, rowQ>> /\ UNCHANGED ReaderFrame

ReaderPick ==
  /\ rpc = "next" /\ nextSeq < NumRows
  /\ ~cancel
  /\ Selected(nextSeq) /\ ~LimitReached
  /\ rpc' = "send"
  /\ UNCHANGED <<nextSeq, emitted, rowQ>> /\ UNCHANGED ReaderFrame

(* The biased select!: the token wins over room in the channel.             *)
ReaderSend ==
  /\ rpc = "send"
  /\ ~cancel /\ apc # "done"
  /\ Len(rowQ) < RowCap
  /\ rowQ' = Append(rowQ, nextSeq)
  /\ nextSeq' = nextSeq + 1
  /\ emitted' = emitted + 1
  /\ rpc' = "next"
  /\ UNCHANGED ReaderFrame

(* SendStop: cancelled, or the accumulator has dropped the receiver.        *)
ReaderSendStop ==
  /\ rpc = "send"
  /\ cancel \/ apc = "done"
  /\ rpc' = "done"
  /\ UNCHANGED <<nextSeq, emitted, rowQ>> /\ UNCHANGED ReaderFrame

ReaderStep ==
  \/ ReaderEof \/ ReaderCancelled \/ ReaderSkip \/ ReaderLimit
  \/ ReaderPick \/ ReaderSend \/ ReaderSendStop
=============================================================================
