------------------------------ MODULE Pipeline ------------------------------
(***************************************************************************)
(* The state shared by the tasks of the streaming dispatch pipeline of     *)
(* rowforge-core:                                                          *)
(*                                                                         *)
(*   Reader --rowQ--> Accumulator --jobQ--> Worker(s) --> outcomes.jsonl   *)
(*                                               ^                         *)
(*                               Stall monitor --+ (cancel on no growth)   *)
(*                                                                         *)
(* Reader, Accumulator, WorkerLoop and StallMonitor each add the steps of  *)
(* one task; Pool composes them with run_pool_streaming itself.            *)
(***************************************************************************)
EXTENDS Integers, Sequences, FiniteSets

CONSTANTS
  NumRows,      (* rows of the input; a row is its seq, 0 .. NumRows - 1     *)
  ParseErrors,  (* rows the input stream yields as an error                  *)
  SkipSeqs,     (* ReaderConfig.skip_seqs                                    *)
  OnlyRowIds,   (* ReaderConfig.only_row_ids: {} for None, {S} for Some(S)   *)
  RowLimit,     (* ReaderConfig.row_limit:    {} for None, {n} for Some(n)   *)
  Size,         (* Size[s]: serialized bytes of row s (estimate_size)        *)
  RowHardCap,   (* ROW_HARD_CAP_BYTES                                        *)
  BytesTarget,  (* runtime.batch_bytes_target                                *)
  BytesMax,     (* runtime.max_batch_bytes                                   *)
  Mode,         (* runtime.mode                                              *)
  BatchSize,    (* runtime.batch_size                                        *)
  NumWorkers,   (* StreamingPoolConfig.workers                               *)
  Stateful,     (* runtime.stateful                                          *)
  RowCap,       (* ROW_CHANNEL_CAP                                           *)
  JobCap,       (* JOB_CHANNEL_CAP                                           *)
  Clogging,     (* rows that do not fit the stdin pipe of a handler that is
                   not reading                                               *)
  Verdict,      (* Verdict[s]: what a handler answers for row s              *)
  Faults        (* what the environment may do: see FaultKinds               *)

Seqs == 0 .. NumRows - 1

(* The environment's choices, each switched on by its name in Faults.       *)
FaultKinds ==
  { "spawn",    \* a handler does not answer `ready`
    "crash",    \* a handler process dies
    "protocol", \* a handler answers with the wrong envelope or length
    "echo",     \* a handler answers one row twice
    "io",       \* an append to outcomes.jsonl fails
    "stall",    \* no growth of outcomes.jsonl for the stall timeout
    "soft",     \* the operator fires the cancellation token
    "hard" }    \* the operator sets the hard_cancel flag

ASSUME PipelineAssumption ==
  /\ NumRows \in Nat
  /\ ParseErrors \subseteq Seqs
  /\ SkipSeqs \subseteq Nat
  /\ OnlyRowIds \subseteq SUBSET Nat
  /\ RowLimit \subseteq Nat
  /\ Size \in [Seqs -> Nat]
  /\ RowHardCap \in Nat
  /\ BytesTarget \in Nat
  /\ BytesMax \in Nat
  /\ Mode \in {"row", "batch"}
  /\ BatchSize \in Nat \ {0}
  /\ NumWorkers \in Nat
  /\ Stateful \in BOOLEAN
  /\ RowCap \in Nat \ {0}
  /\ JobCap \in Nat \ {0}
  /\ Clogging \subseteq Seqs
  /\ Verdict \in [Seqs -> {"success", "error"}]
  /\ Faults \subseteq FaultKinds

(* Mutant of EffectiveWorkers: a stateful handler gets several workers.     *)
RequestedWorkers == NumWorkers

(* Workers spawned by the pool: a stateful handler forces one.              *)
EffectiveWorkers == IF Stateful THEN 1 ELSE NumWorkers
Workers == 0 .. EffectiveWorkers - 1

(* Rows per batch: one in row mode.                                         *)
MaxCount == IF Mode = "row" THEN 1 ELSE BatchSize

(* Kinds of outcome records: the handler's own answers and the synthesized  *)
(* WORKER_CRASH, *_PROTOCOL_ERROR and ROW_TOO_LARGE.                        *)
Kinds == {"success", "error", "crash", "protocol_error", "too_large"}

VARIABLES
  ppc,        (* run_pool_streaming: "spawn", "startup_failed", "await",
                 "notified", "done"                                          *)
  spawned,    (* workers spawned so far                                      *)
  report,     (* the StreamingPoolReport, "none" until it is returned        *)
  cancel,     (* the CancellationToken shared by every task                  *)
  hard,       (* the hard_cancel flag                                        *)
  opCancel,   (* history: the operator fired the token before the pool was
                 finished with the rows                                      *)
  rpc,        (* Reader: "idle", "next", "send", "done"                      *)
  nextSeq,    (* Reader: the row the input stream yields next                *)
  emitted,    (* Reader: rows sent so far                                    *)
  rowQ,       (* row channel: sequence of seqs                               *)
  apc,        (* Accumulator: "idle", "recv", "flush", "flush_eof", "done"   *)
  pending,    (* Accumulator: rows of the batch being built                  *)
  pendBytes,  (* Accumulator: their bytes                                    *)
  taken,      (* Accumulator: the batch a flush has taken out of pending     *)
  held,       (* Accumulator: the row that waits for a byte-cap flush        *)
  accErr,     (* Accumulator: "none", "flush_cancelled", "io"                *)
  jobQ,       (* job channel: sequence of batches                            *)
  wpc,        (* Worker: "unspawned", "idle", "pull", "send", "wait",
                 "write", "write_exit", "teardown", "grace", "exited"        *)
  wbatch,     (* Worker: its in-flight batch                                 *)
  wout,       (* Worker: the outcomes about to be written                    *)
  werr,       (* Worker: its task returned Err                               *)
  hstate,     (* handler process: "none", "unready" (alive, but given up
                 before it was ready), "up", "dead" (by itself), "gone"
                 (ended by the worker's teardown)                            *)
  hin,        (* its stdin: the batches sent and not yet read                *)
  hout,       (* its stdout: the replies not yet read by the worker          *)
  mpc,        (* Stall monitor: "idle", "poll", "fire", "ok", "stalled"      *)
  timer,      (* Stall monitor: stall_since is Some                          *)
  grown,      (* bytes_written has grown since the monitor's last_bytes      *)
  written,    (* outcomes.jsonl: the outcomes recorded for each row          *)
  dropped,    (* history: rows a task discarded                              *)
  delivered   (* history: rows written to the stdin of a handler             *)

poolVars    == <<ppc, spawned, report>>
tokenVars   == <<cancel, hard, opCancel>>
readerVars  == <<rpc, nextSeq, emitted>>
accVars     == <<apc, pending, pendBytes, taken, held, accErr>>
workerVars  == <<wpc, wbatch, wout, werr>>
handlerVars == <<hstate, hin, hout>>
monitorVars == <<mpc, timer>>
logVars     == <<grown, written>>
vars == <<poolVars, tokenVars, readerVars, accVars, workerVars, handlerVars,
          monitorVars, logVars, rowQ, jobQ, dropped, delivered>>

(* The elements of a sequence.                                              *)
Elems(q) == {q[i] : i \in DOMAIN q}

(* A row that estimate_size puts over the per-row cap.                      *)
Oversize(s) == Size[s] > RowHardCap

(* The reader's filter: only_row_ids, when given, overrides skip_seqs.      *)
Selected(s) ==
  /\ s \notin ParseErrors
  /\ IF OnlyRowIds # {} THEN s \in UNION OnlyRowIds ELSE s \notin SkipSeqs

NoOutcome == [s \in Seqs |-> "none"]

(* SharedJsonlWriter::append_line: one line with the outcomes of a batch.   *)
(* The byte counter grows with it, which is all the monitor looks at.       *)
AppendLine(batch, out) ==
  /\ written' = [s \in Seqs |-> IF s \in batch THEN Append(written[s], out[s])
                                               ELSE written[s]]
  /\ grown' = TRUE

(* The job channel is closed once its only sender is dropped: with the      *)
(* accumulator, or by the pool itself when a worker fails to start.         *)
JobTxDropped == apc = "done" \/ ppc = "startup_failed"
=============================================================================
