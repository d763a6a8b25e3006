-------------------------------- MODULE Pool --------------------------------
(***************************************************************************)
(* run_pool_streaming (pool_streaming.rs): spawn the workers one after the *)
(* other, start the other tasks, wait for them, tell the stall monitor to  *)
(* stop, and classify how the attempt ended.                               *)
(***************************************************************************)
EXTENDS Reader, Accumulator, WorkerLoop, StallMonitor, FiniteSetsExt

PoolFrame == <<readerVars, accVars, handlerVars, monitorVars, logVars, rowQ,
               jobQ, dropped, delivered, wbatch, wout, werr>>

Init ==
  /\ ppc = "spawn" /\ spawned = 0 /\ report = "none"
  /\ cancel = FALSE /\ hard = FALSE /\ opCancel = FALSE
  /\ rpc = "idle" /\ nextSeq = 0 /\ emitted = 0 /\ rowQ = <<>>
  /\ apc = "idle" /\ pending = {} /\ pendBytes = 0 /\ taken = {} /\ held = {}
  /\ accErr = "none" /\ jobQ = <<>>
  /\ wpc = [w \in Workers |-> "unspawned"]
  /\ wbatch = [w \in Workers |-> {}]
  /\ wout = [w \in Workers |-> NoOutcome]
  /\ werr = [w \in Workers |-> FALSE]
  /\ hstate = [w \in Workers |-> "none"]
  /\ hin = [w \in Workers |-> <<>>]
  /\ hout = [w \in Workers |-> <<>>]
  /\ mpc = "idle" /\ timer = FALSE /\ grown = FALSE
  /\ written = [s \in Seqs |-> <<>>]
  /\ dropped = {} /\ delivered = {}

(* A handler answered `ready`: its worker loop starts at once, before the   *)
(* next worker is spawned.                                                  *)
SpawnWorker ==
  /\ ppc = "spawn" /\ spawned \in Workers
  /\ wpc' = [wpc EXCEPT ![spawned] = "idle"]
  /\ hstate' = [hstate EXCEPT ![spawned] = "up"]
  /\ spawned' = spawned + 1
  /\ UNCHANGED <<ppc, report, tokenVars, readerVars, accVars, wbatch, wout, werr,
                 hin, hout, monitorVars, logVars, rowQ, jobQ, dropped, delivered>>

(* The first that does not ends the attempt: fire the token, drop job_tx.   *)
(* Either its process never was or has ended, or Worker::spawn gave it up   *)
(* alive (no first message in time, or not `ready`) and dropped it without  *)
(* a kill: "unready". When that one ends is its own affair.                 *)
SpawnFails ==
  /\ "spawn" \in Faults
  /\ ppc = "spawn" /\ spawned \in Workers
  /\ ppc' = "startup_failed"
  /\ cancel' = TRUE
  /\ hstate' \in {hstate, [hstate EXCEPT ![spawned] = "unready"]}
  /\ UNCHANGED <<spawned, report, hard, opCancel, readerVars, accVars, workerVars,
                 hin, hout, monitorVars, logVars, rowQ, jobQ, dropped, delivered>>

(* Worker tasks that have returned; one never spawned has no task.          *)
WorkersJoined == \A w \in Workers : wpc[w] \in {"unspawned", "exited"}

(* Mutant of StartupReport: the started workers are not waited for.         *)
StartupReportEarly ==
  /\ ppc = "startup_failed"
  /\ ppc' = "done" /\ report' = "startup_failed"
  /\ UNCHANGED <<spawned, tokenVars, wpc>> /\ UNCHANGED PoolFrame

StartupReport ==
  /\ ppc = "startup_failed" /\ WorkersJoined
  /\ ppc' = "done" /\ report' = "startup_failed"
  /\ UNCHANGED <<spawned, tokenVars, wpc>> /\ UNCHANGED PoolFrame

StartTasks ==
  /\ ppc = "spawn" /\ spawned = EffectiveWorkers
  /\ ppc' = "await"
  /\ rpc' = "next" /\ apc' = "recv" /\ mpc' = "poll"
  /\ UNCHANGED <<spawned, report, tokenVars, nextSeq, emitted, pending, pendBytes,
                 taken, held, accErr, workerVars, handlerVars, timer, logVars,
                 rowQ, jobQ, dropped, delivered>>

(* Mutant of NotifyMonitor: the workers are not waited for.                 *)
NotifyMonitorEarly ==
  /\ ppc = "await"
  /\ rpc = "done" /\ apc = "done"
  /\ ppc' = "notified"
  /\ cancel' = TRUE
  /\ UNCHANGED <<spawned, report, hard, opCancel, wpc>> /\ UNCHANGED PoolFrame

(* Reader, accumulator and all workers have been awaited: the pool fires    *)
(* the token itself, to wake the monitor.                                   *)
NotifyMonitor ==
  /\ ppc = "await"
  /\ rpc = "done" /\ apc = "done" /\ WorkersJoined
  /\ ppc' = "notified"
  /\ cancel' = TRUE
  /\ UNCHANGED <<spawned, report, hard, opCancel, wpc>> /\ UNCHANGED PoolFrame

(* Mutant of Classify: the token, set by whomever, is read as the operator. *)
ClassifyByToken ==
  IF mpc = "stalled" THEN "stalled"
  ELSE IF hard THEN "hard_cancel"
  ELSE IF cancel THEN "operator_cancel" ELSE "completed"

(* The report, in the order the results are looked at. The token is set by  *)
(* now in every run, so that the two checks on it look at the flag and at   *)
(* the accumulator's result only.                                           *)
Classify ==
  CASE mpc = "stalled"                       -> "stalled"
    [] mpc # "stalled" /\ \E w \in Workers : werr[w] -> "worker_error"
    [] mpc # "stalled" /\ (\A w \in Workers : ~werr[w]) /\ accErr = "io"
                                             -> "accumulator_error"
    [] OTHER -> IF hard THEN "hard_cancel"
                ELSE IF accErr = "flush_cancelled" THEN "operator_cancel"
                ELSE "completed"

FinalReport ==
  /\ ppc = "notified" /\ mpc \in {"ok", "stalled"}
  /\ ppc' = "done" /\ report' = Classify
  /\ UNCHANGED <<spawned, tokenVars, wpc>> /\ UNCHANGED PoolFrame

PoolStep ==
  SpawnWorker \/ SpawnFails \/ StartupReport \/ StartTasks \/ NotifyMonitor
  \/ FinalReport

-----------------------------------------------------------------------------
(* The operator, from outside. A hard cancel sets the flag before it fires  *)
(* the token; a soft one may be escalated later.                            *)

OperatorCancel ==
  /\ "soft" \in Faults
  /\ ppc \in {"spawn", "await"} /\ ~opCancel
  /\ cancel' = TRUE /\ opCancel' = TRUE
  /\ UNCHANGED <<poolVars, hard, wpc>> /\ UNCHANGED PoolFrame

OperatorHard ==
  /\ "hard" \in Faults
  /\ ppc # "done" /\ ~hard
  /\ hard' = TRUE
  /\ UNCHANGED <<poolVars, cancel, opCancel, wpc>> /\ UNCHANGED PoolFrame

(* The pool has returned.                                                   *)
Finished == ppc = "done" /\ UNCHANGED vars

Next ==
  \/ PoolStep \/ ReaderStep \/ AccStep \/ MonStep
  \/ \E w \in Workers : WorkerStep(w) \/ HandlerStep(w)
  \/ OperatorCancel \/ OperatorHard
  \/ Finished

Spec == Init /\ [][Next]_vars

(* Every task is driven by the async runtime, so that each makes progress   *)
(* while it can. Nothing is assumed of the handlers or of the operator: a   *)
(* write that needs a reading handler is not fair.                          *)
Fairness ==
  /\ WF_vars(PoolStep)
  /\ WF_vars(ReaderStep)
  /\ WF_vars(AccStep)
  /\ WF_vars(MonStep)
  /\ \A w \in Workers :
       WF_vars(WorkerStep(w) /\ (wpc[w] = "send" /\ hstate[w] = "up" => FitsPipe(w)))

FairSpec == Spec /\ Fairness

-----------------------------------------------------------------------------
(* Invariants.                                                              *)

PoolPcs == {"spawn", "startup_failed", "await", "notified", "done"}
Reports == {"none", "startup_failed", "stalled", "worker_error",
            "accumulator_error", "hard_cancel", "operator_cancel", "completed"}
WorkerPcs == {"unspawned", "idle", "pull", "send", "wait", "write", "write_exit",
              "teardown", "grace", "exited"}
Replies == [rows : SUBSET Seqs, ok : BOOLEAN]

TypePool ==
  /\ ppc \in PoolPcs /\ spawned \in 0 .. EffectiveWorkers /\ report \in Reports
  /\ cancel \in BOOLEAN /\ hard \in BOOLEAN /\ opCancel \in BOOLEAN
  /\ mpc \in {"idle", "poll", "fire", "ok", "stalled"} /\ timer \in BOOLEAN

TypeReader ==
  /\ rpc \in {"idle", "next", "send", "done"}
  /\ nextSeq \in 0 .. NumRows /\ emitted \in 0 .. nextSeq
  /\ rpc = "send" => nextSeq < NumRows

TypeQueues ==
  /\ rowQ \in Seq(Seqs) /\ Len(rowQ) <= RowCap
  /\ jobQ \in Seq(SUBSET Seqs) /\ Len(jobQ) <= JobCap

TypeAcc ==
  /\ apc \in {"idle", "recv", "flush", "flush_eof", "done"}
  /\ pending \in SUBSET Seqs /\ pendBytes \in Nat
  /\ taken \in SUBSET Seqs /\ held \in SUBSET Seqs
  /\ accErr \in {"none", "flush_cancelled", "io"}

TypeWorkers ==
  /\ wpc \in [Workers -> WorkerPcs]
  /\ wbatch \in [Workers -> SUBSET Seqs]
  /\ wout \in [Workers -> [Seqs -> Kinds \cup {"none"}]]
  /\ werr \in [Workers -> BOOLEAN]

TypeHandlers ==
  /\ hstate \in [Workers -> {"none", "unready", "up", "dead", "gone"}]
  /\ hin \in [Workers -> Seq(SUBSET Seqs)]
  /\ hout \in [Workers -> Seq(Replies)]

TypeLog ==
  /\ grown \in BOOLEAN
  /\ written \in [Seqs -> Seq(Kinds \cup {"none"})]
  /\ dropped \in SUBSET Seqs /\ delivered \in SUBSET Seqs

(* The type of every variable; both channels keep to their capacity and the *)
(* reader counts no more rows than it has read.                             *)
TypeOK ==
  /\ TypePool /\ TypeReader /\ TypeQueues /\ TypeAcc /\ TypeWorkers
  /\ TypeHandlers /\ TypeLog

(* The six places a row can be in, once the reader has sent it.             *)
InJobQ   == UNION Elems(jobQ)
InWorker == UNION {wbatch[w] : w \in Workers}
Places(s) ==
  << s \in Elems(rowQ),
     s \in pending \cup taken \cup held,
     s \in InJobQ,
     s \in InWorker,
     written[s] # <<>>,
     s \in dropped >>

(* Every row the reader has let through is in exactly one place: nothing    *)
(* is lost between two tasks and nothing is handed on twice, whatever is    *)
(* cancelled, crashes or fails to be written (the queues, the accumulator's *)
(* drop paths, the workers' in-flight batches and the log together).        *)
RowsConserved ==
  \A s \in Seqs :
    Cardinality({p \in 1 .. 6 : Places(s)[p]}) =
      IF s < nextSeq /\ s \in {r \in Seqs : Selected(r)} THEN 1 ELSE 0

(* No row has two outcomes in one attempt, the batches of two workers never *)
(* share a row, and a row being worked on has none yet (SharedJsonlWriter   *)
(* with several workers, crash synthesis and the accumulator writing to it).*)
AtMostOnce ==
  /\ \A s \in Seqs : Len(written[s]) <= 1
  /\ \A v, w \in Workers : v # w => wbatch[v] \cap wbatch[w] = {}
  /\ \A w \in Workers : \A s \in wbatch[w] : written[s] = <<>>

(* An oversized row is recorded by the accumulator as ROW_TOO_LARGE and     *)
(* never reaches a handler; no other row is recorded so.                    *)
TooLargeNeverDelivered ==
  \A s \in Seqs :
    /\ Oversize(s) => s \notin delivered \cup InJobQ \cup InWorker
    /\ \A i \in DOMAIN written[s] : (written[s][i] = "too_large") = Oversize(s)

Bytes(batch) == MapThenSumSet(LAMBDA s : Size[s], batch)

(* Every batch on its way to a handler respects the three limits: the row   *)
(* count, and the soft and the hard byte cap unless it is a single row.     *)
BatchWithinCaps ==
  /\ pendBytes = Bytes(pending)
  /\ \A b \in Elems(jobQ) \cup {taken} \cup {wbatch[w] : w \in Workers} :
       /\ Cardinality(b) <= MaxCount
       /\ Cardinality(b) > 1 => Bytes(b) <= BytesTarget /\ Bytes(b) <= BytesMax

(* A success or an error in the log is what the handler answered for that   *)
(* very row, for handlers that answer each envelope once: no cancellation,  *)
(* crash or late reply shifts an answer to another row.                     *)
AnswersMatchRows ==
  \A s \in Seqs : \A i \in DOMAIN written[s] :
    written[s][i] \in {"success", "error"} =>
      s \in delivered /\ written[s][i] = Verdict[s]

(* The rows the reader must send: selected, and within the row limit.       *)
Due == {s \in Seqs :
          /\ Selected(s)
          /\ \A n \in RowLimit :
               Cardinality({t \in Seqs : t < s /\ Selected(t)}) < n}

(* A completed attempt nobody cancelled has an outcome for every row that   *)
(* was due as soon as one handler lived to the end: batches of crashed      *)
(* workers are recorded, and what is queued is picked up by the survivor.   *)
OneSurvivorSuffices ==
  (report = "completed" /\ ~opCancel /\ \E w \in Workers : hstate[w] = "gone")
    => \A s \in Due : Len(written[s]) = 1

(* Rows outside the filter or beyond the row limit are never sent.          *)
OnlyDueRowsTouched ==
  \A s \in Seqs \ Due : \A p \in 1 .. 6 : ~Places(s)[p]

(* "cancelled by operator" is reported only if the operator did cancel,     *)
(* although pool, monitor and operator fire the same token (section 9).     *)
OperatorCancelIsReal == report = "operator_cancel" => opCancel

(* When the pool has returned, a handler process is left running in two     *)
(* cases only: behind a worker task that failed, which drops its handler    *)
(* without a kill, and the one process that was not ready in time and ended *)
(* the attempt. Every other handler has been joined, killed or seen dead,   *)
(* those of a startup failure that had begun to work included.              *)
OnlyFailuresLeaveHandlers ==
  report # "none" =>
    \A w \in Workers :
      /\ hstate[w] = "up" => werr[w]
      /\ hstate[w] = "unready" => report = "startup_failed" /\ w = spawned

(* Once the report is returned the log is final: the caller tallies it      *)
(* (compute_run_stats) right after.                                         *)
LogFinalAtReport == [][report # "none" => UNCHANGED written]_vars

(* With one worker, rows reach the handler in input order, across batches.  *)
StatefulInOrder ==
  [][Stateful => \A s \in delivered' \ delivered : \A t \in delivered : t < s]_vars

(* C6: the pool returns, cancelled or not, as long as every batch fits the  *)
(* stdin pipe: handlers that hang or die, or workers that are all gone, end *)
(* in a stall at the latest.                                                *)
Terminates == <>(ppc = "done")

(* While nobody cancels, no handler dies and the stall monitor stays quiet, *)
(* nothing blocks for ever on a full channel and every due row is recorded. *)
Undisturbed ==
  /\ ~opCancel /\ mpc \notin {"fire", "stalled"}
  /\ \A w \in Workers : hstate[w] # "dead" /\ ~werr[w]
EveryDueRowRecorded ==
  []Undisturbed => <>(\A s \in Due : Len(written[s]) = 1)

-----------------------------------------------------------------------------

(* I6: "In every Attempt, each input row falls in exactly one bucket"; so,  *)
(* without a cancellation, one that was due has an outcome. The code does   *)
(* not keep to it: this is the property of a run that ends in a             *)
(* counterexample.                                                          *)
EveryRowInABucket ==
  report = "completed" /\ ~opCancel => \A s \in Due : Len(written[s]) = 1
=============================================================================
