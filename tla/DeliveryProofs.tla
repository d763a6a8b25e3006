--------------------------- MODULE DeliveryProofs ---------------------------
(***************************************************************************)
(* What becomes of the rows of an attempt. First what it owes its caller:  *)
(* it touches the rows that are due, all of them when it completes with a  *)
(* handler that lived to the end, and it implements Attempt: every step of *)
(* Pool is a step of one attempt, as PoolRefinement reads it, or changes   *)
(* nothing in it. Then what reaches a handler, in which order and in       *)
(* batches of which size, and which answers reach which rows: SizeInv,     *)
(* AnswerInv, OrderInv and CapsInv are each inductive together with RowInv. *)
(***************************************************************************)
EXTENDS PoolRefinement, PoolProofs, FoldLemmas

(* Sent is finite and made of rows; the rows sent are the selected ones     *)
(* before nextSeq.                                                          *)
LEMMA SentFinite ==
  ASSUME RowInv
  PROVE  /\ Sent \in SUBSET Seqs /\ IsFiniteSet(Sent) /\ Cardinality(Sent) \in Nat
         /\ Seqs \subseteq Nat /\ nextSeq \in Nat /\ nextSeq \notin Sent
<1>1. Sent \in SUBSET Seqs /\ nextSeq \in Nat /\ nextSeq \notin Sent
  BY PipelineAssumption DEF Sent, RowInv, TypeOK, TypeReader
<1>2. Seqs \subseteq Nat
  BY PipelineAssumption DEF Seqs
<1> QED BY <1>1, <1>2, BatchesFinite

LEMMA SentUnmoved == UNCHANGED nextSeq => Sent' = Sent
BY DEF Sent, Selected

LEMMA SentGrows ==
  ASSUME RowInv, nextSeq \in Seqs, Selected(nextSeq), nextSeq' = nextSeq + 1
  PROVE  Sent' = Sent \cup {nextSeq} /\ Cardinality(Sent') = Cardinality(Sent) + 1
<1>1. NumRows \in Nat
  BY PipelineAssumption
<1>2. \A s \in Seqs : s \in Sent' <=> s \in Sent \/ s = nextSeq
  BY <1>1 DEF Sent, Selected, Seqs
<1>3. Sent' = Sent \cup {nextSeq}
  BY <1>2 DEF Sent
<1>4. nextSeq \notin Sent /\ IsFiniteSet(Sent)
  BY SentFinite
<1> QED BY <1>3, <1>4, FS_AddElement

LEMMA InitLimit == Init => LimitInv
<1> SUFFICES ASSUME Init PROVE LimitInv
  OBVIOUS
<1>1. Sent = {}
  BY PipelineAssumption DEF Init, Sent, Seqs
<1>2. emitted = 0 /\ rpc = "idle"
  BY DEF Init
<1>3. \A n \in RowLimit : n \in Nat
  BY PipelineAssumption
<1> QED BY <1>1, <1>2, <1>3, FS_EmptySet DEF LimitInv

LEMMA LimitStep == RowInv /\ LimitInv /\ [Next]_vars => LimitInv'
<1> SUFFICES ASSUME RowInv, LimitInv, [Next]_vars PROVE LimitInv'
  OBVIOUS
<1>1. \A n \in RowLimit : n \in Nat
  BY PipelineAssumption
<1>2. emitted \in Nat
  BY SentFinite DEF RowInv, TypeOK, TypeReader
<1>3. CASE ReaderSend
  <2>1. rpc = "send" /\ nextSeq' = nextSeq + 1 /\ emitted' = emitted + 1 /\ rpc' = "next"
    BY <1>3 DEF ReaderSend
  <2>2. nextSeq \in Seqs /\ Selected(nextSeq)
    BY <2>1, PipelineAssumption DEF RowInv, TypeOK, TypeReader, Phases, Seqs
  <2>3. emitted' = Cardinality(Sent')
    BY <2>1, <2>2, SentGrows DEF LimitInv
  <2>4. \A n \in RowLimit : emitted' <= n
    BY <1>1, <1>2, <2>1 DEF LimitInv
  <2> QED BY <2>1, <2>3, <2>4 DEF LimitInv
<1>4. CASE ReaderSkip
  <2>1. UNCHANGED <<emitted, rpc>> /\ ~Selected(nextSeq) /\ nextSeq' = nextSeq + 1
    BY <1>4 DEF ReaderSkip
  <2>2. Sent' = Sent
    BY <2>1, SentFinite DEF Sent, Selected
  <2> QED BY <2>1, <2>2 DEF LimitInv
<1>5. CASE ReaderPick
  <2>1. UNCHANGED <<nextSeq, emitted>> /\ ~LimitReached
    BY <1>5 DEF ReaderPick
  <2>2. \A n \in RowLimit : emitted < n
    BY <1>1, <1>2, <2>1 DEF LimitReached
  <2> QED BY <2>1, <2>2, SentUnmoved DEF LimitInv
<1>6. ASSUME UNCHANGED <<nextSeq, emitted>>, rpc' # "send" \/ rpc' = rpc PROVE LimitInv'
  BY <1>6, SentUnmoved DEF LimitInv
<1>7. CASE ReaderEof \/ ReaderCancelled \/ ReaderLimit \/ ReaderSendStop
  BY <1>6, <1>7 DEF ReaderEof, ReaderCancelled, ReaderLimit, ReaderSendStop
<1>8. CASE AccStep
  BY <1>6, <1>8 DEF AccStep, AccCancelled, AccEof, AccSend, AccFlushCancelled, AccTooLarge,
     AccAppendFails, AccByteFlush, AccPush, AccFrame, readerVars
<1>9. ASSUME NEW w \in Workers, WorkerStep(w) \/ HandlerStep(w) PROVE LimitInv'
  <2>1. CASE WorkerStep(w)
    BY <1>6, <2>1 DEF WorkerStep, WLock, WPull, WPullNone, WSend, WSendFails, WRecv, WRecvEof,
       WRecvCancelled, WWrite, WWriteFails, WHardKill, WShutdown, WShutdownDone,
       WEscalate, Exit, WorkerFrame, readerVars
  <2>2. CASE HandlerStep(w)
    BY <1>6, <2>2 DEF HandlerStep, HAnswer, HMisanswer, HEcho, HCrash, Answers,
       HandlerFrame, WorkerFrame, readerVars
  <2> QED BY <1>9, <2>1, <2>2
<1>10. CASE MonStep
  BY <1>6, <1>10 DEF MonStep, MonCancelled, MonGrowth, MonStart, MonExpired, MonFire,
     MonFrame, readerVars
<1>11. CASE PoolStep \/ OperatorCancel \/ OperatorHard
  BY <1>6, <1>11 DEF PoolStep, SpawnWorker, StartTasks, SpawnFails, StartupReport,
     NotifyMonitor, FinalReport, OperatorCancel, OperatorHard, PoolFrame, readerVars
<1>12. CASE Finished \/ UNCHANGED vars
  BY <1>6, <1>12 DEF Finished, vars, readerVars
<1> QED BY <1>3, <1>4, <1>5, <1>7, <1>8, <1>9, <1>10, <1>11, <1>12 DEF Next, ReaderStep

LEMMA LimitInvariant == Spec => [](RowInv /\ LimitInv)
<1>1. Init => RowInv /\ LimitInv
  BY InitRows, InitLimit
<1>2. RowInv /\ LimitInv /\ [Next]_vars => RowInv' /\ LimitInv'
  BY RowsStep, LimitStep
<1> QED BY <1>1, <1>2, PTL DEF Spec

(* A row that was sent is due: the selected rows before it were sent too,   *)
(* so that there are fewer of them than rows were sent.                     *)
LEMMA SentIsDue ==
  ASSUME RowInv, LimitInv
  PROVE  Sent \subseteq Due
<1> SUFFICES ASSUME NEW s \in Sent, NEW n \in RowLimit
             PROVE  s \in Seqs /\ Selected(s)
                    /\ Cardinality({t \in Seqs : t < s /\ Selected(t)}) < n
  BY DEF Due, Sent
<1> DEFINE E == {t \in Seqs : t < s /\ Selected(t)}
<1>1. s \in Seqs /\ Selected(s) /\ s < nextSeq
  BY DEF Sent
<1>2. Seqs \subseteq Nat /\ nextSeq \in Nat /\ n \in Nat
  BY SentFinite, PipelineAssumption
<1>3. E \subseteq Sent /\ s \notin E
  <2>1. ASSUME NEW t \in Seqs, t < s PROVE t < nextSeq
    BY <1>1, <1>2, <2>1
  <2>2. ~(s < s)
    BY <1>1, <1>2
  <2> QED BY <2>1, <2>2 DEF Sent
<1>4. IsFiniteSet(Sent) /\ Cardinality(Sent) \in Nat
  BY SentFinite
<1>5. Cardinality(E) \in Nat /\ Cardinality(E) <= Cardinality(Sent) /\ E # Sent
  BY <1>3, <1>4, FS_Subset, FS_CardinalityType
<1>6. Cardinality(E) # Cardinality(Sent)
  BY <1>3, <1>4, <1>5, FS_Subset
<1>7. Cardinality(Sent) <= n
  BY DEF LimitInv
<1> QED BY <1>1, <1>2, <1>4, <1>5, <1>6, <1>7

(* No row outside the filter or beyond the row limit is ever queued,        *)
(* batched, handed to a worker, recorded or dropped, for every filter, limit*)
(* and input (reader_task counts the rows it sends, not those it reads).    *)
THEOREM DueRowsOnly == Spec => []OnlyDueRowsTouched
<1>1. RowInv /\ LimitInv => OnlyDueRowsTouched
  <2> SUFFICES ASSUME RowInv, LimitInv, NEW s \in Seqs \ Due, NEW p \in 1 .. 6
               PROVE  ~Places(s)[p]
    BY DEF OnlyDueRowsTouched
  <2>1. s \notin Sent
    BY SentIsDue
  <2>2. /\ s \notin Elems(rowQ) /\ s \notin Accumulating /\ s \notin InJobQ
        /\ s \notin InWorker /\ s \notin Recorded /\ s \notin dropped
    BY <2>1 DEF RowInv, OnePlace
  <2>3. p = 1 \/ p = 2 \/ p = 3 \/ p = 4 \/ p = 5 \/ p = 6
    OBVIOUS
  <2>4. /\ ~Places(s)[1] /\ ~Places(s)[2] /\ ~Places(s)[3]
        /\ ~Places(s)[4] /\ ~Places(s)[5] /\ ~Places(s)[6]
    BY <2>2 DEF Places, Accumulating, Recorded
  <2> QED BY <2>3, <2>4
<1> QED BY <1>1, LimitInvariant, PTL

-----------------------------------------------------------------------------
LEMMA InitSurvivor == Init => SurvivorInv
BY DEF Init, SurvivorInv, Draining, Ending, Unstopped

(* What stops an attempt early is never undone.                             *)
LEMMA UnstoppedBefore ==
  ASSUME RowInv, ControlInv, [Next]_vars, Unstopped'
  PROVE  Unstopped
<1> USE DEF Unstopped
<1>1. ASSUME UNCHANGED <<opCancel, mpc, accErr, werr, ppc, report>> PROVE Unstopped
  BY <1>1
<1>2. CASE ReaderStep
  BY <1>1, <1>2 DEF ReaderStep, ReaderEof, ReaderCancelled, ReaderSkip, ReaderLimit,
     ReaderPick, ReaderSend, ReaderSendStop, ReaderFrame, poolVars, tokenVars, accVars,
     workerVars, monitorVars
<1>3. CASE AccStep
  <2>1. UNCHANGED <<opCancel, mpc, werr, ppc, report>>
    BY <1>3 DEF AccStep, AccCancelled, AccEof, AccSend, AccFlushCancelled, AccTooLarge,
       AccAppendFails, AccByteFlush, AccPush, AccFrame, poolVars, tokenVars, workerVars,
       monitorVars
  <2>2. accErr' = accErr \/ accErr' # "none"
    BY <1>3 DEF AccStep, AccCancelled, AccEof, AccSend, AccFlushCancelled, AccTooLarge,
       AccAppendFails, AccByteFlush, AccPush, accVars
  <2> QED BY <2>1, <2>2
<1>4. ASSUME NEW w \in Workers, WorkerStep(w) PROVE Unstopped
  <2>1. UNCHANGED <<opCancel, mpc, accErr, ppc, report>>
    BY <1>4 DEF WorkerStep, WLock, WPull, WPullNone, WSend, WSendFails, WRecv, WRecvEof,
       WRecvCancelled, WWrite, WWriteFails, WHardKill, WShutdown, WShutdownDone,
       WEscalate, Exit, WorkerFrame, poolVars, tokenVars, accVars, monitorVars
  <2>2. \A v \in Workers : werr[v] => werr'[v]
    BY <1>4 DEF WorkerStep, WLock, WPull, WPullNone, WSend, WSendFails, WRecv, WRecvEof,
       WRecvCancelled, WWrite, WWriteFails, WHardKill, WShutdown, WShutdownDone,
       WEscalate, Exit, RowInv, TypeOK, TypeWorkers
  <2> QED BY <2>1, <2>2
<1>5. ASSUME NEW w \in Workers, HandlerStep(w) PROVE Unstopped
  BY <1>1, <1>5 DEF HandlerStep, HAnswer, HMisanswer, HEcho, HCrash, Answers,
     HandlerFrame, WorkerFrame, poolVars, tokenVars, accVars, workerVars, monitorVars
<1>6. CASE MonStep
  <2>1. UNCHANGED <<opCancel, accErr, werr, ppc, report>>
    BY <1>6 DEF MonStep, MonCancelled, MonGrowth, MonStart, MonExpired, MonFire, MonFrame,
       poolVars, tokenVars, accVars, workerVars
  <2>2. mpc # "stalled"
    BY <1>6 DEF MonStep, MonCancelled, MonGrowth, MonStart, MonExpired, MonFire
  <2> QED BY <2>1, <2>2
<1>7. CASE SpawnWorker \/ OperatorHard
  BY <1>1, <1>7 DEF SpawnWorker, OperatorHard, PoolFrame, poolVars, tokenVars, accVars,
     monitorVars
<1>8. CASE StartTasks
  <2>1. UNCHANGED <<opCancel, accErr, werr, report>> /\ ppc = "spawn"
    BY <1>8 DEF StartTasks, tokenVars, workerVars
  <2> QED BY <2>1 DEF ControlInv
<1>9. CASE SpawnFails \/ NotifyMonitor \/ OperatorCancel
  BY <1>9 DEF SpawnFails, NotifyMonitor, OperatorCancel, PoolFrame, poolVars, tokenVars,
     accVars, monitorVars
<1>10. CASE StartupReport
  BY <1>10 DEF StartupReport
<1>11. CASE FinalReport
  <2>1. UNCHANGED <<opCancel, mpc, accErr, werr>> /\ ppc = "notified"
    BY <1>11 DEF FinalReport, PoolFrame, tokenVars, accVars, monitorVars
  <2>2. report = "none"
    BY <2>1 DEF ControlInv
  <2> QED BY <2>1, <2>2
<1>12. CASE Finished \/ UNCHANGED vars
  BY <1>1, <1>12 DEF Finished, vars, poolVars, tokenVars, accVars, workerVars, monitorVars
<1> QED BY <1>2, <1>3, <1>4, <1>5, <1>6, <1>7, <1>8, <1>9, <1>10, <1>11, <1>12
        DEF Next, PoolStep

(* While nothing stops the attempt the token is only fired at its end.      *)
LEMMA NotCancelled ==
  ASSUME ControlInv, Unstopped, ppc \notin {"notified", "done"}
  PROVE  ~cancel
BY DEF ControlInv, Unstopped

(* A worker that was not ready has no task, and no other worker is touched. *)
LEMMA FailedStart ==
  ASSUME RowInv, SpawnFails
  PROVE  /\ spawned \in Workers /\ wpc[spawned] = "unspawned" /\ UNCHANGED workerVars
         /\ \A v \in Workers : v # spawned => hstate'[v] = hstate[v]
         /\ hstate'[spawned] \in {hstate[spawned], "unready"}
<1>1. /\ spawned \in Workers /\ UNCHANGED workerVars
      /\ hstate' \in {hstate, [hstate EXCEPT ![spawned] = "unready"]}
  BY DEF SpawnFails
<1>2. wpc[spawned] = "unspawned"
  <2>1. spawned >= spawned
    BY DEF RowInv, TypeOK, TypePool
  <2> QED BY <1>1, <2>1 DEF RowInv, Phases
<1> QED BY <1>1, <1>2 DEF RowInv, TypeOK, TypeHandlers

LEMMA EndingStep ==
  ASSUME RowInv, ControlInv, Ending, [Next]_vars
  PROVE  Ending'
<1>1. ASSUME UNCHANGED <<ppc, report, rpc, apc, accErr, wpc, werr, hstate, mpc>>
      PROVE  Ending'
  BY <1>1 DEF Ending
<1>2. CASE ReaderStep
  <2>1. UNCHANGED <<ppc, report, apc, accErr, wpc, werr, hstate, mpc>>
    BY <1>2 DEF ReaderStep, ReaderEof, ReaderCancelled, ReaderSkip, ReaderLimit, ReaderPick,
       ReaderSend, ReaderSendStop, ReaderFrame, poolVars, accVars, workerVars, handlerVars,
       monitorVars
  <2>2. rpc # "idle" /\ rpc' # "idle"
    BY <1>2 DEF ReaderStep, ReaderEof, ReaderCancelled, ReaderSkip, ReaderLimit, ReaderPick,
       ReaderSend, ReaderSendStop
  <2> QED BY <2>1, <2>2 DEF Ending
<1>3. CASE AccStep
  <2>1. UNCHANGED <<ppc, report, rpc, wpc, werr, hstate, mpc>>
    BY <1>3 DEF AccStep, AccCancelled, AccEof, AccSend, AccFlushCancelled, AccTooLarge,
       AccAppendFails, AccByteFlush, AccPush, AccFrame, poolVars, readerVars, workerVars,
       handlerVars, monitorVars
  <2>2. apc \notin {"idle", "done"} /\ apc' # "idle"
    BY <1>3 DEF AccStep, AccCancelled, AccEof, AccSend, AccFlushCancelled, AccTooLarge,
       AccAppendFails, AccByteFlush, AccPush, Receives, accVars
  <2> QED BY <2>1, <2>2 DEF Ending
<1>4. ASSUME NEW w \in Workers, WorkerStep(w) PROVE Ending'
  <2>1. UNCHANGED <<ppc, report, rpc, apc, accErr, mpc>>
    BY <1>4 DEF WorkerStep, WLock, WPull, WPullNone, WSend, WSendFails, WRecv, WRecvEof,
       WRecvCancelled, WWrite, WWriteFails, WHardKill, WShutdown, WShutdownDone,
       WEscalate, Exit, WorkerFrame, poolVars, readerVars, accVars, monitorVars
  <2>2. wpc[w] \notin {"unspawned", "exited"}
    BY <1>4 DEF WorkerStep, WLock, WPull, WPullNone, WSend, WSendFails, WRecv, WRecvEof,
       WRecvCancelled, WWrite, WWriteFails, WHardKill, WShutdown, WShutdownDone, WEscalate
  <2>3. report = "none"
    <3>1. ~WorkersJoined
      BY <2>2 DEF WorkersJoined
    <3> QED BY <3>1 DEF ControlInv
  <2>4. ASSUME NEW v \in Workers, hstate'[v] = "gone" PROVE wpc'[v] = "exited"
    <3>1. /\ wpc \in [Workers -> WorkerPcs]
          /\ hstate \in [Workers -> {"none", "unready", "up", "dead", "gone"}]
      BY DEF RowInv, TypeOK, TypeWorkers, TypeHandlers
    <3>2. hstate[w] # "gone"
      BY <2>2 DEF Ending
    <3>3. CASE Exit(w)
      BY <2>4, <3>1, <3>3 DEF Exit, Ending
    <3>4. CASE ~Exit(w)
      <4>1. UNCHANGED hstate /\ \A u \in Workers : u # w => wpc'[u] = wpc[u]
        BY <1>4, <3>1, <3>4 DEF WorkerStep, WLock, WPull, WPullNone, WSend, WSendFails, WRecv,
           WRecvEof, WRecvCancelled, WWrite, WWriteFails, WHardKill, WShutdown,
           WShutdownDone, WEscalate, Decide, handlerVars
      <4> QED BY <2>4, <3>2, <4>1 DEF Ending
    <3> QED BY <3>3, <3>4
  <2> QED BY <2>1, <2>3, <2>4 DEF Ending
<1>5. ASSUME NEW w \in Workers, HandlerStep(w) PROVE Ending'
  <2>1. UNCHANGED <<ppc, report, rpc, apc, accErr, wpc, werr, mpc>>
    BY <1>5 DEF HandlerStep, HAnswer, HMisanswer, HEcho, HCrash, Answers, HandlerFrame,
       WorkerFrame, poolVars, readerVars, accVars, workerVars, monitorVars
  <2>2. \A v \in Workers : hstate'[v] = "gone" => hstate[v] = "gone"
    BY <1>5 DEF HandlerStep, HAnswer, HMisanswer, HEcho, HCrash, Answers, RowInv, TypeOK,
       TypeHandlers
  <2> QED BY <2>1, <2>2 DEF Ending
<1>6. CASE MonStep
  <2>1. UNCHANGED <<ppc, report, rpc, apc, accErr, wpc, werr, hstate>>
    BY <1>6 DEF MonStep, MonCancelled, MonGrowth, MonStart, MonExpired, MonFire, MonFrame,
       poolVars, readerVars, accVars, workerVars, handlerVars
  <2>2. mpc # "ok"
    BY <1>6 DEF MonStep, MonCancelled, MonGrowth, MonStart, MonExpired, MonFire
  <2> QED BY <2>1, <2>2 DEF Ending
<1>7. CASE SpawnWorker
  <2>1. UNCHANGED <<ppc, report, rpc, apc, accErr, werr, mpc>> /\ ppc = "spawn"
    BY <1>7 DEF SpawnWorker, readerVars, accVars, monitorVars
  <2>2. /\ wpc' = [wpc EXCEPT ![spawned] = "idle"]
        /\ hstate' = [hstate EXCEPT ![spawned] = "up"]
    BY <1>7 DEF SpawnWorker
  <2>3. \A v \in Workers : hstate'[v] = "gone" => wpc'[v] = "exited"
    BY <2>2 DEF Ending, RowInv, TypeOK, TypeWorkers, TypeHandlers
  <2> QED BY <2>1, <2>3 DEF Ending
<1>8. CASE StartTasks
  <2>1. UNCHANGED <<report, wpc, hstate>> /\ report = "none"
    BY <1>8 DEF StartTasks, workerVars, handlerVars, ControlInv
  <2>2. ppc' = "await" /\ rpc' = "next" /\ apc' = "recv"
    BY <1>8 DEF StartTasks
  <2> QED BY <2>1, <2>2 DEF Ending
<1>9. CASE SpawnFails \/ NotifyMonitor \/ OperatorCancel \/ OperatorHard
  <2>1. UNCHANGED <<report, rpc, apc, accErr, wpc, werr, mpc>>
    BY <1>9 DEF SpawnFails, NotifyMonitor, OperatorCancel, OperatorHard, PoolFrame, poolVars,
       readerVars, accVars, workerVars, monitorVars
  <2>2. ppc' = "notified" => ppc = "notified" \/ apc = "done"
    BY <1>9 DEF SpawnFails, NotifyMonitor, OperatorCancel, OperatorHard, poolVars
  <2>3. \A v \in Workers : hstate'[v] = "gone" => hstate[v] = "gone"
    <3>1. CASE SpawnFails
      BY <3>1, FailedStart
    <3>2. CASE ~SpawnFails
      BY <1>9, <3>2 DEF NotifyMonitor, OperatorCancel, OperatorHard, PoolFrame, handlerVars
    <3> QED BY <3>1, <3>2
  <2> QED BY <2>1, <2>2, <2>3 DEF Ending
<1>10. CASE StartupReport
  <2>1. UNCHANGED <<rpc, apc, accErr, wpc, werr, hstate, mpc>>
    BY <1>10 DEF StartupReport, PoolFrame, readerVars, accVars, handlerVars, monitorVars
  <2>2. ppc' = "done" /\ report' = "startup_failed"
    BY <1>10 DEF StartupReport
  <2> QED BY <2>1, <2>2 DEF Ending
<1>11. CASE FinalReport
  <2>1. UNCHANGED <<rpc, apc, accErr, wpc, werr, hstate, mpc>>
    BY <1>11 DEF FinalReport, PoolFrame, readerVars, accVars, handlerVars, monitorVars
  <2>2. ppc = "notified" /\ ppc' = "done" /\ report' = Classify /\ mpc \in {"ok", "stalled"}
    BY <1>11 DEF FinalReport
  <2>3. apc = "done"
    BY <2>2 DEF Ending
  <2>4. Classify = "completed" =>
          mpc # "stalled" /\ accErr = "none" /\ \A w \in Workers : ~werr[w]
    <3>1. accErr \in {"none", "flush_cancelled", "io"}
      BY DEF RowInv, TypeOK, TypeAcc
    <3> QED BY <3>1 DEF Classify
  <2> QED BY <2>1, <2>2, <2>3, <2>4 DEF Ending
<1>12. CASE Finished \/ UNCHANGED vars
  BY <1>1, <1>12 DEF Finished, vars, poolVars, readerVars, accVars, workerVars, handlerVars,
     monitorVars
<1> QED BY <1>2, <1>3, <1>4, <1>5, <1>6, <1>7, <1>8, <1>9, <1>10, <1>11, <1>12
        DEF Next, PoolStep

LEMMA DrainUnmoved ==
  ASSUME Draining, UNCHANGED <<rpc, nextSeq, rowQ, apc, dropped, wpc, hstate, jobQ>>
  PROVE  Draining'
<1>1. Sent' = Sent /\ Due' = Due
  BY SentUnmoved DEF Due, Selected
<1> QED BY <1>1 DEF Draining

(* The reader ends with every due row sent: the input is exhausted, or the  *)
(* row limit is reached.                                                    *)
LEMMA ReaderDone ==
  ASSUME RowInv, LimitInv, ReaderEof \/ ReaderLimit
  PROVE  Due \subseteq Sent
<1>1. Seqs \subseteq Nat /\ nextSeq \in Nat /\ NumRows \in Nat
  BY SentFinite, PipelineAssumption
<1>2. CASE ReaderEof
  <2>1. \A s \in Seqs : s < nextSeq
    BY <1>1, <1>2 DEF ReaderEof, Seqs
  <2> QED BY <2>1 DEF Due, Sent
<1>3. CASE ReaderLimit
  <2>1. PICK n \in RowLimit : emitted >= n
    BY <1>3 DEF ReaderLimit, LimitReached
  <2>2. n \in Nat /\ emitted = Cardinality(Sent) /\ emitted \in Nat
    BY PipelineAssumption, SentFinite DEF LimitInv
  <2> SUFFICES ASSUME NEW s \in Due, ~(s < nextSeq) PROVE FALSE
    BY DEF Due, Sent
  <2> DEFINE E == {t \in Seqs : t < s /\ Selected(t)}
  <2>3. s \in Nat /\ Cardinality(E) < n
    BY <1>1 DEF Due
  <2>4. ASSUME NEW t \in Sent PROVE t \in E
    <3>1. t \in Seqs /\ t \in Nat /\ t < nextSeq /\ Selected(t)
      BY <1>1 DEF Sent
    <3>2. t < s
      BY <1>1, <2>3, <3>1
    <3> QED BY <3>1, <3>2
  <2>5. IsFiniteSet(E)
    <3>1. E \in SUBSET Seqs
      OBVIOUS
    <3> HIDE DEF E
    <3> QED BY <3>1, BatchesFinite
  <2>6. Cardinality(Sent) <= Cardinality(E) /\ Cardinality(E) \in Nat
    BY <2>4, <2>5, FS_Subset, FS_CardinalityType
  <2> QED BY <2>1, <2>2, <2>3, <2>6
<1> QED BY <1>2, <1>3

LEMMA DrainReaderStep ==
  ASSUME RowInv, LimitInv, ControlInv, Ending, Draining, Unstopped, ReaderStep
  PROVE  Draining'
<1>1. UNCHANGED <<ppc, apc, dropped, wpc, hstate, jobQ>>
  BY DEF ReaderStep, ReaderEof, ReaderCancelled, ReaderSkip, ReaderLimit, ReaderPick,
     ReaderSend, ReaderSendStop, ReaderFrame, poolVars, accVars, workerVars, handlerVars
<1>2. rpc \notin {"idle", "done"}
  BY DEF ReaderStep, ReaderEof, ReaderCancelled, ReaderSkip, ReaderLimit, ReaderPick,
     ReaderSend, ReaderSendStop
<1>3. apc \notin {"idle", "flush_eof", "done"}
  BY <1>2 DEF Draining, Ending
<1>4. ~cancel
  <2>1. ppc \notin {"notified", "done"}
    BY <1>3 DEF ControlInv
  <2> QED BY <2>1, NotCancelled
<1>5. (rpc = "done" => Due \subseteq Sent)'
  <2>1. CASE ReaderEof \/ ReaderLimit
    <3>1. Sent' = Sent /\ Due' = Due
      BY <2>1, SentUnmoved DEF ReaderEof, ReaderLimit, Due, Selected
    <3> QED BY <2>1, <3>1, ReaderDone
  <2>2. CASE ~(ReaderEof \/ ReaderLimit)
    <3>1. rpc' # "done"
      BY <1>3, <1>4, <2>2 DEF ReaderStep, ReaderCancelled, ReaderSkip, ReaderPick,
         ReaderSend, ReaderSendStop
    <3> QED BY <3>1
  <2> QED BY <2>1, <2>2
<1> QED BY <1>1, <1>3, <1>5 DEF Draining

LEMMA DrainAccStep ==
  ASSUME RowInv, ControlInv, Draining, Unstopped, Unstopped', AccStep
  PROVE  Draining'
<1>1. UNCHANGED <<rpc, nextSeq, wpc, hstate>>
  BY DEF AccStep, AccCancelled, AccEof, AccSend, AccFlushCancelled, AccTooLarge,
     AccAppendFails, AccByteFlush, AccPush, AccFrame, readerVars, workerVars, handlerVars
<1>2. apc \notin {"idle", "done"}
  BY DEF AccStep, AccCancelled, AccEof, AccSend, AccFlushCancelled, AccTooLarge,
     AccAppendFails, AccByteFlush, AccPush, Receives
<1>3. ~cancel
  <2>1. ppc \notin {"notified", "done"}
    BY <1>2 DEF ControlInv
  <2> QED BY <2>1, NotCancelled
<1>4. ~AccCancelled /\ ~AccFlushCancelled /\ \A s \in Seqs : ~AccAppendFails(s)
  BY <1>3 DEF AccCancelled, AccFlushCancelled, AccAppendFails, Unstopped
<1>5. UNCHANGED dropped
  BY <1>4 DEF AccStep, AccEof, AccSend, AccTooLarge, AccByteFlush, AccPush
<1>6. apc' \in {"flush_eof", "done"} => rpc = "done" /\ rowQ' = <<>>
  BY <1>4 DEF AccStep, AccEof, AccSend, AccTooLarge, AccByteFlush, AccPush, Receives,
     Draining, accVars
<1>7. ASSUME NEW w \in Workers, wpc[w] \in {"write_exit", "teardown", "grace", "exited"}
      PROVE  hstate[w] = "dead"
  BY <1>2, <1>7 DEF Draining
<1>8. Sent' = Sent /\ Due' = Due
  BY <1>1, SentUnmoved DEF Due, Selected
<1> QED BY <1>1, <1>5, <1>6, <1>7, <1>8 DEF Draining

LEMMA DrainWorkerStep ==
  ASSUME RowInv, ControlInv, Draining, Unstopped, Unstopped',
         NEW w \in Workers, WorkerStep(w)
  PROVE  Draining'
<1>1. UNCHANGED <<rpc, nextSeq, rowQ, apc>>
  BY DEF WorkerStep, WLock, WPull, WPullNone, WSend, WSendFails, WRecv, WRecvEof,
     WRecvCancelled, WWrite, WWriteFails, WHardKill, WShutdown, WShutdownDone,
     WEscalate, Exit, WorkerFrame, readerVars, accVars
<1>2. /\ wpc \in [Workers -> WorkerPcs] /\ werr \in [Workers -> BOOLEAN]
      /\ hstate \in [Workers -> {"none", "unready", "up", "dead", "gone"}]
  BY DEF RowInv, TypeOK, TypeWorkers, TypeHandlers
<1>3. ~cancel
  <2>1. wpc[w] \notin {"unspawned", "exited"}
    BY DEF WorkerStep, WLock, WPull, WPullNone, WSend, WSendFails, WRecv, WRecvEof,
       WRecvCancelled, WWrite, WWriteFails, WHardKill, WShutdown, WShutdownDone, WEscalate
  <2>2. ~WorkersJoined
    BY <2>1 DEF WorkersJoined
  <2> QED BY <2>2, NotCancelled DEF ControlInv
<1>4. ~WRecvCancelled(w) /\ ~WWriteFails(w)
  BY <1>2, <1>3 DEF WRecvCancelled, WWriteFails, Unstopped
<1>5. UNCHANGED dropped /\ (jobQ = <<>> => jobQ' = <<>>)
  BY <1>4 DEF WorkerStep, WLock, WPull, WPullNone, WSend, WSendFails, WRecv, WRecvEof,
     WWrite, WHardKill, WShutdown, WShutdownDone, WEscalate, Exit
<1>6. ASSUME NEW v \in Workers, wpc'[v] \in {"write_exit", "teardown", "grace", "exited"}
      PROVE  hstate'[v] = "dead" \/ (apc = "done" /\ jobQ' = <<>>)
  <2>1. CASE wpc[v] \in {"write_exit", "teardown", "grace", "exited"}
    <3>1. hstate[v] = "dead" => hstate'[v] = "dead"
      BY <1>2 DEF WorkerStep, WLock, WPull, WPullNone, WSend, WSendFails, WRecv, WRecvEof,
         WRecvCancelled, WWrite, WWriteFails, WHardKill, WShutdown, WShutdownDone,
         WEscalate, Exit, handlerVars
    <3> QED BY <1>5, <2>1, <3>1 DEF Draining
  <2>2. CASE wpc[v] \notin {"write_exit", "teardown", "grace", "exited"}
    <3>1. v = w /\ (WPullNone(w) \/ WSendFails(w))
      BY <1>2, <1>4, <1>6, <2>2 DEF WorkerStep, WLock, WPull, WPullNone, WSend, WSendFails,
         WRecv, WRecvEof, WWrite, WHardKill, WShutdown, WShutdownDone, WEscalate, Exit,
         Decide
    <3>2. CASE WPullNone(w)
      <4>1. jobQ = <<>> /\ JobTxDropped /\ UNCHANGED jobQ
        BY <1>3, <3>2 DEF WPullNone
      <4> QED BY <4>1 DEF JobTxDropped, Unstopped
    <3>3. CASE WSendFails(w)
      BY <3>1, <3>3 DEF WSendFails, handlerVars
    <3> QED BY <3>1, <3>2, <3>3
  <2> QED BY <2>1, <2>2
<1>7. Sent' = Sent /\ Due' = Due
  BY <1>1, SentUnmoved DEF Due, Selected
<1> QED BY <1>1, <1>5, <1>6, <1>7 DEF Draining

LEMMA DrainOtherStep ==
  ASSUME RowInv, ControlInv, Draining,
         \/ \E w \in Workers : HandlerStep(w)
         \/ MonStep \/ PoolStep \/ OperatorCancel \/ OperatorHard \/ UNCHANGED vars
  PROVE  Draining'
<1>1. ASSUME NEW w \in Workers, HandlerStep(w) PROVE Draining'
  <2>1. UNCHANGED <<rpc, nextSeq, rowQ, apc, dropped, wpc, jobQ>>
    BY <1>1 DEF HandlerStep, HAnswer, HMisanswer, HEcho, HCrash, Answers, HandlerFrame,
       WorkerFrame, readerVars, accVars, workerVars
  <2>2. \A v \in Workers : hstate[v] = "dead" => hstate'[v] = "dead"
    BY <1>1 DEF HandlerStep, HAnswer, HMisanswer, HEcho, HCrash, Answers, RowInv, TypeOK,
       TypeHandlers
  <2>3. Sent' = Sent /\ Due' = Due
    BY <2>1, SentUnmoved DEF Due, Selected
  <2> QED BY <2>1, <2>2, <2>3 DEF Draining
<1>2. CASE MonStep
  BY <1>2, DrainUnmoved DEF MonStep, MonCancelled, MonGrowth, MonStart, MonExpired, MonFire,
     MonFrame, readerVars, accVars, workerVars, handlerVars
<1>3. CASE SpawnWorker
  <2>1. UNCHANGED <<rpc, nextSeq, rowQ, apc, dropped, jobQ>> /\ spawned \in Workers
    BY <1>3 DEF SpawnWorker, readerVars, accVars
  <2>2. /\ wpc' = [wpc EXCEPT ![spawned] = "idle"]
        /\ hstate' = [hstate EXCEPT ![spawned] = "up"]
    BY <1>3 DEF SpawnWorker
  <2>3. \A v \in Workers :
          wpc'[v] \in {"write_exit", "teardown", "grace", "exited"} =>
            hstate'[v] = "dead" \/ (apc = "done" /\ jobQ = <<>>)
    BY <2>1, <2>2 DEF Draining, RowInv, TypeOK, TypeWorkers, TypeHandlers
  <2>4. Sent' = Sent /\ Due' = Due
    BY <2>1, SentUnmoved DEF Due, Selected
  <2> QED BY <2>1, <2>3, <2>4 DEF Draining
<1>4. CASE StartTasks
  <2>1. UNCHANGED <<nextSeq, rowQ, dropped, wpc, hstate, jobQ>>
    BY <1>4 DEF StartTasks, workerVars, handlerVars
  <2>2. rpc' = "next" /\ apc' = "recv" /\ apc = "idle"
    BY <1>4 DEF StartTasks, RowInv, Phases
  <2>3. Sent' = Sent /\ Due' = Due
    BY <2>1, SentUnmoved DEF Due, Selected
  <2> QED BY <2>1, <2>2, <2>3 DEF Draining
<1>5. CASE StartupReport \/ NotifyMonitor \/ FinalReport \/ OperatorCancel \/ OperatorHard
  BY <1>5, DrainUnmoved DEF StartupReport, NotifyMonitor, FinalReport,
     OperatorCancel, OperatorHard, PoolFrame, readerVars, accVars, handlerVars
<1>6. CASE UNCHANGED vars
  BY <1>6, DrainUnmoved DEF vars, readerVars, accVars, workerVars, handlerVars
<1>7. CASE SpawnFails
  <2>1. UNCHANGED <<rpc, nextSeq, rowQ, apc, dropped, wpc, jobQ>>
    BY <1>7 DEF SpawnFails, readerVars, accVars, workerVars
  <2>2. \A v \in Workers :
          wpc'[v] \in {"write_exit", "teardown", "grace", "exited"} =>
            hstate'[v] = "dead" \/ (apc = "done" /\ jobQ = <<>>)
    BY <1>7, <2>1, FailedStart DEF Draining
  <2>3. Sent' = Sent /\ Due' = Due
    BY <2>1, SentUnmoved DEF Due, Selected
  <2> QED BY <2>1, <2>2, <2>3 DEF Draining
<1> QED BY <1>1, <1>2, <1>3, <1>4, <1>5, <1>6, <1>7 DEF PoolStep

LEMMA SurvivorStep ==
  RowInv /\ LimitInv /\ ControlInv /\ SurvivorInv /\ [Next]_vars => SurvivorInv'
<1> SUFFICES ASSUME RowInv, LimitInv, ControlInv, SurvivorInv, [Next]_vars
             PROVE  SurvivorInv'
  OBVIOUS
<1>1. Ending /\ Ending'
  BY EndingStep DEF SurvivorInv
<1>2. ASSUME Unstopped' PROVE Draining'
  <2>1. Unstopped /\ Draining
    BY <1>2, UnstoppedBefore DEF SurvivorInv
  <2> QED BY <1>1, <1>2, <2>1, DrainReaderStep, DrainAccStep, DrainWorkerStep, DrainOtherStep
          DEF Next, Finished
<1> QED BY <1>1, <1>2 DEF SurvivorInv

LEMMA SurvivorInvariant == Spec => [](RowInv /\ LimitInv /\ ControlInv /\ SurvivorInv)
<1>1. Init => RowInv /\ LimitInv /\ ControlInv /\ SurvivorInv
  BY InitRows, InitLimit, InitControl, InitSurvivor
<1>2. RowInv /\ LimitInv /\ ControlInv /\ SurvivorInv /\ [Next]_vars
        => RowInv' /\ LimitInv' /\ ControlInv' /\ SurvivorInv'
  BY RowsStep, LimitStep, ControlStep, SurvivorStep
<1> QED BY <1>1, <1>2, PTL DEF Spec

(* A completed attempt nobody cancelled has recorded every due row, as soon *)
(* as one handler lived to the end, however many others died: no task of    *)
(* the pipeline ends before the one that feeds it, and a survivor takes all *)
(* that is queued (worker_loop.rs, accumulator.rs and the report of         *)
(* run_pool_streaming).                                                     *)
THEOREM SurvivorRecordsAll == Spec => []OneSurvivorSuffices
<1>1. RowInv /\ LimitInv /\ ControlInv /\ SurvivorInv => OneSurvivorSuffices
  <2> SUFFICES ASSUME RowInv, ControlInv, SurvivorInv, report = "completed", ~opCancel,
                      NEW w \in Workers, hstate[w] = "gone", NEW s \in Due
               PROVE  Len(written[s]) = 1
    BY DEF OneSurvivorSuffices
  <2>1. ppc = "done" /\ WorkersJoined
    BY DEF ControlInv
  <2>2. Draining
    BY <2>1 DEF SurvivorInv, Ending, Unstopped
  <2>3. apc = "done" /\ jobQ = <<>>
    BY <2>2 DEF SurvivorInv, Ending, Draining
  <2>4. rowQ = <<>> /\ Due \subseteq Sent /\ dropped = {}
    BY <2>2, <2>3 DEF Draining
  <2>5. Elems(rowQ) = {} /\ InJobQ = {}
    BY <2>3, <2>4 DEF Elems, InJobQ
  <2>6. Accumulating = {}
    BY <2>3 DEF RowInv, Phases, Accumulating
  <2>7. InWorker = {}
    <3>1. \A v \in Workers : wbatch[v] = {}
      BY <2>1 DEF WorkersJoined, RowInv, Phases
    <3> QED BY <3>1 DEF InWorker
  <2>8. s \in Recorded
    BY <2>4, <2>5, <2>6, <2>7 DEF RowInv, OnePlace
  <2>9. s \in Seqs /\ written[s] # <<>> /\ written[s] \in Seq(Kinds \cup {"none"})
    BY <2>8 DEF Recorded, RowInv, TypeOK, TypeLog
  <2>10. Len(written[s]) \in Nat \ {0}
    <3> DEFINE K == Kinds \cup {"none"}
    <3>1. written[s] \in Seq(K) /\ written[s] # <<>>
      BY <2>9
    <3> HIDE DEF K
    <3> QED BY <3>1, EmptySeq
  <2>11. Len(written[s]) <= 1
    BY <2>9 DEF RowInv, WrittenOnce
  <2>12. \A n \in Nat \ {0} : n <= 1 => n = 1
    OBVIOUS
  <2> QED BY <2>10, <2>11, <2>12, Zenon
<1> QED BY <1>1, SurvivorInvariant, PTL

-----------------------------------------------------------------------------
(* The refinement. The rows of a step are where the stage it moves them from*)
(* says they are, since the places of RowInv are disjoint.                  *)

(* The variables an attempt is read from.                                   *)
PromiseVars == <<written, dropped, wbatch, cancel, accErr, werr, report>>

LEMMA InitToken == Init => TokenInv
BY DEF Init, TokenInv

LEMMA TokenUnmoved == TokenInv /\ UNCHANGED <<ppc, cancel, apc, accErr>> => TokenInv'
BY DEF TokenInv

LEMMA TokenStep == RowInv /\ TokenInv /\ [Next]_vars => TokenInv'
<1> SUFFICES ASSUME RowInv, TokenInv, [Next]_vars PROVE TokenInv'
  OBVIOUS
<1>1. CASE ReaderStep
  BY <1>1, TokenUnmoved DEF ReaderStep, ReaderEof, ReaderCancelled, ReaderSkip, ReaderLimit,
     ReaderPick, ReaderSend, ReaderSendStop, ReaderFrame, poolVars, tokenVars, accVars
<1>2. CASE AccStep
  <2>1. UNCHANGED <<ppc, cancel>> /\ apc # "done"
    BY <1>2 DEF AccStep, AccCancelled, AccEof, AccSend, AccFlushCancelled, AccTooLarge,
       AccAppendFails, AccByteFlush, AccPush, Receives, AccFrame, poolVars, tokenVars
  <2>2. accErr' # accErr => apc' = "done"
    BY <1>2 DEF AccStep, AccCancelled, AccEof, AccSend, AccFlushCancelled, AccTooLarge,
       AccAppendFails, AccByteFlush, AccPush, accVars
  <2> QED BY <2>1, <2>2 DEF TokenInv
<1>3. ASSUME NEW w \in Workers, WorkerStep(w) \/ HandlerStep(w) PROVE TokenInv'
  <2>1. CASE WorkerStep(w)
    BY <2>1, TokenUnmoved DEF WorkerStep, WLock, WPull, WPullNone, WSend, WSendFails, WRecv,
       WRecvEof, WRecvCancelled, WWrite, WWriteFails, WHardKill, WShutdown, WShutdownDone,
       WEscalate, Exit, WorkerFrame, poolVars, tokenVars, accVars
  <2>2. CASE HandlerStep(w)
    BY <2>2, TokenUnmoved DEF HandlerStep, HAnswer, HMisanswer, HEcho, HCrash, Answers,
       HandlerFrame, WorkerFrame, poolVars, tokenVars, accVars
  <2> QED BY <1>3, <2>1, <2>2
<1>4. CASE MonStep
  <2>1. UNCHANGED <<ppc, apc, accErr>>
    BY <1>4 DEF MonStep, MonCancelled, MonGrowth, MonStart, MonExpired, MonFire, MonFrame,
       poolVars, accVars
  <2>2. cancel' = cancel \/ cancel' = TRUE
    BY <1>4 DEF MonStep, MonCancelled, MonGrowth, MonStart, MonExpired, MonFire, tokenVars
  <2> QED BY <2>1, <2>2 DEF TokenInv
<1>5. CASE StartTasks
  <2>1. UNCHANGED <<cancel, accErr>> /\ ppc' = "await" /\ apc = "idle"
    BY <1>5 DEF StartTasks, tokenVars, RowInv, Phases
  <2> QED BY <2>1 DEF TokenInv
<1>6. CASE SpawnWorker \/ OperatorHard
  BY <1>6, TokenUnmoved DEF SpawnWorker, OperatorHard, PoolFrame, poolVars, tokenVars, accVars
<1>7. CASE SpawnFails \/ StartupReport \/ NotifyMonitor \/ FinalReport \/ OperatorCancel
  <2>1. UNCHANGED <<apc, accErr>>
    BY <1>7 DEF SpawnFails, StartupReport, NotifyMonitor, FinalReport, OperatorCancel,
       PoolFrame, accVars
  <2>2. \/ cancel' = TRUE
        \/ ppc \in {"startup_failed", "notified"} /\ cancel' = cancel
    BY <1>7 DEF SpawnFails, StartupReport, NotifyMonitor, FinalReport, OperatorCancel,
       tokenVars
  <2> QED BY <2>1, <2>2 DEF TokenInv
<1>8. CASE Finished \/ UNCHANGED vars
  BY <1>8, TokenUnmoved DEF Finished, vars, poolVars, tokenVars, accVars
<1> QED BY <1>1, <1>2, <1>3, <1>4, <1>5, <1>6, <1>7, <1>8 DEF Next, PoolStep

LEMMA TokenInvariant == Spec => [](RowInv /\ ControlInv /\ TokenInv)
<1>1. Init => RowInv /\ ControlInv /\ TokenInv
  BY InitRows, InitControl, InitToken
<1>2. RowInv /\ ControlInv /\ TokenInv /\ [Next]_vars
        => RowInv' /\ ControlInv' /\ TokenInv'
  BY RowsStep, ControlStep, TokenStep
<1> QED BY <1>1, <1>2, PTL DEF Spec

-----------------------------------------------------------------------------
(* Where a row is says its stage.                                           *)
LEMMA StageOfPlace ==
  ASSUME RowInv, NEW s \in Seqs
  PROVE  /\ s \in Elems(rowQ) \cup Accumulating \cup InJobQ => Stage(s) = "waiting"
         /\ s \in InWorker => Stage(s) = "claimed"
         /\ Stage(s) = "claimed" => s \in InWorker
<1>1. s \in Recorded <=> written[s] # <<>>
  BY DEF Recorded
<1> QED BY <1>1 DEF RowInv, OnePlace, Stage

(* A row's stage is read from the log, what was dropped and the batches.    *)
LEMMA StageKept ==
  ASSUME NEW s \in Seqs,
         written'[s] = written[s], s \in dropped' <=> s \in dropped,
         s \in InWorker' <=> s \in InWorker
  PROVE  Stage(s)' = Stage(s)
BY DEF Stage

LEMMA AttemptUnmoved ==
  UNCHANGED PromiseVars => UNCHANGED Promise!vars
<1> SUFFICES ASSUME UNCHANGED PromiseVars PROVE UNCHANGED Promise!vars
  OBVIOUS
<1>1. InWorker' = InWorker
  BY DEF PromiseVars, InWorker
<1>2. \A s \in Seqs : Stage(s)' = Stage(s)
  BY <1>1 DEF PromiseVars, Stage
<1>3. [s \in Seqs |-> Stage(s)]' = [s \in Seqs |-> Stage(s)]
  BY <1>2
<1>4. AppendFailed' = AppendFailed
  BY DEF PromiseVars, AppendFailed
<1> QED BY <1>3, <1>4 DEF PromiseVars, Promise!vars

(* The rows that change their stage make a Move of the attempt.             *)
LEMMA StageMove ==
  ASSUME NEW S \in SUBSET Seqs, NEW st,
         \A s \in S : Stage(s)' = st,
         \A s \in Seqs : s \notin S => Stage(s)' = Stage(s)
  PROVE  Promise!Move(S, st)
BY DEF Promise!Move

LEMMA StageMembers ==
  ASSUME NEW S \in SUBSET Seqs, NEW st, \A s \in S : Stage(s) = st
  PROVE  S \in SUBSET Promise!In(st)
BY DEF Promise!In

-----------------------------------------------------------------------------
(* What the attempt sees of each task's steps.                              *)

LEMMA PromiseReaderStep == ReaderStep => UNCHANGED Promise!vars
<1> SUFFICES ASSUME ReaderStep PROVE UNCHANGED PromiseVars
  BY AttemptUnmoved
<1> QED BY DEF PromiseVars, ReaderStep, ReaderEof, ReaderCancelled, ReaderSkip, ReaderLimit,
     ReaderPick, ReaderSend, ReaderSendStop, ReaderFrame, poolVars, tokenVars, accVars,
     workerVars, logVars

LEMMA PromiseHandlerStep ==
  ASSUME NEW w \in Workers, HandlerStep(w)
  PROVE  UNCHANGED Promise!vars
<1> SUFFICES UNCHANGED PromiseVars
  BY AttemptUnmoved
<1> QED BY DEF PromiseVars, HandlerStep, HAnswer, HMisanswer, HEcho, HCrash, Answers,
     HandlerFrame, WorkerFrame, poolVars, tokenVars, accVars, workerVars, logVars

(* A step that only fires the token is a Stop, or comes too late to be one. *)
LEMMA PromiseFire ==
  ASSUME UNCHANGED <<written, dropped, wbatch, accErr, werr, report>>,
         cancel' = cancel \/ cancel' = TRUE, report # "none" => cancel, cancel \in BOOLEAN
  PROVE  [Promise!Next]_Promise!vars
<1>1. CASE cancel' = cancel
  BY <1>1, AttemptUnmoved DEF PromiseVars
<1>2. CASE cancel' # cancel
  <2>1. cancel' = TRUE /\ report = "none"
    BY <1>2
  <2>2. InWorker' = InWorker
    BY DEF InWorker
  <2>3. \A s \in Seqs : Stage(s)' = Stage(s)
    BY <2>2 DEF Stage
  <2>4. [s \in Seqs |-> Stage(s)]' = [s \in Seqs |-> Stage(s)] /\ AppendFailed' = AppendFailed
    BY <2>3 DEF AppendFailed
  <2>5. Promise!Stop
    BY <2>1, <2>4 DEF Promise!Stop
  <2> QED BY <2>5 DEF Promise!Next
<1> QED BY <1>1, <1>2

LEMMA PromiseMonStep ==
  ASSUME RowInv, ControlInv, TokenInv, MonStep
  PROVE  [Promise!Next]_Promise!vars
<1>1. UNCHANGED <<written, dropped, wbatch, accErr, werr, report>>
  BY DEF MonStep, MonCancelled, MonGrowth, MonStart, MonExpired, MonFire, MonFrame,
     poolVars, accVars, workerVars
<1>2. cancel' = cancel \/ cancel' = TRUE
  BY DEF MonStep, MonCancelled, MonGrowth, MonStart, MonExpired, MonFire, tokenVars
<1>3. cancel \in BOOLEAN /\ (report # "none" => cancel)
  BY DEF RowInv, TypeOK, TypePool, ControlInv, TokenInv
<1> QED BY <1>1, <1>2, <1>3, PromiseFire

(* The report is given with no batch in hand.                               *)
LEMMA PromiseEnd ==
  ASSUME RowInv, ControlInv, StartupReport \/ FinalReport
  PROVE  [Promise!Next]_Promise!vars
<1>1. /\ UNCHANGED <<written, dropped, wbatch, accErr, werr, cancel>>
      /\ report' # "none"
  BY DEF StartupReport, FinalReport, Classify, PoolFrame, accVars, tokenVars, logVars
<1>2. WorkersJoined /\ report = "none"
  <2>1. WorkersJoined /\ ppc # "done"
    BY DEF StartupReport, FinalReport, ControlInv
  <2> QED BY <2>1 DEF ControlInv
<1>3. InWorker = {}
  <2>1. \A w \in Workers : wbatch[w] = {}
    BY <1>2 DEF WorkersJoined, RowInv, Phases
  <2> QED BY <2>1 DEF InWorker
<1>4. Promise!In("claimed") = {}
  BY <1>3, StageOfPlace DEF Promise!In
<1>5. InWorker' = InWorker
  BY <1>1 DEF InWorker
<1>6. \A s \in Seqs : Stage(s)' = Stage(s)
  BY <1>1, <1>5 DEF Stage
<1>7. [s \in Seqs |-> Stage(s)]' = [s \in Seqs |-> Stage(s)] /\ AppendFailed' = AppendFailed
  BY <1>1, <1>6 DEF AppendFailed
<1>8. Promise!End
  BY <1>1, <1>2, <1>4, <1>7 DEF Promise!End
<1> QED BY <1>8 DEF Promise!Next

LEMMA PromisePoolStep ==
  ASSUME RowInv, ControlInv, TokenInv, PoolStep \/ OperatorCancel \/ OperatorHard
  PROVE  [Promise!Next]_Promise!vars
<1>1. CASE SpawnWorker \/ StartTasks \/ OperatorHard
  <2>1. UNCHANGED PromiseVars
    BY <1>1 DEF PromiseVars, SpawnWorker, StartTasks, OperatorHard, PoolFrame, poolVars,
       tokenVars, accVars, workerVars, logVars
  <2> QED BY <2>1, AttemptUnmoved
<1>2. CASE SpawnFails \/ NotifyMonitor \/ OperatorCancel
  <2>1. UNCHANGED <<written, dropped, wbatch, accErr, werr, report>>
    BY <1>2 DEF SpawnFails, NotifyMonitor, OperatorCancel, PoolFrame, poolVars, accVars,
       workerVars, logVars
  <2>2. cancel' = TRUE
    BY <1>2 DEF SpawnFails, NotifyMonitor, OperatorCancel
  <2>3. cancel \in BOOLEAN /\ (report # "none" => cancel)
    BY DEF RowInv, TypeOK, TypePool, ControlInv, TokenInv
  <2> QED BY <2>1, <2>2, <2>3, PromiseFire
<1>3. CASE StartupReport \/ FinalReport
  BY <1>3, PromiseEnd
<1> QED BY <1>1, <1>2, <1>3 DEF PoolStep

-----------------------------------------------------------------------------
(* The two ways a row leaves the pipeline.                                  *)
LEMMA MoveAbandoned ==
  ASSUME NEW S \in SUBSET Seqs, \A s \in S : s \notin Recorded,
         UNCHANGED written, dropped' = dropped \cup S,
         \A s \in Seqs : s \notin S => (s \in InWorker' <=> s \in InWorker)
  PROVE  Promise!Move(S, "abandoned")
<1>1. ASSUME NEW s \in S PROVE Stage(s)' = "abandoned"
  BY <1>1 DEF Recorded, Stage
<1>2. ASSUME NEW s \in Seqs, s \notin S PROVE Stage(s)' = Stage(s)
  BY <1>2, StageKept
<1> QED BY <1>1, <1>2, StageMove

LEMMA MoveRecorded ==
  ASSUME TypeOK, NEW S \in SUBSET Seqs, NEW out \in [Seqs -> Kinds \cup {"none"}],
         AppendLine(S, out), UNCHANGED dropped,
         \A s \in Seqs : s \notin S => (s \in InWorker' <=> s \in InWorker)
  PROVE  Promise!Move(S, "recorded")
<1>1. ASSUME NEW s \in S PROVE Stage(s)' = "recorded"
  <2>1. written'[s] = Append(written[s], out[s])
    BY <1>1 DEF AppendLine
  <2>2. written[s] \in Seq(Kinds \cup {"none"}) /\ out[s] \in Kinds \cup {"none"}
    BY DEF TypeOK, TypeLog
  <2>3. Append(written[s], out[s]) # <<>>
    BY <2>2, AppendProperties
  <2> QED BY <2>1, <2>3 DEF Stage
<1>2. ASSUME NEW s \in Seqs, s \notin S PROVE Stage(s)' = Stage(s)
  <2>1. written'[s] = written[s]
    BY <1>2 DEF AppendLine
  <2> QED BY <1>2, <2>1, StageKept
<1> QED BY <1>1, <1>2, StageMove

LEMMA PromiseAccStep ==
  ASSUME RowInv, ControlInv, TokenInv, AccStep
  PROVE  [Promise!Next]_Promise!vars
<1>1. UNCHANGED <<ppc, report, cancel, wbatch, werr>> /\ apc \in {"recv", "flush", "flush_eof"}
  BY DEF AccStep, AccCancelled, AccEof, AccSend, AccFlushCancelled, AccTooLarge,
         AccAppendFails, AccByteFlush, AccPush, Receives, AccFrame, poolVars, tokenVars,
         workerVars
<1>2. report = "none" /\ accErr = "none"
  BY <1>1 DEF RowInv, TypeOK, TypePool, ControlInv, TokenInv
<1>3. InWorker' = InWorker
  BY <1>1 DEF InWorker
<1>4. (accErr' # "io" => AppendFailed' = AppendFailed) /\ (accErr' = "io" => AppendFailed')
  BY <1>1, <1>2 DEF AppendFailed
<1>5. /\ pending \in SUBSET Seqs /\ taken \in SUBSET Seqs /\ held \in SUBSET Seqs
      /\ \A s \in Accumulating : s \notin Recorded
  BY DEF RowInv, TypeOK, TypeAcc, OnePlace
<1>6. CASE AccCancelled \/ AccFlushCancelled
  <2> DEFINE S == IF AccCancelled THEN pending ELSE taken \cup held
  <2>1. /\ S \in SUBSET Seqs /\ S \subseteq Accumulating /\ UNCHANGED written /\ cancel
        /\ dropped' = dropped \cup S /\ accErr' # "io"
    BY <1>2, <1>5, <1>6 DEF AccCancelled, AccFlushCancelled, Accumulating, logVars
  <2> HIDE DEF S
  <2>2. \A s \in S : s \notin Recorded /\ Stage(s) = "waiting"
    BY <1>5, <2>1, StageOfPlace
  <2>3. Promise!Move(S, "abandoned")
    BY <1>3, <2>1, <2>2, MoveAbandoned
  <2>4. S \in SUBSET Promise!In("waiting")
    BY <2>1, <2>2, StageMembers
  <2>5. Promise!Drop
    BY <1>1, <1>2, <1>4, <2>1, <2>3, <2>4 DEF Promise!Drop
  <2> QED BY <2>5 DEF Promise!Next
<1>7. ASSUME NEW s \in Seqs, AccTooLarge(s) PROVE [Promise!Next]_Promise!vars
  <2>1. /\ Receives(s) /\ ~cancel /\ AppendLine({s}, [NoOutcome EXCEPT ![s] = "too_large"])
        /\ UNCHANGED <<accErr, dropped>>
    BY <1>7 DEF AccTooLarge, Receives, accVars
  <2>2. s \in Elems(rowQ) /\ {s} \in SUBSET Seqs
    BY <2>1, Received
  <2>3. [NoOutcome EXCEPT ![s] = "too_large"] \in [Seqs -> Kinds \cup {"none"}]
    BY DEF NoOutcome, Kinds
  <2>4. Promise!Move({s}, "recorded")
    BY <1>3, <2>1, <2>2, <2>3, MoveRecorded DEF RowInv
  <2>5. s \in Promise!In("waiting")
    BY <2>2, StageOfPlace DEF Promise!In
  <2>6. Promise!Refuse
    BY <1>1, <1>2, <1>4, <2>1, <2>4, <2>5 DEF Promise!Refuse
  <2> QED BY <2>6 DEF Promise!Next
<1>8. ASSUME NEW s \in Seqs, AccAppendFails(s) PROVE [Promise!Next]_Promise!vars
  <2> DEFINE S == pending \cup {s}
  <2>1. /\ Receives(s) /\ UNCHANGED written /\ dropped' = dropped \cup S /\ accErr' = "io"
    BY <1>8 DEF AccAppendFails, logVars
  <2>2. s \in Elems(rowQ) /\ S \in SUBSET Seqs
    BY <1>5, <2>1, Received
  <2>3. S \subseteq Elems(rowQ) \cup Accumulating
    BY <2>2 DEF Accumulating
  <2> HIDE DEF S
  <2>4. \A r \in S : r \notin Recorded /\ Stage(r) = "waiting"
    BY <2>2, <2>3, StageOfPlace DEF RowInv, OnePlace
  <2>5. Promise!Move(S, "abandoned")
    BY <1>3, <2>1, <2>2, <2>4, MoveAbandoned
  <2>6. S \in SUBSET Promise!In("waiting")
    BY <2>2, <2>4, StageMembers
  <2>7. Promise!Fail
    BY <1>1, <1>2, <1>4, <2>1, <2>5, <2>6 DEF Promise!Fail
  <2> QED BY <2>7 DEF Promise!Next
<1>9. CASE AccEof \/ AccSend \/ \E s \in Seqs : AccByteFlush(s) \/ AccPush(s)
  <2>1. UNCHANGED PromiseVars
    BY <1>1, <1>9 DEF PromiseVars, AccEof, AccSend, AccByteFlush, AccPush, logVars
  <2> QED BY <2>1, AttemptUnmoved
<1> QED BY <1>6, <1>7, <1>8, <1>9 DEF AccStep

LEMMA PromiseWorkerStep ==
  ASSUME RowInv, ControlInv, TokenInv, NEW w \in Workers, WorkerStep(w)
  PROVE  [Promise!Next]_Promise!vars
<1>1. UNCHANGED <<report, cancel, accErr>>
  BY DEF WorkerStep, WLock, WPull, WPullNone, WSend, WSendFails, WRecv, WRecvEof,
         WRecvCancelled, WWrite, WWriteFails, WHardKill, WShutdown, WShutdownDone,
         WEscalate, Exit, WorkerFrame, poolVars, tokenVars, accVars
<1>2. report = "none"
  <2>1. wpc[w] \notin {"unspawned", "exited"}
    BY DEF WorkerStep, WLock, WPull, WPullNone, WSend, WSendFails, WRecv, WRecvEof,
         WRecvCancelled, WWrite, WWriteFails, WHardKill, WShutdown, WShutdownDone, WEscalate
  <2>2. ~WorkersJoined
    BY <2>1 DEF WorkersJoined
  <2> QED BY <2>2 DEF ControlInv
<1>3. wbatch[w] \in SUBSET Seqs /\ wbatch[w] \subseteq InWorker
  BY DEF InWorker, RowInv, TypeOK, TypeWorkers
<1>4. CASE WPull(w)
  <2>1. /\ jobQ \in Seq(SUBSET Seqs) /\ jobQ # <<>>
        /\ wbatch' = [wbatch EXCEPT ![w] = Head(jobQ)] /\ wbatch[w] = {}
        /\ ~cancel /\ UNCHANGED <<written, dropped, werr>>
    BY <1>4 DEF WPull, RowInv, TypeOK, TypeQueues, Phases, logVars
  <2>2. Head(jobQ) \in SUBSET Seqs /\ Head(jobQ) \subseteq InJobQ
    BY <2>1, ElemsOfTail DEF InJobQ
  <2>3. Head(jobQ) \cap InWorker = {}
    BY <2>2 DEF RowInv, OnePlace
  <2>4. InWorker' = (InWorker \ wbatch[w]) \cup Head(jobQ)
    BY <2>1, <2>2, <2>3, WorkerBatchChanged
  <2>5. InWorker' = InWorker \cup Head(jobQ)
    BY <2>1, <2>4
  <2>6. ASSUME NEW s \in Head(jobQ) PROVE Stage(s) = "waiting" /\ Stage(s)' = "claimed"
    <3>1. s \notin Recorded /\ s \notin dropped /\ s \in Seqs /\ s \in InWorker'
      BY <2>2, <2>5 DEF RowInv, OnePlace
    <3>2. Stage(s) = "waiting"
      BY <2>2, <3>1, StageOfPlace
    <3>3. Stage(s)' = "claimed"
      BY <2>1, <3>1 DEF Stage, Recorded
    <3> QED BY <3>2, <3>3
  <2>7. ASSUME NEW s \in Seqs, s \notin Head(jobQ) PROVE Stage(s)' = Stage(s)
    BY <2>1, <2>5, <2>7, StageKept
  <2>8. Promise!Move(Head(jobQ), "claimed")
    BY <2>2, <2>6, <2>7, StageMove
  <2>9. Head(jobQ) \in SUBSET Promise!In("waiting")
    BY <2>2, <2>6, StageMembers
  <2>10. AppendFailed' = AppendFailed
    BY <1>1, <2>1 DEF AppendFailed
  <2>11. Promise!Claim
    BY <1>1, <1>2, <2>1, <2>8, <2>9, <2>10 DEF Promise!Claim
  <2> QED BY <2>11 DEF Promise!Next
<1>5. CASE WWrite(w) \/ WWriteFails(w)
  <2>1. wbatch' = [wbatch EXCEPT ![w] = {}]
    BY <1>5 DEF WWrite, WWriteFails
  <2>2. \A s \in Seqs : s \notin wbatch[w] => (s \in InWorker' <=> s \in InWorker)
    <3>1. wbatch \in [Workers -> SUBSET Seqs]
      BY DEF RowInv, TypeOK, TypeWorkers
    <3>2. \A v \in Workers : wbatch'[v] = IF v = w THEN {} ELSE wbatch[v]
      BY <2>1, <3>1
    <3> QED BY <3>2 DEF InWorker
  <2>3. \A s \in wbatch[w] : s \notin Recorded /\ Stage(s) = "claimed"
    BY <1>3, StageOfPlace DEF RowInv, OnePlace
  <2>4. wbatch[w] \in SUBSET Promise!In("claimed")
    BY <1>3, <2>3, StageMembers
  <2>5. CASE WWrite(w)
    <3>1. AppendLine(wbatch[w], wout[w]) /\ UNCHANGED <<dropped, werr>>
      BY <2>5 DEF WWrite
    <3>2. wout[w] \in [Seqs -> Kinds \cup {"none"}] /\ TypeOK
      BY DEF RowInv, TypeOK, TypeWorkers
    <3>3. Promise!Move(wbatch[w], "recorded")
      BY <1>3, <2>2, <3>1, <3>2, MoveRecorded
    <3>4. AppendFailed' = AppendFailed
      BY <1>1, <3>1 DEF AppendFailed
    <3>5. Promise!Record
      BY <1>1, <1>2, <2>4, <3>3, <3>4 DEF Promise!Record
    <3> QED BY <3>5 DEF Promise!Next
  <2>6. CASE WWriteFails(w)
    <3>1. UNCHANGED written /\ dropped' = dropped \cup wbatch[w]
      BY <2>6 DEF WWriteFails, logVars
    <3>2. Promise!Move(wbatch[w], "abandoned")
      BY <1>3, <2>2, <2>3, <3>1, MoveAbandoned
    <3>3. AppendFailed' = TRUE
      BY <2>6 DEF WWriteFails, AppendFailed, RowInv, TypeOK, TypeWorkers
    <3>4. Promise!Fail
      BY <1>1, <1>2, <2>4, <3>2, <3>3 DEF Promise!Fail
    <3> QED BY <3>4 DEF Promise!Next
  <2> QED BY <1>5, <2>5, <2>6
<1>6. CASE ~(WPull(w) \/ WWrite(w) \/ WWriteFails(w))
  <2>1. UNCHANGED <<written, dropped, wbatch, werr>>
    BY <1>6 DEF WorkerStep, WLock, WPullNone, WSend, WSendFails, WRecv, WRecvEof,
         WRecvCancelled, WHardKill, WShutdown, WShutdownDone, WEscalate, Exit, logVars
  <2> QED BY <1>1, <2>1, AttemptUnmoved DEF PromiseVars
<1> QED BY <1>4, <1>5, <1>6

-----------------------------------------------------------------------------
LEMMA InitPromise == Init => Promise!Init
<1> SUFFICES ASSUME Init PROVE Promise!Init
  OBVIOUS
<1>1. InWorker = {}
  BY DEF Init, InWorker
<1>2. \A s \in Seqs : Stage(s) = "waiting"
  BY <1>1 DEF Init, Stage
<1>3. ~AppendFailed
  BY DEF Init, AppendFailed
<1> QED BY <1>2, <1>3 DEF Init, Promise!Init

LEMMA PromiseStep ==
  RowInv /\ ControlInv /\ TokenInv /\ [Next]_vars => [Promise!Next]_Promise!vars
<1> SUFFICES ASSUME RowInv, ControlInv, TokenInv, [Next]_vars
             PROVE  [Promise!Next]_Promise!vars
  OBVIOUS
<1>1. CASE UNCHANGED vars
  <2>1. UNCHANGED PromiseVars
    BY <1>1 DEF PromiseVars, vars, poolVars, tokenVars, accVars, workerVars, logVars
  <2> QED BY <2>1, AttemptUnmoved
<1>2. CASE Next
  BY <1>1, <1>2, PromiseReaderStep, PromiseAccStep, PromiseMonStep, PromiseWorkerStep,
     PromiseHandlerStep, PromisePoolStep DEF Next, Finished
<1> QED BY <1>1, <1>2

(* Whatever crashes, stalls, is cancelled or cannot be written, the whole   *)
(* pipeline does to a row only what one attempt promises: it is claimed     *)
(* once and never after a cancellation, recorded once, and abandoned in     *)
(* hand only when an append has failed; nothing follows the report          *)
(* (run_pool_streaming and every task it starts, for any number of workers, *)
(* any caps and any channel capacities).                                    *)
THEOREM PipelineImplementsAttempt == Spec => ImplementsAttempt
<1>1. Init => Promise!Init
  BY InitPromise
<1>2. RowInv /\ ControlInv /\ TokenInv /\ [Next]_vars => [Promise!Next]_Promise!vars
  BY PromiseStep
<1> QED BY <1>1, <1>2, TokenInvariant, PTL DEF Spec, ImplementsAttempt, Promise!Spec

-----------------------------------------------------------------------------
(* Oversized rows reach no handler.                                         *)

LEMMA InitSize == Init => SizeInv
BY DEF Init, SizeInv, OnTheirWay, NotDecided, Labelled, Accumulating, InJobQ, InWorker, Elems, NoOutcome

(* Rows change places without an oversized one entering any of them.        *)
LEMMA NoNewOversize ==
  ASSUME OnTheirWay,
         \A s \in Seqs : Oversize(s) =>
           /\ s \in Accumulating' => s \in Accumulating
           /\ s \in InJobQ' => s \in InJobQ \/ s \in Accumulating
           /\ s \in InWorker' => s \in InWorker \/ s \in InJobQ
           /\ s \in delivered' => s \in delivered \/ s \in InWorker
  PROVE  OnTheirWay'
BY DEF OnTheirWay, Oversize

LEMMA LabelledUnchanged == Labelled /\ UNCHANGED written => Labelled'
BY DEF Labelled, Oversize

(* A line that labels its rows rightly.                                     *)
LEMMA LabelledAppend ==
  ASSUME TypeOK, Labelled, NEW batch \in SUBSET Seqs,
         NEW out \in [Seqs -> Kinds \cup {"none"}], AppendLine(batch, out),
         \A s \in batch : (out[s] = "too_large") = Oversize(s)
  PROVE  Labelled'
<1> SUFFICES ASSUME NEW s \in Seqs, NEW i \in DOMAIN written'[s]
             PROVE  (written'[s][i] = "too_large") = Oversize(s)
  BY DEF Labelled, Oversize
<1>1. CASE s \notin batch
  BY <1>1 DEF AppendLine, Labelled
<1>2. CASE s \in batch
  <2>1. written'[s] = Append(written[s], out[s])
    BY <1>2 DEF AppendLine
  <2>2. written[s] \in Seq(Kinds \cup {"none"}) /\ out[s] \in Kinds \cup {"none"}
    BY DEF TypeOK, TypeLog
  <2>3. /\ Len(written[s]) \in Nat /\ DOMAIN written[s] = 1 .. Len(written[s])
        /\ DOMAIN written'[s] = 1 .. Len(written[s]) + 1
        /\ \A j \in 1 .. Len(written[s]) : written'[s][j] = written[s][j]
        /\ written'[s][Len(written[s]) + 1] = out[s]
    BY <2>1, <2>2, LenProperties, AppendProperties
  <2>4. CASE i = Len(written[s]) + 1
    BY <1>2, <2>3, <2>4
  <2>5. CASE i \in DOMAIN written[s]
    BY <2>3, <2>5 DEF Labelled
  <2> QED BY <2>3, <2>4, <2>5
<1> QED BY <1>1, <1>2

LEMMA SizeUnmoved ==
  ASSUME SizeInv, UNCHANGED <<pending, taken, held, jobQ, wbatch, delivered, wout, written>>
  PROVE  SizeInv'
BY DEF SizeInv, OnTheirWay, NotDecided, Labelled, Accumulating, InJobQ, InWorker, Oversize

LEMMA SizeAccStep ==
  ASSUME RowInv, SizeInv, AccStep
  PROVE  SizeInv'
<1>1. OnTheirWay /\ NotDecided /\ Labelled
  BY DEF SizeInv
<1>2. UNCHANGED <<wbatch, wout, delivered>>
  BY DEF AccStep, AccCancelled, AccEof, AccSend, AccFlushCancelled, AccTooLarge,
         AccAppendFails, AccByteFlush, AccPush, AccFrame, workerVars
<1>3. InWorker' = InWorker
  BY <1>2 DEF InWorker
<1>4. NotDecided'
  BY <1>1, <1>2 DEF NotDecided
<1>5. Labelled'
  <2>1. ASSUME NEW s \in Seqs, AccTooLarge(s) PROVE Labelled'
    <3> DEFINE out == [NoOutcome EXCEPT ![s] = "too_large"]
    <3>1. out \in [Seqs -> Kinds \cup {"none"}] /\ out[s] = "too_large"
      BY DEF NoOutcome, Kinds
    <3>2. AppendLine({s}, out) /\ Oversize(s)
      BY <2>1 DEF AccTooLarge
    <3>3. \A t \in {s} : (out[t] = "too_large") = Oversize(t)
      BY <3>1, <3>2
    <3>4. TypeOK /\ {s} \in SUBSET Seqs
      BY DEF RowInv
    <3> HIDE DEF out
    <3> QED BY <1>1, <3>1, <3>2, <3>3, <3>4, LabelledAppend
  <2>2. CASE UNCHANGED logVars
    BY <1>1, <2>2, LabelledUnchanged DEF logVars
  <2> QED BY <2>1, <2>2 DEF AccStep, AccCancelled, AccEof, AccSend, AccFlushCancelled,
        AccAppendFails, AccByteFlush, AccPush
<1>6. OnTheirWay'
  <2>1. \A s \in Seqs : Oversize(s) => (s \in Accumulating' => s \in Accumulating)
    BY DEF AccStep, AccCancelled, AccEof, AccSend, AccFlushCancelled, AccTooLarge,
           AccAppendFails, AccByteFlush, AccPush, accVars, Accumulating
  <2>2. \A s \in Seqs : s \in InJobQ' => s \in InJobQ \/ s \in Accumulating
    <3>1. CASE AccSend
      <4>1. jobQ \in Seq(SUBSET Seqs) /\ taken \in SUBSET Seqs
        BY DEF RowInv, TypeOK, TypeQueues, TypeAcc
      <4>2. Elems(jobQ)' = Elems(jobQ) \cup {taken}
        BY <3>1, <4>1, ElemsOfAppend DEF AccSend
      <4> QED BY <4>2 DEF InJobQ, Accumulating
    <3>2. CASE UNCHANGED jobQ
      BY <3>2 DEF InJobQ
    <3> QED BY <3>1, <3>2 DEF AccStep, AccCancelled, AccEof, AccFlushCancelled, AccTooLarge,
          AccAppendFails, AccByteFlush, AccPush
  <2> QED BY <1>1, <1>2, <1>3, <2>1, <2>2, NoNewOversize
<1> QED BY <1>4, <1>5, <1>6 DEF SizeInv

LEMMA SizeWorkerStep ==
  ASSUME RowInv, SizeInv, NEW w \in Workers, WorkerStep(w)
  PROVE  SizeInv'
<1>1. OnTheirWay /\ NotDecided /\ Labelled
  BY DEF SizeInv
<1>2. UNCHANGED <<pending, taken, held>>
  BY DEF WorkerStep, WLock, WPull, WPullNone, WSend, WSendFails, WRecv, WRecvEof,
         WRecvCancelled, WWrite, WWriteFails, WHardKill, WShutdown, WShutdownDone,
         WEscalate, Exit, WorkerFrame, accVars
<1>3. Accumulating' = Accumulating
  BY <1>2 DEF Accumulating
<1>4. /\ wbatch \in [Workers -> SUBSET Seqs] /\ jobQ \in Seq(SUBSET Seqs)
      /\ wout \in [Workers -> [Seqs -> Kinds \cup {"none"}]]
  BY DEF RowInv, TypeOK, TypeWorkers, TypeQueues
<1>5. wbatch[w] \subseteq InWorker
  BY DEF InWorker
<1>6. OnTheirWay'
  <2>1. \A s \in Seqs : s \in InJobQ' => s \in InJobQ
    <3>1. CASE WPull(w)
      BY <1>4, <3>1, ElemsOfTail DEF WPull, InJobQ
    <3>2. CASE UNCHANGED jobQ
      BY <3>2 DEF InJobQ
    <3> QED BY <3>1, <3>2 DEF WorkerStep, WLock, WPullNone, WSend, WSendFails, WRecv,
          WRecvEof, WRecvCancelled, WWrite, WWriteFails, WHardKill, WShutdown,
          WShutdownDone, WEscalate, Exit
  <2>2. \A s \in Seqs : s \in InWorker' => s \in InWorker \/ s \in InJobQ
    <3>1. CASE WPull(w)
      <4>1. Head(jobQ) \in Elems(jobQ)
        BY <1>4, <3>1, ElemsOfTail DEF WPull
      <4>2. \A v \in Workers : wbatch'[v] = IF v = w THEN Head(jobQ) ELSE wbatch[v]
        BY <1>4, <3>1 DEF WPull
      <4> QED BY <4>1, <4>2 DEF InWorker, InJobQ
    <3>2. CASE WWrite(w) \/ WWriteFails(w)
      <4>1. \A v \in Workers : wbatch'[v] \subseteq wbatch[v]
        BY <1>4, <3>2 DEF WWrite, WWriteFails
      <4> QED BY <4>1 DEF InWorker
    <3>3. CASE UNCHANGED wbatch
      BY <3>3 DEF InWorker
    <3> QED BY <3>1, <3>2, <3>3 DEF WorkerStep, WLock, WPullNone, WSend, WSendFails, WRecv,
          WRecvEof, WRecvCancelled, WHardKill, WShutdown, WShutdownDone, WEscalate, Exit
  <2>3. \A s \in Seqs : s \in delivered' => s \in delivered \/ s \in InWorker
    BY <1>5 DEF WorkerStep, WLock, WPull, WPullNone, WSend, WSendFails, WRecv, WRecvEof,
         WRecvCancelled, WWrite, WWriteFails, WHardKill, WShutdown, WShutdownDone,
         WEscalate, Exit
  <2> QED BY <1>1, <1>3, <2>1, <2>2, <2>3, NoNewOversize
<1>7. Labelled'
  <2>1. CASE WWrite(w)
    <3>1. AppendLine(wbatch[w], wout[w])
      BY <2>1 DEF WWrite
    <3>2. wbatch[w] \in SUBSET Seqs /\ wout[w] \in [Seqs -> Kinds \cup {"none"}]
      BY <1>4
    <3>3. ASSUME NEW s \in wbatch[w] PROVE (wout[w][s] = "too_large") = Oversize(s)
      <4>1. s \in Seqs /\ s \in InWorker
        BY <1>5, <3>2
      <4>2. ~Oversize(s) /\ wout[w][s] # "too_large"
        BY <1>1, <4>1 DEF OnTheirWay, NotDecided
      <4> QED BY <4>2 DEF Oversize
    <3>4. TypeOK
      BY DEF RowInv
    <3> QED BY <1>1, <3>1, <3>2, <3>3, <3>4, LabelledAppend
  <2>2. CASE UNCHANGED logVars
    BY <1>1, <2>2, LabelledUnchanged DEF logVars
  <2> QED BY <2>1, <2>2 DEF WorkerStep, WLock, WPull, WPullNone, WSend, WSendFails, WRecv,
        WRecvEof, WRecvCancelled, WWriteFails, WHardKill, WShutdown, WShutdownDone,
        WEscalate, Exit
<1>8. NotDecided'
  <2>1. ASSUME NEW k, NEW next, Decide(w, k, next),
               \A s \in wbatch[w] : s \in Seqs => k[s] # "too_large"
        PROVE  NotDecided'
    <3>1. \A v \in Workers : v # w => wout'[v] = wout[v]
      BY <1>4, <2>1 DEF Decide
    <3>2. \A s \in Seqs : wout'[w][s] = IF s \in wbatch[w] THEN k[s] ELSE "none"
      BY <1>4, <2>1 DEF Decide
    <3> QED BY <1>1, <2>1, <3>1, <3>2 DEF NotDecided
  <2>2. CASE WSendFails(w) \/ WRecvEof(w) \/ WRecvCancelled(w)
    BY <2>1, <2>2 DEF WSendFails, WRecvEof, WRecvCancelled, Crashed
  <2>3. CASE WRecv(w)
    <3> DEFINE r == Head(hout[w])
               k == IF r.ok /\ Cardinality(r.rows) = Cardinality(wbatch[w])
                    THEN Aligned(wbatch[w], r.rows) ELSE ProtocolError
    <3>1. Decide(w, k, "write")
      BY <2>3 DEF WRecv
    <3>2. hout[w] \in Seq(Replies) /\ hout[w] # <<>>
      BY <2>3 DEF WRecv, RowInv, TypeOK, TypeHandlers
    <3>3. r.rows \in SUBSET Seqs
      <4>1. r \in Replies
        BY <3>2, ElemsOfTail
      <4> QED BY <4>1 DEF Replies
    <3>4. ASSUME NEW s \in wbatch[w], s \in Seqs PROVE k[s] # "too_large"
      <4>1. CASE r.ok /\ Cardinality(r.rows) = Cardinality(wbatch[w])
        <5>1. wbatch[w] \in SUBSET Seqs
          BY <1>4
        <5>2. Counterpart(wbatch[w], r.rows, s) \in Seqs
          BY <3>3, <4>1, <5>1, CounterpartIsAnswer
        <5>3. k[s] = Verdict[Counterpart(wbatch[w], r.rows, s)]
          BY <3>4, <4>1 DEF Aligned
        <5>4. k[s] \in {"success", "error"}
          BY <5>2, <5>3, PipelineAssumption
        <5> QED BY <5>4
      <4>2. CASE ~(r.ok /\ Cardinality(r.rows) = Cardinality(wbatch[w]))
        BY <3>4, <4>2 DEF ProtocolError
      <4> QED BY <4>1, <4>2
    <3> HIDE DEF k
    <3> QED BY <2>1, <3>1, <3>4
  <2>4. CASE WWrite(w) \/ WWriteFails(w)
    BY <1>1, <1>4, <2>4 DEF WWrite, WWriteFails, NoOutcome, NotDecided
  <2>5. CASE UNCHANGED wout
    BY <1>1, <2>5 DEF NotDecided
  <2> QED BY <2>2, <2>3, <2>4, <2>5 DEF WorkerStep, WLock, WPull, WPullNone, WSend,
        WHardKill, WShutdown, WShutdownDone, WEscalate, Exit
<1> QED BY <1>6, <1>7, <1>8 DEF SizeInv

LEMMA SizeOtherStep ==
  ASSUME SizeInv,
         \/ \E w \in Workers : HandlerStep(w)
         \/ ReaderStep \/ MonStep \/ PoolStep \/ OperatorCancel \/ OperatorHard
         \/ UNCHANGED vars
  PROVE  SizeInv'
<1> SUFFICES UNCHANGED <<pending, taken, held, jobQ, wbatch, delivered, wout, written>>
  BY SizeUnmoved
<1>1. CASE \E w \in Workers : HandlerStep(w)
  BY <1>1 DEF HandlerStep, HAnswer, HMisanswer, HEcho, HCrash, Answers, HandlerFrame,
         WorkerFrame, accVars, workerVars, logVars
<1>2. CASE ReaderStep
  BY <1>2 DEF ReaderStep, ReaderEof, ReaderCancelled, ReaderSkip, ReaderLimit, ReaderPick,
         ReaderSend, ReaderSendStop, ReaderFrame, accVars, workerVars, logVars
<1>3. CASE MonStep
  BY <1>3 DEF MonStep, MonCancelled, MonGrowth, MonStart, MonExpired, MonFire, MonFrame,
         accVars, workerVars
<1>4. CASE PoolStep \/ OperatorCancel \/ OperatorHard
  BY <1>4 DEF PoolStep, SpawnWorker, StartTasks, SpawnFails, StartupReport, NotifyMonitor,
         FinalReport, OperatorCancel, OperatorHard, PoolFrame, accVars, workerVars, logVars
<1>5. CASE UNCHANGED vars
  BY <1>5 DEF vars, accVars, workerVars, logVars
<1> QED BY <1>1, <1>2, <1>3, <1>4, <1>5

(* An oversized row is recorded as ROW_TOO_LARGE, is given to no handler,   *)
(* and no other row is recorded so (step 1 of accumulator_task).            *)
THEOREM OversizeRefused == Spec => []TooLargeNeverDelivered
<1>1. Init => RowInv /\ SizeInv
  BY InitRows, InitSize
<1>2. RowInv /\ SizeInv /\ [Next]_vars => RowInv' /\ SizeInv'
  BY RowsStep, SizeAccStep, SizeWorkerStep, SizeOtherStep DEF Next, Finished
<1>3. RowInv /\ SizeInv => TooLargeNeverDelivered
  BY DEF SizeInv, OnTheirWay, Labelled, TooLargeNeverDelivered
<1> QED BY <1>1, <1>2, <1>3, PTL DEF Spec

-----------------------------------------------------------------------------
(* Answers reach the rows they are about.                                   *)

(* What a line adds to the log: to each row of the batch its outcome.       *)
LEMMA AppendedLine ==
  ASSUME TypeOK, NEW batch \in SUBSET Seqs, NEW out \in [Seqs -> Kinds \cup {"none"}],
         AppendLine(batch, out), NEW s \in Seqs, NEW i \in DOMAIN written'[s]
  PROVE  \/ i \in DOMAIN written[s] /\ written'[s][i] = written[s][i]
         \/ s \in batch /\ written'[s][i] = out[s]
<1>1. CASE s \notin batch
  BY <1>1 DEF AppendLine
<1>2. CASE s \in batch
  <2>1. written'[s] = Append(written[s], out[s])
    BY <1>2 DEF AppendLine
  <2>2. written[s] \in Seq(Kinds \cup {"none"}) /\ out[s] \in Kinds \cup {"none"}
    BY DEF TypeOK, TypeLog
  <2>3. /\ Len(written[s]) \in Nat /\ DOMAIN written[s] = 1 .. Len(written[s])
        /\ DOMAIN written'[s] = 1 .. Len(written[s]) + 1
        /\ \A j \in 1 .. Len(written[s]) : written'[s][j] = written[s][j]
        /\ written'[s][Len(written[s]) + 1] = out[s]
    BY <2>1, <2>2, LenProperties, AppendProperties
  <2> QED BY <1>2, <2>3
<1> QED BY <1>1, <1>2

LEMMA InitAnswers == Init => AnswerInv
BY DEF Init, AnswerInv, Pipes, TrueAnswer, NoOutcome

LEMMA AnswersUnmoved ==
  ASSUME AnswerInv,
         UNCHANGED <<wpc, wbatch, wout, hstate, hin, hout, written, delivered>>
  PROVE  AnswerInv'
BY DEF AnswerInv, Pipes, InStep, TrueAnswer

(* The rows delivered only become more, which makes no answer wrong.        *)
LEMMA TrueAnswerKept ==
  ASSUME delivered \subseteq delivered', NEW s, NEW kind, TrueAnswer(s, kind)
  PROVE  TrueAnswer(s, kind)'
BY DEF TrueAnswer

LEMMA LoggedKept ==
  ASSUME AnswerInv, UNCHANGED written, delivered \subseteq delivered'
  PROVE  \A s \in Seqs : \A i \in DOMAIN written'[s] : TrueAnswer(s, written[s][i])'
<1> SUFFICES ASSUME NEW s \in Seqs, NEW i \in DOMAIN written[s]
             PROVE  TrueAnswer(s, written[s][i])'
  OBVIOUS
<1>1. TrueAnswer(s, written[s][i])
  BY DEF AnswerInv
<1> QED BY <1>1 DEF TrueAnswer

LEMMA LoggedAppend ==
  ASSUME TypeOK, AnswerInv, NEW batch \in SUBSET Seqs,
         NEW out \in [Seqs -> Kinds \cup {"none"}], AppendLine(batch, out),
         UNCHANGED delivered, \A s \in batch : TrueAnswer(s, out[s])
  PROVE  \A s \in Seqs : \A i \in DOMAIN written'[s] : TrueAnswer(s, written[s][i])'
<1> SUFFICES ASSUME NEW s \in Seqs, NEW i \in DOMAIN written'[s]
             PROVE  TrueAnswer(s, written[s][i])'
  OBVIOUS
<1>1. CASE i \in DOMAIN written[s] /\ written'[s][i] = written[s][i]
  <2>1. TrueAnswer(s, written[s][i])
    BY <1>1 DEF AnswerInv
  <2> QED BY <1>1, <2>1 DEF TrueAnswer
<1>2. CASE s \in batch /\ written'[s][i] = out[s]
  <2>1. TrueAnswer(s, out[s])
    BY <1>2
  <2> QED BY <1>2, <2>1 DEF TrueAnswer
<1> QED BY <1>1, <1>2, AppendedLine

LEMMA AnswersAccStep ==
  ASSUME RowInv, AnswerInv, AccStep
  PROVE  AnswerInv'
<1>1. UNCHANGED <<wpc, wbatch, wout, hstate, hin, hout, delivered>>
  BY DEF AccStep, AccCancelled, AccEof, AccSend, AccFlushCancelled, AccTooLarge,
         AccAppendFails, AccByteFlush, AccPush, AccFrame, workerVars, handlerVars
<1>2. CASE UNCHANGED logVars
  BY <1>1, <1>2, AnswersUnmoved DEF logVars
<1>3. ASSUME NEW s \in Seqs, AccTooLarge(s) PROVE AnswerInv'
  <2> DEFINE out == [NoOutcome EXCEPT ![s] = "too_large"]
  <2>1. out \in [Seqs -> Kinds \cup {"none"}] /\ out[s] = "too_large"
    BY DEF NoOutcome, Kinds
  <2>2. AppendLine({s}, out) /\ TypeOK /\ {s} \in SUBSET Seqs
    BY <1>3 DEF AccTooLarge, RowInv
  <2>3. \A r \in {s} : TrueAnswer(r, out[r])
    BY <2>1 DEF TrueAnswer
  <2> HIDE DEF out
  <2>4. \A r \in Seqs : \A i \in DOMAIN written'[r] : TrueAnswer(r, written[r][i])'
    BY <1>1, <2>1, <2>2, <2>3, LoggedAppend
  <2> QED BY <1>1, <2>4 DEF AnswerInv, Pipes, InStep, TrueAnswer
<1> QED BY <1>2, <1>3 DEF AccStep, AccCancelled, AccEof, AccSend, AccFlushCancelled,
      AccAppendFails, AccByteFlush, AccPush

LEMMA DeliveredGrows ==
  ASSUME NEW w \in Workers, WorkerStep(w)
  PROVE  delivered \subseteq delivered'
BY DEF WorkerStep, WLock, WPull, WPullNone, WSend, WSendFails, WRecv, WRecvEof,
       WRecvCancelled, WWrite, WWriteFails, WHardKill, WShutdown, WShutdownDone,
       WEscalate, Exit

(* The pipes of the other workers are left alone.                           *)
LEMMA PipesElsewhere ==
  ASSUME AnswerInv, delivered \subseteq delivered', NEW v \in Workers,
         wpc'[v] = wpc[v], wbatch'[v] = wbatch[v],
         hstate'[v] = hstate[v], hin'[v] = hin[v], hout'[v] = hout[v]
  PROVE  Pipes(v)'
BY DEF AnswerInv, Pipes, InStep

(* A queue of one.                                                          *)
LEMMA QueueOfOne ==
  ASSUME NEW x
  PROVE  /\ Head(<<x>>) = x /\ Tail(<<x>>) = <<>> /\ <<x>> # <<>>
         /\ Append(<<>>, x) = <<x>> /\ <<>> \o <<x>> = <<x>>
OBVIOUS

(* What a worker has in its pipes after a step of its own.                  *)
LEMMA PipesStep ==
  ASSUME RowInv, AnswerInv, NEW w \in Workers, WorkerStep(w)
  PROVE  Pipes(w)'
<1>1. /\ wpc \in [Workers -> WorkerPcs] /\ wbatch \in [Workers -> SUBSET Seqs]
      /\ hstate \in [Workers -> {"none", "unready", "up", "dead", "gone"}]
      /\ hin \in [Workers -> Seq(SUBSET Seqs)] /\ hout \in [Workers -> Seq(Replies)]
  BY DEF RowInv, TypeOK, TypeWorkers, TypeHandlers
<1>2. Pipes(w)
  BY DEF AnswerInv
<1>3. CASE WLock(w) \/ WPull(w)
  <2>1. /\ wpc[w] \in {"idle", "pull"} /\ wpc'[w] \in {"pull", "send"}
        /\ hin' = hin /\ hout' = hout
    BY <1>1, <1>3 DEF WLock, WPull, handlerVars
  <2> QED BY <1>2, <2>1 DEF Pipes
<1>4. CASE WSend(w)
  <2>1. /\ wpc[w] = "send" /\ wpc'[w] = "wait" /\ hstate[w] = "up"
        /\ hin'[w] = Append(hin[w], wbatch[w])
        /\ hstate' = hstate /\ hout' = hout /\ wbatch' = wbatch
        /\ wbatch[w] \subseteq delivered'
    BY <1>1, <1>4 DEF WSend
  <2>2. hin[w] = <<>> /\ hout[w] = <<>>
    BY <1>2, <2>1 DEF Pipes
  <2>3. hin'[w] = <<wbatch[w]>>
    BY <2>1, <2>2, QueueOfOne
  <2> QED BY <2>1, <2>2, <2>3 DEF Pipes, InStep
<1>5. CASE WRecv(w)
  <2>1. /\ wpc[w] = "wait" /\ wpc'[w] = "write" /\ hout[w] # <<>>
        /\ hout'[w] = Tail(hout[w]) /\ hin' = hin
    BY <1>1, <1>5 DEF WRecv, Decide
  <2>2. hin[w] = <<>> /\ \E ok \in BOOLEAN : hout[w] = <<Reply(wbatch[w], ok)>>
    BY <1>2, <2>1 DEF Pipes, InStep
  <2>3. hout'[w] = <<>>
    BY <2>1, <2>2, QueueOfOne
  <2> QED BY <2>1, <2>2, <2>3 DEF Pipes
<1>6. CASE WRecvEof(w)
  <2>1. /\ wpc[w] = "wait" /\ wpc'[w] = "write" /\ hout[w] = <<>> /\ hstate[w] = "dead"
        /\ hin' = hin /\ hout' = hout
    BY <1>1, <1>6 DEF WRecvEof, Decide, handlerVars
  <2>2. hin[w] = <<>>
    BY <1>2, <2>1 DEF Pipes, InStep
  <2> QED BY <2>1, <2>2 DEF Pipes
<1>7. CASE WWrite(w)
  <2>1. hin' = hin /\ hout' = hout
    BY <1>7 DEF WWrite, handlerVars
  <2>2. \/ wpc[w] = "write" /\ wpc'[w] = "idle"
        \/ wpc'[w] = "teardown"
    BY <1>1, <1>7 DEF WWrite
  <2> QED BY <1>2, <2>1, <2>2 DEF Pipes
<1>8. CASE WPullNone(w) \/ WSendFails(w) \/ WRecvCancelled(w) \/ WWriteFails(w)
           \/ WHardKill(w) \/ WShutdown(w) \/ WShutdownDone(w) \/ WEscalate(w)
  <2>1. wpc'[w] \in {"write_exit", "teardown", "grace", "exited"}
    BY <1>1, <1>8 DEF WPullNone, WSendFails, WRecvCancelled, WWriteFails, WHardKill,
       WShutdown, WShutdownDone, WEscalate, Exit, Decide
  <2> QED BY <2>1 DEF Pipes
<1> QED BY <1>3, <1>4, <1>5, <1>6, <1>7, <1>8 DEF WorkerStep

(* What the worker decides for its rows is what the handler answered.       *)
LEMMA DecidedStep ==
  ASSUME RowInv, AnswerInv, NEW w \in Workers, WorkerStep(w),
         NEW v \in Workers, NEW s \in Seqs
  PROVE  TrueAnswer(s, wout[v][s])'
<1>1. /\ wbatch \in [Workers -> SUBSET Seqs]
      /\ wout \in [Workers -> [Seqs -> Kinds \cup {"none"}]]
  BY DEF RowInv, TypeOK, TypeWorkers
<1>2. TrueAnswer(s, wout[v][s]) /\ delivered \subseteq delivered'
  BY DeliveredGrows DEF AnswerInv
<1>3. CASE UNCHANGED wout
  BY <1>2, <1>3 DEF TrueAnswer
<1>4. CASE WWrite(w) \/ WWriteFails(w)
  <2>1. wout'[v][s] = wout[v][s] \/ wout'[v][s] = "none"
    BY <1>1, <1>4 DEF WWrite, WWriteFails, NoOutcome
  <2> QED BY <1>2, <2>1 DEF TrueAnswer
<1>5. ASSUME NEW k, NEW next, Decide(w, k, next),
             s \in wbatch[w] => TrueAnswer(s, k[s])
      PROVE  TrueAnswer(s, wout[v][s])'
  <2>1. \/ wout'[v][s] = wout[v][s] \/ wout'[v][s] = "none"
        \/ s \in wbatch[w] /\ wout'[v][s] = k[s]
    BY <1>1, <1>5 DEF Decide
  <2> QED BY <1>2, <1>5, <2>1 DEF TrueAnswer
<1>6. CASE WSendFails(w) \/ WRecvEof(w) \/ WRecvCancelled(w)
  <2>1. TrueAnswer(s, Crashed[s])
    BY DEF TrueAnswer, Crashed
  <2> QED BY <1>5, <1>6, <2>1 DEF WSendFails, WRecvEof, WRecvCancelled
<1>7. CASE WRecv(w)
  <2> DEFINE r == Head(hout[w])
             k == IF r.ok /\ Cardinality(r.rows) = Cardinality(wbatch[w])
                  THEN Aligned(wbatch[w], r.rows) ELSE ProtocolError
  <2>1. Decide(w, k, "write") /\ wpc[w] = "wait" /\ hout[w] # <<>>
    BY <1>7 DEF WRecv
  <2>2. /\ \E ok \in BOOLEAN : hout[w] = <<Reply(wbatch[w], ok)>>
        /\ wbatch[w] \subseteq delivered
    BY <2>1 DEF AnswerInv, Pipes, InStep
  <2>3. r.rows = wbatch[w]
    BY <2>2, QueueOfOne DEF Reply
  <2>4. ASSUME s \in wbatch[w] PROVE TrueAnswer(s, k[s])
    <3>1. CASE r.ok /\ Cardinality(r.rows) = Cardinality(wbatch[w])
      <4>1. k = Aligned(wbatch[w], wbatch[w])
        BY <2>3, <3>1
      <4>2. k[s] = Verdict[Counterpart(wbatch[w], wbatch[w], s)]
        BY <2>4, <4>1 DEF Aligned
      <4>3. Counterpart(wbatch[w], wbatch[w], s) = s
        BY <1>1, <2>4, CounterpartOfOwnReply
      <4> QED BY <2>2, <2>4, <4>2, <4>3 DEF TrueAnswer
    <3>2. CASE ~(r.ok /\ Cardinality(r.rows) = Cardinality(wbatch[w]))
      <4>1. k[s] = "protocol_error"
        BY <3>2 DEF ProtocolError
      <4> QED BY <4>1 DEF TrueAnswer
    <3> QED BY <3>1, <3>2
  <2> HIDE DEF k
  <2> QED BY <1>5, <2>1, <2>4
<1> QED BY <1>3, <1>4, <1>6, <1>7 DEF WorkerStep, WLock, WPull, WPullNone, WSend,
      WHardKill, WShutdown, WShutdownDone, WEscalate, Exit

LEMMA AnswersWorkerStep ==
  ASSUME RowInv, AnswerInv, NEW w \in Workers, WorkerStep(w)
  PROVE  AnswerInv'
<1>1. /\ wpc \in [Workers -> WorkerPcs] /\ wbatch \in [Workers -> SUBSET Seqs]
      /\ wout \in [Workers -> [Seqs -> Kinds \cup {"none"}]]
      /\ hstate \in [Workers -> {"none", "unready", "up", "dead", "gone"}]
      /\ hin \in [Workers -> Seq(SUBSET Seqs)] /\ hout \in [Workers -> Seq(Replies)]
  BY DEF RowInv, TypeOK, TypeWorkers, TypeHandlers
<1>2. ASSUME NEW v \in Workers, v # w PROVE Pipes(v)'
  <2>1. /\ wpc'[v] = wpc[v] /\ wbatch'[v] = wbatch[v] /\ hstate'[v] = hstate[v]
        /\ hin'[v] = hin[v] /\ hout'[v] = hout[v]
    BY <1>1, <1>2 DEF WorkerStep, WLock, WPull, WPullNone, WSend, WSendFails, WRecv,
       WRecvEof, WRecvCancelled, WWrite, WWriteFails, WHardKill, WShutdown,
       WShutdownDone, WEscalate, Exit, Decide, handlerVars
  <2> QED BY <2>1, DeliveredGrows, PipesElsewhere
<1>3. \A s \in Seqs : \A i \in DOMAIN written'[s] : TrueAnswer(s, written[s][i])'
  <2>1. CASE WWrite(w)
    <3>1. /\ AppendLine(wbatch[w], wout[w]) /\ UNCHANGED delivered /\ TypeOK
          /\ wbatch[w] \in SUBSET Seqs /\ wout[w] \in [Seqs -> Kinds \cup {"none"}]
      BY <1>1, <2>1 DEF WWrite, RowInv
    <3>2. \A s \in wbatch[w] : TrueAnswer(s, wout[w][s])
      BY <3>1 DEF AnswerInv
    <3> QED BY <3>1, <3>2, LoggedAppend
  <2>2. CASE ~WWrite(w)
    <3>1. UNCHANGED written
      BY <2>2 DEF WorkerStep, WLock, WPull, WPullNone, WSend, WSendFails, WRecv, WRecvEof,
         WRecvCancelled, WWriteFails, WHardKill, WShutdown, WShutdownDone, WEscalate,
         Exit, logVars
    <3> QED BY <3>1, DeliveredGrows, LoggedKept
  <2> QED BY <2>1, <2>2
<1>4. \A v \in Workers : \A s \in Seqs : TrueAnswer(s, wout[v][s])'
  BY DecidedStep
<1>5. \A v \in Workers : Pipes(v)'
  BY <1>2, PipesStep
<1> QED BY <1>3, <1>4, <1>5 DEF AnswerInv

(* A handler that answers each envelope once.                               *)
LEMMA AnswersHandlerStep ==
  ASSUME "echo" \notin Faults, RowInv, AnswerInv, NEW w \in Workers, HandlerStep(w)
  PROVE  AnswerInv'
<1>1. UNCHANGED <<wpc, wbatch, wout, written, delivered>>
  BY DEF HandlerStep, HAnswer, HMisanswer, HEcho, HCrash, Answers, HandlerFrame,
         WorkerFrame, workerVars, logVars
<1>2. /\ hstate \in [Workers -> {"none", "unready", "up", "dead", "gone"}]
      /\ hin \in [Workers -> Seq(SUBSET Seqs)] /\ hout \in [Workers -> Seq(Replies)]
  BY DEF RowInv, TypeOK, TypeHandlers
<1>3. ASSUME NEW v \in Workers, v # w PROVE Pipes(v)'
  <2>1. hstate'[v] = hstate[v] /\ hin'[v] = hin[v] /\ hout'[v] = hout[v]
    BY <1>2, <1>3 DEF HandlerStep, HAnswer, HMisanswer, HEcho, HCrash, Answers
  <2> QED BY <1>1, <2>1, PipesElsewhere
<1>4. Pipes(w)
  BY DEF AnswerInv
<1>5. Pipes(w)'
  <2>1. ASSUME NEW ok \in BOOLEAN, Answers(w, <<Reply(Head(hin[w]), ok)>>) PROVE Pipes(w)'
    <3>1. /\ hin[w] # <<>> /\ hstate' = hstate
          /\ hin'[w] = Tail(hin[w])
          /\ hout'[w] = hout[w] \o <<Reply(Head(hin[w]), ok)>>
      BY <1>2, <2>1 DEF Answers
    <3>2. CASE wpc[w] = "wait"
      <4>1. hin[w] = <<wbatch[w]>> /\ hout[w] = <<>> /\ wbatch[w] \subseteq delivered
        BY <1>4, <3>1, <3>2 DEF Pipes, InStep
      <4>2. hin'[w] = <<>> /\ Head(hin[w]) = wbatch[w]
        BY <3>1, <4>1, QueueOfOne
      <4>3. hout'[w] = <<Reply(wbatch[w], ok)>>
        BY <3>1, <4>1, <4>2, QueueOfOne
      <4> QED BY <1>1, <3>2, <4>1, <4>2, <4>3 DEF Pipes, InStep, Reply
    <3>3. CASE wpc[w] # "wait"
      BY <1>1, <1>4, <3>1, <3>3 DEF Pipes
    <3> QED BY <3>2, <3>3
  <2>2. CASE HCrash(w)
    <3>1. hstate'[w] = "dead" /\ hin'[w] = <<>> /\ hout' = hout
      BY <1>2, <2>2 DEF HCrash
    <3> QED BY <1>1, <1>4, <3>1 DEF Pipes, InStep, Reply
  <2>3. ~HEcho(w)
    BY DEF HEcho
  <2> QED BY <2>1, <2>2, <2>3 DEF HandlerStep, HAnswer, HMisanswer
<1>6. \A v \in Workers : Pipes(v)'
  BY <1>3, <1>5
<1> QED BY <1>1, <1>6 DEF AnswerInv, TrueAnswer

LEMMA AnswersOtherStep ==
  ASSUME RowInv, AnswerInv,
         \/ ReaderStep \/ MonStep \/ PoolStep \/ OperatorCancel \/ OperatorHard
         \/ UNCHANGED vars
  PROVE  AnswerInv'
<1>1. CASE SpawnWorker
  <2>1. UNCHANGED <<wbatch, wout, hin, hout, written, delivered>> /\ spawned \in Workers
    BY <1>1 DEF SpawnWorker, logVars
  <2>2. /\ wpc' = [wpc EXCEPT ![spawned] = "idle"]
        /\ hstate' = [hstate EXCEPT ![spawned] = "up"]
    BY <1>1 DEF SpawnWorker
  <2>3. wpc[spawned] = "unspawned"
    <3>1. spawned >= spawned
      BY DEF RowInv, TypeOK, TypePool
    <3> QED BY <2>1, <3>1 DEF RowInv, Phases
  <2>4. hin[spawned] = <<>> /\ hout[spawned] = <<>>
    BY <2>1, <2>3 DEF AnswerInv, Pipes
  <2>5. ASSUME NEW v \in Workers PROVE Pipes(v)'
    <3>1. CASE v = spawned
      BY <2>1, <2>2, <2>4, <3>1 DEF Pipes, RowInv, TypeOK, TypeWorkers
    <3>2. CASE v # spawned
      <4>1. wpc'[v] = wpc[v] /\ hstate'[v] = hstate[v]
        BY <2>2, <3>2 DEF RowInv, TypeOK, TypeWorkers, TypeHandlers
      <4> QED BY <2>1, <4>1, PipesElsewhere
    <3> QED BY <3>1, <3>2
  <2> QED BY <2>1, <2>5 DEF AnswerInv, TrueAnswer
<1>2. CASE ReaderStep
  BY <1>2, AnswersUnmoved DEF ReaderStep, ReaderEof, ReaderCancelled, ReaderSkip,
     ReaderLimit, ReaderPick, ReaderSend, ReaderSendStop, ReaderFrame, workerVars,
     handlerVars, logVars
<1>3. CASE MonStep
  BY <1>3, AnswersUnmoved DEF MonStep, MonCancelled, MonGrowth, MonStart, MonExpired,
     MonFire, MonFrame, workerVars, handlerVars
<1>4. CASE StartTasks \/ StartupReport \/ NotifyMonitor \/ FinalReport
           \/ OperatorCancel \/ OperatorHard
  BY <1>4, AnswersUnmoved DEF StartTasks, StartupReport, NotifyMonitor,
     FinalReport, OperatorCancel, OperatorHard, PoolFrame, workerVars, handlerVars, logVars
<1>5. CASE UNCHANGED vars
  BY <1>5, AnswersUnmoved DEF vars, workerVars, handlerVars, logVars
<1>6. CASE SpawnFails
  <2>1. UNCHANGED <<wpc, wbatch, wout, hin, hout, written, delivered>>
    BY <1>6 DEF SpawnFails, workerVars, logVars
  <2>2. ASSUME NEW v \in Workers PROVE Pipes(v)'
    <3>1. CASE v = spawned
      <4>1. wpc'[v] = "unspawned" /\ wpc[v] = "unspawned"
        BY <1>6, <2>1, <3>1, FailedStart
      <4> QED BY <2>1, <4>1 DEF AnswerInv, Pipes
    <3>2. CASE v # spawned
      BY <1>6, <2>1, <3>2, FailedStart, PipesElsewhere
    <3> QED BY <3>1, <3>2
  <2> QED BY <2>1, <2>2 DEF AnswerInv, TrueAnswer
<1> QED BY <1>1, <1>2, <1>3, <1>4, <1>5, <1>6 DEF PoolStep

(* A success or an error in the log is what the handler answered for that   *)
(* very row, for handlers that answer each envelope once, rightly or        *)
(* wrongly, or die: worker_loop.rs matches answers to rows by position and  *)
(* compares no seq, so that this rests on the pipes never running ahead of  *)
(* the batch in hand, across crashes, cancellations and retried reads.      *)
THEOREM AnswersReachTheirRows ==
  ASSUME "echo" \notin Faults
  PROVE  Spec => []AnswersMatchRows
<1>1. Init => RowInv /\ AnswerInv
  BY InitRows, InitAnswers
<1>2. RowInv /\ AnswerInv /\ [Next]_vars => RowInv' /\ AnswerInv'
  BY RowsStep, AnswersAccStep, AnswersWorkerStep, AnswersHandlerStep, AnswersOtherStep
     DEF Next, Finished
<1>3. RowInv /\ AnswerInv => AnswersMatchRows
  BY DEF AnswerInv, TrueAnswer, AnswersMatchRows
<1> QED BY <1>1, <1>2, <1>3, PTL DEF Spec

-----------------------------------------------------------------------------
(* Rows keep the order of the input from queue to queue.                    *)

LEMMA AscendingTail ==
  ASSUME NEW q \in Seq(Seqs), q # <<>>,
         \A i, j \in DOMAIN q : i < j => q[i] < q[j]
  PROVE  /\ \A t \in Elems(Tail(q)) : Head(q) < t
         /\ \A i, j \in DOMAIN Tail(q) : i < j => Tail(q)[i] < Tail(q)[j]
<1>1. /\ Head(q) = q[1] /\ Len(q) \in Nat \ {0} /\ DOMAIN q = 1 .. Len(q)
      /\ DOMAIN Tail(q) = 1 .. Len(q) - 1
      /\ \A i \in 1 .. Len(q) - 1 : Tail(q)[i] = q[i + 1]
  BY EmptySeq, LenProperties, HeadTailProperties
<1>2. ASSUME NEW i \in DOMAIN Tail(q)
      PROVE  i \in Nat /\ 1 \in DOMAIN q /\ i + 1 \in DOMAIN q /\ 1 < i + 1
             /\ Tail(q)[i] = q[i + 1]
  BY <1>1
<1>3. \A t \in Elems(Tail(q)) : Head(q) < t
  <2> SUFFICES ASSUME NEW i \in DOMAIN Tail(q) PROVE Head(q) < Tail(q)[i]
    BY DEF Elems
  <2> QED BY <1>1, <1>2
<1>4. ASSUME NEW i \in DOMAIN Tail(q), NEW j \in DOMAIN Tail(q), i < j
      PROVE  Tail(q)[i] < Tail(q)[j]
  <2>1. i + 1 < j + 1
    BY <1>2, <1>4
  <2> QED BY <1>2, <2>1
<1> QED BY <1>3, <1>4

LEMMA AscendingAppend ==
  ASSUME NEW q \in Seq(Seqs), NEW x \in Seqs, \A t \in Elems(q) : t < x,
         \A i, j \in DOMAIN q : i < j => q[i] < q[j]
  PROVE  \A i, j \in DOMAIN Append(q, x) : i < j => Append(q, x)[i] < Append(q, x)[j]
<1>1. /\ Len(q) \in Nat /\ DOMAIN q = 1 .. Len(q)
      /\ DOMAIN Append(q, x) = 1 .. Len(q) + 1
      /\ \A i \in 1 .. Len(q) : Append(q, x)[i] = q[i]
      /\ Append(q, x)[Len(q) + 1] = x
  BY LenProperties, AppendProperties
<1>2. \A i \in DOMAIN q : q[i] < x
  BY DEF Elems
<1> QED BY <1>1, <1>2

(* The same for a queue of batches.                                         *)
LEMMA BatchesTail ==
  ASSUME NEW q \in Seq(SUBSET Seqs), q # <<>>,
         \A i, j \in DOMAIN q : i < j => Before(q[i], q[j])
  PROVE  /\ Before(Head(q), UNION Elems(Tail(q)))
         /\ \A i, j \in DOMAIN Tail(q) : i < j => Before(Tail(q)[i], Tail(q)[j])
<1>1. /\ Head(q) = q[1] /\ Len(q) \in Nat \ {0} /\ DOMAIN q = 1 .. Len(q)
      /\ DOMAIN Tail(q) = 1 .. Len(q) - 1
      /\ \A i \in 1 .. Len(q) - 1 : Tail(q)[i] = q[i + 1]
  BY EmptySeq, LenProperties, HeadTailProperties
<1>2. ASSUME NEW i \in DOMAIN Tail(q)
      PROVE  i \in Nat /\ 1 \in DOMAIN q /\ i + 1 \in DOMAIN q /\ 1 < i + 1
             /\ Tail(q)[i] = q[i + 1]
  BY <1>1
<1>3. ASSUME NEW i \in DOMAIN Tail(q) PROVE Before(Head(q), Tail(q)[i])
  BY <1>1, <1>2
<1>4. Before(Head(q), UNION Elems(Tail(q)))
  BY <1>3 DEF Before, Elems
<1>5. ASSUME NEW i \in DOMAIN Tail(q), NEW j \in DOMAIN Tail(q), i < j
      PROVE  Before(Tail(q)[i], Tail(q)[j])
  <2>1. i + 1 < j + 1
    BY <1>2, <1>5
  <2> QED BY <1>2, <2>1
<1> QED BY <1>4, <1>5

LEMMA BatchesAppend ==
  ASSUME NEW q \in Seq(SUBSET Seqs), NEW b \in SUBSET Seqs, Before(UNION Elems(q), b),
         \A i, j \in DOMAIN q : i < j => Before(q[i], q[j])
  PROVE  \A i, j \in DOMAIN Append(q, b) :
           i < j => Before(Append(q, b)[i], Append(q, b)[j])
<1>1. /\ Len(q) \in Nat /\ DOMAIN q = 1 .. Len(q)
      /\ DOMAIN Append(q, b) = 1 .. Len(q) + 1
      /\ \A i \in 1 .. Len(q) : Append(q, b)[i] = q[i]
      /\ Append(q, b)[Len(q) + 1] = b
  BY LenProperties, AppendProperties
<1>2. \A i \in DOMAIN q : Before(q[i], b)
  BY DEF Elems, Before
<1>3. ASSUME NEW i \in DOMAIN Append(q, b), NEW j \in DOMAIN Append(q, b), i < j
      PROVE  Before(Append(q, b)[i], Append(q, b)[j])
  <2>1. i \in DOMAIN q
    BY <1>1, <1>3
  <2>2. j \in DOMAIN q \/ j = Len(q) + 1
    BY <1>1
  <2> QED BY <1>1, <1>2, <1>3, <2>1, <2>2
<1> QED BY <1>3

LEMMA InitOrder == Init => OrderInv
<1> SUFFICES ASSUME Init PROVE OrderInv
  OBVIOUS
<1>1. rowQ = <<>> /\ jobQ = <<>> /\ delivered = {} /\ pending = {} /\ taken = {}
      /\ held = {} /\ \A w \in Workers : wbatch[w] = {}
  BY DEF Init
<1>2. Elems(rowQ) = {} /\ InJobQ = {} /\ InWorker = {} /\ Accumulating = {}
  BY <1>1 DEF Elems, InJobQ, InWorker, Accumulating
<1>3. \A i, j \in DOMAIN rowQ : i < j => rowQ[i] < rowQ[j]
  BY <1>1
<1>4. \A i, j \in DOMAIN jobQ : i < j => Before(jobQ[i], jobQ[j])
  BY <1>1
<1> QED BY <1>1, <1>2, <1>3, <1>4 DEF OrderInv, Before

(* Steps that move no row, but for those that leave a worker.               *)
LEMMA OrderUnmoved ==
  ASSUME OrderInv, UNCHANGED <<nextSeq, rowQ, pending, taken, held, jobQ, delivered>>,
         InWorker' \subseteq InWorker,
         \A w \in Workers : wpc'[w] = "send" => wpc[w] = "send" /\ wbatch'[w] = wbatch[w]
  PROVE  OrderInv'
<1>1. /\ Accumulating' = Accumulating /\ InJobQ' = InJobQ /\ Sent' = Sent
      /\ Elems(rowQ)' = Elems(rowQ)
  BY DEF Accumulating, InJobQ, Sent, Selected
<1> QED BY <1>1 DEF OrderInv, Before

LEMMA OrderReaderStep ==
  ASSUME RowInv, OrderInv, ReaderStep
  PROVE  OrderInv'
<1>1. UNCHANGED <<pending, taken, held, jobQ, wpc, wbatch, delivered>>
  BY DEF ReaderStep, ReaderEof, ReaderCancelled, ReaderSkip, ReaderLimit, ReaderPick,
         ReaderSend, ReaderSendStop, ReaderFrame, accVars, workerVars
<1>2. /\ Accumulating' = Accumulating /\ InJobQ' = InJobQ /\ InWorker' = InWorker
  BY <1>1 DEF Accumulating, InJobQ, InWorker
<1>3. nextSeq \in Nat /\ NumRows \in Nat /\ rowQ \in Seq(Seqs)
  BY PipelineAssumption DEF RowInv, TypeOK, TypeReader, TypeQueues
<1>4. \A s \in Sent : s < nextSeq
  BY DEF Sent
<1>5. Elems(rowQ) \cup Accumulating \cup InJobQ \cup InWorker \cup delivered \subseteq Sent
  BY DEF RowInv, OnePlace, OrderInv
<1>6. nextSeq' \in {nextSeq, nextSeq + 1}
  BY DEF ReaderStep, ReaderEof, ReaderCancelled, ReaderSkip, ReaderLimit, ReaderPick,
         ReaderSend, ReaderSendStop
<1>7. Sent \subseteq Sent'
  <2> SUFFICES ASSUME NEW s \in Sent PROVE s \in Sent'
    OBVIOUS
  <2>1. s \in Seqs /\ s \in Int /\ s < nextSeq /\ Selected(s)
    BY <1>3 DEF Sent, Seqs
  <2>2. s < nextSeq'
    BY <1>3, <1>6, <2>1
  <2> QED BY <2>1, <2>2 DEF Sent, Selected
<1>8. CASE ReaderSend
  <2>1. rowQ' = Append(rowQ, nextSeq) /\ nextSeq \in Seqs
    BY <1>3, <1>8 DEF ReaderSend, RowInv, TypeOK, TypeReader, Seqs
  <2>2. Elems(rowQ)' = Elems(rowQ) \cup {nextSeq}
    BY <1>3, <2>1, ElemsOfAppend
  <2>3. \A i, j \in DOMAIN rowQ' : i < j => rowQ'[i] < rowQ'[j]
    <3>1. \A t \in Elems(rowQ) : t < nextSeq
      BY <1>4, <1>5
    <3>2. \A i, j \in DOMAIN rowQ : i < j => rowQ[i] < rowQ[j]
      BY DEF OrderInv
    <3> QED BY <1>3, <2>1, <3>1, <3>2, AscendingAppend
  <2>4. Before(Accumulating \cup InJobQ \cup InWorker \cup delivered, {nextSeq})
    BY <1>4, <1>5 DEF Before
  <2>5. \A w \in Workers : wpc'[w] = wpc[w] /\ wbatch'[w] = wbatch[w]
    BY <1>1
  <2> QED BY <1>1, <1>2, <1>7, <2>2, <2>3, <2>4, <2>5 DEF OrderInv, Before
<1>9. CASE ~ReaderSend
  <2>1. rowQ' = rowQ
    BY <1>9 DEF ReaderStep, ReaderEof, ReaderCancelled, ReaderSkip, ReaderLimit,
       ReaderPick, ReaderSendStop
  <2> QED BY <1>1, <1>2, <1>7, <2>1 DEF OrderInv, Before
<1> QED BY <1>8, <1>9

LEMMA OrderAccStep ==
  ASSUME RowInv, OrderInv, AccStep
  PROVE  OrderInv'
<1>1. UNCHANGED <<nextSeq, wpc, wbatch, delivered>>
  BY DEF AccStep, AccCancelled, AccEof, AccSend, AccFlushCancelled, AccTooLarge,
         AccAppendFails, AccByteFlush, AccPush, AccFrame, readerVars, workerVars
<1>2. InWorker' = InWorker /\ Sent' = Sent
  BY <1>1 DEF InWorker, Sent, Selected
<1>3. rowQ \in Seq(Seqs) /\ jobQ \in Seq(SUBSET Seqs) /\ taken \in SUBSET Seqs
  BY DEF RowInv, TypeOK, TypeQueues, TypeAcc
<1>4. ASSUME NEW s \in Seqs,
             AccTooLarge(s) \/ AccAppendFails(s) \/ AccByteFlush(s) \/ AccPush(s)
      PROVE  OrderInv'
  <2>1. /\ Receives(s) /\ jobQ' = jobQ
        /\ Accumulating' \subseteq Accumulating \cup {s}
        /\ held' = {} \/ (held' = {s} /\ taken' = pending)
    <3>1. Receives(s) /\ jobQ' = jobQ
      BY <1>4 DEF AccTooLarge, AccAppendFails, AccByteFlush, AccPush
    <3>2. taken = {} /\ held = {}
      BY <3>1, Received
    <3> QED BY <1>4, <3>1, <3>2 DEF AccTooLarge, AccAppendFails, AccByteFlush, AccPush,
         accVars, Accumulating
  <2>2. /\ s \in Elems(rowQ) /\ Elems(rowQ)' \subseteq Elems(rowQ)
    BY <2>1, Received
  <2>3. /\ rowQ # <<>> /\ s = Head(rowQ) /\ rowQ' = Tail(rowQ)
        /\ \A i, j \in DOMAIN rowQ : i < j => rowQ[i] < rowQ[j]
    BY <2>1 DEF Receives, OrderInv
  <2>4. /\ Before({s}, Elems(rowQ)')
        /\ \A i, j \in DOMAIN rowQ' : i < j => rowQ'[i] < rowQ'[j]
    BY <1>3, <2>3, AscendingTail DEF Before
  <2>5. Before(Accumulating', Elems(rowQ)')
    BY <2>1, <2>2, <2>4 DEF OrderInv, Before
  <2>6. Before(taken', held')
    <3>1. Before(pending, {s})
      BY <2>2 DEF OrderInv, Before, Accumulating
    <3> QED BY <2>1, <3>1 DEF Before
  <2>7. InJobQ' = InJobQ
    BY <2>1 DEF InJobQ
  <2>8. Elems(rowQ)' \cup Accumulating' \subseteq Elems(rowQ) \cup Accumulating
    BY <2>1, <2>2
  <2> QED BY <1>1, <1>2, <2>1, <2>4, <2>5, <2>6, <2>7, <2>8 DEF OrderInv, Before
<1>5. CASE AccSend
  <2>1. /\ jobQ' = Append(jobQ, taken) /\ rowQ' = rowQ /\ taken' = {} /\ held' = {}
        /\ pending' = held
    BY <1>5 DEF AccSend
  <2>2. Accumulating' = held /\ taken \cup held \subseteq Accumulating
    BY <2>1 DEF Accumulating
  <2>3. InJobQ' = InJobQ \cup taken
    <3>1. Elems(jobQ') = Elems(jobQ) \cup {taken}
      BY <1>3, <2>1, ElemsOfAppend
    <3> QED BY <3>1, UnionAdd DEF InJobQ
  <2>4. \A i, j \in DOMAIN jobQ' : i < j => Before(jobQ'[i], jobQ'[j])
    <3>1. /\ Before(UNION Elems(jobQ), taken)
          /\ \A i, j \in DOMAIN jobQ : i < j => Before(jobQ[i], jobQ[j])
      BY <2>2 DEF OrderInv, Before, InJobQ
    <3> QED BY <1>3, <2>1, <3>1, BatchesAppend
  <2>5. Before(InJobQ', Elems(rowQ)' \cup Accumulating')
    BY <2>1, <2>2, <2>3 DEF OrderInv, Before
  <2>6. Before(Accumulating', Elems(rowQ)') /\ Before(taken', held')
    BY <2>1, <2>2 DEF OrderInv, Before
  <2>7. Elems(rowQ)' \cup Accumulating' \cup InJobQ'
          \subseteq Elems(rowQ) \cup Accumulating \cup InJobQ
    BY <2>1, <2>2, <2>3
  <2> QED BY <1>1, <1>2, <2>1, <2>4, <2>5, <2>6, <2>7 DEF OrderInv, Before
<1>6. CASE AccCancelled \/ AccEof \/ AccFlushCancelled
  <2>1. /\ rowQ' = rowQ /\ jobQ' = jobQ /\ held' = {}
        /\ Accumulating' \subseteq Accumulating
    <3>1. apc \notin {"flush", "flush_eof"} => taken = {} /\ held = {}
      BY DEF RowInv, Phases
    <3> QED BY <1>6, <3>1 DEF AccCancelled, AccEof, AccFlushCancelled, Accumulating
  <2>2. InJobQ' = InJobQ /\ Elems(rowQ)' = Elems(rowQ)
    BY <2>1 DEF InJobQ
  <2> QED BY <1>1, <1>2, <2>1, <2>2 DEF OrderInv, Before
<1> QED BY <1>4, <1>5, <1>6 DEF AccStep

(* The batch a worker takes is in front of the others, and the only worker  *)
(* of a stateful pool takes it empty-handed.                                *)
LEMMA OrderPull ==
  ASSUME RowInv, OrderInv, NEW w \in Workers, WPull(w)
  PROVE  OrderInv'
<1>1. /\ jobQ \in Seq(SUBSET Seqs) /\ jobQ # <<>> /\ jobQ' = Tail(jobQ)
      /\ wpc[w] = "pull" /\ wbatch' = [wbatch EXCEPT ![w] = Head(jobQ)]
      /\ wpc' = [wpc EXCEPT ![w] = "send"]
      /\ UNCHANGED <<nextSeq, rowQ, pending, taken, held, delivered>>
  BY DEF WPull, RowInv, TypeOK, TypeQueues, WorkerFrame, readerVars, accVars
<1>2. /\ wpc \in [Workers -> WorkerPcs] /\ wbatch \in [Workers -> SUBSET Seqs]
  BY DEF RowInv, TypeOK, TypeWorkers
<1>3. /\ Accumulating' = Accumulating /\ Sent' = Sent /\ Elems(rowQ)' = Elems(rowQ)
  BY <1>1 DEF Accumulating, Sent, Selected
<1>4. Elems(jobQ) = Elems(jobQ') \cup {Head(jobQ)}
  BY <1>1, ElemsOfTail
<1>5. InJobQ = InJobQ' \cup Head(jobQ)
  BY <1>4, UnionAdd DEF InJobQ
<1>6. /\ Before(Head(jobQ), InJobQ')
      /\ \A i, j \in DOMAIN jobQ' : i < j => Before(jobQ'[i], jobQ'[j])
  <2>1. \A i, j \in DOMAIN jobQ : i < j => Before(jobQ[i], jobQ[j])
    BY DEF OrderInv
  <2> QED BY <1>1, <2>1, BatchesTail DEF InJobQ
<1>7. ASSUME Stateful
      PROVE  /\ Before((InWorker \cup delivered)', (Elems(rowQ) \cup Accumulating \cup InJobQ)')
             /\ \A v \in Workers : wpc'[v] = "send" => Before(delivered', wbatch'[v])
  <2>1. \A v \in Workers : v = w
    BY <1>7 DEF Workers, EffectiveWorkers
  <2>2. InWorker' = Head(jobQ)
    BY <1>1, <1>2, <2>1 DEF InWorker
  <2>3. Before(delivered, Elems(rowQ) \cup Accumulating \cup InJobQ)
    BY <1>7 DEF OrderInv, Before
  <2>4. Before(Head(jobQ), Elems(rowQ) \cup Accumulating)
    BY <1>5 DEF OrderInv, Before
  <2>5. Before((InWorker \cup delivered)', (Elems(rowQ) \cup Accumulating \cup InJobQ)')
    BY <1>1, <1>3, <1>5, <1>6, <2>2, <2>3, <2>4 DEF Before
  <2>6. Before(delivered', wbatch'[w])
    BY <1>1, <1>2, <1>5, <2>3 DEF Before
  <2> QED BY <2>1, <2>5, <2>6
<1> QED BY <1>1, <1>3, <1>5, <1>6, <1>7 DEF OrderInv, Before

LEMMA OrderWorkerStep ==
  ASSUME RowInv, OrderInv, NEW w \in Workers, WorkerStep(w)
  PROVE  OrderInv'
<1>1. /\ wpc \in [Workers -> WorkerPcs] /\ wbatch \in [Workers -> SUBSET Seqs]
  BY DEF RowInv, TypeOK, TypeWorkers
<1>2. UNCHANGED <<nextSeq, rowQ, pending, taken, held>>
  BY DEF WorkerStep, WLock, WPull, WPullNone, WSend, WSendFails, WRecv, WRecvEof,
         WRecvCancelled, WWrite, WWriteFails, WHardKill, WShutdown, WShutdownDone,
         WEscalate, Exit, WorkerFrame, readerVars, accVars
<1>3. CASE WPull(w)
  BY <1>3, OrderPull
<1>4. CASE WSend(w)
  <2>1. /\ delivered' = delivered \cup wbatch[w] /\ jobQ' = jobQ /\ wbatch' = wbatch
        /\ wpc[w] = "send" /\ wpc' = [wpc EXCEPT ![w] = "wait"]
    BY <1>4 DEF WSend
  <2>2. /\ Accumulating' = Accumulating /\ Sent' = Sent /\ Elems(rowQ)' = Elems(rowQ)
        /\ InJobQ' = InJobQ /\ InWorker' = InWorker /\ wbatch[w] \subseteq InWorker
    BY <1>2, <2>1 DEF Accumulating, Sent, Selected, InJobQ, InWorker
  <2>3. InWorker \subseteq Sent
    BY DEF RowInv, OnePlace
  <2>4. Stateful => \A v \in Workers : wpc'[v] # "send"
    BY <1>1, <2>1 DEF Workers, EffectiveWorkers
  <2> QED BY <1>2, <2>1, <2>2, <2>3, <2>4 DEF OrderInv, Before
<1>5. CASE ~(WPull(w) \/ WSend(w))
  <2>1. /\ jobQ' = jobQ /\ delivered' = delivered
        /\ \A v \in Workers : wbatch'[v] \subseteq wbatch[v]
    BY <1>1, <1>5 DEF WorkerStep, WLock, WPullNone, WSendFails, WRecv, WRecvEof,
       WRecvCancelled, WWrite, WWriteFails, WHardKill, WShutdown, WShutdownDone,
       WEscalate, Exit
  <2>2. ASSUME NEW v \in Workers, wpc'[v] = "send"
        PROVE  wpc[v] = "send" /\ wbatch'[v] = wbatch[v]
    BY <1>1, <1>5, <2>2 DEF WorkerStep, WLock, WPullNone, WSendFails, WRecv, WRecvEof,
       WRecvCancelled, WWrite, WWriteFails, WHardKill, WShutdown, WShutdownDone,
       WEscalate, Exit, Decide
  <2>3. InWorker' \subseteq InWorker
    BY <2>1 DEF InWorker
  <2> QED BY <1>2, <2>1, <2>2, <2>3, OrderUnmoved
<1> QED BY <1>3, <1>4, <1>5

LEMMA OrderOtherStep ==
  ASSUME RowInv, OrderInv,
         \/ \E w \in Workers : HandlerStep(w)
         \/ MonStep \/ PoolStep \/ OperatorCancel \/ OperatorHard \/ UNCHANGED vars
  PROVE  OrderInv'
<1>1. UNCHANGED <<nextSeq, rowQ, pending, taken, held, jobQ, wbatch, delivered>>
  BY DEF HandlerStep, HAnswer, HMisanswer, HEcho, HCrash, Answers, HandlerFrame,
     WorkerFrame, MonStep, MonCancelled, MonGrowth, MonStart, MonExpired, MonFire,
     MonFrame, PoolStep, SpawnWorker, StartTasks, SpawnFails, StartupReport,
     NotifyMonitor, FinalReport, OperatorCancel, OperatorHard, PoolFrame, vars,
     readerVars, accVars, workerVars
<1>2. ASSUME NEW v \in Workers, wpc'[v] = "send" PROVE wpc[v] = "send"
  BY <1>2 DEF HandlerStep, HAnswer, HMisanswer, HEcho, HCrash, Answers, HandlerFrame,
     MonStep, MonCancelled, MonGrowth, MonStart, MonExpired, MonFire, MonFrame,
     PoolStep, SpawnWorker, StartTasks, SpawnFails, StartupReport, NotifyMonitor,
     FinalReport, OperatorCancel, OperatorHard, PoolFrame, vars, workerVars,
     RowInv, TypeOK, TypeWorkers
<1>3. InWorker' \subseteq InWorker
  BY <1>1 DEF InWorker
<1> QED BY <1>1, <1>2, <1>3, OrderUnmoved

LEMMA OrderInvariant == Spec => [](RowInv /\ OrderInv)
<1>1. Init => RowInv /\ OrderInv
  BY InitRows, InitOrder
<1>2. RowInv /\ OrderInv /\ [Next]_vars => RowInv' /\ OrderInv'
  BY RowsStep, OrderReaderStep, OrderAccStep, OrderWorkerStep, OrderOtherStep
     DEF Next, Finished
<1> QED BY <1>1, <1>2, PTL DEF Spec

(* A stateful handler is sent the rows in the order of the input, whatever  *)
(* the batch sizes and byte caps: EffectiveWorkers in pool_streaming.rs is  *)
(* one, the channels are FIFO, and a row that waits for a byte-cap flush is *)
(* pushed after it.                                                         *)
THEOREM StatefulOrder == Spec => StatefulInOrder
<1> DEFINE InOrder ==
      Stateful => \A s \in delivered' \ delivered : \A t \in delivered : t < s
<1>1. RowInv /\ OrderInv /\ [Next]_vars => InOrder
  <2> SUFFICES ASSUME RowInv, OrderInv, [Next]_vars, Stateful,
                      NEW s \in delivered' \ delivered, NEW t \in delivered
               PROVE  t < s
    OBVIOUS
  <2>1. PICK w \in Workers : WSend(w)
    BY DEF Next, Finished, ReaderStep, ReaderEof, ReaderCancelled, ReaderSkip, ReaderLimit,
       ReaderPick, ReaderSend, ReaderSendStop, ReaderFrame, AccStep, AccCancelled, AccEof,
       AccSend, AccFlushCancelled, AccTooLarge, AccAppendFails, AccByteFlush, AccPush,
       AccFrame, WorkerStep, WLock, WPull, WPullNone, WSendFails, WRecv, WRecvEof,
       WRecvCancelled, WWrite, WWriteFails, WHardKill, WShutdown, WShutdownDone,
       WEscalate, Exit, HandlerStep, HAnswer, HMisanswer, HEcho, HCrash, Answers,
       HandlerFrame, MonStep, MonCancelled, MonGrowth, MonStart, MonExpired, MonFire,
       MonFrame, PoolStep, SpawnWorker, StartTasks, SpawnFails, StartupReport,
       NotifyMonitor, FinalReport, OperatorCancel, OperatorHard, PoolFrame, vars
  <2>2. s \in wbatch[w] /\ wpc[w] = "send"
    BY <2>1 DEF WSend
  <2>3. Before(delivered, wbatch[w])
    BY <2>2 DEF OrderInv
  <2> QED BY <2>2, <2>3 DEF Before
<1>2. Spec => [](RowInv /\ OrderInv)
  BY OrderInvariant
<1>3. Spec => [][InOrder]_vars
  BY <1>1, <1>2, PTL DEF Spec
<1> QED BY <1>3 DEF StatefulInOrder

-----------------------------------------------------------------------------
(* The limits of a batch.                                                   *)

(* The bytes of no row, and of a batch with one more row.                   *)
LEMMA BytesAdd ==
  /\ Bytes({}) = 0
  /\ \A S \in SUBSET Seqs : Bytes(S) \in Nat
  /\ \A S \in SUBSET Seqs : \A s \in Seqs \ S : Bytes(S \cup {s}) = Bytes(S) + Size[s]
<1>1. \A S : Bytes(S) = SumOf(Size, S)
  BY DEF Bytes, SumOf
<1>2. IsFiniteSet(Seqs) /\ \A s \in Seqs : Size[s] \in Nat
  BY BatchesFinite, PipelineAssumption
<1>3. /\ SumOf(Size, {}) = 0
      /\ \A S \in SUBSET Seqs : SumOf(Size, S) \in Nat
      /\ \A S \in SUBSET Seqs : \A s \in Seqs \ S :
           SumOf(Size, S \cup {s}) = SumOf(Size, S) + Size[s]
  BY <1>2, SumOfAdd
<1> QED BY <1>1, <1>3

LEMMA CountAdd ==
  ASSUME NEW S \in SUBSET Seqs, NEW s \in Seqs \ S
  PROVE  Cardinality(S \cup {s}) = Cardinality(S) + 1
BY BatchesFinite, FS_AddElement

(* The smallest batches.                                                    *)
LEMMA SmallWithinCaps ==
  /\ MaxCount \in Nat /\ MaxCount > 0 /\ Cardinality({}) = 0 /\ WithinCaps({})
  /\ \A s \in Seqs : Cardinality({s}) = 1 /\ Bytes({s}) = Size[s] /\ WithinCaps({s})
<1>1. MaxCount \in Nat /\ MaxCount > 0
  BY PipelineAssumption DEF MaxCount
<1>2. Cardinality({}) = 0
  BY FS_EmptySet
<1>3. ASSUME NEW s \in Seqs PROVE Cardinality({s}) = 1 /\ Bytes({s}) = Size[s]
  <2>1. {} \in SUBSET Seqs /\ s \in Seqs \ {} /\ {} \cup {s} = {s}
    OBVIOUS
  <2>2. Bytes({} \cup {s}) = Bytes({}) + Size[s] /\ Bytes({}) = 0 /\ Size[s] \in Nat
    BY <2>1, BytesAdd, PipelineAssumption
  <2>3. Bytes({s}) = Size[s]
    BY <2>1, <2>2
  <2> QED BY <2>3, FS_Singleton
<1> QED BY <1>1, <1>2, <1>3 DEF WithinCaps

LEMMA InitCaps == Init => CapsInv
<1> SUFFICES ASSUME Init PROVE CapsInv
  OBVIOUS
<1>1. pending = {} /\ pendBytes = 0 /\ taken = {} /\ held = {} /\ Elems(jobQ) = {}
  BY DEF Init, Elems
<1>2. \A w \in Workers : wbatch[w] = {}
  BY DEF Init
<1> QED BY <1>1, <1>2, SmallWithinCaps, BytesAdd DEF CapsInv

LEMMA CapsUnmoved ==
  ASSUME CapsInv, UNCHANGED <<pending, pendBytes, taken, held, jobQ, wbatch>>
  PROVE  CapsInv'
BY DEF CapsInv, Elems

(* Nothing is pending: what the flushes and the ends of the task leave.     *)
LEMMA CapsEmptied ==
  ASSUME CapsInv, pending' = {}, pendBytes' = 0, UNCHANGED <<jobQ, wbatch>>,
         WithinCaps(taken'), held' # {} => MaxCount > 1 /\ \E s \in Seqs : held' = {s}
  PROVE  CapsInv'
<1>1. WithinCaps(pending') /\ Cardinality(pending') < MaxCount /\ pendBytes' = Bytes(pending')
  BY SmallWithinCaps, BytesAdd
<1>2. Elems(jobQ)' = Elems(jobQ)
  BY DEF Elems
<1> QED BY <1>1, <1>2 DEF CapsInv

LEMMA CapsAccStep ==
  ASSUME RowInv, CapsInv, AccStep
  PROVE  CapsInv'
<1>1. UNCHANGED wbatch
  BY DEF AccStep, AccCancelled, AccEof, AccSend, AccFlushCancelled, AccTooLarge,
         AccAppendFails, AccByteFlush, AccPush, AccFrame, workerVars
<1>2. /\ pendBytes = Bytes(pending) /\ Cardinality(pending) < MaxCount
      /\ WithinCaps(pending) /\ WithinCaps(taken)
      /\ held # {} => MaxCount > 1 /\ \E s \in Seqs : held = {s}
  BY DEF CapsInv
<1>3. /\ pending \in SUBSET Seqs /\ taken \in SUBSET Seqs /\ jobQ \in Seq(SUBSET Seqs)
  BY DEF RowInv, TypeOK, TypeAcc, TypeQueues
<1>4. apc = "recv" => taken = {} /\ held = {}
  BY DEF RowInv, Phases
<1>5. apc \in {"flush", "flush_eof"} => pending = {} /\ pendBytes = 0
  BY <1>2, BytesAdd DEF RowInv, Phases
<1>6. CASE AccCancelled \/ \E s \in Seqs : AccAppendFails(s)
  BY <1>1, <1>2, <1>6, CapsEmptied DEF AccCancelled, AccAppendFails
<1>7. CASE AccEof
  BY <1>1, <1>2, <1>7, CapsEmptied DEF AccEof
<1>8. CASE \E s \in Seqs : AccTooLarge(s)
  BY <1>1, <1>8, CapsUnmoved DEF AccTooLarge, accVars
<1>9. CASE AccFlushCancelled
  <2>1. pending' = {} /\ pendBytes' = 0 /\ taken' = {} /\ held' = {} /\ UNCHANGED jobQ
    BY <1>5, <1>9 DEF AccFlushCancelled
  <2> QED BY <1>1, <2>1, SmallWithinCaps, CapsEmptied
<1>10. ASSUME NEW s \in Seqs, AccByteFlush(s) PROVE CapsInv'
  <2>1. pending # {}
    BY <1>10 DEF AccByteFlush, OverByteCap
  <2>2. Cardinality(pending) \in Nat /\ Cardinality(pending) # 0
    BY <1>3, <2>1, BatchesFinite, FS_EmptySet
  <2>3. MaxCount > 1
    BY <1>2, <2>2, SmallWithinCaps
  <2>4. pending' = {} /\ pendBytes' = 0 /\ taken' = pending /\ held' = {s} /\ UNCHANGED jobQ
    BY <1>10 DEF AccByteFlush
  <2> QED BY <1>1, <1>2, <2>3, <2>4, CapsEmptied
<1>11. ASSUME NEW s \in Seqs, AccPush(s) PROVE CapsInv'
  <2> DEFINE more == pending \cup {s}
             full == Cardinality(more) >= MaxCount
  <2>1. /\ pending' = IF full THEN {} ELSE more
        /\ pendBytes' = IF full THEN 0 ELSE pendBytes + Size[s]
        /\ taken' = IF full THEN more ELSE {}
        /\ UNCHANGED <<held, jobQ>> /\ held = {}
    BY <1>4, <1>11 DEF AccPush, Receives
  <2>2. s \in Seqs \ pending
    <3>1. s \in Elems(rowQ)
      BY <1>11, Received DEF AccPush
    <3> QED BY <3>1 DEF RowInv, OnePlace, Accumulating
  <2>3. /\ Cardinality(more) = Cardinality(pending) + 1
        /\ Bytes(more) = pendBytes + Size[s]
        /\ Cardinality(pending) \in Nat /\ pendBytes \in Nat /\ Size[s] \in Nat
    BY <1>2, <1>3, <2>2, CountAdd, BytesAdd, BatchesFinite, PipelineAssumption
  <2>4. WithinCaps(more)
    <3>1. CASE pending = {}
      BY <3>1, SmallWithinCaps
    <3>2. CASE pending # {}
      <4>1. pendBytes + Size[s] <= BytesTarget /\ pendBytes + Size[s] <= BytesMax
        BY <1>11, <2>3, <3>2, PipelineAssumption DEF AccPush, OverByteCap
      <4>2. Cardinality(more) <= MaxCount
        BY <1>2, <2>3, SmallWithinCaps
      <4> HIDE DEF more
      <4> QED BY <2>3, <4>1, <4>2 DEF WithinCaps
    <3> QED BY <3>1, <3>2
  <2> HIDE DEF more
  <2>5. CASE full
    BY <1>1, <2>1, <2>4, <2>5, CapsEmptied
  <2>6. CASE ~full
    <3>1. /\ pending' = more /\ pendBytes' = Bytes(more) /\ taken' = {} /\ held' = {}
          /\ Cardinality(more) < MaxCount /\ UNCHANGED <<jobQ, wbatch>>
      BY <1>1, <2>1, <2>3, <2>6, SmallWithinCaps
    <3>2. Elems(jobQ)' = Elems(jobQ)
      BY <3>1 DEF Elems
    <3> QED BY <2>4, <3>1, <3>2, SmallWithinCaps DEF CapsInv
  <2> QED BY <2>5, <2>6
<1>12. CASE AccSend
  <2>1. /\ pending' = held /\ taken' = {} /\ held' = {}
        /\ pendBytes' = IF held = {} THEN 0 ELSE Size[CHOOSE s \in held : TRUE]
    BY <1>12 DEF AccSend
  <2>2. Elems(jobQ)' = Elems(jobQ) \cup {taken}
    BY <1>3, <1>12, ElemsOfAppend DEF AccSend
  <2>3. \A b \in Elems(jobQ)' : WithinCaps(b)
    BY <1>2, <2>2 DEF CapsInv
  <2>4. /\ pendBytes' = Bytes(pending') /\ Cardinality(pending') < MaxCount
        /\ WithinCaps(pending')
    <3>1. CASE held = {}
      BY <2>1, <3>1, SmallWithinCaps, BytesAdd
    <3>2. CASE held # {}
      <4>1. PICK s \in Seqs : held = {s}
        BY <1>2, <3>2
      <4>2. pendBytes' = Size[s]
        BY <2>1, <4>1
      <4>3. MaxCount > 1
        BY <1>2, <3>2
      <4> QED BY <2>1, <4>1, <4>2, <4>3, SmallWithinCaps
    <3> QED BY <3>1, <3>2
  <2> QED BY <1>1, <2>1, <2>3, <2>4, SmallWithinCaps DEF CapsInv
<1> QED BY <1>6, <1>7, <1>8, <1>9, <1>10, <1>11, <1>12 DEF AccStep

LEMMA CapsWorkerStep ==
  ASSUME RowInv, CapsInv, NEW w \in Workers, WorkerStep(w)
  PROVE  CapsInv'
<1>1. UNCHANGED <<pending, pendBytes, taken, held>>
  BY DEF WorkerStep, WLock, WPull, WPullNone, WSend, WSendFails, WRecv, WRecvEof,
         WRecvCancelled, WWrite, WWriteFails, WHardKill, WShutdown, WShutdownDone,
         WEscalate, Exit, WorkerFrame, accVars
<1>2. wbatch \in [Workers -> SUBSET Seqs] /\ jobQ \in Seq(SUBSET Seqs)
  BY DEF RowInv, TypeOK, TypeWorkers, TypeQueues
<1>3. SUFFICES (\A b \in Elems(jobQ)' : WithinCaps(b)) /\ (\A v \in Workers : WithinCaps(wbatch'[v]))
  BY <1>1, <1>3 DEF CapsInv
<1>4. CASE WPull(w)
  <2>1. Head(jobQ) \in Elems(jobQ) /\ Elems(jobQ)' \subseteq Elems(jobQ)
    BY <1>2, <1>4, ElemsOfTail DEF WPull
  <2>2. \A v \in Workers : wbatch'[v] = IF v = w THEN Head(jobQ) ELSE wbatch[v]
    BY <1>2, <1>4 DEF WPull
  <2> QED BY <2>1, <2>2 DEF CapsInv
<1>5. CASE WWrite(w) \/ WWriteFails(w)
  <2>1. \A v \in Workers : wbatch'[v] = IF v = w THEN {} ELSE wbatch[v]
    BY <1>2, <1>5 DEF WWrite, WWriteFails
  <2>2. Elems(jobQ)' = Elems(jobQ)
    BY <1>5 DEF WWrite, WWriteFails, Elems
  <2> QED BY <2>1, <2>2, SmallWithinCaps DEF CapsInv
<1>6. CASE UNCHANGED <<jobQ, wbatch>>
  BY <1>6 DEF CapsInv, Elems
<1> QED BY <1>4, <1>5, <1>6 DEF WorkerStep, WLock, WPullNone, WSend, WSendFails, WRecv,
       WRecvEof, WRecvCancelled, WHardKill, WShutdown, WShutdownDone, WEscalate, Exit

LEMMA CapsOtherStep ==
  ASSUME CapsInv,
         \/ \E w \in Workers : HandlerStep(w)
         \/ ReaderStep \/ MonStep \/ PoolStep \/ OperatorCancel \/ OperatorHard
         \/ UNCHANGED vars
  PROVE  CapsInv'
<1> SUFFICES UNCHANGED <<pending, pendBytes, taken, held, jobQ, wbatch>>
  BY CapsUnmoved
<1> QED
  BY DEF HandlerStep, HAnswer, HMisanswer, HEcho, HCrash, Answers, HandlerFrame,
     WorkerFrame, ReaderStep, ReaderEof, ReaderCancelled, ReaderSkip, ReaderLimit,
     ReaderPick, ReaderSend, ReaderSendStop, ReaderFrame, MonStep, MonCancelled,
     MonGrowth, MonStart, MonExpired, MonFire, MonFrame, PoolStep, SpawnWorker,
     StartTasks, SpawnFails, StartupReport, NotifyMonitor, FinalReport, OperatorCancel,
     OperatorHard, PoolFrame, vars, accVars, workerVars

(* No batch exceeds the row count, nor, unless it is a single row, the soft *)
(* or the hard byte cap, and the byte counter of the accumulator is the     *)
(* size of what is pending (steps 2 to 4 of accumulator_task).              *)
THEOREM CapsRespected == Spec => []BatchWithinCaps
<1>1. Init => RowInv /\ CapsInv
  BY InitRows, InitCaps
<1>2. RowInv /\ CapsInv /\ [Next]_vars => RowInv' /\ CapsInv'
  BY RowsStep, CapsAccStep, CapsWorkerStep, CapsOtherStep DEF Next, Finished
<1>3. CapsInv => BatchWithinCaps
  BY DEF CapsInv, WithinCaps, BatchWithinCaps
<1> QED BY <1>1, <1>2, <1>3, PTL DEF Spec
=============================================================================
