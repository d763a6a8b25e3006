----------------------------- MODULE PoolProofs -----------------------------
(***************************************************************************)
(* Facts about the operators of the pipeline: the position of a row in its *)
(* batch, and the elements of a queue. Then type correctness; that rows    *)
(* are conserved, for which RowInv is inductive; and how an attempt ends,  *)
(* for which ControlInv is inductive with it.                              *)
(***************************************************************************)
EXTENDS PoolInvariant, FiniteSetTheorems, SequenceTheorems, TLAPS

(* Seqs is finite, and so is every batch.                                   *)
LEMMA BatchesFinite ==
  ASSUME NEW S \in SUBSET Seqs
  PROVE  /\ S \subseteq Nat /\ IsFiniteSet(S) /\ Cardinality(S) \in Nat
         /\ \A s : IsFiniteSet({t \in S : t < s})
<1>1. NumRows \in Nat
  BY PipelineAssumption
<1>2. IsFiniteSet(Seqs) /\ Seqs \subseteq Nat
  BY <1>1, FS_Interval DEF Seqs
<1>3. IsFiniteSet(S) /\ Cardinality(S) \in Nat
  BY <1>2, FS_Subset, FS_CardinalityType
<1>4. ASSUME NEW s PROVE IsFiniteSet({t \in S : t < s})
  <2>1. {t \in S : t < s} \in SUBSET S
    OBVIOUS
  <2> QED BY <1>3, <2>1, FS_Subset
<1> QED BY <1>2, <1>3, <1>4

(* A row's position in its batch is below the size of the batch.            *)
LEMMA PositionRange ==
  ASSUME NEW S \in SUBSET Seqs, NEW s \in S
  PROVE  Position(S, s) \in 0 .. Cardinality(S) - 1
<1> DEFINE Lower == {t \in S : t < s}
<1>1. S \subseteq Nat /\ IsFiniteSet(S) /\ Cardinality(S) \in Nat
  BY BatchesFinite
<1>2. Lower \in SUBSET S /\ s \notin Lower
  BY <1>1
<1>3. Cardinality(Lower) \in Nat /\ Cardinality(Lower) <= Cardinality(S)
  BY <1>1, <1>2, FS_Subset, FS_CardinalityType
<1>4. Cardinality(Lower) # Cardinality(S)
  BY <1>1, <1>2, FS_Subset
<1> QED BY <1>1, <1>3, <1>4 DEF Position

(* Two rows of a batch are at different positions.                          *)
LEMMA PositionGrows ==
  ASSUME NEW S \in SUBSET Seqs, NEW s \in S, NEW t \in S, s < t
  PROVE  Position(S, s) < Position(S, t)
<1> DEFINE P == {u \in S : u < s}
           Q == {u \in S : u < t}
<1>1. S \subseteq Nat /\ IsFiniteSet(P) /\ IsFiniteSet(Q)
  BY BatchesFinite
<1>2. P \subseteq Q /\ s \in Q /\ s \notin P
  <2>1. ASSUME NEW u \in S, u < s PROVE u < t
    BY <1>1, <2>1
  <2>2. ~(s < s)
    BY <1>1
  <2> QED BY <2>1, <2>2
<1>3. Cardinality(P) \in Nat /\ Cardinality(Q) \in Nat
  BY <1>1, FS_CardinalityType
<1>4. Cardinality(P) <= Cardinality(Q) /\ Cardinality(P) # Cardinality(Q)
  BY <1>1, <1>2, FS_Subset
<1> QED BY <1>3, <1>4 DEF Position

LEMMA PositionInjective ==
  ASSUME NEW S \in SUBSET Seqs, NEW s \in S, NEW t \in S,
         Position(S, s) = Position(S, t)
  PROVE  s = t
<1>1. S \subseteq Nat
  BY BatchesFinite
<1>2. Position(S, s) \in Int /\ Position(S, t) \in Int
  <2>1. Cardinality(S) \in Nat
    BY BatchesFinite
  <2> QED BY <2>1, PositionRange
<1>3. ~(s < t)
  BY <1>2, PositionGrows
<1>4. ~(t < s)
  BY <1>2, PositionGrows
<1> QED BY <1>1, <1>3, <1>4

(* Every position below the size of a batch is taken by one of its rows.    *)
LEMMA PositionOnto ==
  ASSUME NEW S \in SUBSET Seqs, NEW p \in 0 .. Cardinality(S) - 1
  PROVE  \E s \in S : Position(S, s) = p
<1> DEFINE T == 0 .. Cardinality(S) - 1
           f == [s \in S |-> Position(S, s)]
<1>1. IsFiniteSet(S) /\ Cardinality(S) \in Nat
  BY BatchesFinite
<1>2. IsFiniteSet(T) /\ Cardinality(T) = Cardinality(S)
  BY <1>1, FS_Interval
<1>3. f \in [S -> T]
  BY PositionRange
<1>4. \A s, t \in S : f[s] = f[t] => s = t
  BY PositionInjective
<1>5. f \in Injection(S, T)
  BY <1>3, <1>4 DEF Injection, IsInjective
<1>6. f \in Surjection(S, T)
  BY <1>2, <1>5, FS_Injection
<1> QED BY <1>6 DEF Surjection

(* A reply as long as the batch has an answer for each of its rows: the one *)
(* at the same position.                                                    *)
LEMMA CounterpartIsAnswer ==
  ASSUME NEW batch \in SUBSET Seqs, NEW reply \in SUBSET Seqs,
         Cardinality(reply) = Cardinality(batch), NEW s \in batch
  PROVE  /\ Counterpart(batch, reply, s) \in reply
         /\ Position(reply, Counterpart(batch, reply, s)) = Position(batch, s)
<1>1. Position(batch, s) \in 0 .. Cardinality(reply) - 1
  BY PositionRange
<1>2. \E t \in reply : Position(reply, t) = Position(batch, s)
  BY <1>1, PositionOnto
<1> QED BY <1>2 DEF Counterpart

(* A reply to the batch itself gives each row its own answer.               *)
LEMMA CounterpartOfOwnReply ==
  ASSUME NEW batch \in SUBSET Seqs, NEW s \in batch
  PROVE  Counterpart(batch, batch, s) = s
<1>1. /\ Counterpart(batch, batch, s) \in batch
      /\ Position(batch, Counterpart(batch, batch, s)) = Position(batch, s)
  BY CounterpartIsAnswer
<1> QED BY <1>1, PositionInjective

(* What a receiver takes out of a queue and what a sender puts in.          *)
LEMMA ElemsOfTail ==
  ASSUME NEW S, NEW q \in Seq(S), q # <<>>
  PROVE  /\ Head(q) \in Elems(q) /\ Head(q) \in S
         /\ Tail(q) \in Seq(S) /\ Len(Tail(q)) = Len(q) - 1
         /\ Elems(q) = Elems(Tail(q)) \cup {Head(q)}
<1>1. /\ Head(q) = q[1] /\ Head(q) \in S /\ Tail(q) \in Seq(S)
      /\ Len(q) \in Nat \ {0}
      /\ DOMAIN q = 1 .. Len(q) /\ Len(Tail(q)) = Len(q) - 1
      /\ DOMAIN Tail(q) = 1 .. Len(q) - 1
      /\ \A i \in 1 .. Len(q) - 1 : Tail(q)[i] = q[i + 1]
  BY EmptySeq, LenProperties, HeadTailProperties
<1>2. Elems(q) \subseteq Elems(Tail(q)) \cup {Head(q)}
  <2> SUFFICES ASSUME NEW i \in DOMAIN q, i # 1
               PROVE  q[i] \in Elems(Tail(q))
    BY <1>1 DEF Elems
  <2>1. i - 1 \in DOMAIN Tail(q) /\ Tail(q)[i - 1] = q[i]
    BY <1>1
  <2> QED BY <2>1 DEF Elems
<1>3. Elems(Tail(q)) \subseteq Elems(q)
  <2> SUFFICES ASSUME NEW i \in DOMAIN Tail(q)
               PROVE  Tail(q)[i] \in Elems(q)
    BY DEF Elems
  <2>1. i + 1 \in DOMAIN q /\ q[i + 1] = Tail(q)[i]
    BY <1>1
  <2> QED BY <2>1 DEF Elems
<1>4. Head(q) \in Elems(q)
  BY <1>1 DEF Elems
<1> QED BY <1>1, <1>2, <1>3, <1>4

LEMMA ElemsOfAppend ==
  ASSUME NEW S, NEW q \in Seq(S), NEW x \in S
  PROVE  /\ Append(q, x) \in Seq(S) /\ Len(Append(q, x)) = Len(q) + 1
         /\ Elems(Append(q, x)) = Elems(q) \cup {x}
<1>1. /\ Append(q, x) \in Seq(S) /\ Len(q) \in Nat
      /\ Len(Append(q, x)) = Len(q) + 1
      /\ DOMAIN q = 1 .. Len(q) /\ DOMAIN Append(q, x) = 1 .. Len(q) + 1
      /\ \A i \in 1 .. Len(q) : Append(q, x)[i] = q[i]
      /\ Append(q, x)[Len(q) + 1] = x
  BY LenProperties, AppendProperties
<1>2. Elems(Append(q, x)) \subseteq Elems(q) \cup {x}
  BY <1>1 DEF Elems
<1>3. Elems(q) \subseteq Elems(Append(q, x))
  <2> SUFFICES ASSUME NEW i \in DOMAIN q PROVE q[i] \in Elems(Append(q, x))
    BY DEF Elems
  <2>1. i \in DOMAIN Append(q, x) /\ Append(q, x)[i] = q[i]
    BY <1>1
  <2> QED BY <2>1 DEF Elems
<1>4. x \in Elems(Append(q, x))
  <2>1. Len(q) + 1 \in DOMAIN Append(q, x)
    BY <1>1
  <2> QED BY <1>1, <2>1 DEF Elems
<1> QED BY <1>1, <1>2, <1>3, <1>4

-----------------------------------------------------------------------------
(* Type correctness.                                                        *)

LEMMA InitType == Init => TypeOK
<1> SUFFICES ASSUME Init PROVE TypeOK
  OBVIOUS
<1>1. NumRows \in Nat /\ EffectiveWorkers \in Nat /\ RowCap \in Nat /\ JobCap \in Nat
  BY PipelineAssumption DEF EffectiveWorkers
<1>2. TypePool
  <2>1. spawned \in 0 .. EffectiveWorkers
    BY <1>1 DEF Init
  <2> QED BY <2>1 DEF Init, TypePool, PoolPcs, Reports
<1>3. TypeReader
  BY <1>1 DEF Init, TypeReader
<1>4. TypeQueues
  BY <1>1 DEF Init, TypeQueues
<1>5. TypeAcc
  BY DEF Init, TypeAcc
<1>6. TypeWorkers
  BY DEF Init, TypeWorkers, WorkerPcs, NoOutcome
<1>7. TypeHandlers
  BY DEF Init, TypeHandlers
<1>8. TypeLog
  BY EmptySeq DEF Init, TypeLog
<1> QED BY <1>2, <1>3, <1>4, <1>5, <1>6, <1>7, <1>8 DEF TypeOK

LEMMA TypeReaderStep == TypeOK /\ ReaderStep => TypeOK'
<1> SUFFICES ASSUME TypeOK, ReaderStep PROVE TypeOK'
  OBVIOUS
<1> USE DEF TypeOK
<1>1. UNCHANGED ReaderFrame
  BY DEF ReaderStep, ReaderEof, ReaderCancelled, ReaderSkip, ReaderLimit, ReaderPick,
         ReaderSend, ReaderSendStop
<1>2. TypePool' /\ TypeAcc' /\ TypeWorkers' /\ TypeHandlers' /\ TypeLog'
  BY <1>1 DEF ReaderFrame, poolVars, tokenVars, accVars,
         workerVars, handlerVars, monitorVars, logVars,
         TypePool, TypeAcc, TypeWorkers, TypeHandlers, TypeLog
<1>3. TypeReader'
  <2>1. NumRows \in Nat
    BY PipelineAssumption
  <2> QED BY <2>1 DEF ReaderStep, ReaderEof, ReaderCancelled, ReaderSkip, ReaderLimit,
         ReaderPick, ReaderSend, ReaderSendStop, TypeReader
<1>4. TypeQueues'
  <2>1. CASE ReaderSend
    <3>1. nextSeq \in Seqs
      BY <2>1, PipelineAssumption DEF ReaderSend, TypeReader, Seqs
    <3>2. rowQ' \in Seq(Seqs) /\ Len(rowQ') <= RowCap
      BY <2>1, <3>1, ElemsOfAppend, LenProperties, PipelineAssumption
         DEF ReaderSend, TypeQueues
    <3> QED BY <1>1, <3>2 DEF ReaderFrame, TypeQueues
  <2>2. CASE ~ReaderSend
    BY <1>1, <2>2 DEF ReaderStep, ReaderEof, ReaderCancelled, ReaderSkip, ReaderLimit,
         ReaderPick, ReaderSendStop, ReaderFrame, TypeQueues
  <2> QED BY <2>1, <2>2
<1> QED BY <1>2, <1>3, <1>4

(* One line of outcomes of the right type keeps the log's type.             *)
LEMMA TypeAppendLine ==
  ASSUME TypeLog, NEW batch \in SUBSET Seqs, NEW out \in [Seqs -> Kinds \cup {"none"}],
         AppendLine(batch, out)
  PROVE  /\ grown' \in BOOLEAN
         /\ written' \in [Seqs -> Seq(Kinds \cup {"none"})]
<1> SUFFICES ASSUME NEW s \in Seqs
             PROVE  Append(written[s], out[s]) \in Seq(Kinds \cup {"none"})
  BY DEF AppendLine, TypeLog
<1>1. written[s] \in Seq(Kinds \cup {"none"}) /\ out[s] \in Kinds \cup {"none"}
  BY DEF TypeLog
<1> QED BY <1>1, AppendProperties

LEMMA TypeAccStep == TypeOK /\ AccStep => TypeOK'
<1> SUFFICES ASSUME TypeOK, AccStep PROVE TypeOK'
  OBVIOUS
<1> USE DEF TypeOK
<1>1. UNCHANGED AccFrame
  BY DEF AccStep, AccCancelled, AccEof, AccSend, AccFlushCancelled, AccTooLarge,
         AccAppendFails, AccByteFlush, AccPush
<1>2. TypePool' /\ TypeReader' /\ TypeWorkers' /\ TypeHandlers'
  BY <1>1 DEF AccFrame, poolVars, tokenVars, readerVars, workerVars, handlerVars,
         monitorVars, TypePool, TypeReader, TypeWorkers, TypeHandlers
<1>3. rowQ' \in Seq(Seqs) /\ Len(rowQ') <= RowCap
  <2>1. ASSUME NEW s, Receives(s) PROVE rowQ' \in Seq(Seqs) /\ Len(rowQ') <= RowCap
    BY <2>1, ElemsOfTail, LenProperties, PipelineAssumption DEF Receives, TypeQueues
  <2>2. CASE UNCHANGED rowQ
    BY <2>2 DEF TypeQueues
  <2> QED BY <2>1, <2>2 DEF AccStep, AccCancelled, AccEof, AccSend, AccFlushCancelled,
        AccTooLarge, AccAppendFails, AccByteFlush, AccPush
<1>4. jobQ' \in Seq(SUBSET Seqs) /\ Len(jobQ') <= JobCap
  <2>1. CASE AccSend
    BY <2>1, ElemsOfAppend, LenProperties, PipelineAssumption
       DEF AccSend, TypeQueues, TypeAcc
  <2>2. CASE ~AccSend
    BY <2>2 DEF AccStep, AccCancelled, AccEof, AccFlushCancelled, AccTooLarge,
        AccAppendFails, AccByteFlush, AccPush, TypeQueues
  <2> QED BY <2>1, <2>2
<1>5. TypeAcc'
  <2>1. \A s \in Seqs : Size[s] \in Nat
    BY PipelineAssumption
  <2>2. CASE AccCancelled \/ AccEof \/ AccFlushCancelled
    BY <2>2 DEF AccCancelled, AccEof, AccFlushCancelled, TypeAcc
  <2>3. CASE AccSend
    <3>1. pendBytes' \in Nat
      <4>1. CASE held = {}
        BY <2>3, <4>1 DEF AccSend
      <4>2. CASE held # {}
        <5>1. (CHOOSE s \in held : TRUE) \in held
          BY <4>2
        <5> QED BY <2>1, <2>3, <4>2, <5>1 DEF AccSend, TypeAcc
      <4> QED BY <4>1, <4>2
    <3> QED BY <2>3, <3>1 DEF AccSend, TypeAcc
  <2>4. ASSUME NEW s \in Seqs, AccTooLarge(s) \/ AccAppendFails(s) PROVE TypeAcc'
    BY <2>4 DEF AccTooLarge, AccAppendFails, accVars, TypeAcc
  <2>5. ASSUME NEW s \in Seqs, AccByteFlush(s) PROVE TypeAcc'
    BY <2>5 DEF AccByteFlush, TypeAcc
  <2>6. ASSUME NEW s \in Seqs, AccPush(s) PROVE TypeAcc'
    <3>1. Size[s] \in Nat /\ pendBytes \in Nat
      BY <2>1 DEF TypeAcc
    <3>2. pendBytes' \in Nat
      BY <2>6, <3>1 DEF AccPush
    <3>3. pending' \in SUBSET Seqs /\ taken' \in SUBSET Seqs
      BY <2>6 DEF AccPush, TypeAcc
    <3> QED BY <2>6, <3>2, <3>3 DEF AccPush, TypeAcc
  <2> QED BY <2>2, <2>3, <2>4, <2>5, <2>6 DEF AccStep
<1>6. TypeLog'
  <2>1. delivered' = delivered
    BY <1>1 DEF AccFrame
  <2>2. dropped' \in SUBSET Seqs
    BY DEF AccStep, AccCancelled, AccEof, AccSend, AccFlushCancelled, AccTooLarge,
           AccAppendFails, AccByteFlush, AccPush, TypeLog, TypeAcc
  <2>3. grown' \in BOOLEAN /\ written' \in [Seqs -> Seq(Kinds \cup {"none"})]
    <3>1. ASSUME NEW s \in Seqs, AccTooLarge(s)
          PROVE  grown' \in BOOLEAN /\ written' \in [Seqs -> Seq(Kinds \cup {"none"})]
      <4>1. [NoOutcome EXCEPT ![s] = "too_large"] \in [Seqs -> Kinds \cup {"none"}]
        BY DEF NoOutcome, Kinds
      <4>2. {s} \in SUBSET Seqs
        OBVIOUS
      <4> QED BY <3>1, <4>1, <4>2, TypeAppendLine DEF AccTooLarge
    <3>2. CASE UNCHANGED logVars
      BY <3>2 DEF logVars, TypeLog
    <3> QED BY <3>1, <3>2 DEF AccStep, AccCancelled, AccEof, AccSend, AccFlushCancelled,
          AccAppendFails, AccByteFlush, AccPush
  <2> QED BY <2>1, <2>2, <2>3 DEF TypeLog
<1> QED BY <1>2, <1>3, <1>4, <1>5, <1>6 DEF TypeQueues

(* What a worker writes for a row is an outcome kind.                       *)
LEMMA OutcomeKinds ==
  ASSUME TypeWorkers, NEW w \in Workers
  PROVE  /\ Crashed \in [Seqs -> Kinds] /\ ProtocolError \in [Seqs -> Kinds]
         /\ \A reply \in SUBSET Seqs :
              Cardinality(reply) = Cardinality(wbatch[w])
                => Aligned(wbatch[w], reply) \in [Seqs -> Kinds \cup {"none"}]
<1>1. Crashed \in [Seqs -> Kinds] /\ ProtocolError \in [Seqs -> Kinds]
  BY DEF Crashed, ProtocolError, Kinds
<1>2. ASSUME NEW reply \in SUBSET Seqs, Cardinality(reply) = Cardinality(wbatch[w])
      PROVE  Aligned(wbatch[w], reply) \in [Seqs -> Kinds \cup {"none"}]
  <2>1. wbatch[w] \in SUBSET Seqs
    BY DEF TypeWorkers
  <2>2. ASSUME NEW s \in wbatch[w]
        PROVE  Verdict[Counterpart(wbatch[w], reply, s)] \in Kinds
    <3>1. Counterpart(wbatch[w], reply, s) \in Seqs
      BY <1>2, <2>1, CounterpartIsAnswer
    <3>2. Verdict[Counterpart(wbatch[w], reply, s)] \in {"success", "error"}
      BY <3>1, PipelineAssumption
    <3> QED BY <3>2 DEF Kinds
  <2> QED BY <2>2 DEF Aligned
<1> QED BY <1>1, <1>2

LEMMA TypeDecide ==
  ASSUME TypeWorkers, NEW w \in Workers, NEW k \in [Seqs -> Kinds \cup {"none"}],
         NEW next \in WorkerPcs, Decide(w, k, next), UNCHANGED <<wbatch, werr>>
  PROVE  TypeWorkers'
<1>1. [s \in Seqs |-> IF s \in wbatch[w] THEN k[s] ELSE "none"]
        \in [Seqs -> Kinds \cup {"none"}]
  OBVIOUS
<1> QED BY <1>1 DEF Decide, TypeWorkers

LEMMA TypeWorkerStep ==
  ASSUME TypeOK, NEW w \in Workers, WorkerStep(w)
  PROVE  TypeOK'
<1> USE DEF TypeOK
<1>1. UNCHANGED WorkerFrame
  BY DEF WorkerStep, WLock, WPull, WPullNone, WSend, WSendFails, WRecv, WRecvEof,
         WRecvCancelled, WWrite, WWriteFails, WHardKill, WShutdown, WShutdownDone,
         WEscalate, Exit
<1>2. TypePool' /\ TypeReader' /\ TypeAcc' /\ rowQ' = rowQ
  BY <1>1 DEF WorkerFrame, poolVars, tokenVars, readerVars, accVars, monitorVars,
         TypePool, TypeReader, TypeAcc
<1>3. jobQ' \in Seq(SUBSET Seqs) /\ Len(jobQ') <= JobCap
  <2>1. CASE WPull(w)
    BY <2>1, ElemsOfTail, LenProperties, PipelineAssumption DEF WPull, TypeQueues
  <2>2. CASE UNCHANGED jobQ
    BY <2>2 DEF TypeQueues
  <2> QED BY <2>1, <2>2 DEF WorkerStep, WLock, WPullNone, WSend, WSendFails, WRecv,
        WRecvEof, WRecvCancelled, WWrite, WWriteFails, WHardKill, WShutdown,
        WShutdownDone, WEscalate, Exit
<1>4. TypeWorkers'
  <2>1. /\ Crashed \in [Seqs -> Kinds \cup {"none"}]
        /\ ProtocolError \in [Seqs -> Kinds \cup {"none"}]
    BY OutcomeKinds
  <2>2. {"write", "write_exit"} \subseteq WorkerPcs
    BY DEF WorkerPcs
  <2>3. CASE WSendFails(w) \/ WRecvCancelled(w) \/ WRecvEof(w)
    BY <2>1, <2>2, <2>3, TypeDecide DEF WSendFails, WRecvCancelled, WRecvEof
  <2>4. CASE WRecv(w)
    <3> DEFINE r == Head(hout[w])
               k == IF r.ok /\ Cardinality(r.rows) = Cardinality(wbatch[w])
                    THEN Aligned(wbatch[w], r.rows) ELSE ProtocolError
    <3>1. hout[w] \in Seq(Replies) /\ hout[w] # <<>>
      BY <2>4 DEF WRecv, TypeHandlers
    <3>2. r \in Replies
      BY <3>1, ElemsOfTail
    <3>3. r.rows \in SUBSET Seqs
      BY <3>2 DEF Replies
    <3>4. k \in [Seqs -> Kinds \cup {"none"}]
      BY <2>1, <3>3, OutcomeKinds
    <3>5. Decide(w, k, "write") /\ UNCHANGED <<wbatch, werr>>
      BY <2>4 DEF WRecv
    <3> HIDE DEF k
    <3> QED BY <2>2, <3>4, <3>5, TypeDecide
  <2>5. CASE WPull(w)
    <3>1. Head(jobQ) \in SUBSET Seqs
      BY <2>5, ElemsOfTail DEF WPull, TypeQueues
    <3> QED BY <2>5, <3>1 DEF WPull, TypeWorkers, WorkerPcs
  <2>6. CASE WWrite(w) \/ WWriteFails(w)
    <3>1. NoOutcome \in [Seqs -> Kinds \cup {"none"}]
      BY DEF NoOutcome
    <3>2. CASE WWrite(w)
      BY <3>1, <3>2 DEF WWrite, TypeWorkers, WorkerPcs
    <3>3. CASE WWriteFails(w)
      BY <3>1, <3>3 DEF WWriteFails, TypeWorkers, WorkerPcs
    <3> QED BY <2>6, <3>2, <3>3
  <2>7. CASE WLock(w) \/ WPullNone(w) \/ WSend(w) \/ WHardKill(w) \/ WShutdown(w)
               \/ WShutdownDone(w) \/ WEscalate(w)
    BY <2>7 DEF WLock, WPullNone, WSend, WHardKill, WShutdown, WShutdownDone,
           WEscalate, Exit, TypeWorkers, WorkerPcs
  <2> QED BY <2>3, <2>4, <2>5, <2>6, <2>7 DEF WorkerStep
<1>5. TypeHandlers'
  <2>1. CASE WSend(w)
    <3>1. hin[w] \in Seq(SUBSET Seqs) /\ wbatch[w] \in SUBSET Seqs
      BY DEF TypeHandlers, TypeWorkers
    <3>2. Append(hin[w], wbatch[w]) \in Seq(SUBSET Seqs)
      BY <3>1, ElemsOfAppend
    <3> QED BY <2>1, <3>2 DEF WSend, TypeHandlers
  <2>2. CASE WRecv(w)
    <3>1. hout[w] \in Seq(Replies) /\ hout[w] # <<>>
      BY <2>2 DEF WRecv, TypeHandlers
    <3>2. Tail(hout[w]) \in Seq(Replies)
      BY <3>1, ElemsOfTail
    <3> QED BY <2>2, <3>2 DEF WRecv, TypeHandlers
  <2>3. CASE Exit(w)
    BY <2>3 DEF Exit, TypeHandlers
  <2>4. CASE UNCHANGED handlerVars
    BY <2>4 DEF handlerVars, TypeHandlers
  <2> QED BY <2>1, <2>2, <2>3, <2>4 DEF WorkerStep, WLock, WPull, WPullNone, WSendFails,
        WRecvEof, WRecvCancelled, WWrite, WWriteFails, WHardKill, WShutdown,
        WShutdownDone, WEscalate
<1>6. TypeLog'
  <2>1. wbatch[w] \in SUBSET Seqs /\ wout[w] \in [Seqs -> Kinds \cup {"none"}]
    BY DEF TypeWorkers
  <2>2. CASE WWrite(w)
    <3>1. AppendLine(wbatch[w], wout[w]) /\ UNCHANGED <<dropped, delivered>>
      BY <2>2 DEF WWrite
    <3> QED BY <2>1, <3>1, TypeAppendLine DEF TypeLog
  <2>3. CASE WWriteFails(w) \/ WSend(w)
    BY <2>1, <2>3 DEF WWriteFails, WSend, TypeLog, logVars
  <2>4. CASE UNCHANGED <<logVars, dropped, delivered>>
    BY <2>4 DEF logVars, TypeLog
  <2> QED BY <2>2, <2>3, <2>4 DEF WorkerStep, WLock, WPull, WPullNone, WSendFails, WRecv,
        WRecvEof, WRecvCancelled, WHardKill, WShutdown, WShutdownDone, WEscalate, Exit
<1> QED BY <1>2, <1>3, <1>4, <1>5, <1>6 DEF TypeQueues

(* A handler reads one batch and writes replies about it.                   *)
LEMMA TypeAnswers ==
  ASSUME TypeHandlers, NEW w \in Workers, NEW lines \in Seq(Replies), Answers(w, lines)
  PROVE  TypeHandlers'
<1>1. hin[w] \in Seq(SUBSET Seqs) /\ hin[w] # <<>> /\ hout[w] \in Seq(Replies)
  BY DEF Answers, TypeHandlers
<1>2. Tail(hin[w]) \in Seq(SUBSET Seqs) /\ hout[w] \o lines \in Seq(Replies)
  BY <1>1, ElemsOfTail, ConcatProperties
<1> QED BY <1>2 DEF Answers, TypeHandlers

LEMMA TypeHandlerStep ==
  ASSUME TypeOK, NEW w \in Workers, HandlerStep(w)
  PROVE  TypeOK'
<1> USE DEF TypeOK
<1>1. UNCHANGED HandlerFrame
  BY DEF HandlerStep, HAnswer, HMisanswer, HEcho, HCrash, Answers
<1>2. TypePool' /\ TypeReader' /\ TypeQueues' /\ TypeAcc' /\ TypeWorkers' /\ TypeLog'
  BY <1>1 DEF HandlerFrame, WorkerFrame, poolVars, tokenVars, readerVars, accVars,
         workerVars, monitorVars, logVars, TypePool, TypeReader, TypeQueues, TypeAcc,
         TypeWorkers, TypeLog
<1>3. TypeHandlers'
  <2>1. CASE HCrash(w)
    BY <2>1, EmptySeq DEF HCrash, TypeHandlers
  <2>2. CASE HAnswer(w) \/ HMisanswer(w) \/ HEcho(w)
    <3>1. Head(hin[w]) \in SUBSET Seqs
      <4>1. hin[w] \in Seq(SUBSET Seqs) /\ hin[w] # <<>>
        BY <2>2 DEF HAnswer, HMisanswer, HEcho, Answers, TypeHandlers
      <4> QED BY <4>1, ElemsOfTail
    <3>2. Reply(Head(hin[w]), TRUE) \in Replies /\ Reply(Head(hin[w]), FALSE) \in Replies
      BY <3>1 DEF Reply, Replies
    <3>3. \A a, b \in Replies : <<a>> \in Seq(Replies) /\ <<a, b>> \in Seq(Replies)
      OBVIOUS
    <3> QED BY <2>2, <3>2, <3>3, TypeAnswers DEF HAnswer, HMisanswer, HEcho
  <2> QED BY <2>1, <2>2 DEF HandlerStep
<1> QED BY <1>2, <1>3

LEMMA TypeMonStep == TypeOK /\ MonStep => TypeOK'
<1> SUFFICES ASSUME TypeOK, MonStep PROVE TypeOK'
  OBVIOUS
<1> USE DEF TypeOK
<1>1. UNCHANGED MonFrame
  BY DEF MonStep, MonCancelled, MonGrowth, MonStart, MonExpired, MonFire
<1>2. TypeReader' /\ TypeQueues' /\ TypeAcc' /\ TypeWorkers' /\ TypeHandlers'
  BY <1>1 DEF MonFrame, readerVars, accVars, workerVars, handlerVars, TypeReader,
         TypeQueues, TypeAcc, TypeWorkers, TypeHandlers
<1>3. TypePool' /\ TypeLog'
  BY <1>1 DEF MonStep, MonCancelled, MonGrowth, MonStart, MonExpired, MonFire, MonFrame,
         poolVars, tokenVars, TypePool, TypeLog
<1> QED BY <1>2, <1>3

LEMMA ReportType == Classify \in Reports
BY DEF Classify, Reports

LEMMA TypePoolStep == TypeOK /\ (PoolStep \/ OperatorCancel \/ OperatorHard) => TypeOK'
<1> SUFFICES ASSUME TypeOK, PoolStep \/ OperatorCancel \/ OperatorHard PROVE TypeOK'
  OBVIOUS
<1> USE DEF TypeOK
<1>1. CASE SpawnWorker
  <2>1. spawned' \in 0 .. EffectiveWorkers
    BY <1>1, PipelineAssumption DEF SpawnWorker, TypePool, Workers, EffectiveWorkers
  <2>2. TypePool'
    BY <1>1, <2>1 DEF SpawnWorker, TypePool, tokenVars, monitorVars
  <2>3. TypeReader' /\ TypeQueues' /\ TypeAcc' /\ TypeLog'
    BY <1>1 DEF SpawnWorker, readerVars, accVars, logVars, TypeReader, TypeQueues,
           TypeAcc, TypeLog
  <2>4. TypeWorkers' /\ TypeHandlers'
    BY <1>1 DEF SpawnWorker, TypeWorkers, TypeHandlers, WorkerPcs
  <2> QED BY <2>2, <2>3, <2>4
<1>2. CASE StartTasks
  <2>1. TypePool' /\ TypeReader' /\ TypeAcc'
    BY <1>2 DEF StartTasks, tokenVars, TypePool, PoolPcs, TypeReader, TypeAcc
  <2>2. TypeQueues' /\ TypeWorkers' /\ TypeHandlers' /\ TypeLog'
    BY <1>2 DEF StartTasks, workerVars, handlerVars, logVars, TypeQueues, TypeWorkers,
           TypeHandlers, TypeLog
  <2> QED BY <2>1, <2>2
<1>3. CASE SpawnFails
  <2>1. TypeReader' /\ TypeQueues' /\ TypeAcc' /\ TypeWorkers' /\ TypeLog'
    BY <1>3 DEF SpawnFails, readerVars, accVars, workerVars, logVars, TypeReader,
           TypeQueues, TypeAcc, TypeWorkers, TypeLog
  <2>2. TypePool' /\ TypeHandlers'
    BY <1>3 DEF SpawnFails, monitorVars, TypePool, PoolPcs, TypeHandlers
  <2> QED BY <2>1, <2>2
<1>4. CASE StartupReport \/ NotifyMonitor \/ FinalReport \/ OperatorCancel \/ OperatorHard
  <2>1. UNCHANGED <<PoolFrame, wpc>>
    BY <1>4 DEF StartupReport, NotifyMonitor, FinalReport, OperatorCancel, OperatorHard
  <2>2. TypeReader' /\ TypeQueues' /\ TypeAcc' /\ TypeWorkers' /\ TypeHandlers' /\ TypeLog'
    BY <2>1 DEF PoolFrame, readerVars, accVars, handlerVars, logVars, TypeReader,
           TypeQueues, TypeAcc, TypeWorkers, TypeHandlers, TypeLog
  <2>3. mpc' = mpc /\ timer' = timer
    BY <2>1 DEF PoolFrame, monitorVars
  <2>4. TypePool'
    BY <1>4, <2>3, ReportType DEF StartupReport, NotifyMonitor, FinalReport,
           OperatorCancel, OperatorHard, poolVars, tokenVars, TypePool, PoolPcs, Reports
  <2> QED BY <2>2, <2>4
<1> QED BY <1>1, <1>2, <1>3, <1>4 DEF PoolStep

LEMMA TypeUnchanged == TypeOK /\ UNCHANGED vars => TypeOK'
BY DEF vars, poolVars, tokenVars, readerVars, accVars, workerVars, handlerVars,
       monitorVars, logVars, TypeOK, TypePool, TypeReader, TypeQueues, TypeAcc,
       TypeWorkers, TypeHandlers, TypeLog

(* Every variable keeps its type in every behaviour of the pipeline; both   *)
(* channels keep to their capacity (reader.rs, accumulator.rs,              *)
(* worker_loop.rs, jsonl_writer.rs, pool_streaming.rs).                     *)
THEOREM TypeCorrect == Spec => []TypeOK
<1>1. Init => TypeOK
  BY InitType
<1>2. TypeOK /\ [Next]_vars => TypeOK'
  BY TypeReaderStep, TypeAccStep, TypeWorkerStep, TypeHandlerStep, TypeMonStep,
     TypePoolStep, TypeUnchanged DEF Next, Finished
<1> QED BY <1>1, <1>2, PTL DEF Spec

-----------------------------------------------------------------------------
(* Rows are conserved, and each has at most one outcome.                    *)

LEMMA UnionAdd ==
  ASSUME NEW E, NEW b
  PROVE  UNION (E \cup {b}) = (UNION E) \cup b
OBVIOUS

LEMMA DistinctTail ==
  ASSUME NEW S, NEW q \in Seq(S), q # <<>>,
         \A i, j \in DOMAIN q : i # j => q[i] # q[j]
  PROVE  /\ Head(q) \notin Elems(Tail(q))
         /\ \A i, j \in DOMAIN Tail(q) : i # j => Tail(q)[i] # Tail(q)[j]
<1>1. /\ Head(q) = q[1] /\ Len(q) \in Nat \ {0} /\ DOMAIN q = 1 .. Len(q)
      /\ DOMAIN Tail(q) = 1 .. Len(q) - 1
      /\ \A i \in 1 .. Len(q) - 1 : Tail(q)[i] = q[i + 1]
  BY EmptySeq, LenProperties, HeadTailProperties
<1>2. ASSUME NEW i \in DOMAIN Tail(q) PROVE i + 1 \in DOMAIN q /\ i + 1 # 1
  BY <1>1
<1>3. Head(q) \notin Elems(Tail(q))
  BY <1>1, <1>2 DEF Elems
<1>4. ASSUME NEW i \in DOMAIN Tail(q), NEW j \in DOMAIN Tail(q), i # j
      PROVE  Tail(q)[i] # Tail(q)[j]
  <2>1. i + 1 \in DOMAIN q /\ j + 1 \in DOMAIN q /\ i + 1 # j + 1
    BY <1>1, <1>2, <1>4
  <2> QED BY <1>1, <2>1
<1> QED BY <1>3, <1>4

LEMMA DistinctAppend ==
  ASSUME NEW S, NEW q \in Seq(S), NEW x \in S, x \notin Elems(q),
         \A i, j \in DOMAIN q : i # j => q[i] # q[j]
  PROVE  \A i, j \in DOMAIN Append(q, x) : i # j => Append(q, x)[i] # Append(q, x)[j]
<1>1. /\ Len(q) \in Nat /\ DOMAIN q = 1 .. Len(q)
      /\ DOMAIN Append(q, x) = 1 .. Len(q) + 1
      /\ \A i \in 1 .. Len(q) : Append(q, x)[i] = q[i]
      /\ Append(q, x)[Len(q) + 1] = x
  BY LenProperties, AppendProperties
<1>2. \A i \in DOMAIN q : q[i] # x
  BY DEF Elems
<1> QED BY <1>1, <1>2

(* The same for a queue of batches that share no row.                       *)
LEMMA DisjointTail ==
  ASSUME NEW q \in Seq(SUBSET Seqs), q # <<>>,
         \A i, j \in DOMAIN q : i # j => q[i] \cap q[j] = {}
  PROVE  /\ UNION Elems(q) = (UNION Elems(Tail(q))) \cup Head(q)
         /\ Head(q) \cap UNION Elems(Tail(q)) = {}
         /\ \A i, j \in DOMAIN Tail(q) : i # j => Tail(q)[i] \cap Tail(q)[j] = {}
<1>1. /\ Head(q) = q[1] /\ Len(q) \in Nat \ {0} /\ DOMAIN q = 1 .. Len(q)
      /\ DOMAIN Tail(q) = 1 .. Len(q) - 1
      /\ \A i \in 1 .. Len(q) - 1 : Tail(q)[i] = q[i + 1]
  BY EmptySeq, LenProperties, HeadTailProperties
<1>2. ASSUME NEW i \in DOMAIN Tail(q)
      PROVE  i + 1 \in DOMAIN q /\ i + 1 # 1 /\ Tail(q)[i] = q[i + 1]
  BY <1>1
<1>3. Elems(q) = Elems(Tail(q)) \cup {Head(q)}
  BY ElemsOfTail
<1>4. ASSUME NEW b \in Elems(Tail(q)) PROVE Head(q) \cap b = {}
  <2>1. PICK i \in DOMAIN Tail(q) : b = Tail(q)[i]
    BY DEF Elems
  <2>2. 1 \in DOMAIN q
    BY <1>1
  <2> QED BY <1>1, <1>2, <2>1, <2>2
<1>5. ASSUME NEW i \in DOMAIN Tail(q), NEW j \in DOMAIN Tail(q), i # j
      PROVE  Tail(q)[i] \cap Tail(q)[j] = {}
  <2>1. i + 1 \in DOMAIN q /\ j + 1 \in DOMAIN q /\ i + 1 # j + 1
    BY <1>1, <1>2, <1>5
  <2> QED BY <1>2, <2>1
<1>6. UNION Elems(q) = (UNION Elems(Tail(q))) \cup Head(q)
  BY <1>3, UnionAdd
<1>7. Head(q) \cap UNION Elems(Tail(q)) = {}
  BY <1>4
<1> QED BY <1>5, <1>6, <1>7

LEMMA DisjointAppend ==
  ASSUME NEW q \in Seq(SUBSET Seqs), NEW b \in SUBSET Seqs, b \cap UNION Elems(q) = {},
         \A i, j \in DOMAIN q : i # j => q[i] \cap q[j] = {}
  PROVE  /\ UNION Elems(Append(q, b)) = (UNION Elems(q)) \cup b
         /\ \A i, j \in DOMAIN Append(q, b) :
              i # j => Append(q, b)[i] \cap Append(q, b)[j] = {}
<1>1. /\ Len(q) \in Nat /\ DOMAIN q = 1 .. Len(q)
      /\ DOMAIN Append(q, b) = 1 .. Len(q) + 1
      /\ \A i \in 1 .. Len(q) : Append(q, b)[i] = q[i]
      /\ Append(q, b)[Len(q) + 1] = b
  BY LenProperties, AppendProperties
<1>2. \A i \in DOMAIN q : q[i] \cap b = {}
  BY DEF Elems
<1>3. Elems(Append(q, b)) = Elems(q) \cup {b}
  BY ElemsOfAppend
<1>4. ASSUME NEW i \in DOMAIN Append(q, b), NEW j \in DOMAIN Append(q, b), i # j
      PROVE  Append(q, b)[i] \cap Append(q, b)[j] = {}
  <2>1. CASE i \in DOMAIN q /\ j \in DOMAIN q
    BY <1>1, <1>4, <2>1
  <2>2. CASE i = Len(q) + 1
    <3>1. j \in DOMAIN q
      BY <1>1, <1>4, <2>2
    <3> QED BY <1>1, <1>2, <2>2, <3>1
  <2>3. CASE j = Len(q) + 1
    <3>1. i \in DOMAIN q
      BY <1>1, <1>4, <2>3
    <3> QED BY <1>1, <1>2, <2>3, <3>1
  <2> QED BY <1>1, <2>1, <2>2, <2>3
<1>5. UNION Elems(Append(q, b)) = (UNION Elems(q)) \cup b
  BY <1>3, UnionAdd
<1> QED BY <1>4, <1>5

-----------------------------------------------------------------------------
LEMMA InitRows == Init => RowInv
<1> SUFFICES ASSUME Init PROVE RowInv
  OBVIOUS
<1>1. TypeOK
  BY InitType
<1>2. NoSharing
  BY DEF Init, NoSharing
<1>3. OnePlace
  <2>1. Elems(rowQ) = {} /\ InJobQ = {}
    BY DEF Init, Elems, InJobQ
  <2>2. Accumulating = {} /\ InWorker = {} /\ Recorded = {} /\ dropped = {}
    BY DEF Init, Accumulating, InWorker, Recorded
  <2>3. Sent = {}
    BY PipelineAssumption DEF Init, Sent, Seqs
  <2> QED BY <2>1, <2>2, <2>3 DEF OnePlace
<1>4. Phases
  BY DEF Init, Phases
<1>5. WrittenOnce
  BY EmptySeq DEF Init, WrittenOnce
<1> QED BY <1>1, <1>2, <1>3, <1>4, <1>5 DEF RowInv

(* Steps that move no row.                                                  *)
LEMMA RowsUnmoved ==
  ASSUME RowInv,
         UNCHANGED <<nextSeq, rowQ, pending, taken, held, jobQ, wbatch, written, dropped>>
  PROVE  NoSharing' /\ OnePlace' /\ WrittenOnce'
<1>1. NoSharing'
  BY DEF RowInv, NoSharing
<1>2. /\ Accumulating' = Accumulating /\ InJobQ' = InJobQ /\ InWorker' = InWorker
      /\ Recorded' = Recorded /\ Sent' = Sent /\ Elems(rowQ)' = Elems(rowQ)
  BY DEF Accumulating, InJobQ, InWorker, Recorded, Sent
<1>3. OnePlace'
  BY <1>2 DEF RowInv, OnePlace
<1>4. WrittenOnce'
  BY DEF RowInv, WrittenOnce
<1> QED BY <1>1, <1>3, <1>4

(* A line with the outcomes of a batch records exactly its rows.            *)
LEMMA AppendRecords ==
  ASSUME TypeOK, WrittenOnce, NEW batch \in SUBSET Seqs, NEW out \in [Seqs -> Kinds \cup {"none"}],
         AppendLine(batch, out), \A s \in batch : s \notin Recorded
  PROVE  Recorded' = Recorded \cup batch /\ WrittenOnce'
<1>1. ASSUME NEW s \in Seqs, s \notin batch PROVE written'[s] = written[s]
  BY <1>1 DEF AppendLine
<1>2. ASSUME NEW s \in Seqs, s \in batch
      PROVE  written'[s] # <<>> /\ Len(written'[s]) = 1
  <2>1. written[s] = <<>> /\ out[s] \in Kinds \cup {"none"}
    BY <1>2 DEF Recorded
  <2>2. written'[s] = Append(<<>>, out[s])
    BY <1>2, <2>1 DEF AppendLine
  <2>3. <<>> \in Seq(Kinds \cup {"none"}) /\ Len(<<>>) = 0
    BY EmptySeq
  <2> QED BY <2>1, <2>2, <2>3, AppendProperties
<1>3. Recorded' = Recorded \cup batch
  BY <1>1, <1>2 DEF Recorded
<1>4. WrittenOnce'
  <2> SUFFICES ASSUME NEW s \in Seqs PROVE Len(written'[s]) <= 1
    BY DEF WrittenOnce
  <2>1. CASE s \in batch
    <3>1. Len(written'[s]) = 1
      BY <1>2, <2>1
    <3> QED BY <3>1
  <2>2. CASE s \notin batch
    BY <1>1, <2>2 DEF WrittenOnce
  <2> QED BY <2>1, <2>2
<1> QED BY <1>3, <1>4

LEMMA RowsReaderStep ==
  ASSUME RowInv, ReaderStep
  PROVE  NoSharing' /\ OnePlace' /\ Phases' /\ WrittenOnce'
<1> USE DEF RowInv
<1>1. UNCHANGED <<ppc, spawned, apc, pending, taken, held, jobQ, wpc, wbatch, written,
                  dropped>>
  BY DEF ReaderStep, ReaderEof, ReaderCancelled, ReaderSkip, ReaderLimit, ReaderPick,
         ReaderSend, ReaderSendStop, ReaderFrame, poolVars, accVars, workerVars, logVars
<1>2. Phases'
  BY <1>1 DEF ReaderStep, ReaderEof, ReaderCancelled, ReaderSkip, ReaderLimit, ReaderPick,
         ReaderSend, ReaderSendStop, Phases, Selected
<1>3. /\ Accumulating' = Accumulating /\ InJobQ' = InJobQ /\ InWorker' = InWorker
      /\ Recorded' = Recorded /\ dropped' = dropped
  BY <1>1 DEF Accumulating, InJobQ, InWorker, Recorded
<1>4. WrittenOnce'
  BY <1>1 DEF WrittenOnce
<1>5. CASE ReaderSend
  <2>1. nextSeq \in Seqs /\ NumRows \in Nat
    BY <1>5, PipelineAssumption DEF ReaderSend, TypeOK, TypeReader, Seqs
  <2>2. Selected(nextSeq)
    BY <1>5 DEF ReaderSend, Phases
  <2>3. rowQ' = Append(rowQ, nextSeq) /\ nextSeq' = nextSeq + 1 /\ rowQ \in Seq(Seqs)
    BY <1>5 DEF ReaderSend, TypeOK, TypeQueues
  <2>4. Elems(rowQ)' = Elems(rowQ) \cup {nextSeq}
    BY <2>1, <2>3, ElemsOfAppend
  <2>5. Sent' = Sent \cup {nextSeq} /\ nextSeq \notin Sent
    <3>1. \A s \in Seqs : s \in Sent' <=> s \in Sent \/ s = nextSeq
      BY <2>1, <2>2, <2>3 DEF Sent, Selected, Seqs
    <3>2. nextSeq \notin Sent
      BY <2>1 DEF Sent, Seqs
    <3> QED BY <2>1, <3>1, <3>2 DEF Sent
  <2>6. OnePlace'
    BY <1>3, <2>4, <2>5 DEF OnePlace
  <2>7. nextSeq \notin Elems(rowQ)
    BY <2>5 DEF OnePlace
  <2>8. NoSharing'
    BY <1>1, <2>1, <2>3, <2>7, DistinctAppend DEF NoSharing
  <2> QED BY <1>2, <1>4, <2>6, <2>8
<1>6. CASE ReaderSkip
  <2>1. nextSeq \in Seqs /\ NumRows \in Nat /\ ~Selected(nextSeq) /\ nextSeq' = nextSeq + 1
    BY <1>6, PipelineAssumption DEF ReaderSkip, TypeOK, TypeReader, Seqs
  <2>2. Sent' = Sent
    BY <2>1 DEF Sent, Selected, Seqs
  <2>3. rowQ' = rowQ
    BY <1>6 DEF ReaderSkip
  <2>4. OnePlace'
    BY <1>3, <2>2, <2>3 DEF OnePlace
  <2>5. NoSharing'
    BY <1>1, <2>3 DEF NoSharing
  <2> QED BY <1>2, <1>4, <2>4, <2>5
<1>7. CASE ReaderEof \/ ReaderCancelled \/ ReaderLimit \/ ReaderPick \/ ReaderSendStop
  <2>1. UNCHANGED <<nextSeq, rowQ>>
    BY <1>7 DEF ReaderEof, ReaderCancelled, ReaderLimit, ReaderPick, ReaderSendStop
  <2> QED BY <1>1, <1>2, <2>1, RowsUnmoved
<1> QED BY <1>5, <1>6, <1>7 DEF ReaderStep

(* A row the accumulator receives is its own: it leaves the channel and is  *)
(* nowhere else.                                                            *)
LEMMA Received ==
  ASSUME RowInv, NEW s, Receives(s)
  PROVE  /\ s \in Seqs /\ s \in Elems(rowQ)
         /\ Elems(rowQ) = Elems(rowQ)' \cup {s} /\ s \notin Elems(rowQ)'
         /\ \A i, j \in DOMAIN rowQ' : i # j => rowQ'[i] # rowQ'[j]
         /\ taken = {} /\ held = {}
<1> USE DEF RowInv
<1>1. rowQ \in Seq(Seqs) /\ rowQ # <<>> /\ s = Head(rowQ) /\ rowQ' = Tail(rowQ)
  BY DEF Receives, TypeOK, TypeQueues
<1>2. taken = {} /\ held = {}
  BY DEF Receives, Phases
<1>3. \A i, j \in DOMAIN rowQ : i # j => rowQ[i] # rowQ[j]
  BY DEF NoSharing
<1>4. s \notin Elems(Tail(rowQ)) /\ \A i, j \in DOMAIN Tail(rowQ) : i # j => Tail(rowQ)[i] # Tail(rowQ)[j]
  BY <1>1, <1>3, DistinctTail
<1>5. s \in Seqs /\ s \in Elems(rowQ) /\ Elems(rowQ) = Elems(Tail(rowQ)) \cup {s}
  BY <1>1, ElemsOfTail
<1> QED BY <1>1, <1>2, <1>4, <1>5

LEMMA RowsAccStep ==
  ASSUME RowInv, AccStep
  PROVE  NoSharing' /\ OnePlace' /\ Phases' /\ WrittenOnce'
<1> USE DEF RowInv
<1>1. UNCHANGED <<ppc, spawned, rpc, nextSeq, wpc, wbatch>>
  BY DEF AccStep, AccCancelled, AccEof, AccSend, AccFlushCancelled, AccTooLarge,
         AccAppendFails, AccByteFlush, AccPush, AccFrame, poolVars, readerVars, workerVars
<1>2. InWorker' = InWorker /\ Sent' = Sent
  BY <1>1 DEF InWorker, Sent
<1>3. Phases'
  <2>1. (rpc = "send" => Selected(nextSeq))'
    BY <1>1 DEF Phases, Selected
  <2>2. \A w \in Workers :
          /\ wbatch'[w] # {} => wpc'[w] \in {"send", "wait", "write", "write_exit"}
          /\ w >= spawned' => wpc'[w] = "unspawned"
    BY <1>1 DEF Phases
  <2>3. ppc' \notin {"spawn", "startup_failed"}
    BY <1>1 DEF Phases, AccStep, AccCancelled, AccEof, AccSend, AccFlushCancelled,
         AccTooLarge, AccAppendFails, AccByteFlush, AccPush, Receives
  <2>4. /\ apc' # "recv" => pending' = {}
        /\ apc' \notin {"flush", "flush_eof"} => taken' = {} /\ held' = {}
        /\ apc' = "flush_eof" => held' = {}
    BY DEF Phases, AccStep, AccCancelled, AccEof, AccSend, AccFlushCancelled, AccTooLarge,
         AccAppendFails, AccByteFlush, AccPush, Receives, accVars
  <2> QED BY <2>1, <2>2, <2>3, <2>4 DEF Phases
<1>4. ASSUME UNCHANGED logVars
      PROVE  Recorded' = Recorded /\ WrittenOnce'
  BY <1>4 DEF logVars, Recorded, WrittenOnce
<1>5. CASE AccCancelled \/ AccFlushCancelled
  <2>1. /\ UNCHANGED <<rowQ, jobQ, logVars>> /\ Accumulating' = {}
        /\ dropped' = dropped \cup Accumulating
        /\ taken' = {}
    BY <1>5 DEF AccCancelled, AccFlushCancelled, Accumulating, Phases
  <2>2. NoSharing'
    BY <1>1, <2>1 DEF NoSharing
  <2>3. InJobQ' = InJobQ /\ Elems(rowQ)' = Elems(rowQ)
    BY <2>1 DEF InJobQ
  <2>4. OnePlace'
    BY <1>2, <1>4, <2>1, <2>3 DEF OnePlace
  <2> QED BY <1>3, <1>4, <2>1, <2>2, <2>4
<1>6. CASE AccEof
  <2>1. UNCHANGED <<rowQ, jobQ, held, logVars, dropped>> /\ Accumulating' = Accumulating
        /\ held' = {}
    BY <1>6 DEF AccEof, Accumulating, Phases
  <2>2. NoSharing'
    BY <1>1, <2>1 DEF NoSharing
  <2>3. InJobQ' = InJobQ /\ Elems(rowQ)' = Elems(rowQ)
    BY <2>1 DEF InJobQ
  <2>4. OnePlace'
    BY <1>2, <1>4, <2>1, <2>3 DEF OnePlace
  <2> QED BY <1>3, <1>4, <2>1, <2>2, <2>4
<1>7. CASE AccSend
  <2>1. /\ UNCHANGED <<rowQ, logVars, dropped>> /\ jobQ' = Append(jobQ, taken)
        /\ pending' = held /\ taken' = {} /\ held' = {} /\ pending = {}
    BY <1>7 DEF AccSend, Phases
  <2>2. taken \cap held = {}
    BY DEF NoSharing
  <2>3. taken \in SUBSET Seqs /\ jobQ \in Seq(SUBSET Seqs) /\ taken \cap UNION Elems(jobQ) = {}
    BY DEF TypeOK, TypeAcc, TypeQueues, OnePlace, Accumulating, InJobQ
  <2>4. /\ InJobQ' = InJobQ \cup taken
        /\ \A i, j \in DOMAIN jobQ' : i # j => jobQ'[i] \cap jobQ'[j] = {}
    BY <2>1, <2>3, DisjointAppend DEF InJobQ, NoSharing
  <2>5. NoSharing'
    BY <1>1, <2>1, <2>4 DEF NoSharing
  <2>6. Accumulating' = held /\ Accumulating = taken \cup held
    BY <2>1 DEF Accumulating
  <2>7. Elems(rowQ)' = Elems(rowQ)
    BY <2>1
  <2>8. OnePlace'
    BY <1>2, <1>4, <2>1, <2>2, <2>4, <2>6, <2>7 DEF OnePlace
  <2> QED BY <1>3, <1>4, <2>1, <2>5, <2>8
<1>8. ASSUME NEW s \in Seqs, AccTooLarge(s) PROVE NoSharing' /\ OnePlace' /\ Phases' /\ WrittenOnce'
  <2>1. UNCHANGED <<pending, taken, held, jobQ, dropped>> /\ Receives(s)
    BY <1>8 DEF AccTooLarge, accVars
  <2>2. /\ s \in Elems(rowQ) /\ Elems(rowQ) = Elems(rowQ)' \cup {s} /\ s \notin Elems(rowQ)'
        /\ \A i, j \in DOMAIN rowQ' : i # j => rowQ'[i] # rowQ'[j]
    BY <2>1, Received
  <2>3. Recorded' = Recorded \cup {s} /\ WrittenOnce'
    <3>1. [NoOutcome EXCEPT ![s] = "too_large"] \in [Seqs -> Kinds \cup {"none"}]
      BY DEF NoOutcome, Kinds
    <3>2. {s} \in SUBSET Seqs /\ s \notin Recorded
      BY <2>2 DEF OnePlace
    <3> QED BY <1>8, <3>1, <3>2, AppendRecords DEF AccTooLarge
  <2>4. Accumulating' = Accumulating /\ InJobQ' = InJobQ
    BY <2>1 DEF Accumulating, InJobQ
  <2>5. OnePlace'
    BY <1>2, <2>1, <2>2, <2>3, <2>4 DEF OnePlace
  <2>6. NoSharing'
    BY <1>1, <2>1, <2>2 DEF NoSharing
  <2> QED BY <1>3, <2>3, <2>5, <2>6
<1>9. ASSUME NEW s \in Seqs, AccAppendFails(s) PROVE NoSharing' /\ OnePlace' /\ Phases' /\ WrittenOnce'
  <2>1. /\ UNCHANGED <<taken, held, jobQ, logVars>> /\ Receives(s) /\ pending' = {}
        /\ dropped' = dropped \cup pending \cup {s}
    BY <1>9 DEF AccAppendFails
  <2>2. /\ s \in Elems(rowQ) /\ Elems(rowQ) = Elems(rowQ)' \cup {s} /\ s \notin Elems(rowQ)'
        /\ \A i, j \in DOMAIN rowQ' : i # j => rowQ'[i] # rowQ'[j]
        /\ taken = {} /\ held = {}
    BY <2>1, Received
  <2>3. Accumulating' = {} /\ Accumulating = pending /\ InJobQ' = InJobQ
    BY <2>1, <2>2 DEF Accumulating, InJobQ
  <2>4. OnePlace'
    BY <1>2, <1>4, <2>1, <2>2, <2>3 DEF OnePlace
  <2>5. NoSharing'
    BY <1>1, <2>1, <2>2 DEF NoSharing
  <2> QED BY <1>3, <1>4, <2>1, <2>4, <2>5
<1>10. ASSUME NEW s \in Seqs, AccByteFlush(s) \/ AccPush(s)
       PROVE  NoSharing' /\ OnePlace' /\ Phases' /\ WrittenOnce'
  <2>1. UNCHANGED <<jobQ, logVars, dropped>> /\ Receives(s)
    BY <1>10 DEF AccByteFlush, AccPush
  <2>2. /\ s \in Elems(rowQ) /\ Elems(rowQ) = Elems(rowQ)' \cup {s} /\ s \notin Elems(rowQ)'
        /\ \A i, j \in DOMAIN rowQ' : i # j => rowQ'[i] # rowQ'[j]
        /\ taken = {} /\ held = {}
    BY <2>1, Received
  <2>3. Accumulating' = Accumulating \cup {s}
    BY <1>10, <2>2 DEF AccByteFlush, AccPush, Accumulating
  <2>4. s \notin Accumulating
    BY <2>2 DEF OnePlace
  <2>5. taken' \cap held' = {}
    BY <1>10, <2>2, <2>4 DEF AccByteFlush, AccPush, Accumulating
  <2>6. InJobQ' = InJobQ
    BY <2>1 DEF InJobQ
  <2>7. OnePlace'
    BY <1>2, <1>4, <2>1, <2>2, <2>3, <2>6 DEF OnePlace
  <2>8. NoSharing'
    BY <1>1, <2>1, <2>2, <2>5 DEF NoSharing
  <2> QED BY <1>3, <1>4, <2>1, <2>7, <2>8
<1> QED BY <1>5, <1>6, <1>7, <1>8, <1>9, <1>10 DEF AccStep

(* What the workers hold after one of them has taken or finished a batch.   *)
LEMMA WorkerBatchChanged ==
  ASSUME RowInv, NEW w \in Workers, NEW b \in SUBSET Seqs,
         wbatch' = [wbatch EXCEPT ![w] = b],
         b = {} \/ (wbatch[w] = {} /\ b \cap InWorker = {})
  PROVE  /\ InWorker' = (InWorker \ wbatch[w]) \cup b
         /\ \A u, v \in Workers : u # v => wbatch'[u] \cap wbatch'[v] = {}
<1> USE DEF RowInv
<1>1. wbatch \in [Workers -> SUBSET Seqs]
  BY DEF TypeOK, TypeWorkers
<1>2. \A u, v \in Workers : u # v => wbatch[u] \cap wbatch[v] = {}
  BY DEF NoSharing
<1>3. \A v \in Workers : wbatch'[v] = IF v = w THEN b ELSE wbatch[v]
  BY <1>1
<1>4. \A s : s \in InWorker' <=> \E v \in Workers : s \in wbatch'[v]
  BY DEF InWorker
<1>5. \A s : s \in InWorker <=> \E v \in Workers : s \in wbatch[v]
  BY DEF InWorker
<1>6. \A s : s \in InWorker' <=> (s \in InWorker /\ s \notin wbatch[w]) \/ s \in b
  BY <1>2, <1>3, <1>4, <1>5
<1>7. \A v \in Workers : v # w => b \cap wbatch[v] = {}
  BY <1>5
<1>8. ASSUME NEW u \in Workers, NEW v \in Workers, u # v
      PROVE  wbatch'[u] \cap wbatch'[v] = {}
  BY <1>2, <1>3, <1>7, <1>8
<1> QED BY <1>6, <1>8

LEMMA RowsWorkerStep ==
  ASSUME RowInv, NEW w \in Workers, WorkerStep(w)
  PROVE  NoSharing' /\ OnePlace' /\ Phases' /\ WrittenOnce'
<1> USE DEF RowInv
<1>1. UNCHANGED <<ppc, spawned, rpc, nextSeq, apc, pending, taken, held, rowQ>>
  BY DEF WorkerStep, WLock, WPull, WPullNone, WSend, WSendFails, WRecv, WRecvEof,
         WRecvCancelled, WWrite, WWriteFails, WHardKill, WShutdown, WShutdownDone,
         WEscalate, Exit, WorkerFrame, poolVars, readerVars, accVars
<1>2. Accumulating' = Accumulating /\ Elems(rowQ)' = Elems(rowQ) /\ Sent' = Sent
  BY <1>1 DEF Accumulating, Sent
<1>3. wpc \in [Workers -> WorkerPcs] /\ wbatch \in [Workers -> SUBSET Seqs]
  BY DEF TypeOK, TypeWorkers
<1>4. Phases'
  <2>1. (rpc = "send" => Selected(nextSeq))'
    BY <1>1 DEF Phases, Selected
  <2>2. ASSUME NEW v \in Workers, wbatch'[v] # {}
        PROVE  wpc'[v] \in {"send", "wait", "write", "write_exit"}
    <3>1. CASE v # w
      <4>1. wbatch'[v] = wbatch[v] /\ wpc'[v] = wpc[v]
        BY <1>3, <3>1 DEF WorkerStep, WLock, WPull, WPullNone, WSend, WSendFails, WRecv,
         WRecvEof, WRecvCancelled, WWrite, WWriteFails, WHardKill, WShutdown,
         WShutdownDone, WEscalate, Exit, Decide
      <4> QED BY <2>2, <4>1 DEF Phases
    <3>2. CASE v = w
      <4>1. wbatch[w] # {} => wpc[w] \in {"send", "wait", "write", "write_exit"}
        BY DEF Phases
      <4> QED BY <1>3, <2>2, <3>2, <4>1 DEF WorkerStep, WLock, WPull, WPullNone, WSend,
         WSendFails, WRecv, WRecvEof, WRecvCancelled, WWrite, WWriteFails, WHardKill,
         WShutdown, WShutdownDone, WEscalate, Exit, Decide
    <3> QED BY <3>1, <3>2
  <2>3. ASSUME NEW v \in Workers, v >= spawned PROVE wpc'[v] = "unspawned"
    <3>1. wpc[v] = "unspawned"
      BY <2>3 DEF Phases
    <3>2. v # w
      BY <3>1 DEF WorkerStep, WLock, WPull, WPullNone, WSend, WSendFails, WRecv,
         WRecvEof, WRecvCancelled, WWrite, WWriteFails, WHardKill, WShutdown,
         WShutdownDone, WEscalate
    <3> QED BY <1>3, <3>1, <3>2 DEF WorkerStep, WLock, WPull, WPullNone, WSend, WSendFails,
         WRecv, WRecvEof, WRecvCancelled, WWrite, WWriteFails, WHardKill, WShutdown,
         WShutdownDone, WEscalate, Exit, Decide
  <2> QED BY <1>1, <2>1, <2>2, <2>3 DEF Phases
<1>5. CASE WPull(w)
  <2>1. /\ jobQ \in Seq(SUBSET Seqs) /\ jobQ # <<>> /\ jobQ' = Tail(jobQ)
        /\ wbatch' = [wbatch EXCEPT ![w] = Head(jobQ)]
        /\ UNCHANGED <<logVars, dropped>>
    BY <1>5 DEF WPull, TypeOK, TypeQueues
  <2>2. wbatch[w] = {}
    BY <1>5 DEF WPull, Phases
  <2>3. \A i, j \in DOMAIN jobQ : i # j => jobQ[i] \cap jobQ[j] = {}
    BY DEF NoSharing
  <2>4. /\ InJobQ = InJobQ' \cup Head(jobQ) /\ Head(jobQ) \cap InJobQ' = {}
        /\ \A i, j \in DOMAIN jobQ' : i # j => jobQ'[i] \cap jobQ'[j] = {}
    BY <2>1, <2>3, DisjointTail DEF InJobQ
  <2>5. Head(jobQ) \in SUBSET Seqs /\ Head(jobQ) \cap InWorker = {}
    BY <2>1, <2>4, ElemsOfTail DEF OnePlace
  <2>6. /\ InWorker' = InWorker \cup Head(jobQ)
        /\ \A u, v \in Workers : u # v => wbatch'[u] \cap wbatch'[v] = {}
    <3>1. /\ InWorker' = (InWorker \ wbatch[w]) \cup Head(jobQ)
          /\ \A u, v \in Workers : u # v => wbatch'[u] \cap wbatch'[v] = {}
      BY <2>1, <2>2, <2>5, WorkerBatchChanged
    <3> QED BY <2>2, <3>1
  <2>7. Recorded' = Recorded /\ WrittenOnce'
    BY <2>1 DEF logVars, Recorded, WrittenOnce
  <2>8. OnePlace'
    BY <1>2, <2>1, <2>4, <2>6, <2>7 DEF OnePlace
  <2>9. NoSharing'
    BY <1>1, <2>4, <2>6 DEF NoSharing
  <2> QED BY <1>4, <2>7, <2>8, <2>9
<1>6. CASE WWrite(w) \/ WWriteFails(w)
  <2>1. wbatch[w] \in SUBSET Seqs /\ wbatch[w] \subseteq InWorker
    BY <1>3 DEF InWorker
  <2>2. UNCHANGED jobQ /\ wbatch' = [wbatch EXCEPT ![w] = {}]
    BY <1>6 DEF WWrite, WWriteFails
  <2>3. {} \in SUBSET Seqs
    OBVIOUS
  <2>4. /\ InWorker' = InWorker \ wbatch[w]
        /\ \A u, v \in Workers : u # v => wbatch'[u] \cap wbatch'[v] = {}
    <3> DEFINE b == {}
    <3>1. b \in SUBSET Seqs /\ b = {} /\ wbatch' = [wbatch EXCEPT ![w] = b]
      BY <2>2, <2>3
    <3> HIDE DEF b
    <3>2. /\ InWorker' = (InWorker \ wbatch[w]) \cup b
          /\ \A u, v \in Workers : u # v => wbatch'[u] \cap wbatch'[v] = {}
      BY <3>1, WorkerBatchChanged
    <3> QED BY <3>1, <3>2
  <2>5. InJobQ' = InJobQ
    BY <2>2 DEF InJobQ
  <2>6. NoSharing'
    BY <1>1, <2>2, <2>4 DEF NoSharing
  <2>7. CASE WWrite(w)
    <3>1. wout[w] \in [Seqs -> Kinds \cup {"none"}]
      BY DEF TypeOK, TypeWorkers
    <3>2. \A s \in wbatch[w] : s \notin Recorded
      BY <2>1 DEF OnePlace
    <3>3. Recorded' = Recorded \cup wbatch[w] /\ WrittenOnce' /\ dropped' = dropped
      BY <2>1, <2>7, <3>1, <3>2, AppendRecords DEF WWrite
    <3>4. OnePlace'
      BY <1>2, <2>1, <2>4, <2>5, <3>3 DEF OnePlace
    <3> QED BY <1>4, <2>6, <3>3, <3>4
  <2>8. CASE WWriteFails(w)
    <3>1. UNCHANGED logVars /\ dropped' = dropped \cup wbatch[w]
      BY <2>8 DEF WWriteFails
    <3>2. Recorded' = Recorded /\ WrittenOnce'
      BY <3>1 DEF logVars, Recorded, WrittenOnce
    <3>3. OnePlace'
      BY <1>2, <2>1, <2>4, <2>5, <3>1, <3>2 DEF OnePlace
    <3> QED BY <1>4, <2>6, <3>2, <3>3
  <2> QED BY <1>6, <2>7, <2>8
<1>7. CASE ~(WPull(w) \/ WWrite(w) \/ WWriteFails(w))
  <2>1. UNCHANGED <<jobQ, wbatch, logVars, dropped>>
    BY <1>7 DEF WorkerStep, WLock, WPullNone, WSend, WSendFails, WRecv, WRecvEof,
         WRecvCancelled, WHardKill, WShutdown, WShutdownDone, WEscalate, Exit
  <2> QED BY <1>1, <1>4, <2>1, RowsUnmoved DEF logVars
<1> QED BY <1>5, <1>6, <1>7

(* The handlers, the monitor, the pool and the operator move no row.        *)
LEMMA RowsOtherStep ==
  ASSUME RowInv,
         \/ \E w \in Workers : HandlerStep(w)
         \/ MonStep \/ PoolStep \/ OperatorCancel \/ OperatorHard \/ UNCHANGED vars
  PROVE  NoSharing' /\ OnePlace' /\ Phases' /\ WrittenOnce'
<1> USE DEF RowInv
<1>1. /\ UNCHANGED <<nextSeq, rowQ, pending, taken, held, jobQ, wbatch, written, dropped>>
      /\ \/ UNCHANGED <<rpc, apc, wpc, spawned>> /\ (ppc' = "spawn" => ppc = "spawn")
            /\ (ppc' = "startup_failed" => ppc \in {"spawn", "startup_failed"})
         \/ SpawnWorker \/ StartTasks
  <2>1. CASE \E w \in Workers : HandlerStep(w)
    BY <2>1 DEF HandlerStep, HAnswer, HMisanswer, HEcho, HCrash, Answers, HandlerFrame,
           WorkerFrame, poolVars, readerVars, accVars, workerVars, logVars
  <2>2. CASE MonStep
    BY <2>2 DEF MonStep, MonCancelled, MonGrowth, MonStart, MonExpired, MonFire, MonFrame,
           poolVars, readerVars, accVars, workerVars
  <2>3. CASE SpawnWorker \/ StartTasks
    BY <2>3 DEF SpawnWorker, StartTasks, readerVars, accVars, workerVars, logVars
  <2>4. CASE SpawnFails \/ StartupReport \/ NotifyMonitor \/ FinalReport
             \/ OperatorCancel \/ OperatorHard
    BY <2>4 DEF SpawnFails, StartupReport, NotifyMonitor, FinalReport, OperatorCancel,
           OperatorHard, PoolFrame, poolVars, readerVars, accVars, workerVars, logVars
  <2>5. CASE UNCHANGED vars
    BY <2>5 DEF vars, poolVars, readerVars, accVars, workerVars, logVars
  <2> QED BY <2>1, <2>2, <2>3, <2>4, <2>5 DEF PoolStep
<1>2. NoSharing' /\ OnePlace' /\ WrittenOnce'
  BY <1>1, RowsUnmoved
<1>3. Phases'
  <2>1. CASE /\ UNCHANGED <<rpc, apc, wpc, spawned>> /\ (ppc' = "spawn" => ppc = "spawn")
             /\ (ppc' = "startup_failed" => ppc \in {"spawn", "startup_failed"})
    BY <1>1, <2>1 DEF Phases, Selected
  <2>2. CASE StartTasks
    <3>1. /\ apc = "idle" /\ rpc' = "next" /\ apc' = "recv" /\ ppc' = "await"
          /\ UNCHANGED <<spawned, wpc>>
      BY <2>2 DEF StartTasks, workerVars, Phases
    <3> QED BY <1>1, <3>1 DEF Phases
  <2>3. CASE SpawnWorker
    <3>1. /\ UNCHANGED <<ppc, rpc, apc>> /\ spawned' = spawned + 1
          /\ wpc' = [wpc EXCEPT ![spawned] = "idle"] /\ spawned \in Workers
      BY <2>3 DEF SpawnWorker, readerVars, accVars
    <3>2. \A w \in Workers : w # spawned => wpc'[w] = wpc[w]
      BY <3>1 DEF TypeOK, TypeWorkers
    <3>3. /\ spawned \in Int /\ \A w \in Workers : w \in Int
      BY <3>1 DEF Workers
    <3>4. wbatch[spawned] = {}
      <4>1. wpc[spawned] = "unspawned"
        BY <3>1, <3>3 DEF Phases
      <4> QED BY <3>1, <4>1 DEF Phases
    <3>5. \A w \in Workers : w >= spawned' => wpc'[w] = "unspawned"
      BY <3>1, <3>2, <3>3 DEF Phases
    <3>6. \A w \in Workers :
            wbatch'[w] # {} => wpc'[w] \in {"send", "wait", "write", "write_exit"}
      BY <1>1, <3>2, <3>4 DEF Phases
    <3> QED BY <1>1, <3>1, <3>5, <3>6 DEF Phases, Selected
  <2> QED BY <1>1, <2>1, <2>2, <2>3
<1> QED BY <1>2, <1>3

LEMMA RowsStep == RowInv /\ [Next]_vars => RowInv'
<1> SUFFICES ASSUME RowInv, [Next]_vars PROVE RowInv'
  OBVIOUS
<1>1. TypeOK'
  BY TypeReaderStep, TypeAccStep, TypeWorkerStep, TypeHandlerStep, TypeMonStep,
     TypePoolStep, TypeUnchanged DEF RowInv, Next, Finished
<1>2. NoSharing' /\ OnePlace' /\ Phases' /\ WrittenOnce'
  BY RowsReaderStep, RowsAccStep, RowsWorkerStep, RowsOtherStep DEF Next, Finished
<1> QED BY <1>1, <1>2 DEF RowInv

LEMMA RowInvariant == Spec => []RowInv
<1> QED BY InitRows, RowsStep, PTL DEF Spec

-----------------------------------------------------------------------------
(* No row ever has two outcomes or is worked on by two workers, for every   *)
(* number of rows and workers, batch size, byte caps and channel capacities *)
(* (the workers and the accumulator of one outcomes.jsonl).                 *)
THEOREM OutcomeAtMostOnce == Spec => []AtMostOnce
<1>1. RowInv => AtMostOnce
  <2> SUFFICES ASSUME RowInv PROVE AtMostOnce
    OBVIOUS
  <2>1. \A s \in Seqs : Len(written[s]) <= 1
    BY DEF RowInv, WrittenOnce
  <2>2. \A v, w \in Workers : v # w => wbatch[v] \cap wbatch[w] = {}
    BY DEF RowInv, NoSharing
  <2>3. ASSUME NEW w \in Workers, NEW s \in wbatch[w] PROVE written[s] = <<>>
    <3>1. s \in InWorker /\ s \in Seqs
      BY DEF InWorker, RowInv, TypeOK, TypeWorkers
    <3> QED BY <3>1 DEF RowInv, OnePlace, Recorded
  <2> QED BY <2>1, <2>2, <2>3 DEF AtMostOnce
<1> QED BY <1>1, RowInvariant, PTL

(* No row is lost and none is handed on twice, whatever is cancelled,       *)
(* crashes or fails to be written (every drop path of the pipeline).        *)
THEOREM RowConservation == Spec => []RowsConserved
<1>1. RowInv => RowsConserved
  <2> SUFFICES ASSUME RowInv, NEW s \in Seqs
               PROVE  Cardinality({p \in 1 .. 6 : Places(s)[p]}) =
                        IF s < nextSeq /\ s \in {r \in Seqs : Selected(r)} THEN 1 ELSE 0
    BY DEF RowsConserved
  <2> DEFINE P == {p \in 1 .. 6 : Places(s)[p]}
             A == s \in Elems(rowQ)
             B == s \in Accumulating
             C == s \in InJobQ
             D == s \in InWorker
             E == s \in Recorded
             F == s \in dropped
  <2>1. \A p : p \in P <=> \/ p = 1 /\ A
                           \/ p = 2 /\ B
                           \/ p = 3 /\ C
                           \/ p = 4 /\ D
                           \/ p = 5 /\ E
                           \/ p = 6 /\ F
    <3>1. \A p : p \in 1 .. 6 <=> p = 1 \/ p = 2 \/ p = 3 \/ p = 4 \/ p = 5 \/ p = 6
      OBVIOUS
    <3>2. /\ Places(s)[1] <=> A
          /\ Places(s)[2] <=> B
          /\ Places(s)[3] <=> C
          /\ Places(s)[4] <=> D
          /\ Places(s)[5] <=> E
          /\ Places(s)[6] <=> F
      BY DEF Places, Accumulating, Recorded
    <3>3. \A p : p \in P <=> p \in 1 .. 6 /\ Places(s)[p]
      OBVIOUS
    <3> HIDE DEF P
    <3> QED BY <3>1, <3>2, <3>3
  <2>2. /\ A => ~B /\ ~C /\ ~D /\ ~E /\ ~F
        /\ B => ~C /\ ~D /\ ~E /\ ~F
        /\ C => ~D /\ ~E /\ ~F
        /\ D => ~E /\ ~F
        /\ E => ~F
        /\ s \in Sent <=> A \/ B \/ C \/ D \/ E \/ F
    BY DEF RowInv, OnePlace
  <2>3. s \in Sent <=> s < nextSeq /\ s \in {r \in Seqs : Selected(r)}
    BY DEF Sent
  <2> HIDE DEF P
  <2>4. CASE s \in Sent
    <3>1. \E k : \A p : p \in P <=> p = k
      <4>1. CASE A
        <5>1. \A p : p \in P <=> p = 1
          BY <2>1, <2>2, <4>1
        <5> QED BY <5>1
      <4>2. CASE B
        <5>1. \A p : p \in P <=> p = 2
          BY <2>1, <2>2, <4>2
        <5> QED BY <5>1
      <4>3. CASE C
        <5>1. \A p : p \in P <=> p = 3
          BY <2>1, <2>2, <4>3
        <5> QED BY <5>1
      <4>4. CASE D
        <5>1. \A p : p \in P <=> p = 4
          BY <2>1, <2>2, <4>4
        <5> QED BY <5>1
      <4>5. CASE E
        <5>1. \A p : p \in P <=> p = 5
          BY <2>1, <2>2, <4>5
        <5> QED BY <5>1
      <4>6. CASE F
        <5>1. \A p : p \in P <=> p = 6
          BY <2>1, <2>2, <4>6
        <5> QED BY <5>1
      <4> QED BY <2>2, <2>4, <4>1, <4>2, <4>3, <4>4, <4>5, <4>6
    <3>2. PICK k : \A p : p \in P <=> p = k
      BY <3>1
    <3>3. P = {k}
      BY <3>2
    <3> QED BY <2>3, <2>4, <3>3, FS_Singleton DEF P
  <2>5. CASE s \notin Sent
    <3>1. P = {}
      BY <2>1, <2>2, <2>5
    <3> QED BY <2>3, <2>5, <3>1, FS_EmptySet DEF P
  <2> QED BY <2>4, <2>5
<1> QED BY <1>1, RowInvariant, PTL

-----------------------------------------------------------------------------
(* How an attempt ends.                                                     *)

ControlVars == <<ppc, spawned, report, cancel, opCancel, apc, accErr, mpc, wpc, werr,
                 hstate>>

LEMMA InitControl == Init => ControlInv
BY DEF Init, ControlInv

LEMMA ControlUnmoved == ControlInv /\ UNCHANGED ControlVars => ControlInv'
BY DEF ControlVars, ControlInv, WorkersJoined

LEMMA ControlReaderStep == ControlInv /\ ReaderStep => ControlInv'
<1> SUFFICES ASSUME ControlInv, ReaderStep PROVE UNCHANGED ControlVars
  BY ControlUnmoved
<1> QED BY DEF ControlVars, ReaderStep, ReaderEof, ReaderCancelled, ReaderSkip, ReaderLimit,
     ReaderPick, ReaderSend, ReaderSendStop, ReaderFrame, poolVars, tokenVars, accVars,
     workerVars, handlerVars, monitorVars

LEMMA ControlAccStep ==
  ASSUME RowInv, ControlInv, AccStep
  PROVE  ControlInv'
<1>1. UNCHANGED <<ppc, spawned, report, cancel, opCancel, mpc, wpc, werr, hstate>>
  BY DEF AccStep, AccCancelled, AccEof, AccSend, AccFlushCancelled, AccTooLarge,
         AccAppendFails, AccByteFlush, AccPush, AccFrame, poolVars, tokenVars, workerVars,
         handlerVars, monitorVars
<1>2. apc \in {"recv", "flush", "flush_eof"}
  BY DEF AccStep, AccCancelled, AccEof, AccSend, AccFlushCancelled, AccTooLarge,
         AccAppendFails, AccByteFlush, AccPush, Receives
<1>3. ppc \notin {"spawn", "startup_failed", "notified", "done"}
  BY <1>2 DEF RowInv, Phases, ControlInv
<1>4. accErr' = "flush_cancelled" => opCancel \/ mpc = "stalled"
  <2>1. CASE AccFlushCancelled
    BY <1>3, <2>1 DEF AccFlushCancelled, ControlInv
  <2>2. CASE ~AccFlushCancelled
    <3>1. accErr' = accErr \/ accErr' = "io"
      BY <2>2 DEF AccStep, AccCancelled, AccEof, AccSend, AccTooLarge, AccAppendFails,
             AccByteFlush, AccPush, accVars
    <3> QED BY <3>1 DEF ControlInv
  <2> QED BY <2>1, <2>2
<1> QED BY <1>1, <1>3, <1>4 DEF ControlInv, WorkersJoined

LEMMA ControlWorkerStep ==
  ASSUME RowInv, ControlInv, NEW w \in Workers, WorkerStep(w)
  PROVE  ControlInv'
<1>1. UNCHANGED <<ppc, spawned, report, cancel, opCancel, apc, accErr, mpc>>
  BY DEF WorkerStep, WLock, WPull, WPullNone, WSend, WSendFails, WRecv, WRecvEof,
         WRecvCancelled, WWrite, WWriteFails, WHardKill, WShutdown, WShutdownDone,
         WEscalate, Exit, WorkerFrame, poolVars, tokenVars, accVars, monitorVars
<1>2. /\ wpc \in [Workers -> WorkerPcs] /\ werr \in [Workers -> BOOLEAN]
      /\ hstate \in [Workers -> {"none", "unready", "up", "dead", "gone"}]
  BY DEF RowInv, TypeOK, TypeWorkers, TypeHandlers
<1>3. ~WorkersJoined
  <2>1. wpc[w] \notin {"unspawned", "exited"}
    BY DEF WorkerStep, WLock, WPull, WPullNone, WSend, WSendFails, WRecv, WRecvEof,
         WRecvCancelled, WWrite, WWriteFails, WHardKill, WShutdown, WShutdownDone, WEscalate
  <2> QED BY <2>1 DEF WorkersJoined
<1>4. ASSUME NEW v \in Workers, hstate'[v] = "up"
      PROVE  wpc'[v] \notin {"unspawned", "exited"} \/ werr'[v]
  <2>1. CASE v # w
    <3>1. hstate'[v] = hstate[v] /\ wpc'[v] = wpc[v] /\ werr'[v] = werr[v]
      BY <1>2, <2>1 DEF WorkerStep, WLock, WPull, WPullNone, WSend, WSendFails, WRecv,
         WRecvEof, WRecvCancelled, WWrite, WWriteFails, WHardKill, WShutdown,
         WShutdownDone, WEscalate, Exit, Decide, handlerVars
    <3> QED BY <1>4, <3>1 DEF ControlInv
  <2>2. CASE v = w
    <3>1. CASE Exit(w)
      BY <1>2, <1>4, <2>2, <3>1 DEF Exit
    <3>2. CASE WWriteFails(w)
      BY <1>2, <2>2, <3>2 DEF WWriteFails
    <3>3. CASE ~Exit(w) /\ ~WWriteFails(w)
      BY <1>2, <2>2, <3>3 DEF WorkerStep, WLock, WPull, WPullNone, WSend, WSendFails, WRecv,
         WRecvEof, WRecvCancelled, WWrite, WHardKill, WShutdown, WShutdownDone,
         WEscalate, Decide
    <3> QED BY <3>1, <3>2, <3>3
  <2> QED BY <2>1, <2>2
<1>5. \A v \in Workers : hstate'[v] = "unready" => hstate[v] = "unready"
  BY <1>2 DEF WorkerStep, WLock, WPull, WPullNone, WSend, WSendFails, WRecv, WRecvEof,
         WRecvCancelled, WWrite, WWriteFails, WHardKill, WShutdown, WShutdownDone,
         WEscalate, Exit, Decide, handlerVars
<1> QED BY <1>1, <1>3, <1>4, <1>5 DEF ControlInv

LEMMA ControlHandlerStep ==
  ASSUME RowInv, ControlInv, NEW w \in Workers, HandlerStep(w)
  PROVE  ControlInv'
<1>1. UNCHANGED <<ppc, spawned, report, cancel, opCancel, apc, accErr, mpc, wpc, werr>>
  BY DEF HandlerStep, HAnswer, HMisanswer, HEcho, HCrash, Answers, HandlerFrame,
         WorkerFrame, poolVars, tokenVars, accVars, workerVars, monitorVars
<1>2. \A v \in Workers : /\ hstate'[v] = "up" => hstate[v] = "up"
                         /\ hstate'[v] = "unready" => hstate[v] = "unready"
  BY DEF HandlerStep, HAnswer, HMisanswer, HEcho, HCrash, Answers, RowInv, TypeOK,
         TypeHandlers
<1> QED BY <1>1, <1>2 DEF ControlInv, WorkersJoined

LEMMA ControlMonStep == ControlInv /\ MonStep => ControlInv'
<1> SUFFICES ASSUME ControlInv, MonStep PROVE ControlInv'
  OBVIOUS
<1>1. UNCHANGED <<ppc, spawned, report, opCancel, apc, accErr, wpc, werr, hstate>>
  BY DEF MonStep, MonCancelled, MonGrowth, MonStart, MonExpired, MonFire, MonFrame,
         poolVars, tokenVars, accVars, workerVars, handlerVars
<1>2. /\ mpc \in {"poll", "fire"} /\ (mpc' = "stalled" \/ cancel' = cancel)
  BY DEF MonStep, MonCancelled, MonGrowth, MonStart, MonExpired, MonFire, tokenVars
<1> QED BY <1>1, <1>2 DEF ControlInv, WorkersJoined

LEMMA ControlPoolStep ==
  ASSUME RowInv, ControlInv, PoolStep \/ OperatorCancel \/ OperatorHard
  PROVE  ControlInv'
<1>1. CASE SpawnWorker
  <2>1. UNCHANGED <<ppc, report, cancel, opCancel, apc, accErr, mpc, werr>>
    BY <1>1 DEF SpawnWorker, tokenVars, accVars, monitorVars
  <2>2. ppc = "spawn" /\ wpc \in [Workers -> WorkerPcs] /\ spawned \in Workers
    BY <1>1 DEF SpawnWorker, RowInv, TypeOK, TypeWorkers
  <2>3. hstate \in [Workers -> {"none", "unready", "up", "dead", "gone"}]
    BY DEF RowInv, TypeOK, TypeHandlers
  <2>4. \A w \in Workers :
          hstate'[w] = "up" => wpc'[w] \notin {"unspawned", "exited"} \/ werr'[w]
    BY <1>1, <2>1, <2>2, <2>3 DEF SpawnWorker, ControlInv
  <2>5. \A w \in Workers : hstate'[w] # "unready"
    BY <1>1, <2>1, <2>2, <2>3 DEF SpawnWorker, ControlInv
  <2> QED BY <2>1, <2>2, <2>4, <2>5 DEF ControlInv
<1>2. CASE StartTasks
  <2>1. UNCHANGED <<spawned, report, cancel, opCancel, accErr, wpc, werr, hstate>>
    BY <1>2 DEF StartTasks, tokenVars, workerVars, handlerVars
  <2>2. ppc = "spawn" /\ ppc' = "await" /\ mpc' # "stalled" /\ mpc # "stalled"
    BY <1>2 DEF StartTasks, ControlInv
  <2> QED BY <2>1, <2>2 DEF ControlInv
<1>3. CASE StartupReport \/ NotifyMonitor \/ FinalReport \/ OperatorCancel \/ OperatorHard
  <2>1. UNCHANGED <<spawned, apc, accErr, mpc, wpc, werr, hstate>>
    BY <1>3 DEF StartupReport, NotifyMonitor, FinalReport, OperatorCancel,
           OperatorHard, poolVars, PoolFrame, accVars, handlerVars, monitorVars
  <2>2. CASE OperatorCancel \/ OperatorHard
    BY <2>1, <2>2 DEF OperatorCancel, OperatorHard, poolVars, ControlInv,
           WorkersJoined
  <2>3. CASE StartupReport
    BY <2>1, <2>3 DEF StartupReport, tokenVars, ControlInv, WorkersJoined, RowInv, Phases
  <2>4. CASE NotifyMonitor
    BY <2>1, <2>4 DEF NotifyMonitor, ControlInv, WorkersJoined
  <2>5. CASE FinalReport
    <3>1. report' = "operator_cancel" => accErr = "flush_cancelled" /\ mpc # "stalled"
      BY <2>5 DEF FinalReport, Classify
    <3> QED BY <2>1, <2>5, <3>1 DEF FinalReport, tokenVars, ControlInv, WorkersJoined
  <2> QED BY <1>3, <2>2, <2>3, <2>4, <2>5
<1>4. CASE SpawnFails
  <2>1. UNCHANGED <<spawned, report, opCancel, apc, accErr, mpc, wpc, werr>>
    BY <1>4 DEF SpawnFails, accVars, workerVars, monitorVars
  <2>2. ppc = "spawn" /\ ppc' = "startup_failed" /\ spawned \in Workers
    BY <1>4 DEF SpawnFails
  <2>3. hstate \in [Workers -> {"none", "unready", "up", "dead", "gone"}]
    BY DEF RowInv, TypeOK, TypeHandlers
  <2>4. ASSUME NEW w \in Workers
        PROVE  /\ hstate'[w] = "up" => hstate[w] = "up"
               /\ hstate'[w] = "unready" => w = spawned
    BY <1>4, <2>2, <2>3 DEF SpawnFails, ControlInv
  <2> QED BY <2>1, <2>2, <2>4 DEF ControlInv
<1> QED BY <1>1, <1>2, <1>3, <1>4 DEF PoolStep

LEMMA ControlStep == RowInv /\ ControlInv /\ [Next]_vars => ControlInv'
<1> SUFFICES ASSUME RowInv, ControlInv, [Next]_vars PROVE ControlInv'
  OBVIOUS
<1>1. CASE UNCHANGED vars
  BY <1>1, ControlUnmoved DEF ControlVars, vars, poolVars, tokenVars, accVars, workerVars,
     handlerVars, monitorVars
<1>2. CASE Next
  BY <1>1, <1>2, ControlReaderStep, ControlAccStep, ControlWorkerStep, ControlHandlerStep,
     ControlMonStep, ControlPoolStep DEF Next, Finished
<1> QED BY <1>1, <1>2

LEMMA ControlInvariant == Spec => [](RowInv /\ ControlInv)
<1>1. Init => RowInv /\ ControlInv
  BY InitRows, InitControl
<1>2. RowInv /\ ControlInv /\ [Next]_vars => RowInv' /\ ControlInv'
  BY RowsStep, ControlStep
<1> QED BY <1>1, <1>2, PTL DEF Spec

(* The pool, the stall monitor and the operator fire one and the same token,*)
(* and yet "cancelled by operator" is reported only when the operator did   *)
(* (the check of the accumulator's result in pool_streaming.rs).            *)
THEOREM OperatorCancelOnlyByOperator == Spec => []OperatorCancelIsReal
<1>1. RowInv /\ ControlInv => OperatorCancelIsReal
  BY DEF ControlInv, OperatorCancelIsReal
<1> QED BY <1>1, ControlInvariant, PTL

(* When the attempt has ended, a handler process is left running by a       *)
(* worker task that failed or by the worker that was not ready in time, and *)
(* by nothing else (teardown in worker_loop.rs, Worker::spawn, joined by    *)
(* run_pool_streaming).                                                     *)
THEOREM HandlersEnded == Spec => []OnlyFailuresLeaveHandlers
<1>1. RowInv /\ ControlInv => OnlyFailuresLeaveHandlers
  BY DEF ControlInv, WorkersJoined, OnlyFailuresLeaveHandlers
<1> QED BY <1>1, ControlInvariant, PTL

(* No line is appended to outcomes.jsonl once the report is returned (the   *)
(* order in which run_pool_streaming awaits its tasks).                     *)
THEOREM LogFinal == Spec => LogFinalAtReport
<1>1. RowInv /\ ControlInv /\ [Next]_vars => [report # "none" => UNCHANGED written]_vars
  <2> SUFFICES ASSUME RowInv, ControlInv, Next, report # "none"
               PROVE  UNCHANGED written
    OBVIOUS
  <2>1. WorkersJoined /\ apc \in {"idle", "done"}
    BY DEF ControlInv
  <2>2. CASE ReaderStep
    BY <2>2 DEF ReaderStep, ReaderEof, ReaderCancelled, ReaderSkip, ReaderLimit, ReaderPick,
       ReaderSend, ReaderSendStop, ReaderFrame, logVars
  <2>3. ~AccStep
    BY <2>1 DEF AccStep, AccCancelled, AccEof, AccSend, AccFlushCancelled, AccTooLarge,
       AccAppendFails, AccByteFlush, AccPush, Receives
  <2>4. ASSUME NEW w \in Workers PROVE ~WWrite(w) /\ (WorkerStep(w) => UNCHANGED written)
    BY <2>1 DEF WorkersJoined, WorkerStep, WLock, WPull, WPullNone, WSend, WSendFails, WRecv,
       WRecvEof, WRecvCancelled, WWrite, WWriteFails, WHardKill, WShutdown, WShutdownDone,
       WEscalate, Exit, logVars
  <2>5. ASSUME NEW w \in Workers, HandlerStep(w) PROVE UNCHANGED written
    BY <2>5 DEF HandlerStep, HAnswer, HMisanswer, HEcho, HCrash, Answers, HandlerFrame,
       logVars
  <2>6. CASE MonStep
    BY <2>6 DEF MonStep, MonCancelled, MonGrowth, MonStart, MonExpired, MonFire, MonFrame
  <2>7. CASE PoolStep \/ OperatorCancel \/ OperatorHard
    BY <2>7 DEF PoolStep, SpawnWorker, StartTasks, SpawnFails, StartupReport, NotifyMonitor,
       FinalReport, OperatorCancel, OperatorHard, PoolFrame, logVars
  <2>8. CASE Finished
    BY <2>8 DEF Finished, vars, logVars
  <2> QED BY <2>2, <2>3, <2>4, <2>5, <2>6, <2>7, <2>8 DEF Next
<1> QED BY <1>1, ControlInvariant, PTL DEF Spec, LogFinalAtReport
=============================================================================
