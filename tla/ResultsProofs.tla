--------------------------- MODULE ResultsProofs ---------------------------
(***************************************************************************)
(* Proofs about Results: whatever the file, the attempts, their options    *)
(* and their ends, a number names one row, retries hand out failures,      *)
(* exports are whole, pages follow the log, and history and resolution     *)
(* agree.                                                                  *)
(*                                                                         *)
(* First the folds of the model become folds of FoldLemmas, and what they  *)
(* compute is proved by induction over logs and attempts. Then reading:    *)
(* the iterators of a file lie on one walk along it, on which lines and    *)
(* numbers rise. The invariant RunInv puts the two together: attempts come *)
(* one after the other, what one hands out is a row of the walk behind the *)
(* iterator, its outcomes rise in number, and each was allowed when its    *)
(* attempt began. ExportInv and PageInv, about the client, rest on it and  *)
(* on two facts of every step: the log of an ended attempt stays, and      *)
(* every log only grows.                                                   *)
(***************************************************************************)
EXTENDS Results, FoldLemmas

-----------------------------------------------------------------------------
(* The folds of the model, each as a Fold with its step as a function.        *)

JoinStep(T) == [x \in Seq(T) \X Seq(T) |-> x[1] \o x[2]]

LEMMA JoinSteps ==
  ASSUME NEW T
  PROVE  Steps(JoinStep(T), Seq(T), Seq(T)) /\ <<>> \in Seq(T)
BY EmptySeq, ConcatProperties DEF Steps, JoinStep

LEMMA FlatIsFold ==
  ASSUME NEW T, NEW lines \in Seq(Seq(T))
  PROVE  Flat(lines) = Fold(JoinStep(T), <<>>, lines)
<1> DEFINE D == DOMAIN lines
           V == Seq(T)
           base == <<>>
           H == JoinStep(T)
           Do(p, x) == p \o x
           Eq(f) == f = [S \in SUBSET D |->
                      IF S = {} THEN base ELSE Do(f[S \ {Max(S)}], lines[Max(S)])]
           f == CHOOSE h : Eq(h)
           g == FoldFun(H, base, lines)
<1>1. Steps(H, V, Seq(T)) /\ base \in V
  BY JoinSteps
<1>2. \A p \in V, x \in Seq(T) : H[<<p, x>>] = Do(p, x)
  BY DEF JoinStep
<1>3. f[D] = Flat(lines)
  BY DEF Flat, FoldLeft, MapThenFoldSet
<1>4. \A S \in SUBSET D : S # {} => Max(S) \in S /\ lines[Max(S)] \in Seq(T)
  BY MaxPlace
<1> HIDE DEF V, H, base, Do, g
<1>5. FoldsBy(g, H, base, lines, V)
  BY <1>1, FoldFunEquation DEF g
<1>6. Eq(g)
  <2>1. ASSUME NEW S \in SUBSET D, S # {}
        PROVE  g[S] = Do(g[S \ {Max(S)}], lines[Max(S)])
    <3>1. g[S \ {Max(S)}] \in V
      BY <1>5 DEF FoldsBy
    <3>2. g[S] = H[<<g[S \ {Max(S)}], lines[Max(S)]>>]
      BY <1>5, <2>1 DEF FoldsBy
    <3> QED BY <1>2, <1>4, <2>1, <3>1, <3>2
  <2> QED BY <1>5, <2>1 DEF FoldsBy
<1>7. Eq(f)
  BY <1>6
<1> HIDE DEF f
<1>8. Satisfies(f, H, base, lines, V)
  BY <1>2, <1>4, <1>7 DEF Satisfies
<1> HIDE DEF Eq
<1>9. f[DOMAIN lines] = Fold(H, base, lines)
  BY <1>1, <1>8, FoldUnique
<1> QED BY <1>3, <1>9 DEF H, base

FailStep(T) == [x \in Seq(T) \X T |->
                  IF x[2].kind = "success" THEN x[1] ELSE Append(x[1], x[2])]

LEMMA FailSteps ==
  ASSUME NEW T
  PROVE  Steps(FailStep(T), Seq(T), T) /\ <<>> \in Seq(T)
BY EmptySeq, AppendProperties DEF Steps, FailStep

LEMMA FailuresIsFold ==
  ASSUME NEW T, NEW outcomes \in Seq(T)
  PROVE  Failures(outcomes) = Fold(FailStep(T), <<>>, outcomes)
<1> DEFINE D == DOMAIN outcomes
           V == Seq(T)
           base == <<>>
           H == FailStep(T)
           Do(p, x) == IF x.kind = "success" THEN p ELSE Append(p, x)
           Eq(f) == f = [S \in SUBSET D |->
                      IF S = {} THEN base ELSE Do(f[S \ {Max(S)}], outcomes[Max(S)])]
           f == CHOOSE h : Eq(h)
           g == FoldFun(H, base, outcomes)
<1>1. Steps(H, V, T) /\ base \in V
  BY FailSteps
<1>2. \A p \in V, x \in T : H[<<p, x>>] = Do(p, x)
  BY DEF FailStep
<1>3. f[D] = Failures(outcomes)
  BY DEF Failures, FoldLeft, MapThenFoldSet
<1>4. \A S \in SUBSET D : S # {} => Max(S) \in S /\ outcomes[Max(S)] \in T
  BY MaxPlace
<1> HIDE DEF V, H, base, Do, g
<1>5. FoldsBy(g, H, base, outcomes, V)
  BY <1>1, FoldFunEquation DEF g
<1>6. Eq(g)
  <2>1. ASSUME NEW S \in SUBSET D, S # {}
        PROVE  g[S] = Do(g[S \ {Max(S)}], outcomes[Max(S)])
    <3>1. g[S \ {Max(S)}] \in V
      BY <1>5 DEF FoldsBy
    <3>2. g[S] = H[<<g[S \ {Max(S)}], outcomes[Max(S)]>>]
      BY <1>5, <2>1 DEF FoldsBy
    <3> QED BY <1>2, <1>4, <2>1, <3>1, <3>2
  <2> QED BY <1>5, <2>1 DEF FoldsBy
<1>7. Eq(f)
  BY <1>6
<1> HIDE DEF f
<1>8. Satisfies(f, H, base, outcomes, V)
  BY <1>2, <1>4, <1>7 DEF Satisfies
<1> HIDE DEF Eq
<1>9. f[DOMAIN outcomes] = Fold(H, base, outcomes)
  BY <1>1, <1>8, FoldUnique
<1> QED BY <1>3, <1>9 DEF H, base

(* What the resolution knows of a row.                                        *)
FoundStates == {"NeverAttempted", "Resolved", "FailedLast", "CrashedLast", "CancelledLast",
                "TooLarge"}
Found == [state : FoundStates, canonical : Attempts \cup {"none"},
          failure : Attempts \cup {"none"}]

LEMMA FoundType ==
  /\ R!NeverAttempted \in Found
  /\ \A p \in Found, a \in Attempts : \A kind : R!apply_row_outcome(p, a, kind) \in Found
<1>1. \A kind : R!classify_failure(kind) \in FoundStates
  BY DEF R!classify_failure, FoundStates
<1>2. ASSUME NEW p \in Found, NEW a \in Attempts, NEW kind
      PROVE  R!apply_row_outcome(p, a, kind) \in Found
  <2>1. /\ p = [state |-> p.state, canonical |-> p.canonical, failure |-> p.failure]
        /\ p.state \in FoundStates /\ p.canonical \in Attempts \cup {"none"}
        /\ p.failure \in Attempts \cup {"none"}
    BY DEF Found
  <2>2. CASE kind = "success"
    BY <2>1, <2>2 DEF R!apply_row_outcome, Found, FoundStates
  <2>3. CASE kind # "success" /\ (kind = "none" \/ p.state = "Resolved")
    BY <2>3 DEF R!apply_row_outcome
  <2>4. CASE kind \notin {"none", "success"} /\ p.state # "Resolved"
    <3>1. R!apply_row_outcome(p, a, kind) =
            [p EXCEPT !.state = R!classify_failure(kind), !.failure = a]
      BY <2>4 DEF R!apply_row_outcome
    <3>2. R!classify_failure(kind) \in FoundStates
      BY <1>1
    <3> QED BY <2>1, <3>1, <3>2 DEF Found
  <2> QED BY <2>2, <2>3, <2>4
<1>3. R!NeverAttempted \in Found
  BY DEF R!NeverAttempted, Found, FoundStates
<1> QED BY <1>2, <1>3

IngestStep(a, n) == [x \in Found \X Outcome |->
  IF x[2].seq = n THEN R!apply_row_outcome(x[1], a, x[2].kind) ELSE x[1]]

LEMMA IngestSteps ==
  ASSUME NEW a \in Attempts, NEW n
  PROVE  Steps(IngestStep(a, n), Found, Outcome)
BY FoundType DEF Steps, IngestStep

LEMMA IngestIsFold ==
  ASSUME NEW q \in Found, NEW a \in Attempts, NEW outcomes \in Seq(Outcome), NEW n
  PROVE  Ingest(q, a, outcomes, n) = Fold(IngestStep(a, n), q, outcomes)
<1> DEFINE D == DOMAIN outcomes
           V == Found
           base == q
           H == IngestStep(a, n)
           Do(p, x) == IF x.seq = n THEN R!apply_row_outcome(p, a, x.kind) ELSE p
           Eq(f) == f = [S \in SUBSET D |->
                      IF S = {} THEN base ELSE Do(f[S \ {Max(S)}], outcomes[Max(S)])]
           f == CHOOSE h : Eq(h)
           g == FoldFun(H, base, outcomes)
<1>1. Steps(H, V, Outcome) /\ base \in V
  BY IngestSteps
<1>2. \A p \in V, x \in Outcome : H[<<p, x>>] = Do(p, x)
  BY DEF IngestStep
<1>3. f[D] = Ingest(q, a, outcomes, n)
  BY DEF Ingest, FoldLeft, MapThenFoldSet
<1>4. \A S \in SUBSET D : S # {} => Max(S) \in S /\ outcomes[Max(S)] \in Outcome
  BY MaxPlace
<1> HIDE DEF V, H, base, Do, g
<1>5. FoldsBy(g, H, base, outcomes, V)
  BY <1>1, FoldFunEquation DEF g
<1>6. Eq(g)
  <2>1. ASSUME NEW S \in SUBSET D, S # {}
        PROVE  g[S] = Do(g[S \ {Max(S)}], outcomes[Max(S)])
    <3>1. g[S \ {Max(S)}] \in V
      BY <1>5 DEF FoldsBy
    <3>2. g[S] = H[<<g[S \ {Max(S)}], outcomes[Max(S)]>>]
      BY <1>5, <2>1 DEF FoldsBy
    <3> QED BY <1>2, <1>4, <2>1, <3>1, <3>2
  <2> QED BY <1>5, <2>1 DEF FoldsBy
<1>7. Eq(f)
  BY <1>6
<1> HIDE DEF f
<1>8. Satisfies(f, H, base, outcomes, V)
  BY <1>2, <1>4, <1>7 DEF Satisfies
<1> HIDE DEF Eq
<1>9. f[DOMAIN outcomes] = Fold(H, base, outcomes)
  BY <1>1, <1>8, FoldUnique
<1> QED BY <1>3, <1>9 DEF H, base

LEMMA IngestType ==
  ASSUME NEW q \in Found, NEW a \in Attempts, NEW outcomes \in Seq(Outcome), NEW n
  PROVE  Ingest(q, a, outcomes, n) \in Found
<1>1. Steps(IngestStep(a, n), Found, Outcome)
  BY IngestSteps
<1>2. Fold(IngestStep(a, n), q, outcomes) \in Found
  BY <1>1, FoldType
<1> QED BY <1>2, IngestIsFold

(* Logs as the resolution and the history read them.                          *)
Readable(logs) == \A a \in DOMAIN logs : logs[a] \in Seq(Outcome)

ResolveStep(logs, n) == [x \in Found \X Attempts |->
  IF x[2] \in DOMAIN logs THEN Ingest(x[1], x[2], logs[x[2]], n) ELSE x[1]]

LEMMA ResolveSteps ==
  ASSUME NEW logs, Readable(logs), NEW n
  PROVE  Steps(ResolveStep(logs, n), Found, Attempts) /\ R!NeverAttempted \in Found
BY FoundType, IngestType DEF Steps, ResolveStep, Readable

LEMMA AttemptSeqType == AttemptSeq \in Seq(Attempts)
BY ResultsAssumption

LEMMA ResolveIsFold ==
  ASSUME NEW logs, Readable(logs), NEW n
  PROVE  ResolveIn(logs, n) = Fold(ResolveStep(logs, n), R!NeverAttempted, AttemptSeq)
<1> DEFINE D == DOMAIN AttemptSeq
           V == Found
           base == R!NeverAttempted
           H == ResolveStep(logs, n)
           Do(p, a) == IF a \in DOMAIN logs THEN Ingest(p, a, logs[a], n) ELSE p
           Eq(f) == f = [S \in SUBSET D |->
                      IF S = {} THEN base ELSE Do(f[S \ {Max(S)}], AttemptSeq[Max(S)])]
           f == CHOOSE h : Eq(h)
           g == FoldFun(H, base, AttemptSeq)
<1>1. Steps(H, V, Attempts) /\ base \in V
  BY ResolveSteps
<1>2. \A p \in V, x \in Attempts : H[<<p, x>>] = Do(p, x)
  BY DEF ResolveStep
<1>3. f[D] = ResolveIn(logs, n)
  BY DEF ResolveIn, FoldLeft, MapThenFoldSet
<1>4. \A S \in SUBSET D : S # {} => Max(S) \in S /\ AttemptSeq[Max(S)] \in Attempts
  BY MaxPlace, AttemptSeqType
<1> HIDE DEF V, H, base, Do, g
<1>5. FoldsBy(g, H, base, AttemptSeq, V)
  BY <1>1, FoldFunEquation, AttemptSeqType DEF g
<1>6. Eq(g)
  <2>1. ASSUME NEW S \in SUBSET D, S # {}
        PROVE  g[S] = Do(g[S \ {Max(S)}], AttemptSeq[Max(S)])
    <3>1. g[S \ {Max(S)}] \in V
      BY <1>5 DEF FoldsBy
    <3>2. g[S] = H[<<g[S \ {Max(S)}], AttemptSeq[Max(S)]>>]
      BY <1>5, <2>1 DEF FoldsBy
    <3> QED BY <1>2, <1>4, <2>1, <3>1, <3>2
  <2> QED BY <1>5, <2>1 DEF FoldsBy
<1>7. Eq(f)
  BY <1>6
<1> HIDE DEF f
<1>8. Satisfies(f, H, base, AttemptSeq, V)
  BY <1>2, <1>4, <1>7 DEF Satisfies
<1> HIDE DEF Eq
<1>9. f[DOMAIN AttemptSeq] = Fold(H, base, AttemptSeq)
  BY <1>1, <1>8, FoldUnique, AttemptSeqType
<1> QED BY <1>3, <1>9 DEF H, base

(* What the history shows of a row.                                           *)
History == [resolved_at : Attempts \cup {"none"}, failures : Seq(Attempts)]
NoHistory == [resolved_at |-> "none", failures |-> <<>>]

HistoryStep(logs, n) == [x \in History \X Attempts |->
  Recount(x[1], x[2], FirstOf(logs[x[2]], n))]

LEMMA RecountType ==
  ASSUME NEW h \in History, NEW a \in Attempts, NEW kind
  PROVE  Recount(h, a, kind) \in History
<1>1. /\ h = [resolved_at |-> h.resolved_at, failures |-> h.failures]
      /\ h.resolved_at \in Attempts \cup {"none"} /\ h.failures \in Seq(Attempts)
  BY DEF History
<1>2. Append(h.failures, a) \in Seq(Attempts)
  BY <1>1, AppendProperties
<1> QED BY <1>1, <1>2 DEF Recount, History

LEMMA HistorySteps ==
  ASSUME NEW logs, NEW n
  PROVE  Steps(HistoryStep(logs, n), History, Attempts) /\ NoHistory \in History
<1>1. NoHistory \in History
  BY EmptySeq DEF NoHistory, History
<1> QED BY <1>1, RecountType DEF Steps, HistoryStep

LEMMA HistoryIsFold ==
  ASSUME NEW logs, NEW n
  PROVE  HistoryIn(logs, n) = Fold(HistoryStep(logs, n), NoHistory, AttemptSeq)
<1> DEFINE D == DOMAIN AttemptSeq
           V == History
           base == NoHistory
           H == HistoryStep(logs, n)
           Do(h, a) == Recount(h, a, FirstOf(logs[a], n))
           Eq(f) == f = [S \in SUBSET D |->
                      IF S = {} THEN base ELSE Do(f[S \ {Max(S)}], AttemptSeq[Max(S)])]
           f == CHOOSE h : Eq(h)
           g == FoldFun(H, base, AttemptSeq)
<1>1. Steps(H, V, Attempts) /\ base \in V
  BY HistorySteps
<1>2. \A p \in V, x \in Attempts : H[<<p, x>>] = Do(p, x)
  BY DEF HistoryStep
<1>3. f[D] = HistoryIn(logs, n)
  BY DEF HistoryIn, NoHistory, FoldLeft, MapThenFoldSet
<1>4. \A S \in SUBSET D : S # {} => Max(S) \in S /\ AttemptSeq[Max(S)] \in Attempts
  BY MaxPlace, AttemptSeqType
<1> HIDE DEF V, H, base, Do, g
<1>5. FoldsBy(g, H, base, AttemptSeq, V)
  BY <1>1, FoldFunEquation, AttemptSeqType DEF g
<1>6. Eq(g)
  <2>1. ASSUME NEW S \in SUBSET D, S # {}
        PROVE  g[S] = Do(g[S \ {Max(S)}], AttemptSeq[Max(S)])
    <3>1. g[S \ {Max(S)}] \in V
      BY <1>5 DEF FoldsBy
    <3>2. g[S] = H[<<g[S \ {Max(S)}], AttemptSeq[Max(S)]>>]
      BY <1>5, <2>1 DEF FoldsBy
    <3> QED BY <1>2, <1>4, <2>1, <3>1, <3>2
  <2> QED BY <1>5, <2>1 DEF FoldsBy
<1>7. Eq(f)
  BY <1>6
<1> HIDE DEF f
<1>8. Satisfies(f, H, base, AttemptSeq, V)
  BY <1>2, <1>4, <1>7 DEF Satisfies
<1> HIDE DEF Eq
<1>9. f[DOMAIN AttemptSeq] = Fold(H, base, AttemptSeq)
  BY <1>1, <1>8, FoldUnique, AttemptSeqType
<1> QED BY <1>3, <1>9 DEF H, base

-----------------------------------------------------------------------------
(* What they compute, at the empty sequence and at Append.                    *)

LEMMA FlatFacts ==
  ASSUME NEW T
  PROVE  /\ Flat(<<>>) = <<>>
         /\ \A lines \in Seq(Seq(T)) : Flat(lines) \in Seq(T)
         /\ \A lines \in Seq(Seq(T)), line \in Seq(T) :
              Flat(Append(lines, line)) = Flat(lines) \o line
<1> DEFINE V == Seq(T)
           H == JoinStep(T)
           base == <<>>
<1>1. Steps(H, V, V) /\ base \in V /\ base \in Seq(V)
  BY JoinSteps, EmptySeq
<1>2. \A lines \in Seq(V) : Flat(lines) = Fold(H, base, lines)
  BY FlatIsFold
<1>3. \A p, x \in V : H[<<p, x>>] = p \o x
  BY DEF JoinStep
<1>4. \A lines \in Seq(V), line \in V : Append(lines, line) \in Seq(V)
  BY AppendProperties
<1> HIDE DEF V, H
<1>5. Flat(<<>>) = <<>>
  <2> HIDE DEF base
  <2>1. Fold(H, base, <<>>) = base
    BY <1>1, FoldEmpty
  <2> QED BY <1>1, <1>2, <2>1 DEF base
<1> HIDE DEF base
<1>6. ASSUME NEW lines \in Seq(V) PROVE Flat(lines) \in V
  BY <1>1, <1>2, FoldType
<1>7. ASSUME NEW lines \in Seq(V), NEW line \in V
      PROVE  Flat(Append(lines, line)) = Flat(lines) \o line
  <2>1. Fold(H, base, Append(lines, line)) = H[<<Fold(H, base, lines), line>>]
    BY <1>1, FoldAppend
  <2> QED BY <1>2, <1>3, <1>4, <1>6, <2>1
<1> QED BY <1>5, <1>6, <1>7 DEF V

LEMMA FailuresFacts ==
  ASSUME NEW T
  PROVE  /\ Failures(<<>>) = <<>>
         /\ \A s \in Seq(T) : Failures(s) \in Seq(T)
         /\ \A s \in Seq(T), x \in T : Failures(Append(s, x)) =
              IF x.kind = "success" THEN Failures(s) ELSE Append(Failures(s), x)
<1> DEFINE V == Seq(T)
           H == FailStep(T)
           base == <<>>
<1>1. Steps(H, V, T) /\ base \in V /\ base \in Seq(T)
  BY FailSteps, EmptySeq
<1>2. \A s \in Seq(T) : Failures(s) = Fold(H, base, s)
  BY FailuresIsFold
<1>3. \A p \in V, x \in T :
         H[<<p, x>>] = IF x.kind = "success" THEN p ELSE Append(p, x)
  BY DEF FailStep
<1>4. \A s \in Seq(T), x \in T : Append(s, x) \in Seq(T)
  BY AppendProperties
<1> HIDE DEF V, H
<1>5. Failures(<<>>) = <<>>
  <2> HIDE DEF base
  <2>1. Fold(H, base, <<>>) = base
    BY <1>1, FoldEmpty
  <2> QED BY <1>1, <1>2, <2>1 DEF base
<1> HIDE DEF base
<1>6. ASSUME NEW s \in Seq(T) PROVE Failures(s) \in V
  BY <1>1, <1>2, FoldType
<1>7. ASSUME NEW s \in Seq(T), NEW x \in T
      PROVE  Failures(Append(s, x)) =
               IF x.kind = "success" THEN Failures(s) ELSE Append(Failures(s), x)
  <2>1. Fold(H, base, Append(s, x)) = H[<<Fold(H, base, s), x>>]
    BY <1>1, FoldAppend
  <2> QED BY <1>2, <1>3, <1>4, <1>6, <2>1
<1> QED BY <1>5, <1>6, <1>7 DEF V

LEMMA IngestEmpty ==
  ASSUME NEW q \in Found, NEW a \in Attempts, NEW n
  PROVE  Ingest(q, a, <<>>, n) = q
<1> DEFINE H == IngestStep(a, n)
<1>1. Steps(H, Found, Outcome)
  BY IngestSteps
<1>2. <<>> \in Seq(Outcome)
  BY EmptySeq
<1>3. Ingest(q, a, <<>>, n) = Fold(H, q, <<>>)
  BY <1>2, IngestIsFold
<1> HIDE DEF H
<1> QED BY <1>1, <1>3, FoldEmpty

LEMMA IngestAppend ==
  ASSUME NEW q \in Found, NEW a \in Attempts, NEW n, NEW s \in Seq(Outcome), NEW o \in Outcome
  PROVE  Ingest(q, a, Append(s, o), n) =
           IF o.seq = n THEN R!apply_row_outcome(Ingest(q, a, s, n), a, o.kind)
           ELSE Ingest(q, a, s, n)
<1> DEFINE H == IngestStep(a, n)
<1>1. Steps(H, Found, Outcome)
  BY IngestSteps
<1>2. \A p \in Found : H[<<p, o>>] =
        IF o.seq = n THEN R!apply_row_outcome(p, a, o.kind) ELSE p
  BY DEF IngestStep
<1>3. Append(s, o) \in Seq(Outcome)
  BY AppendProperties
<1>4. /\ Ingest(q, a, s, n) = Fold(H, q, s)
      /\ Ingest(q, a, Append(s, o), n) = Fold(H, q, Append(s, o))
  BY <1>3, IngestIsFold
<1>5. Ingest(q, a, s, n) \in Found
  BY IngestType
<1> HIDE DEF H
<1>6. Fold(H, q, Append(s, o)) = H[<<Fold(H, q, s), o>>]
  BY <1>1, FoldAppend
<1> QED BY <1>2, <1>4, <1>5, <1>6

(* The resolution of a row after the attempts s, a part of AttemptSeq.        *)
ResolveAlong(logs, n, s) == Fold(ResolveStep(logs, n), R!NeverAttempted, s)

LEMMA ResolveFacts ==
  ASSUME NEW logs, Readable(logs), NEW n
  PROVE  /\ ResolveIn(logs, n) = ResolveAlong(logs, n, AttemptSeq)
         /\ ResolveAlong(logs, n, <<>>) = R!NeverAttempted
         /\ \A s \in Seq(Attempts) : ResolveAlong(logs, n, s) \in Found
         /\ \A s \in Seq(Attempts), a \in Attempts :
              ResolveAlong(logs, n, Append(s, a)) =
                IF a \in DOMAIN logs THEN Ingest(ResolveAlong(logs, n, s), a, logs[a], n)
                ELSE ResolveAlong(logs, n, s)
<1> DEFINE H == ResolveStep(logs, n)
           base == R!NeverAttempted
<1>1. Steps(H, Found, Attempts) /\ base \in Found
  BY ResolveSteps
<1>2. \A s : ResolveAlong(logs, n, s) = Fold(H, base, s)
  BY DEF ResolveAlong
<1>3. \A p \in Found, a \in Attempts : H[<<p, a>>] =
        IF a \in DOMAIN logs THEN Ingest(p, a, logs[a], n) ELSE p
  BY DEF ResolveStep
<1>4. ResolveIn(logs, n) = Fold(H, base, AttemptSeq)
  BY ResolveIsFold
<1> HIDE DEF H, base
<1>5. ResolveAlong(logs, n, <<>>) = base
  BY <1>1, <1>2, FoldEmpty
<1>6. ASSUME NEW s \in Seq(Attempts) PROVE ResolveAlong(logs, n, s) \in Found
  BY <1>1, <1>2, FoldType
<1>7. ASSUME NEW s \in Seq(Attempts), NEW a \in Attempts
      PROVE  ResolveAlong(logs, n, Append(s, a)) =
               IF a \in DOMAIN logs THEN Ingest(ResolveAlong(logs, n, s), a, logs[a], n)
               ELSE ResolveAlong(logs, n, s)
  <2>1. Fold(H, base, Append(s, a)) = H[<<Fold(H, base, s), a>>]
    BY <1>1, FoldAppend
  <2> QED BY <1>2, <1>3, <1>6, <2>1
<1> QED BY <1>2, <1>4, <1>5, <1>6, <1>7 DEF base

LEMMA ResolveAppend ==
  ASSUME NEW logs, Readable(logs), NEW n, NEW s \in Seq(Attempts), NEW a \in Attempts
  PROVE  ResolveAlong(logs, n, Append(s, a)) =
           IF a \in DOMAIN logs THEN Ingest(ResolveAlong(logs, n, s), a, logs[a], n)
           ELSE ResolveAlong(logs, n, s)
<1>1. \A r \in Seq(Attempts), b \in Attempts :
        ResolveAlong(logs, n, Append(r, b)) =
          IF b \in DOMAIN logs THEN Ingest(ResolveAlong(logs, n, r), b, logs[b], n)
          ELSE ResolveAlong(logs, n, r)
  BY ResolveFacts
<1> QED BY <1>1

(* The same of the history.                                                   *)
HistoryAlong(logs, n, s) == Fold(HistoryStep(logs, n), NoHistory, s)

LEMMA HistoryFacts ==
  ASSUME NEW logs, NEW n
  PROVE  /\ HistoryIn(logs, n) = HistoryAlong(logs, n, AttemptSeq)
         /\ HistoryAlong(logs, n, <<>>) = NoHistory
         /\ \A s \in Seq(Attempts) : HistoryAlong(logs, n, s) \in History
         /\ \A s \in Seq(Attempts), a \in Attempts :
              HistoryAlong(logs, n, Append(s, a)) =
                Recount(HistoryAlong(logs, n, s), a, FirstOf(logs[a], n))
<1> DEFINE H == HistoryStep(logs, n)
<1>1. Steps(H, History, Attempts) /\ NoHistory \in History
  BY HistorySteps
<1>2. \A s : HistoryAlong(logs, n, s) = Fold(H, NoHistory, s)
  BY DEF HistoryAlong
<1>3. \A h \in History, a \in Attempts : H[<<h, a>>] = Recount(h, a, FirstOf(logs[a], n))
  BY DEF HistoryStep
<1>4. HistoryIn(logs, n) = Fold(H, NoHistory, AttemptSeq)
  BY HistoryIsFold
<1> HIDE DEF H
<1>5. HistoryAlong(logs, n, <<>>) = NoHistory
  BY <1>1, <1>2, FoldEmpty
<1>6. ASSUME NEW s \in Seq(Attempts) PROVE HistoryAlong(logs, n, s) \in History
  BY <1>1, <1>2, FoldType
<1>7. ASSUME NEW s \in Seq(Attempts), NEW a \in Attempts
      PROVE  HistoryAlong(logs, n, Append(s, a)) =
               Recount(HistoryAlong(logs, n, s), a, FirstOf(logs[a], n))
  <2>1. Fold(H, NoHistory, Append(s, a)) = H[<<Fold(H, NoHistory, s), a>>]
    BY <1>1, FoldAppend
  <2> QED BY <1>2, <1>3, <1>6, <2>1
<1> QED BY <1>2, <1>4, <1>5, <1>6, <1>7

-----------------------------------------------------------------------------
(* Facts about these operators.                                               *)

LEMMA AppendConcat ==
  ASSUME NEW T, NEW s \in Seq(T), NEW t \in Seq(T), NEW x \in T
  PROVE  s \o Append(t, x) = Append(s \o t, x)
BY AppendIsConcat, ConcatAssociative, ConcatProperties

LEMMA LeastIsLeast ==
  ASSUME NEW S \in SUBSET Nat, IsFiniteSet(S), S # {}
  PROVE  Least(S) \in S /\ \A j \in S : Least(S) <= j
<1>1. \E i \in S : \A j \in S : i <= j
  <2>1. S \in SUBSET Int
    OBVIOUS
  <2> QED BY <2>1, MaxMin
<1> QED BY <1>1 DEF Least

LEMMA LeastPlace ==
  ASSUME NEW T, NEW s \in Seq(T), NEW S \in SUBSET DOMAIN s, S # {}
  PROVE  Least(S) \in S /\ \A j \in S : Least(S) <= j
<1>1. IsFiniteSet(DOMAIN s) /\ DOMAIN s \in SUBSET Nat
  <2>1. DOMAIN s = 1..Len(s) /\ Len(s) \in Nat
    BY LenProperties
  <2> QED BY <2>1, FS_Interval
<1>2. IsFiniteSet(S) /\ S \in SUBSET Nat
  BY <1>1, FS_Subset
<1> QED BY <1>2, LeastIsLeast

(* The outcomes of a log name every row at most once, in rising order.        *)
Increasing(s) == \A i, j \in DOMAIN s : i < j => s[i].seq < s[j].seq

LEMMA FirstOfAppend ==
  ASSUME NEW s \in Seq(Outcome), NEW o \in Outcome, NEW n,
         Increasing(Append(s, o))
  PROVE  /\ Increasing(s)
         /\ o.seq # n => FirstOf(Append(s, o), n) = FirstOf(s, n)
         /\ o.seq = n => FirstOf(s, n) = "none" /\ FirstOf(Append(s, o), n) = o.kind
<1> DEFINE t == Append(s, o)
           k == Len(s)
           At(r) == {i \in DOMAIN r : r[i].seq = n}
<1>1. /\ k \in Nat /\ DOMAIN s = 1..k /\ t \in Seq(Outcome) /\ DOMAIN t = 1..(k + 1)
      /\ t[k + 1] = o /\ \A i \in 1..k : t[i] = s[i]
  BY AppendProperties, LenProperties
<1>2. \A i \in 1..k : s[i].seq \in Nat /\ s[i].seq < o.seq
  <2>1. ASSUME NEW i \in 1..k PROVE s[i].seq \in Nat /\ s[i].seq < o.seq
    <3>1. i \in DOMAIN t /\ k + 1 \in DOMAIN t /\ i < k + 1
      BY <1>1
    <3>2. t[i].seq < t[k + 1].seq
      BY <3>1 DEF Increasing
    <3>3. s[i] \in Outcome
      BY <1>1, ElementOfSeq
    <3> QED BY <1>1, <3>2, <3>3 DEF Outcome
  <2> QED BY <2>1
<1>3. Increasing(s)
  <2>1. Increasing(t)
    OBVIOUS
  <2> HIDE DEF t
  <2> QED BY <1>1, <2>1 DEF Increasing
<1> HIDE DEF t, k
<1>4. CASE o.seq # n
  <2>1. At(t) = At(s)
    BY <1>1, <1>4
  <2>2. \A i \in At(s) : t[i] = s[i]
    BY <1>1
  <2>3. At(s) # {} => Least(At(s)) \in At(s)
    BY LeastPlace
  <2>4. FirstOf(t, n) = FirstOf(s, n)
    <3>1. FirstOf(t, n) = IF At(t) = {} THEN "none" ELSE t[Least(At(t))].kind
      BY DEF FirstOf
    <3>2. FirstOf(s, n) = IF At(s) = {} THEN "none" ELSE s[Least(At(s))].kind
      BY DEF FirstOf
    <3> HIDE DEF At
    <3> QED BY <2>1, <2>2, <2>3, <3>1, <3>2
  <2> QED BY <1>3, <1>4, <2>4 DEF t
<1>5. CASE o.seq = n
  <2>1. At(s) = {}
    BY <1>1, <1>2, <1>5
  <2>2. At(t) = {k + 1}
    <3>1. k + 1 \in At(t)
      BY <1>1, <1>5
    <3>2. ASSUME NEW i \in At(t) PROVE i = k + 1
      BY <1>1, <1>2, <1>5
    <3> QED BY <3>1, <3>2
  <2>3. Least(At(t)) = k + 1
    <3>1. At(t) # {}
      BY <2>2
    <3>2. Least(At(t)) \in At(t)
      BY <1>1, <3>1, LeastPlace
    <3> QED BY <2>2, <3>2
  <2>4. FirstOf(t, n) = o.kind /\ FirstOf(s, n) = "none"
    <3>1. FirstOf(t, n) = IF At(t) = {} THEN "none" ELSE t[Least(At(t))].kind
      BY DEF FirstOf
    <3>2. FirstOf(s, n) = IF At(s) = {} THEN "none" ELSE s[Least(At(s))].kind
      BY DEF FirstOf
    <3> HIDE DEF At
    <3> QED BY <1>1, <2>1, <2>2, <2>3, <3>1, <3>2
  <2> QED BY <1>3, <1>5, <2>4 DEF t
<1> QED BY <1>4, <1>5

(* A log adds to what is known of a row what its first outcome of it says.    *)
LEMMA IngestOnce ==
  ASSUME NEW q \in Found, NEW a \in Attempts, NEW n, NEW outcomes \in Seq(Outcome),
         Increasing(outcomes)
  PROVE  Ingest(q, a, outcomes, n) = R!apply_row_outcome(q, a, FirstOf(outcomes, n))
<1> DEFINE P == {s \in Seq(Outcome) : Increasing(s) =>
                   Ingest(q, a, s, n) = R!apply_row_outcome(q, a, FirstOf(s, n))}
<1>1. R!apply_row_outcome(q, a, "none") = q
  BY DEF R!apply_row_outcome
<1>2. <<>> \in P
  <2>1. FirstOf(<<>>, n) = "none"
    BY DEF FirstOf
  <2> QED BY <1>1, <2>1, IngestEmpty, EmptySeq
<1>3. ASSUME NEW s \in Seq(Outcome), NEW o \in Outcome, s \in P
      PROVE  Append(s, o) \in P
  <2>1. Append(s, o) \in Seq(Outcome)
    BY AppendProperties
  <2>2. ASSUME Increasing(Append(s, o))
        PROVE  Ingest(q, a, Append(s, o), n) =
                 R!apply_row_outcome(q, a, FirstOf(Append(s, o), n))
    <3>1. /\ Increasing(s)
          /\ o.seq # n => FirstOf(Append(s, o), n) = FirstOf(s, n)
          /\ o.seq = n => FirstOf(s, n) = "none" /\ FirstOf(Append(s, o), n) = o.kind
      BY <2>2, FirstOfAppend
    <3>2. Ingest(q, a, s, n) = R!apply_row_outcome(q, a, FirstOf(s, n))
      BY <1>3, <3>1
    <3>3. Ingest(q, a, Append(s, o), n) =
            IF o.seq = n THEN R!apply_row_outcome(Ingest(q, a, s, n), a, o.kind)
            ELSE Ingest(q, a, s, n)
      BY IngestAppend
    <3> QED BY <1>1, <3>1, <3>2, <3>3
  <2> QED BY <2>1, <2>2
<1> HIDE DEF P
<1>4. \A s \in Seq(Outcome) : s \in P
  BY <1>2, <1>3, SeqInduction
<1> QED BY <1>4 DEF P

(* A log without an outcome of a row adds nothing.                            *)
LEMMA IngestNothing ==
  ASSUME NEW q \in Found, NEW a \in Attempts, NEW n, NEW outcomes \in Seq(Outcome),
         \A i \in DOMAIN outcomes : outcomes[i].seq # n
  PROVE  Ingest(q, a, outcomes, n) = q
<1> DEFINE Absent(s) == \A i \in DOMAIN s : s[i].seq # n
           P == {s \in Seq(Outcome) : Absent(s) => Ingest(q, a, s, n) = q}
<1>1. <<>> \in P
  BY IngestEmpty, EmptySeq
<1>2. ASSUME NEW s \in Seq(Outcome), NEW o \in Outcome, s \in P
      PROVE  Append(s, o) \in P
  <2>1. /\ Append(s, o) \in Seq(Outcome) /\ DOMAIN s = 1..Len(s) /\ Len(s) \in Nat
        /\ DOMAIN Append(s, o) = 1..(Len(s) + 1) /\ Append(s, o)[Len(s) + 1] = o
        /\ \A i \in 1..Len(s) : Append(s, o)[i] = s[i]
    BY AppendProperties, LenProperties
  <2>2. ASSUME Absent(Append(s, o)) PROVE Ingest(q, a, Append(s, o), n) = q
    <3>1. Absent(s) /\ o.seq # n
      <4>1. \A i \in 1..Len(s) : i \in 1..(Len(s) + 1)
        BY <2>1
      <4>2. Len(s) + 1 \in 1..(Len(s) + 1)
        BY <2>1
      <4> QED BY <2>1, <2>2, <4>1, <4>2
    <3>2. Ingest(q, a, s, n) = q
      BY <1>2, <3>1
    <3> QED BY <3>1, <3>2, IngestAppend
  <2> QED BY <2>1, <2>2
<1> HIDE DEF P
<1>3. \A s \in Seq(Outcome) : s \in P
  BY <1>1, <1>2, SeqInduction
<1> QED BY <1>3 DEF P

(* State, exported success and exported failure of a row fit together.        *)
Coherent(p) ==
  /\ p.state = "Resolved" <=> p.canonical # "none"
  /\ p.state \in Failing => p.failure # "none"

LEMMA ApplyCoherent ==
  ASSUME NEW p \in Found, NEW a \in Attempts, NEW kind, Coherent(p)
  PROVE  Coherent(R!apply_row_outcome(p, a, kind))
<1>1. /\ p = [state |-> p.state, canonical |-> p.canonical, failure |-> p.failure]
      /\ p.state \in FoundStates
  BY DEF Found
<1>2. a # "none"
  BY ResultsAssumption
<1>3. R!classify_failure(kind) \in Failing
  BY DEF R!classify_failure, Failing
<1>4. "Resolved" \notin Failing
  BY DEF Failing
<1>5. CASE kind = "success"
  BY <1>1, <1>2, <1>4, <1>5 DEF R!apply_row_outcome, Coherent
<1>6. CASE kind # "success" /\ (kind = "none" \/ p.state = "Resolved")
  BY <1>6 DEF R!apply_row_outcome
<1>7. CASE kind \notin {"none", "success"} /\ p.state # "Resolved"
  <2>1. R!apply_row_outcome(p, a, kind) =
          [p EXCEPT !.state = R!classify_failure(kind), !.failure = a]
    BY <1>7 DEF R!apply_row_outcome
  <2> QED BY <1>1, <1>2, <1>3, <1>4, <1>7, <2>1 DEF Coherent
<1> QED BY <1>5, <1>6, <1>7

LEMMA IngestCoherent ==
  ASSUME NEW q \in Found, NEW a \in Attempts, NEW n, NEW outcomes \in Seq(Outcome),
         Coherent(q)
  PROVE  Coherent(Ingest(q, a, outcomes, n))
<1> DEFINE P == {s \in Seq(Outcome) : Coherent(Ingest(q, a, s, n))}
<1>1. <<>> \in P
  BY IngestEmpty, EmptySeq
<1>2. ASSUME NEW s \in Seq(Outcome), NEW o \in Outcome, s \in P
      PROVE  Append(s, o) \in P
  <2>1. Append(s, o) \in Seq(Outcome)
    BY AppendProperties
  <2>2. Ingest(q, a, s, n) \in Found /\ Coherent(Ingest(q, a, s, n))
    BY <1>2, IngestType
  <2>3. Coherent(R!apply_row_outcome(Ingest(q, a, s, n), a, o.kind))
    BY <2>2, ApplyCoherent
  <2> QED BY <2>1, <2>2, <2>3, IngestAppend
<1> HIDE DEF P
<1>3. \A s \in Seq(Outcome) : s \in P
  BY <1>1, <1>2, SeqInduction
<1> QED BY <1>3 DEF P

(* The same of a whole resolution, and a row that is not NeverAttempted has   *)
(* an outcome in one of the logs.                                             *)
LEMMA ResolveCoherent ==
  ASSUME NEW logs, Readable(logs), NEW n
  PROVE  /\ ResolveIn(logs, n) \in Found /\ Coherent(ResolveIn(logs, n))
         /\ ResolveIn(logs, n).state # "NeverAttempted" =>
              \E a \in DOMAIN logs \cap Attempts : \E i \in DOMAIN logs[a] : logs[a][i].seq = n
<1> DEFINE Told == \E a \in DOMAIN logs \cap Attempts : \E i \in DOMAIN logs[a] : logs[a][i].seq = n
           P == {s \in Seq(Attempts) :
                   /\ Coherent(ResolveAlong(logs, n, s))
                   /\ Told \/ ResolveAlong(logs, n, s) = R!NeverAttempted}
<1>1. Coherent(R!NeverAttempted) /\ R!NeverAttempted.state = "NeverAttempted"
  BY DEF Coherent, R!NeverAttempted, Failing
<1>2. <<>> \in P
  BY <1>1, ResolveFacts, EmptySeq
<1>3. ASSUME NEW s \in Seq(Attempts), NEW a \in Attempts, s \in P
      PROVE  Append(s, a) \in P
  <2>1. Append(s, a) \in Seq(Attempts)
    BY AppendProperties
  <2> DEFINE p == ResolveAlong(logs, n, s)
             r == ResolveAlong(logs, n, Append(s, a))
  <2>2. p \in Found /\ Coherent(p) /\ (Told \/ p = R!NeverAttempted)
    BY <1>3, ResolveFacts
  <2>3. r = IF a \in DOMAIN logs THEN Ingest(p, a, logs[a], n) ELSE p
    BY ResolveFacts
  <2> HIDE DEF p, r
  <2>4. CASE a \notin DOMAIN logs
    BY <2>1, <2>2, <2>3, <2>4 DEF r
  <2>5. CASE a \in DOMAIN logs
    <3>1. logs[a] \in Seq(Outcome)
      BY <2>5 DEF Readable
    <3>2. Coherent(r)
      BY <2>2, <2>3, <2>5, <3>1, IngestCoherent
    <3>3. Told \/ r = p
      <4>1. ASSUME ~Told PROVE \A i \in DOMAIN logs[a] : logs[a][i].seq # n
        BY <2>5, <4>1
      <4> QED BY <2>2, <2>3, <2>5, <3>1, <4>1, IngestNothing
    <3> QED BY <2>1, <2>2, <3>2, <3>3 DEF r
  <2> QED BY <2>4, <2>5
<1> HIDE DEF P, Told
<1>4. \A s \in Seq(Attempts) : s \in P
  BY <1>2, <1>3, SeqInduction
<1>5. AttemptSeq \in P
  BY <1>4, AttemptSeqType
<1>6. ResolveIn(logs, n) \in Found /\ ResolveIn(logs, n) = ResolveAlong(logs, n, AttemptSeq)
  BY ResolveFacts, AttemptSeqType
<1> QED BY <1>1, <1>5, <1>6 DEF P, Told

(* A record of the resolution and a history that say the same of a row.       *)
Agree(p, h) ==
  /\ Coherent(p)
  /\ h.resolved_at = p.canonical
  /\ h.failures # <<>> => p.failure = Last(h.failures)

LEMMA AgreeStep ==
  ASSUME NEW p \in Found, NEW h \in History, NEW a \in Attempts, NEW kind, Agree(p, h)
  PROVE  Agree(R!apply_row_outcome(p, a, kind), Recount(h, a, kind))
<1> DEFINE r == R!apply_row_outcome(p, a, kind)
           g == Recount(h, a, kind)
<1>1. /\ p = [state |-> p.state, canonical |-> p.canonical, failure |-> p.failure]
      /\ h = [resolved_at |-> h.resolved_at, failures |-> h.failures]
      /\ h.failures \in Seq(Attempts)
  BY DEF Found, History
<1>2. Coherent(r)
  BY ApplyCoherent DEF Agree
<1>3. h.resolved_at # "none" <=> p.state = "Resolved"
  BY DEF Agree, Coherent
<1>4. CASE h.resolved_at # "none"
  <2>1. g = h
    BY <1>4 DEF Recount
  <2>2. r.canonical = p.canonical /\ r.failure = p.failure
    BY <1>1, <1>3, <1>4 DEF R!apply_row_outcome, Agree
  <2> QED BY <1>2, <2>1, <2>2 DEF Agree
<1>5. CASE h.resolved_at = "none" /\ kind = "none"
  <2>1. g = h /\ r = p
    BY <1>5 DEF Recount, R!apply_row_outcome
  <2> QED BY <2>1
<1>6. CASE h.resolved_at = "none" /\ kind = "success"
  <2>1. g.resolved_at = a /\ g.failures = h.failures
    BY <1>1, <1>6 DEF Recount
  <2>2. r.canonical = a /\ r.failure = p.failure
    BY <1>1, <1>6 DEF R!apply_row_outcome, Agree
  <2> QED BY <1>2, <2>1, <2>2 DEF Agree
<1>7. CASE h.resolved_at = "none" /\ kind \notin {"none", "success"}
  <2>1. g.resolved_at = h.resolved_at /\ g.failures = Append(h.failures, a)
    BY <1>1, <1>7 DEF Recount
  <2>2. r.canonical = p.canonical /\ r.failure = a
    BY <1>1, <1>3, <1>7 DEF R!apply_row_outcome
  <2>3. Last(Append(h.failures, a)) = a
    BY <1>1, AppendProperties DEF Last
  <2> QED BY <1>2, <2>1, <2>2, <2>3 DEF Agree
<1> QED BY <1>4, <1>5, <1>6, <1>7

LEMMA HistoryAgrees ==
  ASSUME NEW logs \in [Attempts -> Seq(Outcome)], \A a \in Attempts : Increasing(logs[a]),
         NEW some, Readable(some),
         \A a \in Attempts : IF a \in DOMAIN some THEN some[a] = logs[a] ELSE logs[a] = <<>>,
         NEW n
  PROVE  Agree(ResolveIn(some, n), HistoryIn(logs, n))
<1> DEFINE P == {s \in Seq(Attempts) :
                   Agree(ResolveAlong(some, n, s), HistoryAlong(logs, n, s))}
<1>1. <<>> \in P
  <2>1. Agree(R!NeverAttempted, NoHistory)
    BY DEF Agree, Coherent, R!NeverAttempted, NoHistory, Failing
  <2> QED BY <2>1, ResolveFacts, HistoryFacts, EmptySeq
<1>2. ASSUME NEW s \in Seq(Attempts), NEW a \in Attempts, s \in P
      PROVE  Append(s, a) \in P
  <2>1. Append(s, a) \in Seq(Attempts)
    BY AppendProperties
  <2> DEFINE p == ResolveAlong(some, n, s)
             r == ResolveAlong(some, n, Append(s, a))
             h == HistoryAlong(logs, n, s)
             g == HistoryAlong(logs, n, Append(s, a))
             kind == FirstOf(logs[a], n)
  <2>2. p \in Found /\ h \in History /\ Agree(p, h)
    BY <1>2, ResolveFacts, HistoryFacts
  <2>3. r = IF a \in DOMAIN some THEN Ingest(p, a, some[a], n) ELSE p
    BY ResolveAppend
  <2>4. g = Recount(h, a, kind)
    BY HistoryFacts
  <2> HIDE DEF p, r, h, g
  <2>5. r = R!apply_row_outcome(p, a, kind)
    <3>1. CASE a \in DOMAIN some
      <4>1. some[a] = logs[a] /\ logs[a] \in Seq(Outcome) /\ Increasing(logs[a])
        BY <3>1
      <4> QED BY <2>2, <2>3, <3>1, <4>1, IngestOnce
    <3>2. CASE a \notin DOMAIN some
      <4>1. kind = "none"
        BY <3>2 DEF FirstOf
      <4> QED BY <2>3, <3>2, <4>1 DEF R!apply_row_outcome
    <3> QED BY <3>1, <3>2
  <2> HIDE DEF kind
  <2>6. Agree(r, g)
    BY <2>2, <2>4, <2>5, AgreeStep
  <2> QED BY <2>1, <2>6 DEF r, g
<1> HIDE DEF P
<1>3. \A s \in Seq(Attempts) : s \in P
  BY <1>1, <1>2, SeqInduction
<1>4. AttemptSeq \in P
  BY <1>3, AttemptSeqType
<1> QED BY <1>4, ResolveFacts, HistoryFacts DEF P

-----------------------------------------------------------------------------
(* Reading a file: where an iterator stands, which number comes next.         *)

LEMMA ContentFacts ==
  ASSUME NEW T, NEW lines \in Seq(T), NEW p \in 1..(Len(lines) + 1)
  PROVE  /\ Content(lines, p) \in p..(Len(lines) + 1)
         /\ Content(lines, p) <= Len(lines) => lines[Content(lines, p)] # "blank"
<1> DEFINE S == {j \in p..Len(lines) : lines[j] # "blank"} \cup {Len(lines) + 1}
<1>1. Len(lines) \in Nat
  BY LenProperties
<1>2. S \in SUBSET (1..(Len(lines) + 1)) /\ S # {}
  BY <1>1
<1>3. IsFiniteSet(S) /\ S \in SUBSET Nat
  <2>1. IsFiniteSet(1..(Len(lines) + 1)) /\ 1..(Len(lines) + 1) \subseteq Nat
    BY <1>1, FS_Interval
  <2> QED BY <1>2, <2>1, FS_Subset
<1>4. Content(lines, p) = Least(S)
  BY DEF Content
<1> HIDE DEF S
<1>5. Least(S) \in S
  BY <1>2, <1>3, LeastIsLeast
<1> QED BY <1>1, <1>4, <1>5 DEF S

LEMMA RecordEndFacts ==
  ASSUME NEW T, NEW lines \in Seq(T), NEW s \in 1..Len(lines)
  PROVE  RecordEnd(lines, s) \in s..Len(lines)
<1> DEFINE S == {q \in (s + 1)..Len(lines) : lines[q] = "quote"} \cup {Len(lines)}
<1>1. Len(lines) \in Nat
  BY LenProperties
<1>2. S \in SUBSET (s..Len(lines)) /\ S # {}
  BY <1>1
<1>3. IsFiniteSet(S) /\ S \in SUBSET Nat
  <2>1. IsFiniteSet(s..Len(lines)) /\ s..Len(lines) \subseteq Nat
    BY <1>1, FS_Interval
  <2> QED BY <1>2, <2>1, FS_Subset
<1>4. RecordEnd(lines, s) = IF lines[s] # "quote" THEN s ELSE Least(S)
  BY DEF RecordEnd
<1> HIDE DEF S
<1>5. Least(S) \in S
  BY <1>2, <1>3, LeastIsLeast
<1>6. Least(S) \in s..Len(lines)
  BY <1>2, <1>5
<1>7. s \in s..Len(lines)
  BY <1>1
<1> QED BY <1>4, <1>6, <1>7

LEMMA FileType ==
  ASSUME NEW f \in InputFile
  PROVE  /\ f.lines \in Seq(CsvLines) /\ Len(f.lines) \in Nat /\ f.format \in {"jsonl", "csv"}
         /\ DOMAIN f.lines = 1..Len(f.lines)
         /\ f.format = "jsonl" => f.ends = "lf"
<1>1. \A l \in Seq(JsonlLines) : l \in Seq(CsvLines)
  <2>1. JsonlLines \subseteq CsvLines
    BY DEF CsvLines
  <2> QED BY <2>1, SeqMonotonic
<1> QED BY <1>1, LenProperties DEF InputFile

(* The line the iterator looks at next. The numbers lag behind the lines, of  *)
(* a CSV by its header too.                                                   *)
Iter == [pos : Nat, seq : Nat, first : Nat]
From(i) == IF i.first # 0 THEN i.first ELSE i.pos
Lag(f) == IF f.format = "csv" THEN 2 ELSE 1
Header(f) == Content(f.lines, 1)

InStep(f, i) ==
  /\ i \in Iter
  /\ From(i) \in 1..(Len(f.lines) + 1)
  /\ i.seq + Lag(f) <= From(i)
  /\ i.first # 0 =>
       /\ f.format = "jsonl" /\ i.pos = i.first + 1
       /\ i.first <= Len(f.lines) /\ f.lines[i.first] = "row"
  /\ f.format = "csv" => Header(f) < From(i) /\ Header(f) <= Len(f.lines)

At(i, p, k, first) == i \in Iter /\ i.pos = p /\ i.seq = k /\ i.first = first

LEMMA MovedOn ==
  ASSUME NEW i \in Iter, NEW p \in Nat, NEW k \in Nat
  PROVE  /\ At([i EXCEPT !.pos = p, !.seq = k], p, k, i.first)
         /\ At([i EXCEPT !.first = 0, !.seq = k], i.pos, k, 0)
BY DEF Iter, At

LEMMA OpenInStep ==
  ASSUME NEW f \in InputFile, open_input(f) # OpenFailed
  PROVE  InStep(f, open_input(f))
<1> DEFINE lines == f.lines
           n == Len(lines)
           s == Content(lines, 1)
<1>1. lines \in Seq(CsvLines) /\ n \in Nat /\ f.format \in {"jsonl", "csv"}
  BY FileType
<1>2. s \in 1..(n + 1)
  <2>1. 1 \in 1..(n + 1)
    BY <1>1
  <2> QED BY <1>1, <2>1, ContentFacts
<1>3. CASE f.format = "csv"
  <2>1. open_input(f) = OpenCsv(lines)
    BY <1>3 DEF open_input
  <2>2. s <= n /\ open_input(f) = Opened(RecordEnd(lines, s) + 1, 0)
    BY <1>1, <1>2, <2>1 DEF OpenCsv
  <2>3. RecordEnd(lines, s) \in s..n
    <3>1. s \in 1..n
      BY <1>1, <1>2, <2>2
    <3> QED BY <1>1, <3>1, RecordEndFacts
  <2> HIDE DEF s, n
  <2>4. s = Header(f) /\ n = Len(f.lines)
    BY DEF s, n, Header
  <2> DEFINE r == RecordEnd(lines, s)
  <2>5. r \in s..n /\ open_input(f) = [pos |-> r + 1, seq |-> 0, first |-> 0]
    BY <2>2, <2>3 DEF Opened
  <2> HIDE DEF r
  <2> QED BY <1>1, <1>2, <1>3, <2>2, <2>4, <2>5 DEF InStep, Iter, From, Lag
<1>4. CASE f.format = "jsonl"
  <2>1. open_input(f) = OpenJsonl(lines)
    BY <1>4 DEF open_input
  <2>2. \/ s > n /\ open_input(f) = [pos |-> s, seq |-> 0, first |-> 0]
        \/ s <= n /\ lines[s] = "row" /\ open_input(f) = [pos |-> s + 1, seq |-> 0, first |-> s]
    BY <1>1, <1>2, <2>1 DEF OpenJsonl, Opened
  <2> HIDE DEF s
  <2> QED BY <1>1, <1>2, <1>4, <2>2 DEF InStep, Iter, From, Lag
<1> QED BY <1>1, <1>3, <1>4

LEMMA OpenedAtZero ==
  ASSUME NEW f \in InputFile
  PROVE  open_input(f).seq = 0
BY DEF open_input, OpenCsv, OpenJsonl, Opened, OpenFailed

(* What a call yields, and where it leaves the iterator.                      *)
Yielded(f, i, item) ==
  /\ item.kind \in {"row", "error", "end"}
  /\ item.kind = "end" => item.next = i
  /\ item.kind # "end" =>
       /\ item.line \in From(i)..Len(f.lines) /\ f.lines[item.line] # "blank"
       /\ item.seq \in Nat /\ i.seq <= item.seq /\ item.seq + Lag(f) <= item.line
       /\ item.next.seq = item.seq + 1 /\ item.line < From(item.next)
       /\ f.format = "csv" => Header(f) < item.line
  /\ item.kind = "row" => f.lines[item.line] # "gap"

LEMMA YieldFacts ==
  ASSUME NEW f \in InputFile, NEW i, InStep(f, i)
  PROVE  InStep(f, yield_next(f, i).next) /\ Yielded(f, i, yield_next(f, i))
<1> DEFINE lines == f.lines
           n == Len(lines)
           item == yield_next(f, i)
<1>1. lines \in Seq(CsvLines) /\ n \in Nat /\ f.format \in {"jsonl", "csv"}
  BY FileType
<1>2. /\ i = [pos |-> i.pos, seq |-> i.seq, first |-> i.first]
      /\ i.pos \in Nat /\ i.seq \in Nat /\ i.first \in Nat
  BY DEF InStep, Iter
<1>5. i \in Iter
  BY DEF InStep
<1>3. CASE f.format = "csv"
  <2> DEFINE s == Content(lines, i.pos)
             r == RecordEnd(lines, s)
  <2>1. i.first = 0 /\ From(i) = i.pos /\ i.pos \in 1..(n + 1) /\ Header(f) < i.pos
        /\ Header(f) <= n /\ i.seq + 2 <= i.pos
    BY <1>3 DEF InStep, From, Lag
  <2>2. s \in i.pos..(n + 1) /\ (s <= n => lines[s] # "blank")
    BY <1>1, <2>1, ContentFacts
  <2>3. item = NextCsv(lines, i)
    BY <1>3 DEF yield_next
  <2>4. CASE s > n
    <3>1. item = End(i)
      BY <2>3, <2>4 DEF NextCsv
    <3>2. item.kind = "end" /\ item.next = i
      BY <3>1 DEF End, Item
    <3> QED BY <3>2 DEF Yielded
  <2>5. CASE s <= n
    <3>1. s \in 1..n /\ r \in s..n
      <4>1. s \in 1..n
        BY <1>1, <2>1, <2>2, <2>5
      <4> QED BY <1>1, <4>1, RecordEndFacts
    <3>2. /\ item.kind \in {"row", "error"} /\ item.seq = i.seq /\ item.line = s
          /\ At(item.next, r + 1, i.seq + 1, 0) /\ (item.kind = "row" => lines[s] # "gap")
      <4> DEFINE kind == IF lines[s] \in {"malformed", "invalid", "gap"} THEN "error" ELSE "row"
                 next == [i EXCEPT !.pos = r + 1, !.seq = i.seq + 1]
      <4>1. item = Item(kind, i.seq, s, next)
        BY <1>1, <2>1, <2>2, <2>3, <2>5 DEF NextCsv
      <4>2. At(next, r + 1, i.seq + 1, 0)
        <5>1. r + 1 \in Nat /\ i.seq + 1 \in Nat
          BY <1>1, <1>2, <3>1
        <5> QED BY <1>5, <2>1, <5>1, MovedOn
      <4>3. kind \in {"row", "error"} /\ (kind = "row" => lines[s] # "gap")
        OBVIOUS
      <4> HIDE DEF kind, next, item
      <4> QED BY <4>1, <4>2, <4>3 DEF Item
    <3> HIDE DEF s, r, item
    <3>3. From(item.next) = r + 1 /\ item.next \in Iter /\ item.next.first = 0
      BY <1>2, <3>1, <3>2 DEF From, At
    <3>4. Header(f) \in Int
      <4>1. 1 \in 1..(n + 1)
        BY <1>1
      <4> QED BY <1>1, <4>1, ContentFacts DEF Header
    <3> HIDE DEF n
    <3>5. InStep(f, item.next)
      BY <1>1, <1>2, <1>3, <2>1, <2>2, <3>1, <3>2, <3>3, <3>4 DEF InStep, Lag, At, n
    <3>6. Yielded(f, i, item)
      BY <1>1, <1>2, <1>3, <2>1, <2>2, <2>5, <3>1, <3>2, <3>3, <3>4 DEF Yielded, Lag, At, n
    <3> QED BY <3>5, <3>6 DEF item
  <2> QED BY <1>1, <2>1, <2>2, <2>4, <2>5
<1>4. CASE f.format = "jsonl"
  <2>1. item = NextJsonl(lines, i)
    BY <1>4 DEF yield_next
  <2>2. CASE i.first # 0
    <3>1. /\ item.kind = "row" /\ item.seq = i.seq /\ item.line = i.first
          /\ At(item.next, i.pos, i.seq + 1, 0)
      <4> DEFINE next == [i EXCEPT !.first = 0, !.seq = i.seq + 1]
      <4>1. item = Item("row", i.seq, i.first, next)
        BY <2>1, <2>2 DEF NextJsonl
      <4>2. At(next, i.pos, i.seq + 1, 0)
        <5>1. i.pos \in Nat /\ i.seq + 1 \in Nat
          BY <1>2
        <5> QED BY <1>5, <5>1, MovedOn
      <4> HIDE DEF next, item
      <4> QED BY <4>1, <4>2 DEF Item
    <3>2. /\ i.pos = i.first + 1 /\ i.first \in 1..n /\ lines[i.first] = "row"
          /\ i.seq + 1 <= i.first /\ From(i) = i.first
      BY <1>1, <1>4, <2>2 DEF InStep, From, Lag
    <3> HIDE DEF item
    <3>3. From(item.next) = i.pos /\ item.next \in Iter /\ item.next.first = 0
      BY <1>2, <3>1 DEF From, At
    <3>4. InStep(f, item.next)
      BY <1>1, <1>2, <1>4, <3>1, <3>2, <3>3 DEF InStep, Lag, At
    <3>5. Yielded(f, i, item)
      BY <1>1, <1>2, <1>4, <3>1, <3>2, <3>3 DEF Yielded, Lag, At
    <3> QED BY <3>4, <3>5 DEF item
  <2>3. CASE i.first = 0
    <3> DEFINE j == Content(lines, i.pos)
    <3>1. From(i) = i.pos /\ i.pos \in 1..(n + 1) /\ i.seq + 1 <= i.pos
      BY <1>4, <2>3 DEF InStep, From, Lag
    <3>2. j \in i.pos..(n + 1) /\ (j <= n => lines[j] # "blank")
      BY <1>1, <3>1, ContentFacts
    <3>3. CASE j > n
      <4>1. item = End(i)
        BY <2>1, <2>3, <3>3 DEF NextJsonl
      <4>2. item.kind = "end" /\ item.next = i
        BY <4>1 DEF End, Item
      <4> QED BY <4>2 DEF Yielded
    <3>4. CASE j <= n
      <4>1. /\ item.kind \in {"row", "error"} /\ item.seq = i.seq + (j - i.pos)
            /\ item.line = j /\ (item.kind = "row" => lines[j] # "gap")
            /\ At(item.next, j + 1, (i.seq + (j - i.pos)) + 1, 0)
        <5> DEFINE kind == IF lines[j] \in {"row", "keyless"} THEN "row" ELSE "error"
                   k == i.seq + (j - i.pos)
                   next == [i EXCEPT !.pos = j + 1, !.seq = k + 1]
        <5>1. item = Item(kind, k, j, next)
          BY <1>1, <2>1, <2>3, <3>1, <3>2, <3>4 DEF NextJsonl
        <5>2. At(next, j + 1, k + 1, 0)
          <6>1. j + 1 \in Nat /\ k + 1 \in Nat
            BY <1>1, <1>2, <3>1, <3>2
          <6> HIDE DEF j, k
          <6> QED BY <1>5, <2>3, <6>1, MovedOn
        <5>3. kind \in {"row", "error"} /\ (kind = "row" => lines[j] # "gap")
          OBVIOUS
        <5> HIDE DEF kind, next, item
        <5> QED BY <5>1, <5>2, <5>3 DEF Item
      <4> HIDE DEF j, item
      <4>2. From(item.next) = j + 1 /\ item.next \in Iter /\ item.next.first = 0
        BY <1>1, <1>2, <3>1, <3>2, <4>1 DEF From, At
      <4>3. InStep(f, item.next)
        BY <1>1, <1>2, <1>4, <3>1, <3>2, <3>4, <4>1, <4>2 DEF InStep, Lag, At
      <4>4. Yielded(f, i, item)
        BY <1>1, <1>2, <1>4, <3>1, <3>2, <3>4, <4>1, <4>2 DEF Yielded, Lag, At
      <4> QED BY <4>3, <4>4 DEF item
    <3> QED BY <1>1, <3>2, <3>3, <3>4
  <2> QED BY <2>2, <2>3
<1> QED BY <1>1, <1>3, <1>4

(* The walk along a file exists, and each step of it is a call of next.       *)
LEMMA WalkEquation ==
  ASSUME NEW f \in InputFile
  PROVE  /\ DOMAIN Walk(f) = 0..Len(f.lines)
         /\ Walk(f)[0] = open_input(f)
         /\ \A i \in 1..Len(f.lines) : Walk(f)[i] = yield_next(f, Walk(f)[i - 1]).next
<1> DEFINE Eq(h, n) == h = [i \in 0..n |-> IF i = 0 THEN open_input(f)
                                          ELSE yield_next(f, h[i - 1]).next]
           U == {n \in Nat : \E h : Eq(h, n)}
<1>1. 0 \in U
  <2> DEFINE h == [i \in 0..0 |-> open_input(f)]
  <2>1. Eq(h, 0)
    OBVIOUS
  <2> QED BY <2>1
<1>2. ASSUME NEW n \in U PROVE n + 1 \in U
  <2>1. n \in Nat /\ n + 1 \in Nat
    OBVIOUS
  <2>2. PICK h : Eq(h, n)
    OBVIOUS
  <2> DEFINE g == [i \in 0..(n + 1) |-> IF i = n + 1 THEN yield_next(f, h[n]).next ELSE h[i]]
  <2>3. \A i \in 0..n : g[i] = h[i] /\ h[i] = IF i = 0 THEN open_input(f)
                                             ELSE yield_next(f, h[i - 1]).next
    BY <2>1, <2>2
  <2>4. ASSUME NEW i \in 0..(n + 1)
        PROVE  g[i] = IF i = 0 THEN open_input(f) ELSE yield_next(f, g[i - 1]).next
    <3>1. CASE i = n + 1
      <4>1. i - 1 = n /\ n \in 0..n /\ i # 0
        BY <2>1, <3>1
      <4>2. g[i] = yield_next(f, h[n]).next
        BY <3>1
      <4> HIDE DEF g
      <4> QED BY <2>3, <4>1, <4>2
    <3>2. CASE i \in 0..n
      <4>1. i # 0 => i - 1 \in 0..n
        BY <2>1, <3>2
      <4> HIDE DEF g
      <4> QED BY <2>3, <3>2, <4>1
    <3> QED BY <2>1, <3>1, <3>2
  <2>5. Eq(g, n + 1)
    BY <2>4
  <2> HIDE DEF g, Eq
  <2> QED BY <2>1, <2>5
<1>3. U = Nat
  <2>1. U \in SUBSET Nat
    OBVIOUS
  <2> HIDE DEF U
  <2> QED BY <1>1, <1>2, <2>1, NatSetInduction
<1>4. Len(f.lines) \in Nat
  BY FileType
<1> DEFINE w == Walk(f)
<1>5. Eq(w, Len(f.lines))
  <2>1. \E h : Eq(h, Len(f.lines))
    BY <1>3, <1>4
  <2>2. w = CHOOSE h : Eq(h, Len(f.lines))
    BY DEF Walk
  <2> HIDE DEF Eq, w
  <2> QED BY <2>1, <2>2
<1> HIDE DEF w
<1>6. DOMAIN w = 0..Len(f.lines) /\ \A i \in 0..Len(f.lines) :
        w[i] = IF i = 0 THEN open_input(f) ELSE yield_next(f, w[i - 1]).next
  BY <1>5
<1> QED BY <1>4, <1>6 DEF w

Reads(f, i) == yield_next(f, Walk(f)[i])

LEMMA WalkInStep ==
  ASSUME NEW f \in InputFile, open_input(f) # OpenFailed
  PROVE  \A i \in DOMAIN Walk(f) :
           InStep(f, Walk(f)[i]) /\ Yielded(f, Walk(f)[i], Reads(f, i))
<1> DEFINE U == {i \in Nat : i \in DOMAIN Walk(f) => InStep(f, Walk(f)[i])}
<1>1. Len(f.lines) \in Nat /\ DOMAIN Walk(f) = 0..Len(f.lines)
  BY FileType, WalkEquation
<1>2. 0 \in U
  BY OpenInStep, WalkEquation
<1>3. ASSUME NEW i \in U PROVE i + 1 \in U
  <2>1. i \in Nat /\ i + 1 \in Nat /\ (i + 1) - 1 = i
    OBVIOUS
  <2>2. ASSUME i + 1 \in DOMAIN Walk(f) PROVE InStep(f, Walk(f)[i + 1])
    <3>1. i \in DOMAIN Walk(f) /\ i + 1 \in 1..Len(f.lines)
      BY <1>1, <2>1, <2>2
    <3>2. Walk(f)[i + 1] = yield_next(f, Walk(f)[i]).next
      BY <2>1, <3>1, WalkEquation
    <3>3. InStep(f, Walk(f)[i])
      BY <3>1
    <3> QED BY <3>2, <3>3, YieldFacts
  <2> QED BY <2>1, <2>2
<1>4. U = Nat
  <2>1. U \in SUBSET Nat
    OBVIOUS
  <2> HIDE DEF U
  <2> QED BY <1>2, <1>3, <2>1, NatSetInduction
<1>5. \A i \in DOMAIN Walk(f) : InStep(f, Walk(f)[i])
  BY <1>1, <1>4
<1> HIDE DEF U
<1> QED BY <1>5, YieldFacts DEF Reads

(* What is read later has a later line and a higher number.                   *)
LEMMA WalkOrder ==
  ASSUME NEW f \in InputFile, open_input(f) # OpenFailed,
         NEW i \in DOMAIN Walk(f), Reads(f, i).kind # "end"
  PROVE  \A j \in DOMAIN Walk(f) : i < j =>
           Reads(f, i).line < From(Walk(f)[j]) /\ Reads(f, i).seq < Walk(f)[j].seq
<1> DEFINE After(j) == Reads(f, i).line < From(Walk(f)[j]) /\ Reads(f, i).seq < Walk(f)[j].seq
           U == {j \in Nat : j \in DOMAIN Walk(f) /\ i < j => After(j)}
<1>1. Len(f.lines) \in Nat /\ DOMAIN Walk(f) = 0..Len(f.lines)
  BY FileType, WalkEquation
<1>2. Yielded(f, Walk(f)[i], Reads(f, i))
  BY WalkInStep
<1>3. Reads(f, i).line \in Int /\ Reads(f, i).seq \in Nat
  <2>1. From(Walk(f)[i]) \in Int
    BY WalkInStep, <1>1 DEF InStep
  <2> QED BY <1>1, <1>2, <2>1 DEF Yielded
<1>4. 0 \in U
  BY <1>1
<1>5. ASSUME NEW j \in U PROVE j + 1 \in U
  <2>1. j \in Nat /\ j + 1 \in Nat /\ (j + 1) - 1 = j
    OBVIOUS
  <2>2. ASSUME j + 1 \in DOMAIN Walk(f), i < j + 1 PROVE After(j + 1)
    <3>1. j \in DOMAIN Walk(f) /\ j + 1 \in 1..Len(f.lines) /\ (i = j \/ i < j)
      BY <1>1, <2>1, <2>2
    <3>2. Walk(f)[j + 1] = Reads(f, j).next
      BY <2>1, <3>1, WalkEquation DEF Reads
    <3>3. CASE i = j
      BY <1>2, <1>3, <3>2, <3>3 DEF Yielded
    <3>4. CASE i < j
      <4>1. After(j)
        BY <3>1, <3>4
      <4>2. InStep(f, Walk(f)[j]) /\ Yielded(f, Walk(f)[j], Reads(f, j))
        BY <3>1, WalkInStep
      <4>3. CASE Reads(f, j).kind = "end"
        BY <3>2, <4>1, <4>2, <4>3 DEF Yielded
      <4>4. CASE Reads(f, j).kind # "end"
        <5>1. InStep(f, Walk(f)[j + 1])
          BY <2>2, WalkInStep
        <5>2. /\ From(Walk(f)[j]) \in Int /\ Walk(f)[j].seq \in Nat
              /\ From(Walk(f)[j + 1]) \in Int /\ Walk(f)[j + 1].seq \in Nat
          BY <1>1, <4>2, <5>1 DEF InStep, Iter
        <5>3. /\ From(Walk(f)[j]) <= Reads(f, j).line /\ Reads(f, j).line \in Int
              /\ Reads(f, j).line < From(Walk(f)[j + 1])
              /\ Walk(f)[j].seq <= Reads(f, j).seq /\ Reads(f, j).seq \in Nat
              /\ Walk(f)[j + 1].seq = Reads(f, j).seq + 1
          BY <1>1, <3>2, <4>2, <4>4, <5>2 DEF Yielded
        <5> QED BY <1>3, <4>1, <5>2, <5>3
      <4> QED BY <4>3, <4>4
    <3> QED BY <3>1, <3>3, <3>4
  <2> QED BY <2>1, <2>2
<1>6. U = Nat
  <2>1. U \in SUBSET Nat
    OBVIOUS
  <2> HIDE DEF U
  <2> QED BY <1>4, <1>5, <2>1, NatSetInduction
<1> QED BY <1>1, <1>6

(* The row with number n on line l of a file.                                 *)
RowOf(f, n, l) ==
  \E i \in DOMAIN Walk(f) : Reads(f, i).kind = "row" /\ Reads(f, i).seq = n /\ Reads(f, i).line = l

(* A number names one row, and a row has one number.                          *)
LEMMA RowsByNumber ==
  ASSUME NEW f \in InputFile, open_input(f) # OpenFailed,
         NEW n, NEW l, NEW m, NEW k, RowOf(f, n, l), RowOf(f, m, k)
  PROVE  n = m <=> l = k
<1>1. ASSUME NEW i \in DOMAIN Walk(f), NEW j \in DOMAIN Walk(f), i < j,
             Reads(f, i).kind = "row", Reads(f, j).kind = "row"
      PROVE  Reads(f, i).line # Reads(f, j).line /\ Reads(f, i).seq # Reads(f, j).seq
  <2>1. /\ InStep(f, Walk(f)[i]) /\ Yielded(f, Walk(f)[i], Reads(f, i))
        /\ InStep(f, Walk(f)[j]) /\ Yielded(f, Walk(f)[j], Reads(f, j))
    BY WalkInStep
  <2>2. Reads(f, i).line < From(Walk(f)[j]) /\ Reads(f, i).seq < Walk(f)[j].seq
    BY <1>1, WalkOrder
  <2>3. Len(f.lines) \in Nat
    BY FileType
  <2>4. /\ From(Walk(f)[i]) \in Int /\ From(Walk(f)[j]) \in Int
        /\ Walk(f)[i].seq \in Nat /\ Walk(f)[j].seq \in Nat
    BY <2>1, <2>3 DEF InStep, Iter
  <2> QED BY <1>1, <2>1, <2>2, <2>3, <2>4 DEF Yielded
<1>2. PICK i \in DOMAIN Walk(f) :
        Reads(f, i).kind = "row" /\ Reads(f, i).seq = n /\ Reads(f, i).line = l
  BY DEF RowOf
<1>3. PICK j \in DOMAIN Walk(f) :
        Reads(f, j).kind = "row" /\ Reads(f, j).seq = m /\ Reads(f, j).line = k
  BY DEF RowOf
<1>4. i \in Int /\ j \in Int
  BY FileType, WalkEquation
<1>5. CASE i = j
  BY <1>2, <1>3, <1>5
<1>6. CASE i < j
  BY <1>1, <1>2, <1>3, <1>6
<1>7. CASE j < i
  BY <1>1, <1>2, <1>3, <1>7
<1> QED BY <1>4, <1>5, <1>6, <1>7

(* The counts: numbers are below the one, and the other counts the rows but   *)
(* for those of spaces alone.                                                 *)
LEMMA RowBounds ==
  ASSUME NEW f \in InputFile, open_input(f) # OpenFailed, NEW n, NEW l, RowOf(f, n, l)
  PROVE  /\ n \in Nat /\ n < Len(f.lines)
         /\ l \in DOMAIN f.lines /\ f.lines[l] \notin {"blank", "gap"}
         /\ f.ends = "lf" => n < hash_and_count_rows(f)
         /\ f.format = "csv" => Header(f) < l
<1>1. PICK i \in DOMAIN Walk(f) :
        Reads(f, i).kind = "row" /\ Reads(f, i).seq = n /\ Reads(f, i).line = l
  BY DEF RowOf
<1>2. InStep(f, Walk(f)[i]) /\ Yielded(f, Walk(f)[i], Reads(f, i))
  BY WalkInStep
<1>3. Len(f.lines) \in Nat /\ DOMAIN f.lines = 1..Len(f.lines) /\ f.format \in {"jsonl", "csv"}
  BY FileType
<1>4. /\ n \in Nat /\ l \in 1..Len(f.lines) /\ n + Lag(f) <= l
      /\ f.lines[l] \notin {"blank", "gap"}
      /\ f.format = "csv" => Header(f) < l
  <2>1. From(Walk(f)[i]) \in 1..(Len(f.lines) + 1)
    BY <1>2 DEF InStep
  <2> QED BY <1>1, <1>2, <1>3, <2>1 DEF Yielded
<1>5. Lag(f) = IF f.format = "csv" THEN 2 ELSE 1
  BY DEF Lag
<1>6. f.ends = "lf" => n < hash_and_count_rows(f)
  BY <1>3, <1>4, <1>5 DEF hash_and_count_rows
<1> QED BY <1>3, <1>4, <1>5, <1>6

LEMMA WalkOn ==
  ASSUME NEW f \in InputFile, open_input(f) # OpenFailed,
         NEW i \in DOMAIN Walk(f), Reads(f, i).kind # "end"
  PROVE  i + 1 \in DOMAIN Walk(f) /\ Walk(f)[i + 1] = Reads(f, i).next
<1> DEFINE U == {j \in Nat : j \in DOMAIN Walk(f) /\ Reads(f, j).kind # "end"
                               => j <= Walk(f)[j].seq}
<1>1. Len(f.lines) \in Nat /\ DOMAIN Walk(f) = 0..Len(f.lines)
  BY FileType, WalkEquation
<1>2. ASSUME NEW j \in DOMAIN Walk(f) PROVE Walk(f)[j].seq \in Nat
  BY WalkInStep DEF InStep, Iter
<1>3. 0 \in U
  BY <1>1, <1>2
<1>4. ASSUME NEW j \in U PROVE j + 1 \in U
  <2>1. j \in Nat /\ j + 1 \in Nat /\ (j + 1) - 1 = j
    OBVIOUS
  <2>2. ASSUME j + 1 \in DOMAIN Walk(f), Reads(f, j + 1).kind # "end"
        PROVE  j + 1 <= Walk(f)[j + 1].seq
    <3>1. j \in DOMAIN Walk(f) /\ j + 1 \in 1..Len(f.lines)
      BY <1>1, <2>1, <2>2
    <3>2. Walk(f)[j + 1] = Reads(f, j).next
      BY <2>1, <3>1, WalkEquation DEF Reads
    <3>3. Yielded(f, Walk(f)[j], Reads(f, j))
      BY <3>1, WalkInStep
    <3>4. Reads(f, j).kind # "end"
      <4>1. ASSUME Reads(f, j).kind = "end" PROVE FALSE
        <5>1. Walk(f)[j + 1] = Walk(f)[j]
          BY <3>2, <3>3, <4>1 DEF Yielded
        <5> QED BY <2>2, <4>1, <5>1 DEF Reads
      <4> QED BY <4>1
    <3>5. j <= Walk(f)[j].seq
      BY <3>1, <3>4
    <3>6. Walk(f)[j].seq <= Reads(f, j).seq /\ Reads(f, j).seq \in Nat
          /\ Walk(f)[j + 1].seq = Reads(f, j).seq + 1
      BY <3>2, <3>3, <3>4 DEF Yielded
    <3>7. Walk(f)[j].seq \in Nat
      BY <1>2, <3>1
    <3> HIDE DEF U
    <3> QED BY <2>1, <3>5, <3>6, <3>7
  <2> QED BY <2>1, <2>2
<1>5. U = Nat
  <2>1. U \in SUBSET Nat
    OBVIOUS
  <2> HIDE DEF U
  <2> QED BY <1>3, <1>4, <2>1, NatSetInduction
<1>6. i <= Walk(f)[i].seq /\ i \in Nat
  BY <1>1, <1>5
<1> HIDE DEF U
<1>7. InStep(f, Walk(f)[i])
  BY WalkInStep
<1>8. Yielded(f, Walk(f)[i], Reads(f, i))
  BY WalkInStep
<1>9. Reads(f, i).line <= Len(f.lines) /\ Reads(f, i).seq + 1 <= Reads(f, i).line
  <2>1. From(Walk(f)[i]) \in Int /\ Lag(f) \in {1, 2}
    BY <1>1, <1>7 DEF InStep, Lag
  <2> QED BY <1>1, <1>8, <2>1 DEF Yielded
<1>10. Walk(f)[i].seq <= Reads(f, i).seq /\ Reads(f, i).seq \in Nat /\ Reads(f, i).line \in Int
       /\ Walk(f)[i].seq \in Nat
  <2>1. From(Walk(f)[i]) \in Int
    BY <1>1, <1>7 DEF InStep
  <2> QED BY <1>1, <1>2, <1>8, <2>1 DEF Yielded
<1>11. i + 1 \in 1..Len(f.lines)
  BY <1>1, <1>6, <1>9, <1>10
<1>12. i + 1 \in DOMAIN Walk(f) /\ (i + 1) - 1 = i
  BY <1>1, <1>11
<1> QED BY <1>11, <1>12, WalkEquation DEF Reads

(* Both counts are counts.                                                    *)
LEMMA CountType ==
  ASSUME NEW f \in InputFile
  PROVE  hash_and_count_rows(f) \in Nat /\ count_input_rows(f) \in Nat
<1> DEFINE used == {i \in DOMAIN f.lines : f.lines[i] \notin Whitespace}
<1>1. Len(f.lines) \in Nat /\ DOMAIN f.lines = 1..Len(f.lines)
  BY FileType
<1>2. Cardinality(used) \in Nat
  <2>1. IsFiniteSet(DOMAIN f.lines)
    BY <1>1, FS_Interval
  <2>2. IsFiniteSet(used)
    BY <2>1, FS_Subset
  <2> QED BY <2>2, FS_CardinalityType
<1>3. count_input_rows(f) \in Nat
  <2> HIDE DEF used
  <2> QED BY <1>2 DEF count_input_rows, used
<1>4. hash_and_count_rows(f) \in Nat
  BY <1>1 DEF hash_and_count_rows
<1> QED BY <1>3, <1>4

(* Rows on different lines are no more than the file announces, but for the   *)
(* records of spaces alone.                                                   *)
Spaces(f) == {i \in DOMAIN f.lines : f.lines[i] = "spaces"}

LEMMA RowsAnnounced ==
  ASSUME NEW f \in InputFile, open_input(f) # OpenFailed, f.ends = "lf",
         NEW L, \A l \in L : \E n : RowOf(f, n, l)
  PROVE  IsFiniteSet(L) /\ Cardinality(L) <= count_input_rows(f) + Cardinality(Spaces(f))
<1> DEFINE used == {i \in DOMAIN f.lines : f.lines[i] \notin Whitespace}
           seen == IF f.format = "csv" THEN used \ {Header(f)} ELSE used
<1>1. /\ Len(f.lines) \in Nat /\ DOMAIN f.lines = 1..Len(f.lines)
      /\ f.format \in {"jsonl", "csv"} /\ f.lines \in Seq(CsvLines)
  BY FileType
<1>2. IsFiniteSet(used) /\ Cardinality(used) \in Nat
      /\ IsFiniteSet(Spaces(f)) /\ Cardinality(Spaces(f)) \in Nat
  <2>1. IsFiniteSet(1..Len(f.lines)) /\ used \subseteq 1..Len(f.lines)
        /\ Spaces(f) \subseteq 1..Len(f.lines)
    BY <1>1, FS_Interval DEF Spaces
  <2> QED BY <2>1, FS_Subset, FS_CardinalityType
<1>3. IsFiniteSet(seen) /\ Cardinality(seen) \in Nat
  BY <1>2, FS_Subset, FS_CardinalityType
<1>4. count_input_rows(f) = IF f.format = "jsonl" \/ Cardinality(used) = 0
                            THEN Cardinality(used) ELSE Cardinality(used) - 1
  BY DEF count_input_rows
<1>5. Cardinality(seen) <= count_input_rows(f)
  <2>1. CASE f.format = "jsonl"
    <3>1. seen = used /\ count_input_rows(f) = Cardinality(used)
      BY <1>4, <2>1
    <3> HIDE DEF seen, used
    <3> QED BY <1>2, <3>1
  <2>2. CASE f.format = "csv"
    <3> DEFINE s == Content(f.lines, 1)
    <3>1. s <= Len(f.lines) /\ f.lines[s] \notin NoHeader
      <4>1. OpenCsv(f.lines) # OpenFailed
        BY <2>2 DEF open_input
      <4>2. s \in 1..(Len(f.lines) + 1)
        <5>1. 1 \in 1..(Len(f.lines) + 1)
          BY <1>1
        <5> QED BY <1>1, <5>1, ContentFacts
      <4> QED BY <1>1, <4>1, <4>2 DEF OpenCsv
    <3>2. s \in 1..Len(f.lines) /\ f.lines[s] # "blank"
      <4>1. 1 \in 1..(Len(f.lines) + 1)
        BY <1>1
      <4> QED BY <1>1, <3>1, <4>1, ContentFacts
    <3>3. s \in used /\ s = Header(f)
      BY <1>1, <3>1, <3>2 DEF NoHeader, Whitespace, Header
    <3> HIDE DEF s, used
    <3>4. Cardinality(used \ {s}) = Cardinality(used) - 1 /\ Cardinality(used) # 0
      BY <1>2, <3>3, FS_RemoveElement, FS_EmptySet
    <3>5. f.format # "jsonl" /\ seen = used \ {s}
      BY <2>2, <3>3
    <3> HIDE DEF seen
    <3> QED BY <1>2, <1>4, <3>4, <3>5
  <2> QED BY <1>1, <2>1, <2>2
<1>6. L \subseteq seen \cup Spaces(f)
  <2>1. ASSUME NEW l \in L PROVE l \in seen \cup Spaces(f)
    <3>1. /\ l \in DOMAIN f.lines /\ f.lines[l] \notin {"blank", "gap"}
          /\ f.format = "csv" => Header(f) < l
      BY RowBounds
    <3>2. f.format = "csv" => l # Header(f)
      <4>1. l \in Int /\ ~(l < l)
        BY <1>1, <3>1
      <4> QED BY <3>1, <4>1
    <3> QED BY <3>1, <3>2 DEF Whitespace, Spaces
  <2> QED BY <2>1
<1> HIDE DEF seen, used
<1>7. /\ IsFiniteSet(seen \cup Spaces(f)) /\ Cardinality(seen \cap Spaces(f)) \in Nat
      /\ Cardinality(seen \cup Spaces(f))
           = Cardinality(seen) + Cardinality(Spaces(f)) - Cardinality(seen \cap Spaces(f))
  <2>1. IsFiniteSet(seen \cap Spaces(f))
    BY <1>3, FS_Subset
  <2> QED BY <1>2, <1>3, <2>1, FS_Union, FS_CardinalityType
<1>8. IsFiniteSet(L) /\ Cardinality(L) <= Cardinality(seen \cup Spaces(f))
      /\ Cardinality(L) \in Nat
  BY <1>6, <1>7, FS_Subset, FS_CardinalityType
<1>9. count_input_rows(f) \in Nat
  BY CountType
<1> QED BY <1>2, <1>3, <1>5, <1>7, <1>8, <1>9

-----------------------------------------------------------------------------
(* The invariant.                                                             *)

TypeOK ==
  /\ file \in Files /\ count = hash_and_count_rows(file)
  /\ state \in [Attempts -> {"none", "running", "completed", "aborted"}]
  /\ policy \in [Attempts -> Policies \cup {"rerun"}]
  /\ batch \in Seq(Outcome)
  /\ log \in [Attempts -> Seq(Seq(Outcome))] /\ torn \in [Attempts -> BOOLEAN]
  /\ \A a \in Attempts : torn[a] => log[a] # <<>>
  /\ dispatched \subseteq [attempt : Attempts, seq : Nat, line : Nat]

(* One attempt after the other.                                               *)
Earlier(a) == {b \in Attempts : Before(b, a)}

InTurn ==
  /\ \A a, b \in Attempts : Before(a, b) /\ state[b] # "none" => a \in Finished(state)
  /\ \A a \in Attempts : state[a] = "none" => log[a] = <<>>
  /\ \A d \in dispatched : state[d.attempt] # "none"
  /\ Running = {} => batch = <<>>

(* The attempt at work stands somewhere on the walk along the file, and what  *)
(* it handed out came before.                                                 *)
ReadInOrder ==
  /\ \A d \in dispatched : RowOf(file, d.seq, d.line)
  /\ dispatched # {} => open_input(file) # OpenFailed
  /\ \A a \in Running :
       /\ open_input(file) # OpenFailed
       /\ \E i \in DOMAIN Walk(file) : it = Walk(file)[i]
       /\ \A d \in dispatched : d.attempt = a => d.seq < it.seq

(* All outcomes of an attempt, those of a torn line and of no line included.  *)
Told(a) == Flat(log[a]) \o (IF state[a] = "running" THEN batch ELSE <<>>)

InOrder(s, D, a) ==
  /\ Increasing(s)
  /\ \A i \in DOMAIN s : \E d \in D : d.attempt = a /\ d.seq = s[i].seq

LoggedInOrder == \A a \in Attempts : InOrder(Told(a), dispatched, a)

(* What an attempt with an option may hand out, after others.                 *)
Allows(pol, prior, n) ==
  /\ pol = "retry" /\ n < count => Resolve(prior, n).state \in Failing
  /\ pol = "rerun" => \E b \in prior : n \in FailedIds(log[b])

Due(a, n) == Allows(policy[a], Earlier(a), n)

HandsOutDue ==
  /\ \A d \in dispatched : Due(d.attempt, d.seq)
  /\ \A a \in Running : \A n \in 0..Len(file.lines) : n \notin skip => Due(a, n)

RunInv == TypeOK /\ InTurn /\ ReadInOrder /\ LoggedInOrder /\ HandsOutDue

LEMMA InputFiles == ASSUME TypeOK PROVE file \in InputFile
BY ResultsAssumption DEF TypeOK

(* The order of the attempts is a strict, total one.                          *)
LEMMA BeforeOrder ==
  ASSUME NEW a \in Attempts, NEW b \in Attempts
  PROVE  /\ ~(Before(a, b) /\ Before(b, a)) /\ ~Before(a, a)
         /\ a # b => Before(a, b) \/ Before(b, a)
<1>1. DOMAIN AttemptSeq = 1..Len(AttemptSeq) /\ Len(AttemptSeq) \in Nat
  BY AttemptSeqType, LenProperties
<1>2. \A i, j \in DOMAIN AttemptSeq : AttemptSeq[i] = AttemptSeq[j] => i = j
  BY ResultsAssumption
<1>3. PICK i \in DOMAIN AttemptSeq : AttemptSeq[i] = a
  BY DEF Attempts
<1>4. PICK j \in DOMAIN AttemptSeq : AttemptSeq[j] = b
  BY DEF Attempts
<1>5. i \in Int /\ j \in Int
  BY <1>1
<1>6. Before(a, b) <=> i < j
  BY <1>2, <1>3, <1>4 DEF Before
<1>7. Before(b, a) <=> j < i
  BY <1>2, <1>3, <1>4 DEF Before
<1>8. ~Before(a, a)
  <2>1. ~(i < i)
    BY <1>5
  <2> QED BY <1>2, <1>3, <2>1 DEF Before
<1> QED BY <1>3, <1>4, <1>5, <1>6, <1>7, <1>8

(* A part of a rising sequence rises.                                         *)
LEMMA PartOf ==
  ASSUME NEW s \in Seq(Outcome), NEW t \in Seq(Outcome)
  PROVE  /\ s \o t \in Seq(Outcome)
         /\ Increasing(s \o t) => Increasing(s)
         /\ \A i \in DOMAIN s : i \in DOMAIN (s \o t) /\ (s \o t)[i] = s[i]
<1>1. /\ s \o t \in Seq(Outcome) /\ DOMAIN s = 1..Len(s) /\ Len(s) \in Nat /\ Len(t) \in Nat
      /\ Len(s \o t) = Len(s) + Len(t) /\ DOMAIN (s \o t) = 1..Len(s \o t)
      /\ \A i \in 1..Len(s) : (s \o t)[i] = s[i]
  BY ConcatProperties, LenProperties
<1> DEFINE r == s \o t
<1> HIDE DEF r
<1>2. \A i \in DOMAIN s : i \in DOMAIN r /\ r[i] = s[i]
  BY <1>1 DEF r
<1>3. Increasing(r) => Increasing(s)
  BY <1>2 DEF Increasing
<1> QED BY <1>1, <1>2, <1>3 DEF r

(* What is read of a log is a part of what its attempt told.                  *)
LEMMA ParsedIsTold ==
  ASSUME TypeOK, NEW a \in Attempts
  PROVE  /\ Parsed(a) \in Seq(Outcome) /\ Flat(log[a]) \in Seq(Outcome)
         /\ Told(a) \in Seq(Outcome)
         /\ \E r \in Seq(Outcome) : Flat(log[a]) = Parsed(a) \o r
         /\ \E r \in Seq(Outcome) : Told(a) = Flat(log[a]) \o r
<1> DEFINE lines == log[a]
           n == Len(lines)
<1>1. lines \in Seq(Seq(Outcome)) /\ batch \in Seq(Outcome) /\ n \in Nat
      /\ torn[a] \in BOOLEAN /\ <<>> \in Seq(Outcome)
  BY EmptySeq, LenProperties DEF TypeOK
<1>2. Flat(lines) \in Seq(Outcome)
  BY <1>1, FlatFacts
<1>3. \E r \in Seq(Outcome) : Told(a) = Flat(lines) \o r
  BY <1>1 DEF Told
<1>4. Told(a) \in Seq(Outcome)
  BY <1>2, <1>3, ConcatProperties
<1>5. CASE ~torn[a]
  <2>1. Parsed(a) = Flat(lines)
    BY <1>5 DEF Parsed, Whole
  <2>2. Flat(lines) = Flat(lines) \o <<>>
    BY <1>2, ConcatEmptySeq
  <2> QED BY <1>1, <1>2, <1>3, <1>4, <2>1, <2>2
<1>6. CASE torn[a]
  <2> DEFINE front == SubSeq(lines, 1, n - 1)
  <2>1. lines # <<>>
    BY <1>6 DEF TypeOK
  <2>2. front \in Seq(Seq(Outcome)) /\ lines[n] \in Seq(Outcome) /\ lines = Append(front, lines[n])
    BY <1>1, <2>1
  <2>3. Parsed(a) = Flat(front)
    BY <1>6 DEF Parsed, Whole
  <2>4. Flat(front) \in Seq(Outcome) /\ Flat(lines) = Flat(front) \o lines[n]
    <3> HIDE DEF front, lines, n
    <3> QED BY <2>2, FlatFacts
  <2> QED BY <1>2, <1>3, <1>4, <2>2, <2>3, <2>4
<1> QED BY <1>1, <1>5, <1>6

LEMMA ParsedInOrder ==
  ASSUME TypeOK, LoggedInOrder, NEW a \in Attempts
  PROVE  /\ Increasing(Parsed(a))
         /\ \A i \in DOMAIN Parsed(a) :
              \E d \in dispatched : d.attempt = a /\ d.seq = Parsed(a)[i].seq
<1>1. /\ Parsed(a) \in Seq(Outcome) /\ Flat(log[a]) \in Seq(Outcome)
      /\ \E r \in Seq(Outcome) : Flat(log[a]) = Parsed(a) \o r
      /\ \E r \in Seq(Outcome) : Told(a) = Flat(log[a]) \o r
  BY ParsedIsTold
<1>2. PICK r \in Seq(Outcome) : Flat(log[a]) = Parsed(a) \o r
  BY <1>1
<1>3. PICK q \in Seq(Outcome) : Told(a) = Flat(log[a]) \o q
  BY <1>1
<1>4. Increasing(Told(a))
  BY DEF LoggedInOrder, InOrder
<1>5. Increasing(Flat(log[a]))
  BY <1>1, <1>3, <1>4, PartOf
<1>6. Increasing(Parsed(a))
  BY <1>1, <1>2, <1>5, PartOf
<1>7. ASSUME NEW i \in DOMAIN Parsed(a)
      PROVE  i \in DOMAIN Told(a) /\ Told(a)[i] = Parsed(a)[i]
  <2>1. i \in DOMAIN Flat(log[a]) /\ Flat(log[a])[i] = Parsed(a)[i]
    BY <1>1, <1>2, PartOf
  <2> QED BY <1>1, <1>3, <2>1, PartOf
<1> QED BY <1>6, <1>7 DEF LoggedInOrder, InOrder

-----------------------------------------------------------------------------
(* What the steps of the attempts do.                                         *)

(* Nothing happens to the log of an attempt.                                  *)
Still(b) == log'[b] = log[b] /\ torn'[b] = torn[b]

LEMMA StillParsed ==
  ASSUME NEW b, Still(b)
  PROVE  Parsed(b)' = Parsed(b)
BY DEF Still, Parsed, Whole

LEMMA StillResolved ==
  ASSUME NEW merged, \A b \in merged : Still(b), NEW n
  PROVE  Resolve(merged, n)' = Resolve(merged, n)
<1>1. \A b \in merged : Parsed(b)' = Parsed(b)
  BY StillParsed
<1>2. Logs(merged)' = Logs(merged)
  BY <1>1 DEF Logs
<1> QED BY <1>2 DEF Resolve

LEMMA OneRuns ==
  ASSUME TypeOK, InTurn, NEW a \in Running
  PROVE  Running = {a}
<1>1. ASSUME NEW b \in Running, b # a PROVE FALSE
  <2>1. Before(a, b) \/ Before(b, a)
    BY <1>1, BeforeOrder DEF Running
  <2>2. a \in Finished(state) \/ b \in Finished(state)
    BY <2>1 DEF InTurn, Running
  <2> QED BY <2>2 DEF Finished, Running
<1> QED BY <1>1

(* An attempt begins when those before it, and no others, have ended.         *)
LEMMA BeginFacts ==
  ASSUME TypeOK, InTurn, NEW a \in Attempts, NEW pol, NEW skipped, NEW total,
         Begin(a, pol, skipped, total)
  PROVE  /\ Finished(state) = Earlier(a) /\ state[a] = "none" /\ Running = {} /\ batch = <<>>
         /\ \A b \in Attempts : Still(b) /\ (b # a => state'[b] = state[b])
         /\ policy' = [policy EXCEPT ![a] = pol]
         /\ \/ state' = [state EXCEPT ![a] = "aborted"]
            \/ /\ state' = [state EXCEPT ![a] = "running"]
               /\ open_input(file) # OpenFailed /\ it' = open_input(file) /\ skip' = skipped
         /\ UNCHANGED <<file, count, batch, log, torn, dispatched>>
<1>1. state[a] = "none" /\ Running = {} /\ \A b \in Attempts : Before(b, a) => state[b] # "none"
  BY DEF Begin
<1>2. ASSUME NEW b \in Earlier(a) PROVE b \in Finished(state)
  <2>1. b \in Attempts /\ state[b] # "none" /\ b \notin Running
    BY <1>1 DEF Earlier
  <2> QED BY <2>1 DEF TypeOK, Finished, Running
<1>3. ASSUME NEW b \in Finished(state) PROVE b \in Earlier(a)
  <2>1. b \in Attempts /\ state[b] # "none" /\ b # a
    BY <1>1 DEF Finished
  <2>2. ~Before(a, b)
    <3>1. a \notin Finished(state)
      BY <1>1 DEF Finished
    <3> QED BY <2>1, <3>1 DEF InTurn
  <2> QED BY <2>1, <2>2, BeforeOrder DEF Earlier
<1>4. batch = <<>>
  BY <1>1 DEF InTurn
<1>5. UNCHANGED <<file, count, batch, log, torn, dispatched>>
  BY DEF Begin, execVars
<1>6. policy' = [policy EXCEPT ![a] = pol]
  BY DEF Begin
<1>7. \/ state' = [state EXCEPT ![a] = "aborted"]
      \/ /\ state' = [state EXCEPT ![a] = "running"]
         /\ open_input(file) # OpenFailed /\ it' = open_input(file) /\ skip' = skipped
  BY DEF Begin
<1>8. \A b \in Attempts : Still(b) /\ (b # a => state'[b] = state[b])
  BY <1>5, <1>7 DEF Still, TypeOK
<1> QED BY <1>1, <1>2, <1>3, <1>4, <1>5, <1>6, <1>7, <1>8

(* The reader moves one step along the walk; what goes out is a row with a    *)
(* number no row before it had.                                               *)
LEMMA ReadRowFacts ==
  ASSUME TypeOK, ReadInOrder, NEW a \in Attempts, ReadRow(a)
  PROVE  /\ state[a] = "running" /\ ~torn[a] /\ open_input(file) # OpenFailed
         /\ \E i \in DOMAIN Walk(file) : it' = Walk(file)[i]
         /\ it.seq \in Nat /\ it'.seq \in Nat /\ it.seq <= it'.seq
         /\ \/ UNCHANGED <<batch, dispatched>>
            \/ \E o \in Outcome, l \in Nat :
                 /\ RowOf(file, o.seq, l) /\ o.seq \notin skip
                 /\ it.seq <= o.seq /\ o.seq < it'.seq
                 /\ batch' = Append(batch, o)
                 /\ dispatched' = dispatched \cup {[attempt |-> a, seq |-> o.seq, line |-> l]}
         /\ UNCHANGED <<file, count, state, policy, skip, log, torn>>
<1>1. /\ state[a] = "running" /\ ~torn[a]
      /\ UNCHANGED <<file, count, state, policy, skip, log, torn>>
  BY DEF ReadRow, execVars
<1>2. a \in Running /\ open_input(file) # OpenFailed /\ file \in InputFile
  BY <1>1, InputFiles DEF Running, ReadInOrder
<1>3. PICK i \in DOMAIN Walk(file) : it = Walk(file)[i]
  BY <1>2 DEF ReadInOrder
<1> DEFINE item == yield_next(file, it)
<1>4. item = Reads(file, i)
  BY <1>3 DEF Reads
<1>5. /\ item.kind # "end" /\ it' = item.next
      /\ \/ UNCHANGED <<batch, dispatched>>
         \/ /\ item.kind # "error" /\ item.seq \notin skip
            /\ dispatched' = dispatched \cup
                 {[attempt |-> a, seq |-> item.seq, line |-> item.line]}
            /\ \E k \in Outcomes : batch' = Append(batch, [seq |-> item.seq, kind |-> k])
  BY DEF ReadRow
<1> HIDE DEF item
<1>6. InStep(file, Walk(file)[i]) /\ Yielded(file, it, item)
  BY <1>2, <1>3, <1>4, WalkInStep
<1>7. i + 1 \in DOMAIN Walk(file) /\ it' = Walk(file)[i + 1]
  BY <1>2, <1>4, <1>5, WalkOn
<1>8. /\ item.kind \in {"row", "error"} /\ it.seq \in Nat
      /\ item.seq \in Nat /\ item.line \in Nat
      /\ it.seq <= item.seq /\ it'.seq = item.seq + 1
  <2>1. Len(file.lines) \in Nat /\ From(it) \in 1..(Len(file.lines) + 1) /\ it.seq \in Nat
    BY <1>2, <1>3, <1>6, FileType DEF InStep, Iter
  <2> QED BY <1>5, <1>6, <2>1 DEF Yielded
<1>9. \/ UNCHANGED <<batch, dispatched>>
      \/ \E o \in Outcome, l \in Nat :
           /\ RowOf(file, o.seq, l) /\ o.seq \notin skip
           /\ it.seq <= o.seq /\ o.seq < it'.seq
           /\ batch' = Append(batch, o)
           /\ dispatched' = dispatched \cup {[attempt |-> a, seq |-> o.seq, line |-> l]}
  <2>1. CASE UNCHANGED <<batch, dispatched>>
    BY <2>1
  <2>2. CASE ~UNCHANGED <<batch, dispatched>>
    <3>1. item.kind = "row" /\ item.seq \notin skip
      BY <1>5, <1>8, <2>2
    <3>2. PICK k \in Outcomes : batch' = Append(batch, [seq |-> item.seq, kind |-> k])
      BY <1>5, <2>2
    <3> DEFINE o == [seq |-> item.seq, kind |-> k]
    <3>3. o \in Outcome /\ o.seq = item.seq
      BY <1>8 DEF Outcome
    <3>4. RowOf(file, o.seq, item.line)
      BY <1>4, <3>1, <3>3 DEF RowOf
    <3>5. it.seq <= o.seq /\ o.seq < it'.seq
      BY <1>8, <3>3
    <3>6. batch' = Append(batch, o)
          /\ dispatched' = dispatched \cup {[attempt |-> a, seq |-> o.seq, line |-> item.line]}
      BY <1>5, <2>2, <3>2, <3>3
    <3> HIDE DEF o
    <3> QED BY <1>8, <3>1, <3>3, <3>4, <3>5, <3>6
  <2> QED BY <2>1, <2>2
<1> QED BY <1>1, <1>2, <1>7, <1>8, <1>9

LEMMA InOrderPart ==
  ASSUME NEW s \in Seq(Outcome), NEW t \in Seq(Outcome), NEW D, NEW a, InOrder(s \o t, D, a)
  PROVE  InOrder(s, D, a)
<1>1. Increasing(s) /\ \A i \in DOMAIN s : i \in DOMAIN (s \o t) /\ (s \o t)[i] = s[i]
  BY PartOf DEF InOrder
<1> DEFINE r == s \o t
<1> HIDE DEF r
<1>2. InOrder(r, D, a) /\ \A i \in DOMAIN s : i \in DOMAIN r /\ r[i] = s[i]
  BY <1>1 DEF r
<1> QED BY <1>1, <1>2 DEF InOrder

(* One outcome more, of a row with a number higher than all before.           *)
LEMMA InOrderAppend ==
  ASSUME NEW D, NEW a, NEW o \in Outcome, NEW s \in Seq(Outcome), InOrder(s, D, a), NEW l,
         \A d \in D : d.attempt = a => d.seq < o.seq
  PROVE  InOrder(Append(s, o), D \cup {[attempt |-> a, seq |-> o.seq, line |-> l]}, a)
<1> DEFINE t == Append(s, o)
           k == Len(s)
           e == [attempt |-> a, seq |-> o.seq, line |-> l]
<1>1. /\ k \in Nat /\ DOMAIN s = 1..k /\ DOMAIN t = 1..(k + 1)
      /\ t[k + 1] = o /\ \A i \in 1..k : t[i] = s[i]
  BY AppendProperties, LenProperties
<1>2. e.attempt = a /\ e.seq = o.seq
  OBVIOUS
<1> HIDE DEF t, k, e
<1>3. \A i \in 1..k : s[i].seq < o.seq
  BY <1>1 DEF InOrder
<1>4. \A i \in 1..(k + 1) : i \in 1..k \/ i = k + 1
  BY <1>1
<1>5. ASSUME NEW i \in DOMAIN t, NEW j \in DOMAIN t, i < j PROVE t[i].seq < t[j].seq
  <2>1. i \in 1..k
    BY <1>1, <1>5
  <2>2. CASE j = k + 1
    BY <1>1, <1>3, <2>1, <2>2
  <2>3. CASE j \in 1..k
    BY <1>1, <1>5, <2>1, <2>3 DEF InOrder, Increasing
  <2> QED BY <1>1, <1>4, <2>2, <2>3
<1>6. ASSUME NEW i \in DOMAIN t
      PROVE  \E d \in D \cup {e} : d.attempt = a /\ d.seq = t[i].seq
  <2>1. CASE i = k + 1
    BY <1>1, <1>2, <2>1
  <2>2. CASE i \in 1..k
    BY <1>1, <2>2 DEF InOrder
  <2> QED BY <1>1, <1>4, <2>1, <2>2
<1>7. InOrder(t, D \cup {e}, a)
  BY <1>5, <1>6 DEF InOrder, Increasing
<1> QED BY <1>7 DEF t, e

(* All an attempt was allowed before a step it is allowed after it.           *)
LEMMA DueStill ==
  ASSUME InTurn, NEW a \in Attempts, state[a] # "none", count' = count,
         policy'[a] = policy[a],
         \A b \in Attempts : state[b] # "running" => Still(b), NEW n
  PROVE  Due(a, n)' <=> Due(a, n)
<1>1. \A b \in Earlier(a) : Still(b)
  BY DEF InTurn, Earlier, Finished
<1> DEFINE prior == Earlier(a)
<1>2. prior' = prior
  BY DEF Earlier, Before
<1> HIDE DEF prior
<1>3. Resolve(prior, n)' = Resolve(prior, n)
  BY <1>1, <1>2, StillResolved DEF prior
<1> QED BY <1>1, <1>2, <1>3 DEF Due, Allows, Still, prior

(* The beginning of an attempt that skips all it may not hand out.            *)
LEMMA BeginKeeps ==
  ASSUME RunInv, NEW a \in Attempts, NEW pol \in Policies \cup {"rerun"}, NEW skipped,
         NEW total, Begin(a, pol, skipped, total),
         \A n \in 0..Len(file.lines) : n \notin skipped => Allows(pol, Earlier(a), n)
  PROVE  RunInv'
<1> USE DEF RunInv
<1>1. /\ Finished(state) = Earlier(a) /\ state[a] = "none" /\ Running = {} /\ batch = <<>>
      /\ \A b \in Attempts : Still(b) /\ (b # a => state'[b] = state[b])
      /\ policy' = [policy EXCEPT ![a] = pol]
      /\ \/ state' = [state EXCEPT ![a] = "aborted"]
         \/ /\ state' = [state EXCEPT ![a] = "running"]
            /\ open_input(file) # OpenFailed /\ it' = open_input(file) /\ skip' = skipped
      /\ UNCHANGED <<file, count, batch, log, torn, dispatched>>
  BY BeginFacts
<1>2. /\ state'[a] \in {"running", "aborted"} /\ policy'[a] = pol
      /\ \A b \in Attempts : b # a => policy'[b] = policy[b]
      /\ Running' \subseteq {a}
  BY <1>1 DEF TypeOK, Running
<1>3. TypeOK'
  <2>1. state' \in [Attempts -> {"none", "running", "completed", "aborted"}]
        /\ policy' \in [Attempts -> Policies \cup {"rerun"}]
    BY <1>1 DEF TypeOK
  <2> QED BY <1>1, <2>1 DEF TypeOK
<1>4. InTurn'
  <2>1. ASSUME NEW b \in Attempts, NEW c \in Attempts, Before(b, c), state'[c] # "none"
        PROVE  b \in Finished(state')
    <3>1. b \in Finished(state)
      <4>1. CASE c = a
        BY <1>1, <2>1, <4>1 DEF Earlier
      <4>2. CASE c # a
        BY <1>1, <2>1, <4>2 DEF InTurn
      <4> QED BY <4>1, <4>2
    <3>2. b # a
      BY <1>1, <3>1 DEF Finished
    <3> QED BY <1>1, <3>1, <3>2 DEF Finished
  <2>2. ASSUME NEW b \in Attempts, state'[b] = "none" PROVE log'[b] = <<>>
    <3>1. b # a
      BY <1>2, <2>2
    <3> QED BY <1>1, <2>2, <3>1 DEF InTurn
  <2>3. ASSUME NEW d \in dispatched' PROVE state'[d.attempt] # "none"
    <3>1. d \in dispatched /\ d.attempt \in Attempts
      BY <1>1 DEF TypeOK
    <3> QED BY <1>1, <1>2, <3>1 DEF InTurn
  <2> QED BY <1>1, <2>1, <2>2, <2>3 DEF InTurn, Before
<1>5. ReadInOrder'
  <2>1. ASSUME NEW b \in Running'
        PROVE  /\ open_input(file) # OpenFailed /\ \E i \in DOMAIN Walk(file) : it' = Walk(file)[i]
               /\ \A d \in dispatched : d.attempt = b => d.seq < it'.seq
    <3>1. b = a /\ state'[a] = "running"
      BY <1>2, <2>1 DEF Running
    <3>2. open_input(file) # OpenFailed /\ it' = open_input(file)
      BY <1>1, <3>1 DEF TypeOK
    <3>3. 0 \in DOMAIN Walk(file) /\ Walk(file)[0] = open_input(file)
      <4>1. file \in InputFile
        BY InputFiles
      <4>2. Len(file.lines) \in Nat
        BY <4>1, FileType
      <4> QED BY <4>1, <4>2, WalkEquation
    <3> QED BY <1>1, <3>1, <3>2, <3>3 DEF InTurn
  <2> QED BY <1>1, <2>1 DEF ReadInOrder
<1>6. LoggedInOrder'
  <2>1. ASSUME NEW b \in Attempts PROVE Told(b)' = Told(b)
    <3>1. log'[b] = log[b] /\ batch = <<>> /\ batch' = <<>>
      BY <1>1
    <3> QED BY <3>1 DEF Told
  <2> QED BY <1>1, <2>1 DEF LoggedInOrder
<1>7. HandsOutDue'
  <2>1. ASSUME NEW d \in dispatched PROVE Due(d.attempt, d.seq)'
    <3>1. d.attempt \in Attempts /\ state[d.attempt] # "none" /\ d.attempt # a
      BY <1>1 DEF TypeOK, InTurn
    <3>2. Due(d.attempt, d.seq)
      BY DEF HandsOutDue
    <3> DEFINE b == d.attempt
               m == d.seq
    <3> HIDE DEF b, m
    <3>3. Due(b, m)' <=> Due(b, m)
      BY <1>1, <1>2, <3>1, DueStill DEF b
    <3>4. b' = b /\ m' = m
      BY DEF b, m
    <3> QED BY <3>2, <3>3, <3>4 DEF b, m
  <2>2. ASSUME NEW b \in Running', NEW n \in 0..Len(file.lines), n \notin skip'
        PROVE  Due(b, n)'
    <3>1. b = a /\ skip' = skipped
      BY <1>1, <1>2, <2>2 DEF Running, TypeOK
    <3> DEFINE prior == Earlier(a)
    <3>2. Allows(pol, prior, n) /\ prior \subseteq Attempts
      BY <2>2, <3>1 DEF Earlier
    <3>3. prior' = prior
      BY DEF Earlier, Before
    <3> HIDE DEF prior
    <3>4. Resolve(prior, n)' = Resolve(prior, n)
      BY <1>1, <3>2, <3>3, StillResolved
    <3>5. Allows(pol, prior, n)'
      BY <1>1, <3>2, <3>3, <3>4 DEF Allows, Still
    <3> QED BY <1>2, <3>1, <3>5 DEF Due, prior
  <2> QED BY <1>1, <2>1, <2>2 DEF HandsOutDue
<1> QED BY <1>3, <1>4, <1>5, <1>6, <1>7

LEMMA StartAttemptKeeps ==
  ASSUME RunInv, NEW a \in Attempts, StartAttempt(a)
  PROVE  RunInv'
<1> DEFINE merged == Finished(state)
           res == compute_resolution(merged)
<1>1. PICK pol \in Policies : Begin(a, pol, SkipSet(pol, res), count_input_rows(file))
  BY DEF StartAttempt
<1> DEFINE skipped == SkipSet(pol, res)
<1>2. merged = Earlier(a)
  BY <1>1, BeginFacts DEF RunInv
<1>3. ASSUME NEW n \in 0..Len(file.lines), n \notin skipped PROVE Allows(pol, Earlier(a), n)
  <2>1. ASSUME pol = "retry", n < count PROVE Resolve(Earlier(a), n).state \in Failing
    <3>1. n \in 0..(count - 1)
      <4>1. Len(file.lines) \in Nat /\ count \in Nat
        <5>1. file \in InputFile /\ count = hash_and_count_rows(file)
          BY InputFiles DEF RunInv, TypeOK
        <5> QED BY <5>1, FileType, CountType
      <4> QED BY <2>1, <4>1
    <3>2. n \in InState(res, Failing)
      BY <1>3, <2>1, <3>1 DEF SkipSet
    <3>3. res[n] = Resolve(merged, n)
      BY <3>2 DEF InState, compute_resolution
    <3> QED BY <1>2, <3>2, <3>3 DEF InState
  <2>2. pol # "rerun"
    BY DEF Policies
  <2> QED BY <2>1, <2>2 DEF Allows
<1> HIDE DEF skipped
<1> QED BY <1>1, <1>3, BeginKeeps DEF skipped

(* The rows a page took for failed are in the log.                            *)
LEMMA KeptIsLogged ==
  ASSUME TypeOK, NEW b \in Attempts, NEW ids \in Kept(b)
  PROVE  ids \subseteq FailedIds(log[b])
<1>1. PICK k \in 0..Len(Whole(b)) : ids = FailedIds(SubSeq(log[b], 1, k))
  BY DEF Kept
<1>2. log[b] \in Seq(Seq(Outcome)) /\ Len(log[b]) \in Nat
  BY LenProperties DEF TypeOK
<1>3. k \in 0..Len(log[b])
  <2>1. CASE ~torn[b]
    BY <1>2, <2>1 DEF Whole
  <2>2. CASE torn[b]
    <3>1. log[b] # <<>>
      BY <2>2 DEF TypeOK
    <3>2. Len(log[b]) \in Nat \ {0}
      BY <1>2, <3>1, EmptySeq
    <3>3. Len(Whole(b)) = Len(log[b]) - 1
      BY <1>2, <2>2, <3>2 DEF Whole
    <3> QED BY <3>2, <3>3
  <2> QED BY <2>1, <2>2
<1> DEFINE part == SubSeq(log[b], 1, k)
<1>4. \A j \in DOMAIN part : j \in DOMAIN log[b] /\ part[j] = log[b][j]
  BY <1>2, <1>3
<1> HIDE DEF part
<1>5. FailedIds(part) \subseteq FailedIds(log[b])
  BY <1>4 DEF FailedIds
<1> QED BY <1>1, <1>5 DEF part

LEMMA ReRunKeeps ==
  ASSUME RunInv, NEW a \in Attempts, ReRun(a)
  PROVE  RunInv'
<1>0. PICK b \in Finished(state) : \E ids \in Kept(b) :
        Begin(a, "rerun", (0..Len(file.lines)) \ ids, Cardinality(ids))
  BY DEF ReRun
<1>1. PICK ids \in Kept(b) : Begin(a, "rerun", (0..Len(file.lines)) \ ids, Cardinality(ids))
  BY <1>0
<1> DEFINE skipped == (0..Len(file.lines)) \ ids
<1>2. Finished(state) = Earlier(a)
  BY <1>1, BeginFacts DEF RunInv
<1>3. ASSUME NEW n \in 0..Len(file.lines), n \notin skipped
      PROVE  Allows("rerun", Earlier(a), n)
  <2>1. ids \subseteq FailedIds(log[b])
    BY KeptIsLogged DEF RunInv, Finished
  <2>2. n \in FailedIds(log[b])
    BY <1>3, <2>1
  <2> QED BY <1>2, <2>2 DEF Allows
<1> HIDE DEF skipped
<1> QED BY <1>1, <1>3, BeginKeeps DEF skipped

(* Told with what is in no line yet.                                          *)
LEMMA ToldRunning ==
  ASSUME TypeOK, NEW a \in Attempts, state[a] = "running"
  PROVE  Told(a) = Flat(log[a]) \o batch /\ Flat(log[a]) \in Seq(Outcome)
BY FlatFacts DEF Told, TypeOK

(* A step of a running attempt leaves what it handed out earlier as it is.    *)
RunsOn(a) ==
  /\ state[a] = "running" /\ UNCHANGED <<file, count, state, policy>>
  /\ \A b \in Attempts : b # a => Still(b)
  /\ \A d \in dispatched' : d.attempt = a \/ d \in dispatched

LEMMA RunsOnKeeps ==
  ASSUME RunInv, NEW a \in Attempts, RunsOn(a)
  PROVE  /\ Running = {a} /\ Running' = {a}
         /\ InTurn'
         /\ \A b \in Attempts : b # a => Told(b)' = Told(b)
         /\ \A b \in Attempts : \A n : state[b] # "none" /\ Due(b, n) => Due(b, n)'
<1> USE DEF RunInv
<1>1. Running = {a}
  <2>1. a \in Running
    BY DEF RunsOn, Running
  <2> QED BY <2>1, OneRuns
<1>2. Running' = {a}
  BY <1>1 DEF RunsOn, Running
<1>3. InTurn'
  <2>1. ASSUME NEW b \in Attempts, state[b] = "none" PROVE log'[b] = <<>>
    BY <2>1 DEF InTurn, RunsOn, Still
  <2>2. ASSUME NEW d \in dispatched' PROVE state[d.attempt] # "none"
    BY DEF InTurn, RunsOn
  <2> QED BY <1>2, <2>1, <2>2 DEF InTurn, RunsOn, Before
<1>4. ASSUME NEW b \in Attempts, b # a PROVE Told(b)' = Told(b)
  BY <1>1, <1>2, <1>4 DEF Told, RunsOn, Still, Running
<1>5. ASSUME NEW b \in Attempts, NEW n, state[b] # "none", Due(b, n) PROVE Due(b, n)'
  <2>1. \A c \in Attempts : state[c] # "running" => Still(c)
    BY DEF RunsOn
  <2> QED BY <1>5, <2>1, DueStill DEF RunsOn
<1> QED BY <1>1, <1>2, <1>3, <1>4, <1>5

LEMMA ReadRowKeeps ==
  ASSUME RunInv, NEW a \in Attempts, ReadRow(a)
  PROVE  RunInv'
<1> USE DEF RunInv
<1>1. /\ state[a] = "running" /\ ~torn[a] /\ open_input(file) # OpenFailed
      /\ \E i \in DOMAIN Walk(file) : it' = Walk(file)[i]
      /\ it.seq \in Nat /\ it'.seq \in Nat /\ it.seq <= it'.seq
      /\ \/ UNCHANGED <<batch, dispatched>>
         \/ \E o \in Outcome, l \in Nat :
              /\ RowOf(file, o.seq, l) /\ o.seq \notin skip
              /\ it.seq <= o.seq /\ o.seq < it'.seq
              /\ batch' = Append(batch, o)
              /\ dispatched' = dispatched \cup {[attempt |-> a, seq |-> o.seq, line |-> l]}
      /\ UNCHANGED <<file, count, state, policy, skip, log, torn>>
  BY ReadRowFacts
<1>2. RunsOn(a)
  BY <1>1 DEF RunsOn, Still
<1>3. /\ Running = {a} /\ Running' = {a} /\ InTurn'
      /\ \A b \in Attempts : b # a => Told(b)' = Told(b)
      /\ \A b \in Attempts : \A n : state[b] # "none" /\ Due(b, n) => Due(b, n)'
  BY <1>2, RunsOnKeeps
<1>4. \A d \in dispatched : d.attempt = a => d.seq \in Nat /\ d.seq < it.seq
  BY <1>3 DEF TypeOK, ReadInOrder
<1>5. \A n \in 0..Len(file.lines) : n \notin skip' => Due(a, n)'
  BY <1>1, <1>3 DEF HandsOutDue
<1>6. \A d \in dispatched : Due(d.attempt, d.seq)'
  BY <1>3 DEF HandsOutDue, InTurn, TypeOK
<1>7. Told(a) = Flat(log[a]) \o batch /\ Flat(log[a]) \in Seq(Outcome) /\ batch \in Seq(Outcome)
  BY <1>1, ToldRunning DEF TypeOK
<1>8. Told(a)' = Flat(log[a]) \o batch'
  BY <1>1 DEF Told
<1>9. CASE UNCHANGED <<batch, dispatched>>
  <2>1. TypeOK'
    BY <1>1, <1>9 DEF TypeOK
  <2>2. ReadInOrder'
    <3>1. \A d \in dispatched : d.attempt = a => d.seq < it'.seq
      BY <1>1, <1>4
    <3> QED BY <1>1, <1>3, <1>9, <3>1 DEF ReadInOrder
  <2>3. LoggedInOrder'
    <3>1. Told(a)' = Told(a)
      BY <1>7, <1>8, <1>9
    <3> QED BY <1>3, <1>9, <3>1 DEF LoggedInOrder
  <2>4. HandsOutDue'
    <3>1. \A d \in dispatched' : Due(d.attempt, d.seq)'
      BY <1>6, <1>9
    <3> QED BY <1>1, <1>3, <1>5, <3>1 DEF HandsOutDue
  <2> QED BY <1>3, <2>1, <2>2, <2>3, <2>4
<1>10. ASSUME NEW o \in Outcome, NEW l \in Nat,
              RowOf(file, o.seq, l), o.seq \notin skip, it.seq <= o.seq, o.seq < it'.seq,
              batch' = Append(batch, o),
              dispatched' = dispatched \cup {[attempt |-> a, seq |-> o.seq, line |-> l]}
       PROVE  RunInv'
  <2> DEFINE e == [attempt |-> a, seq |-> o.seq, line |-> l]
  <2>1. e.attempt = a /\ e.seq = o.seq /\ e.line = l /\ o.seq \in Nat
        /\ e \in [attempt : Attempts, seq : Nat, line : Nat]
    BY DEF Outcome
  <2>2. dispatched' = dispatched \cup {e}
    BY <1>10
  <2> HIDE DEF e
  <2>3. TypeOK'
    <3>1. batch' \in Seq(Outcome)
      BY <1>7, <1>10, AppendProperties
    <3> QED BY <1>1, <2>1, <2>2, <3>1 DEF TypeOK
  <2>4. ReadInOrder'
    <3>1. \A d \in dispatched' : RowOf(file, d.seq, d.line)
      BY <1>10, <2>1, <2>2 DEF ReadInOrder
    <3>2. \A d \in dispatched' : d.attempt = a => d.seq < it'.seq
      BY <1>1, <1>4, <1>10, <2>1, <2>2
    <3> QED BY <1>1, <1>3, <3>1, <3>2 DEF ReadInOrder
  <2>5. LoggedInOrder'
    <3>1. ASSUME NEW b \in Attempts, b # a PROVE InOrder(Told(b)', dispatched', b)
      BY <1>3, <2>2, <3>1 DEF LoggedInOrder, InOrder
    <3>2. InOrder(Told(a)', dispatched', a)
      <4>1. Told(a)' = Append(Told(a), o)
        BY <1>7, <1>8, <1>10, AppendConcat
      <4>2. Told(a) \in Seq(Outcome)
        BY <1>7, ConcatProperties
      <4>3. \A d \in dispatched : d.attempt = a => d.seq < o.seq
        BY <1>1, <1>4, <1>10, <2>1
      <4>4. InOrder(Told(a), dispatched, a)
        BY DEF LoggedInOrder
      <4>5. InOrder(Append(Told(a), o),
                    dispatched \cup {[attempt |-> a, seq |-> o.seq, line |-> l]}, a)
        BY <4>2, <4>3, <4>4, InOrderAppend
      <4> QED BY <1>10, <4>1, <4>5
    <3>3. \A b \in Attempts : InOrder(Told(b)', dispatched', b)
      BY <3>1, <3>2
    <3> QED BY <3>3 DEF LoggedInOrder, InOrder, Increasing
  <2>6. HandsOutDue'
    <3>1. o.seq \in 0..Len(file.lines)
      <4>1. file \in InputFile
        BY InputFiles
      <4>2. Len(file.lines) \in Nat /\ o.seq < Len(file.lines)
        BY <1>1, <1>10, <4>1, FileType, RowBounds
      <4> QED BY <2>1, <4>2
    <3>2. Due(a, o.seq)'
      BY <1>1, <1>5, <1>10, <3>1
    <3>3. \A d \in dispatched' : Due(d.attempt, d.seq)'
      BY <1>6, <2>1, <2>2, <3>2
    <3> QED BY <1>1, <1>3, <1>5, <3>3 DEF HandsOutDue
  <2> QED BY <1>3, <2>3, <2>4, <2>5, <2>6
<1> QED BY <1>1, <1>9, <1>10

LEMMA BeginLineKeeps ==
  ASSUME RunInv, NEW a \in Attempts, BeginLine(a)
  PROVE  RunInv'
<1> USE DEF RunInv
<1>1. /\ state[a] = "running"
      /\ log' = [log EXCEPT ![a] = Append(log[a], batch)]
      /\ torn' = [torn EXCEPT ![a] = TRUE] /\ batch' = <<>>
      /\ UNCHANGED <<file, count, state, policy, skip, it, dispatched>>
  BY DEF BeginLine, execVars
<1>2. RunsOn(a)
  BY <1>1 DEF RunsOn, Still, TypeOK
<1>3. /\ Running = {a} /\ Running' = {a} /\ InTurn'
      /\ \A b \in Attempts : b # a => Told(b)' = Told(b)
      /\ \A b \in Attempts : \A n : state[b] # "none" /\ Due(b, n) => Due(b, n)'
  BY <1>2, RunsOnKeeps
<1>4. /\ log[a] \in Seq(Seq(Outcome)) /\ batch \in Seq(Outcome)
      /\ log'[a] = Append(log[a], batch) /\ log'[a] \in Seq(Seq(Outcome)) /\ log'[a] # <<>>
  <2>1. log[a] \in Seq(Seq(Outcome)) /\ batch \in Seq(Outcome)
    BY DEF TypeOK
  <2>2. Append(log[a], batch) \in Seq(Seq(Outcome)) /\ Append(log[a], batch) # <<>>
    BY <2>1, AppendProperties
  <2>3. log'[a] = Append(log[a], batch)
    BY <1>1 DEF TypeOK
  <2> QED BY <2>1, <2>2, <2>3
<1>5. TypeOK'
  <2>1. log' \in [Attempts -> Seq(Seq(Outcome))] /\ torn' \in [Attempts -> BOOLEAN]
    BY <1>1, <1>4 DEF TypeOK
  <2>2. ASSUME NEW b \in Attempts, torn'[b] PROVE log'[b] # <<>>
    BY <1>1, <1>4, <2>2 DEF TypeOK
  <2>3. batch' \in Seq(Outcome)
    BY <1>1, EmptySeq
  <2> QED BY <1>1, <2>1, <2>2, <2>3 DEF TypeOK
<1>6. ReadInOrder'
  BY <1>1, <1>3 DEF ReadInOrder
<1>7. LoggedInOrder'
  <2>1. Told(a)' = Told(a)
    <3>1. Flat(log'[a]) = Flat(log[a]) \o batch /\ Flat(log'[a]) \in Seq(Outcome)
      BY <1>4, FlatFacts
    <3>2. Flat(log'[a]) \o <<>> = Flat(log'[a])
      BY <3>1, ConcatEmptySeq
    <3>3. Told(a)' = Flat(log'[a]) \o <<>>
      BY <1>1 DEF Told
    <3>4. Told(a) = Flat(log[a]) \o batch
      BY <1>1 DEF Told
    <3> QED BY <3>1, <3>2, <3>3, <3>4
  <2> QED BY <1>1, <1>3, <2>1 DEF LoggedInOrder
<1>8. HandsOutDue'
  <2>1. \A d \in dispatched' : Due(d.attempt, d.seq)'
    BY <1>1, <1>3 DEF HandsOutDue, InTurn, TypeOK
  <2>2. \A n \in 0..Len(file.lines) : n \notin skip' => Due(a, n)'
    BY <1>1, <1>3 DEF HandsOutDue
  <2> QED BY <1>1, <1>3, <2>1, <2>2 DEF HandsOutDue
<1> QED BY <1>3, <1>5, <1>6, <1>7, <1>8

LEMMA EndLineKeeps ==
  ASSUME RunInv, NEW a \in Attempts, EndLine(a)
  PROVE  RunInv'
<1> USE DEF RunInv
<1>1. /\ state[a] = "running" /\ torn' = [torn EXCEPT ![a] = FALSE]
      /\ UNCHANGED <<file, count, state, policy, skip, it, batch, log, dispatched>>
  BY DEF EndLine, execVars
<1>2. RunsOn(a)
  BY <1>1 DEF RunsOn, Still, TypeOK
<1>3. /\ Running = {a} /\ Running' = {a} /\ InTurn'
      /\ \A b \in Attempts : \A n : state[b] # "none" /\ Due(b, n) => Due(b, n)'
  BY <1>2, RunsOnKeeps
<1>4. TypeOK'
  BY <1>1 DEF TypeOK
<1>5. ReadInOrder'
  BY <1>1, <1>3 DEF ReadInOrder
<1>6. LoggedInOrder'
  BY <1>1 DEF LoggedInOrder, Told
<1>7. HandsOutDue'
  <2>1. \A d \in dispatched' : Due(d.attempt, d.seq)'
    BY <1>1, <1>3 DEF HandsOutDue, InTurn, TypeOK
  <2>2. \A n \in 0..Len(file.lines) : n \notin skip' => Due(a, n)'
    BY <1>1, <1>3 DEF HandsOutDue
  <2> QED BY <1>1, <1>3, <2>1, <2>2 DEF HandsOutDue
<1> QED BY <1>3, <1>4, <1>5, <1>6, <1>7

(* An attempt that ends leaves behind what is in the lines of its log.        *)
LEMMA EndKeeps ==
  ASSUME RunInv, NEW a \in Attempts, FinishAttempt(a) \/ AbortAttempt(a)
  PROVE  RunInv'
<1> USE DEF RunInv
<1>1. /\ state[a] = "running" /\ batch' = <<>>
      /\ \E s \in {"completed", "aborted"} : state' = [state EXCEPT ![a] = s]
      /\ UNCHANGED <<file, count, policy, log, torn, dispatched>>
  BY DEF FinishAttempt, AbortAttempt, execVars
<1>2. /\ state'[a] \in {"completed", "aborted"}
      /\ \A b \in Attempts : b # a => state'[b] = state[b]
      /\ \A b \in Attempts : Still(b)
  BY <1>1 DEF Still, TypeOK
<1>3. Running = {a} /\ Running' = {}
  <2>1. Running = {a}
    BY <1>1, OneRuns DEF Running
  <2> QED BY <1>2, <2>1 DEF Running
<1>4. TypeOK'
  <2>1. state' \in [Attempts -> {"none", "running", "completed", "aborted"}]
    BY <1>1 DEF TypeOK
  <2>2. batch' \in Seq(Outcome)
    BY <1>1, EmptySeq
  <2> QED BY <1>1, <2>1, <2>2 DEF TypeOK
<1>5. InTurn'
  <2>1. ASSUME NEW b \in Attempts, NEW c \in Attempts, Before(b, c), state'[c] # "none"
        PROVE  b \in Finished(state')
    <3>1. state[c] # "none"
      BY <1>1, <1>2, <2>1
    <3>2. b \in Finished(state)
      BY <2>1, <3>1 DEF InTurn
    <3> QED BY <1>2, <3>2 DEF Finished
  <2>2. \A b \in Attempts : state'[b] = "none" => log'[b] = <<>>
    BY <1>1, <1>2 DEF InTurn
  <2>3. \A d \in dispatched' : state'[d.attempt] # "none"
    BY <1>1, <1>2 DEF InTurn, TypeOK
  <2> QED BY <1>1, <2>1, <2>2, <2>3 DEF InTurn, Before
<1>6. ReadInOrder'
  BY <1>1, <1>3 DEF ReadInOrder
<1>7. LoggedInOrder'
  <2>1. ASSUME NEW b \in Attempts PROVE InOrder(Told(b)', dispatched, b)
    <3>1. InOrder(Told(b), dispatched, b)
      BY DEF LoggedInOrder
    <3>2. CASE b # a
      <4>1. Told(b)' = Told(b)
        BY <1>1, <1>2, <1>3, <3>2 DEF Told, Running
      <4> QED BY <3>1, <4>1
    <3>3. CASE b = a
      <4>1. Told(a) = Flat(log[a]) \o batch /\ Flat(log[a]) \in Seq(Outcome) /\ batch \in Seq(Outcome)
        BY <1>1, ToldRunning DEF TypeOK
      <4>2. Told(a)' = Flat(log[a]) \o <<>>
        BY <1>1, <1>2 DEF Told
      <4>3. Told(a)' = Flat(log[a])
        BY <4>1, <4>2, ConcatEmptySeq
      <4> QED BY <3>1, <3>3, <4>1, <4>3, InOrderPart
    <3> QED BY <3>2, <3>3
  <2> QED BY <1>1, <2>1 DEF LoggedInOrder, InOrder, Increasing
<1>8. HandsOutDue'
  <2>1. ASSUME NEW d \in dispatched PROVE Due(d.attempt, d.seq)'
    <3> DEFINE b == d.attempt
               m == d.seq
    <3>1. b \in Attempts /\ state[b] # "none" /\ Due(b, m)
      BY DEF TypeOK, InTurn, HandsOutDue
    <3> HIDE DEF b, m
    <3>2. Due(b, m)' <=> Due(b, m)
      BY <1>1, <1>2, <3>1, DueStill
    <3>3. b' = b /\ m' = m
      BY DEF b, m
    <3> QED BY <3>1, <3>2, <3>3 DEF b, m
  <2> QED BY <1>1, <1>3, <2>1 DEF HandsOutDue
<1> QED BY <1>4, <1>5, <1>6, <1>7, <1>8

(* The client looks on.                                                       *)
LEMMA RunUnchanged ==
  ASSUME RunInv, UNCHANGED <<execVars, runVars>>
  PROVE  RunInv'
<1>1. /\ UNCHANGED <<file, count, state, policy, skip, it, batch, log, torn, dispatched>>
      /\ \A b : Still(b)
  BY DEF execVars, runVars, Still
<1>2. TypeOK' /\ InTurn' /\ ReadInOrder' /\ LoggedInOrder'
  <2>1. TypeOK'
    BY <1>1 DEF RunInv, TypeOK
  <2>2. InTurn' /\ ReadInOrder'
    BY <1>1 DEF RunInv, InTurn, ReadInOrder, Running, Before
  <2>3. LoggedInOrder'
    BY <1>1 DEF RunInv, LoggedInOrder, Told
  <2> QED BY <2>1, <2>2, <2>3
<1>3. ASSUME NEW a, NEW n PROVE Due(a, n)' <=> Due(a, n)
  <2> DEFINE prior == Earlier(a)
  <2>1. prior' = prior
    BY DEF Earlier, Before
  <2> HIDE DEF prior
  <2>2. Resolve(prior, n)' = Resolve(prior, n)
    BY <1>1, <2>1, StillResolved
  <2> QED BY <1>1, <2>1, <2>2 DEF Due, Allows, prior
<1>4. HandsOutDue'
  <2>1. \A d \in dispatched' : Due(d.attempt, d.seq)'
    <3>1. ASSUME NEW d \in dispatched PROVE Due(d.attempt, d.seq)'
      <4> DEFINE b == d.attempt
                 m == d.seq
      <4>1. Due(b, m) /\ b' = b /\ m' = m
        BY DEF RunInv, HandsOutDue
      <4> HIDE DEF b, m
      <4> QED BY <1>3, <4>1 DEF b, m
    <3> QED BY <1>1, <3>1
  <2> QED BY <1>1, <1>3, <2>1 DEF RunInv, HandsOutDue, Running
<1> QED BY <1>2, <1>4 DEF RunInv

LEMMA InitRun ==
  ASSUME Init
  PROVE  RunInv
<1>1. /\ file \in Files /\ count = hash_and_count_rows(file)
      /\ state = [a \in Attempts |-> "none"] /\ policy = [a \in Attempts |-> "default"]
      /\ batch = <<>> /\ log = [a \in Attempts |-> <<>>]
      /\ torn = [a \in Attempts |-> FALSE] /\ dispatched = {}
  BY DEF Init, NoRun
<1>2. TypeOK
  <2>1. <<>> \in Seq(Outcome) /\ <<>> \in Seq(Seq(Outcome))
    BY EmptySeq
  <2> QED BY <1>1, <2>1 DEF TypeOK, Policies
<1>3. InTurn /\ ReadInOrder /\ HandsOutDue
  <2>1. Running = {}
    BY <1>1 DEF Running
  <2> QED BY <1>1, <2>1 DEF InTurn, ReadInOrder, HandsOutDue
<1>4. LoggedInOrder
  <2>1. ASSUME NEW a \in Attempts PROVE Told(a) = <<>>
    <3>1. log[a] = <<>> /\ state[a] # "running"
      BY <1>1
    <3>2. Flat(<<>>) = <<>>
      BY FlatFacts
    <3>3. <<>> \o <<>> = <<>>
      OBVIOUS
    <3> QED BY <3>1, <3>2, <3>3 DEF Told
  <2>2. Increasing(<<>>)
    BY DEF Increasing
  <2> QED BY <2>1, <2>2 DEF LoggedInOrder, InOrder
<1> QED BY <1>2, <1>3, <1>4 DEF RunInv

LEMMA NextRun ==
  ASSUME RunInv, [Next]_vars
  PROVE  RunInv'
<1>1. ASSUME NEW a \in Attempts, StartAttempt(a) PROVE RunInv'
  BY <1>1, StartAttemptKeeps
<1>2. ASSUME NEW a \in Attempts, ReRun(a) PROVE RunInv'
  BY <1>2, ReRunKeeps
<1>3. ASSUME NEW a \in Attempts, ReadRow(a) PROVE RunInv'
  BY <1>3, ReadRowKeeps
<1>4. ASSUME NEW a \in Attempts, BeginLine(a) PROVE RunInv'
  BY <1>4, BeginLineKeeps
<1>5. ASSUME NEW a \in Attempts, EndLine(a) PROVE RunInv'
  BY <1>5, EndLineKeeps
<1>6. ASSUME NEW a \in Attempts, FinishAttempt(a) \/ AbortAttempt(a) PROVE RunInv'
  BY <1>6, EndKeeps
<1>7. CASE Exporting \/ ReadPage \/ UNCHANGED vars
  <2>1. UNCHANGED <<execVars, runVars>>
    BY <1>7 DEF Exporting, ExportResolve, ExportCheck, ExportWrite, ExportWriteFails, ReadPage,
                vars
  <2> QED BY <2>1, RunUnchanged
<1> QED BY <1>1, <1>2, <1>3, <1>4, <1>5, <1>6, <1>7 DEF Next, Attempting

(* In every state the attempts, the reader and the logs stand as RunInv says. *)
THEOREM RunCorrect == Spec => []RunInv
<1>1. Init => RunInv
  BY InitRun
<1>2. RunInv /\ [Next]_vars => RunInv'
  BY NextRun
<1> QED BY <1>1, <1>2, PTL DEF Spec

-----------------------------------------------------------------------------
(* What was announced. A re-run has a set of numbers, each of a row of the    *)
(* file: of those behind the iterator it has handed out all.                  *)

Given(a) == {d.seq : d \in HandedOut(a)}

Pledge(a, ids) ==
  /\ IsFiniteSet(ids) /\ Cardinality(ids) = announced[a]
  /\ \A n \in ids : \E l : RowOf(file, n, l)
  /\ Given(a) \subseteq ids
  /\ state[a] = "running" =>
       /\ (0..Len(file.lines)) \ ids = skip
       /\ \A n \in ids : n < it.seq => n \in Given(a)
  /\ state[a] = "completed" => ids \subseteq Given(a)

Announces(a) ==
  IF policy[a] = "rerun" THEN \E ids : Pledge(a, ids)
  ELSE HandedOut(a) # {} \/ state[a] = "running" => announced[a] = count_input_rows(file)

AnnounceInv ==
  /\ announced \in [Attempts -> Nat]
  /\ \A a \in Attempts : IF state[a] = "none" THEN announced[a] = 0 ELSE Announces(a)

(* Behind the end there is no row.                                            *)
LEMMA WalkEnd ==
  ASSUME NEW f \in InputFile, open_input(f) # OpenFailed,
         NEW j \in DOMAIN Walk(f), Reads(f, j).kind = "end", NEW n, NEW l, RowOf(f, n, l)
  PROVE  n < Walk(f)[j].seq
<1> DEFINE U == {k \in Nat : k \in DOMAIN Walk(f) /\ j <= k => Walk(f)[k] = Walk(f)[j]}
<1>1. /\ Len(f.lines) \in Nat /\ DOMAIN Walk(f) = 0..Len(f.lines) /\ j \in Nat
  BY FileType, WalkEquation
<1>2. 0 \in U
  BY <1>1
<1>3. ASSUME NEW k \in U PROVE k + 1 \in U
  <2>1. k \in Nat /\ k + 1 \in Nat /\ (k + 1) - 1 = k
    OBVIOUS
  <2>2. ASSUME k + 1 \in DOMAIN Walk(f), j <= k + 1 PROVE Walk(f)[k + 1] = Walk(f)[j]
    <3>1. CASE j = k + 1
      BY <3>1
    <3>2. CASE j <= k
      <4>1. k \in DOMAIN Walk(f) /\ k + 1 \in 1..Len(f.lines)
        BY <1>1, <2>1, <2>2
      <4>2. Walk(f)[k] = Walk(f)[j]
        BY <3>2, <4>1
      <4>3. Walk(f)[k + 1] = Reads(f, k).next
        BY <2>1, <4>1, WalkEquation DEF Reads
      <4>4. Reads(f, k) = Reads(f, j)
        BY <4>2 DEF Reads
      <4>5. Yielded(f, Walk(f)[j], Reads(f, j))
        BY WalkInStep
      <4> QED BY <4>3, <4>4, <4>5 DEF Yielded
    <3> QED BY <1>1, <2>1, <2>2, <3>1, <3>2
  <2> QED BY <2>1, <2>2
<1>4. U = Nat
  <2>1. U \in SUBSET Nat
    OBVIOUS
  <2> HIDE DEF U
  <2> QED BY <1>2, <1>3, <2>1, NatSetInduction
<1>5. PICK i \in DOMAIN Walk(f) :
        Reads(f, i).kind = "row" /\ Reads(f, i).seq = n /\ Reads(f, i).line = l
  BY DEF RowOf
<1>6. i < j
  <2>1. ASSUME j <= i PROVE FALSE
    <3>1. Walk(f)[i] = Walk(f)[j]
      BY <1>1, <1>4, <1>5, <2>1
    <3> QED BY <1>5, <3>1 DEF Reads
  <2> QED BY <1>1, <1>5, <2>1
<1> QED BY <1>5, <1>6, WalkOrder

(* The next number read is the only new one.                                  *)
LEMMA WalkNext ==
  ASSUME NEW f \in InputFile, open_input(f) # OpenFailed,
         NEW j \in DOMAIN Walk(f), Reads(f, j).kind # "end",
         NEW n, NEW l, RowOf(f, n, l), n < Reads(f, j).seq + 1
  PROVE  n < Walk(f)[j].seq \/ (n = Reads(f, j).seq /\ Reads(f, j).kind = "row")
<1>1. PICK i \in DOMAIN Walk(f) :
        Reads(f, i).kind = "row" /\ Reads(f, i).seq = n /\ Reads(f, i).line = l
  BY DEF RowOf
<1>2. i \in Int /\ j \in Int
  BY FileType, WalkEquation
<1>3. CASE i < j
  BY <1>1, <1>3, WalkOrder
<1>4. CASE i = j
  BY <1>1, <1>4
<1>5. CASE j < i
  <2>1. Reads(f, j).seq < Walk(f)[i].seq
    BY <1>5, WalkOrder
  <2>2. /\ InStep(f, Walk(f)[i]) /\ Yielded(f, Walk(f)[i], Reads(f, i))
        /\ Yielded(f, Walk(f)[j], Reads(f, j))
    BY WalkInStep
  <2>3. Walk(f)[i].seq \in Nat /\ Walk(f)[i].seq <= n /\ n \in Nat /\ Reads(f, j).seq \in Nat
    BY <1>1, <2>2 DEF InStep, Iter, Yielded
  <2> QED BY <2>1, <2>3
<1> QED BY <1>2, <1>3, <1>4, <1>5

(* What is in a line is in the log.                                           *)
LEMMA FlatHolds ==
  ASSUME NEW T, NEW s \in Seq(Seq(T))
  PROVE  \A k \in DOMAIN s : ToSet(s[k]) \subseteq ToSet(Flat(s))
<1> DEFINE P == {lines \in Seq(Seq(T)) :
                   \A k \in DOMAIN lines : ToSet(lines[k]) \subseteq ToSet(Flat(lines))}
<1>1. <<>> \in P
  BY EmptySeq
<1>2. ASSUME NEW lines \in Seq(Seq(T)), NEW x \in Seq(T), lines \in P
      PROVE  Append(lines, x) \in P
  <2> DEFINE more == Append(lines, x)
             old == Flat(lines)
  <2>1. /\ more \in Seq(Seq(T)) /\ old \in Seq(T) /\ Flat(more) = old \o x
        /\ Len(lines) \in Nat /\ DOMAIN lines = 1..Len(lines)
        /\ DOMAIN more = 1..(Len(lines) + 1) /\ more[Len(lines) + 1] = x
        /\ \A k \in 1..Len(lines) : more[k] = lines[k]
    BY FlatFacts, AppendProperties, LenProperties
  <2>2. ToSet(old) \subseteq ToSet(old \o x) /\ ToSet(x) \subseteq ToSet(old \o x)
    <3> HIDE DEF old
    <3>1. /\ DOMAIN old = 1..Len(old) /\ Len(old) \in Nat /\ DOMAIN x = 1..Len(x)
          /\ Len(x) \in Nat /\ DOMAIN (old \o x) = 1..(Len(old) + Len(x))
          /\ \A k \in 1..Len(old) : (old \o x)[k] = old[k]
          /\ \A k \in 1..Len(x) : (old \o x)[Len(old) + k] = x[k]
      BY <2>1, ConcatProperties, LenProperties
    <3>2. \A k \in DOMAIN old : k \in DOMAIN (old \o x) /\ (old \o x)[k] = old[k]
      BY <3>1
    <3>3. \A k \in DOMAIN x : Len(old) + k \in DOMAIN (old \o x)
                              /\ (old \o x)[Len(old) + k] = x[k]
      BY <3>1
    <3> QED BY <3>2, <3>3 DEF ToSet
  <2>3. \A k \in DOMAIN lines : ToSet(lines[k]) \subseteq ToSet(old)
    BY <1>2
  <2> HIDE DEF more, old
  <2>4. ASSUME NEW k \in DOMAIN more PROVE ToSet(more[k]) \subseteq ToSet(Flat(more))
    <3>1. CASE k \in DOMAIN lines
      <4>1. more[k] = lines[k]
        BY <2>1, <3>1
      <4> QED BY <2>1, <2>2, <2>3, <3>1, <4>1
    <3>2. CASE k \notin DOMAIN lines
      <4>1. k = Len(lines) + 1
        BY <2>1, <2>4, <3>2
      <4> QED BY <2>1, <2>2, <4>1
    <3> QED BY <3>1, <3>2
  <2>5. more \in P
    BY <2>1, <2>4
  <2> QED BY <2>5 DEF more
<1>3. \A lines \in Seq(Seq(T)) : lines \in P
  <2> DEFINE V == Seq(T)
  <2>1. \A lines \in Seq(V), x \in V : lines \in P => Append(lines, x) \in P
    BY <1>2
  <2> HIDE DEF P, V
  <2>2. \A lines \in Seq(V) : lines \in P
    BY <1>1, <2>1, SeqInduction
  <2> QED BY <2>2 DEF V
<1> QED BY <1>3

(* A row logged as failed is a row of the file.                               *)
LEMMA FailedIsRow ==
  ASSUME RunInv, NEW b \in Attempts, NEW n \in FailedIds(log[b])
  PROVE  (\E l : RowOf(file, n, l)) /\ open_input(file) # OpenFailed
<1> USE DEF RunInv
<1>1. PICK o \in UNION {ToSet(log[b][k]) : k \in DOMAIN log[b]} : o.seq = n
  BY DEF FailedIds
<1>2. o \in ToSet(Flat(log[b]))
  <2>1. log[b] \in Seq(Seq(Outcome))
    BY DEF TypeOK
  <2> QED BY <1>1, <2>1, FlatHolds
<1>3. PICK i \in DOMAIN Flat(log[b]) : Flat(log[b])[i] = o
  BY <1>2 DEF ToSet
<1>4. i \in DOMAIN Told(b) /\ Told(b)[i] = o
  <2>1. Flat(log[b]) \in Seq(Outcome) /\ \E r \in Seq(Outcome) : Told(b) = Flat(log[b]) \o r
    BY ParsedIsTold
  <2> QED BY <1>3, <2>1, PartOf
<1>5. PICK d \in dispatched : d.seq = n
  BY <1>1, <1>4 DEF LoggedInOrder, InOrder
<1> QED BY <1>5 DEF ReadInOrder

LEMMA RowsFinite ==
  ASSUME NEW f \in InputFile, open_input(f) # OpenFailed,
         NEW ids, \A n \in ids : \E l : RowOf(f, n, l)
  PROVE  IsFiniteSet(ids) /\ Cardinality(ids) \in Nat /\ ids \subseteq 0..Len(f.lines)
<1>1. Len(f.lines) \in Nat
  BY FileType
<1>2. ids \subseteq 0..Len(f.lines)
  <2>1. ASSUME NEW n \in ids PROVE n \in 0..Len(f.lines)
    <3>1. PICK l : RowOf(f, n, l)
      OBVIOUS
    <3>2. n \in Nat /\ n < Len(f.lines)
      BY <3>1, RowBounds
    <3> QED BY <1>1, <3>2
  <2> QED BY <2>1
<1>3. IsFiniteSet(0..Len(f.lines))
  BY <1>1, FS_Interval
<1> QED BY <1>2, <1>3, FS_Subset, FS_CardinalityType

(* What an attempt announced holds while it stands.                           *)
LEMMA AnnouncesStill ==
  ASSUME NEW b \in Attempts, Announces(b), UNCHANGED <<file, HandedOut(b)>>,
         state'[b] = state[b], policy'[b] = policy[b], announced'[b] = announced[b],
         state[b] # "running" \/ UNCHANGED <<skip, it>>
  PROVE  Announces(b)'
<1>1. HandedOut(b)' = HandedOut(b) /\ Given(b)' = Given(b)
  BY DEF Given
<1>2. ASSUME NEW ids, Pledge(b, ids) PROVE Pledge(b, ids)'
  BY <1>1, <1>2 DEF Pledge
<1> QED BY <1>1, <1>2 DEF Announces

LEMMA BeginAnnounces ==
  ASSUME RunInv, AnnounceInv, NEW a \in Attempts, NEW pol, NEW skipped, NEW total \in Nat,
         Begin(a, pol, skipped, total),
         IF pol = "rerun"
         THEN \E ids : /\ IsFiniteSet(ids) /\ Cardinality(ids) = total
                       /\ \A n \in ids : \E l : RowOf(file, n, l)
                       /\ skipped = (0..Len(file.lines)) \ ids
         ELSE total = count_input_rows(file)
  PROVE  AnnounceInv'
<1> USE DEF RunInv
<1>1. /\ state[a] = "none"
      /\ \A b \in Attempts : b # a => state'[b] = state[b]
      /\ policy' = [policy EXCEPT ![a] = pol]
      /\ UNCHANGED <<file, dispatched>>
  BY BeginFacts
<1>2. /\ announced[a] = 0 /\ HandedOut(a) = {}
      /\ \A b \in Attempts : state[b] # "running"
  <2>1. Running = {}
    BY BeginFacts
  <2>2. announced[a] = 0
    BY <1>1 DEF AnnounceInv
  <2>3. HandedOut(a) = {}
    BY <1>1 DEF InTurn, HandedOut
  <2> QED BY <2>1, <2>2, <2>3 DEF Running
<1>3. \/ state' = [state EXCEPT ![a] = "aborted"] /\ announced' = announced
      \/ /\ state' = [state EXCEPT ![a] = "running"] /\ open_input(file) # OpenFailed
         /\ announced' = [announced EXCEPT ![a] = total]
         /\ skip' = skipped /\ it' = open_input(file)
  BY DEF Begin
<1>4. announced' \in [Attempts -> Nat] /\ state'[a] \in {"aborted", "running"}
      /\ policy'[a] = pol
      /\ \A b \in Attempts : b # a => policy'[b] = policy[b] /\ announced'[b] = announced[b]
  BY <1>1, <1>3 DEF AnnounceInv, TypeOK
<1>5. HandedOut(a)' = {} /\ Given(a)' = {}
  <2>1. HandedOut(a)' = HandedOut(a)
    BY <1>1 DEF HandedOut
  <2> QED BY <1>2, <2>1 DEF Given
<1>6. Announces(a)'
  <2>1. CASE state'[a] = "aborted"
    <3>1. announced'[a] = 0
      BY <1>2, <1>3, <2>1 DEF TypeOK
    <3>2. Pledge(a, {})'
      BY <1>5, <2>1, <3>1, FS_EmptySet DEF Pledge
    <3> QED BY <1>5, <2>1, <3>2 DEF Announces
  <2>2. CASE state'[a] = "running"
    <3>1. announced'[a] = total /\ skip' = skipped /\ it' = open_input(file)
          /\ open_input(file) # OpenFailed
      BY <1>3, <2>2 DEF TypeOK, AnnounceInv
    <3>2. CASE pol = "rerun"
      <4>1. PICK ids : /\ IsFiniteSet(ids) /\ Cardinality(ids) = total
                       /\ \A n \in ids : \E l : RowOf(file, n, l)
                       /\ skipped = (0..Len(file.lines)) \ ids
        BY <3>2
      <4>2. ASSUME NEW n \in ids PROVE ~(n < it'.seq)
        <5>1. file \in InputFile
          BY InputFiles
        <5>2. PICK l : RowOf(file, n, l)
          BY <4>1
        <5>3. n \in Nat
          BY <3>1, <5>1, <5>2, RowBounds
        <5>4. it'.seq = 0
          BY <3>1, <5>1, OpenedAtZero
        <5> QED BY <5>3, <5>4
      <4>3. Pledge(a, ids)'
        BY <1>1, <1>5, <2>2, <3>1, <4>1, <4>2 DEF Pledge
      <4> QED BY <1>4, <3>2, <4>3 DEF Announces
    <3>3. CASE pol # "rerun"
      BY <1>1, <1>4, <3>1, <3>3 DEF Announces
    <3> QED BY <3>2, <3>3
  <2> QED BY <1>4, <2>1, <2>2
<1>7. ASSUME NEW b \in Attempts, b # a, state[b] # "none" PROVE Announces(b)'
  <2>1. Announces(b)
    BY <1>7 DEF AnnounceInv
  <2>2. HandedOut(b)' = HandedOut(b)
    BY <1>1 DEF HandedOut
  <2> QED BY <1>1, <1>2, <1>4, <1>7, <2>1, <2>2, AnnouncesStill
<1> QED BY <1>1, <1>4, <1>6, <1>7 DEF AnnounceInv

LEMMA StartAnnounces ==
  ASSUME RunInv, AnnounceInv, NEW a \in Attempts, StartAttempt(a)
  PROVE  AnnounceInv'
<1>1. PICK pol \in Policies :
        Begin(a, pol, SkipSet(pol, compute_resolution(Finished(state))), count_input_rows(file))
  BY DEF StartAttempt
<1>2. pol # "rerun" /\ count_input_rows(file) \in Nat
  BY InputFiles, CountType DEF RunInv, Policies
<1> QED BY <1>1, <1>2, BeginAnnounces

LEMMA ReRunAnnounces ==
  ASSUME RunInv, AnnounceInv, NEW a \in Attempts, ReRun(a)
  PROVE  AnnounceInv'
<1>1. PICK b \in Finished(state) : \E ids \in Kept(b) \ {{}} :
        Begin(a, "rerun", (0..Len(file.lines)) \ ids, Cardinality(ids))
  BY DEF ReRun
<1>2. PICK ids \in Kept(b) \ {{}} :
        Begin(a, "rerun", (0..Len(file.lines)) \ ids, Cardinality(ids))
  BY <1>1
<1>3. b \in Attempts /\ ids \subseteq FailedIds(log[b])
  BY KeptIsLogged DEF RunInv, Finished
<1>4. open_input(file) # OpenFailed /\ \A n \in ids : \E l : RowOf(file, n, l)
  <2>1. \A n \in ids : open_input(file) # OpenFailed /\ \E l : RowOf(file, n, l)
    BY <1>3, FailedIsRow
  <2> QED BY <1>2, <2>1
<1>5. IsFiniteSet(ids) /\ Cardinality(ids) \in Nat
  BY <1>4, InputFiles, RowsFinite DEF RunInv
<1> DEFINE skipped == (0..Len(file.lines)) \ ids
<1> HIDE DEF skipped
<1>6. \E jds : /\ IsFiniteSet(jds) /\ Cardinality(jds) = Cardinality(ids)
               /\ \A n \in jds : \E l : RowOf(file, n, l)
               /\ skipped = (0..Len(file.lines)) \ jds
  BY <1>4, <1>5 DEF skipped
<1>7. Begin(a, "rerun", skipped, Cardinality(ids))
  BY <1>2 DEF skipped
<1> QED BY <1>5, <1>6, <1>7, BeginAnnounces

(* The reader passes over numbers that are not among the ids, and over no other. *)
LEMMA ReadAnnounces ==
  ASSUME RunInv, AnnounceInv, NEW a \in Attempts, ReadRow(a)
  PROVE  AnnounceInv'
<1> USE DEF RunInv
<1> DEFINE item == yield_next(file, it)
<1>1. /\ state[a] = "running" /\ item.kind # "end" /\ it' = item.next
      /\ \/ /\ item.kind = "error" \/ item.seq \in skip
            /\ dispatched' = dispatched
         \/ /\ item.kind # "error" /\ item.seq \notin skip
            /\ dispatched' = dispatched \cup
                 {[attempt |-> a, seq |-> item.seq, line |-> item.line]}
      /\ UNCHANGED <<file, state, policy, skip, announced>>
  BY DEF ReadRow, execVars
<1>2. Running = {a} /\ file \in InputFile /\ open_input(file) # OpenFailed
  <2>1. a \in Running
    BY <1>1 DEF Running
  <2> QED BY <2>1, OneRuns, InputFiles DEF ReadInOrder
<1>3. PICK j \in DOMAIN Walk(file) : it = Walk(file)[j]
  BY <1>2 DEF ReadInOrder
<1>4. item = Reads(file, j)
  BY <1>3 DEF Reads
<1>5. InStep(file, it) /\ Yielded(file, it, item)
  BY <1>2, <1>3, <1>4, WalkInStep
<1> DEFINE e == [attempt |-> a, seq |-> item.seq, line |-> item.line]
<1>6. e.attempt = a /\ e.seq = item.seq
  OBVIOUS
<1>7. \/ dispatched' = dispatched /\ (item.kind = "error" \/ item.seq \in skip)
      \/ dispatched' = dispatched \cup {e} /\ item.kind # "error" /\ item.seq \notin skip
  BY <1>1
<1>8. item.seq \in Nat /\ it'.seq = item.seq + 1 /\ item.kind \in {"row", "error"}
  BY <1>1, <1>5 DEF Yielded
<1> HIDE DEF item, e
<1>9. ASSUME NEW b \in Attempts, b # a, state[b] # "none" PROVE Announces(b)'
  <2>1. Announces(b) /\ state[b] # "running"
    BY <1>2, <1>9 DEF AnnounceInv, Running
  <2>2. HandedOut(b)' = HandedOut(b)
    BY <1>6, <1>7, <1>9 DEF HandedOut
  <2> QED BY <1>1, <2>1, <2>2, AnnouncesStill
<1>10. Announces(a)'
  <2>1. Announces(a)
    BY <1>1 DEF AnnounceInv
  <2>2. CASE policy[a] # "rerun"
    BY <1>1, <2>1, <2>2 DEF Announces
  <2>3. CASE policy[a] = "rerun"
    <3>1. PICK ids : Pledge(a, ids)
      BY <2>1, <2>3 DEF Announces
    <3>2. Given(a) \subseteq Given(a)'
      BY <1>7 DEF Given, HandedOut
    <3>3. Given(a)' \subseteq ids
      <4>1. CASE dispatched' = dispatched
        BY <3>1, <4>1 DEF Given, HandedOut, Pledge
      <4>2. CASE dispatched' = dispatched \cup {e} /\ item.kind # "error" /\ item.seq \notin skip
        <5>1. RowOf(file, item.seq, item.line)
          BY <1>4, <1>8, <4>2 DEF RowOf
        <5>2. item.seq \in 0..Len(file.lines)
          <6>1. Len(file.lines) \in Nat /\ item.seq < Len(file.lines)
            BY <1>2, <5>1, FileType, RowBounds
          <6> QED BY <1>8, <6>1
        <5>3. item.seq \in ids
          BY <1>1, <3>1, <4>2, <5>2 DEF Pledge
        <5> QED BY <1>6, <3>1, <4>2, <5>3 DEF Given, HandedOut, Pledge
      <4> QED BY <1>7, <4>1, <4>2
    <3>4. ASSUME NEW n \in ids, n < it'.seq PROVE n \in Given(a)'
      <4>1. PICK l : RowOf(file, n, l)
        BY <3>1 DEF Pledge
      <4>2. n < it.seq \/ (n = item.seq /\ item.kind = "row")
        <5>1. n < Reads(file, j).seq + 1 /\ Reads(file, j).kind # "end"
          BY <1>4, <1>8, <3>4
        <5> QED BY <1>2, <1>3, <1>4, <4>1, <5>1, WalkNext
      <4>3. CASE n < it.seq
        BY <1>1, <3>1, <3>2, <4>3 DEF Pledge
      <4>4. CASE n = item.seq /\ item.kind = "row"
        <5>1. item.seq \notin skip
          BY <1>1, <3>1, <4>4 DEF Pledge
        <5>2. dispatched' = dispatched \cup {e}
          BY <1>7, <4>4, <5>1
        <5> QED BY <1>6, <4>4, <5>2 DEF Given, HandedOut
      <4> QED BY <4>2, <4>3, <4>4
    <3>5. Pledge(a, ids)'
      BY <1>1, <3>1, <3>3, <3>4 DEF Pledge
    <3> QED BY <1>1, <2>3, <3>5 DEF Announces
  <2> QED BY <2>2, <2>3
<1> QED BY <1>1, <1>9, <1>10 DEF AnnounceInv

(* A re-run that comes to the end has nothing left to hand out.               *)
LEMMA EndAnnounces ==
  ASSUME RunInv, AnnounceInv, NEW a \in Attempts, FinishAttempt(a) \/ AbortAttempt(a)
  PROVE  AnnounceInv'
<1> USE DEF RunInv
<1>1. /\ state[a] = "running"
      /\ \/ state' = [state EXCEPT ![a] = "completed"] /\ yield_next(file, it).kind = "end"
         \/ state' = [state EXCEPT ![a] = "aborted"]
      /\ UNCHANGED <<file, policy, announced, dispatched>>
  BY DEF FinishAttempt, AbortAttempt, execVars
<1>2. /\ state'[a] \in {"completed", "aborted"}
      /\ state'[a] = "completed" => yield_next(file, it).kind = "end"
      /\ \A b \in Attempts : b # a => state'[b] = state[b]
  BY <1>1 DEF TypeOK
<1>3. Running = {a} /\ file \in InputFile /\ open_input(file) # OpenFailed
  <2>1. a \in Running
    BY <1>1 DEF Running
  <2> QED BY <2>1, OneRuns, InputFiles DEF ReadInOrder
<1>4. \A b \in Attempts : HandedOut(b)' = HandedOut(b) /\ Given(b)' = Given(b)
  BY <1>1 DEF HandedOut, Given
<1>5. ASSUME NEW b \in Attempts, b # a, state[b] # "none" PROVE Announces(b)'
  <2>1. Announces(b) /\ state[b] # "running"
    BY <1>3, <1>5 DEF AnnounceInv, Running
  <2> QED BY <1>1, <1>2, <1>4, <1>5, <2>1, AnnouncesStill
<1>6. Announces(a)'
  <2>1. Announces(a)
    BY <1>1 DEF AnnounceInv
  <2>2. CASE policy[a] # "rerun"
    BY <1>1, <1>2, <1>4, <2>1, <2>2 DEF Announces
  <2>3. CASE policy[a] = "rerun"
    <3>1. PICK ids : Pledge(a, ids)
      BY <2>1, <2>3 DEF Announces
    <3>2. ASSUME state'[a] = "completed", NEW n \in ids PROVE n \in Given(a)
      <4>1. PICK j \in DOMAIN Walk(file) : it = Walk(file)[j]
        BY <1>3 DEF ReadInOrder
      <4>2. PICK l : RowOf(file, n, l)
        BY <3>1 DEF Pledge
      <4>3. n < it.seq
        <5>1. Reads(file, j).kind = "end"
          BY <1>2, <3>2, <4>1 DEF Reads
        <5> QED BY <1>3, <4>1, <4>2, <5>1, WalkEnd
      <4> QED BY <1>1, <3>1, <4>3 DEF Pledge
    <3>3. Pledge(a, ids)'
      BY <1>1, <1>2, <1>4, <3>1, <3>2 DEF Pledge
    <3> QED BY <1>1, <2>3, <3>3 DEF Announces
  <2> QED BY <2>2, <2>3
<1> QED BY <1>1, <1>2, <1>5, <1>6 DEF AnnounceInv

LEMMA AnnounceUnchanged ==
  ASSUME AnnounceInv, UNCHANGED <<file, state, policy, skip, it, announced, dispatched>>
  PROVE  AnnounceInv'
<1>1. ASSUME NEW b \in Attempts, Announces(b) PROVE Announces(b)'
  <2>1. HandedOut(b)' = HandedOut(b)
    BY DEF HandedOut
  <2> QED BY <1>1, <2>1, AnnouncesStill
<1> QED BY <1>1 DEF AnnounceInv

(* In every state what was announced, read and handed out fit together.       *)
THEOREM AnnounceCorrect == Spec => []AnnounceInv
<1>1. Init => AnnounceInv
  BY DEF Init, AnnounceInv
<1>2. RunInv /\ AnnounceInv /\ [Next]_vars => AnnounceInv'
  <2> SUFFICES ASSUME RunInv, AnnounceInv, [Next]_vars PROVE AnnounceInv'
    OBVIOUS
  <2>1. ASSUME NEW a \in Attempts, StartAttempt(a) PROVE AnnounceInv'
    BY <2>1, StartAnnounces
  <2>2. ASSUME NEW a \in Attempts, ReRun(a) PROVE AnnounceInv'
    BY <2>2, ReRunAnnounces
  <2>3. ASSUME NEW a \in Attempts, ReadRow(a) PROVE AnnounceInv'
    BY <2>3, ReadAnnounces
  <2>4. ASSUME NEW a \in Attempts, FinishAttempt(a) \/ AbortAttempt(a) PROVE AnnounceInv'
    BY <2>4, EndAnnounces
  <2>5. ASSUME NEW a \in Attempts, BeginLine(a) \/ EndLine(a) PROVE AnnounceInv'
    BY <2>5, AnnounceUnchanged DEF BeginLine, EndLine, execVars
  <2>6. CASE Exporting \/ ReadPage \/ UNCHANGED vars
    <3>1. UNCHANGED <<execVars, runVars>>
      BY <2>6 DEF Exporting, ExportResolve, ExportCheck, ExportWrite, ExportWriteFails, ReadPage,
                  vars
    <3> QED BY <3>1, AnnounceUnchanged DEF execVars, runVars
  <2> QED BY <2>1, <2>2, <2>3, <2>4, <2>5, <2>6 DEF Next, Attempting
<1> QED BY <1>1, <1>2, RunCorrect, PTL DEF Spec

-----------------------------------------------------------------------------
(* What it says of the numbers, and of the rows of a retry.                   *)

LEMMA NumbersFollow ==
  ASSUME RunInv, AnnounceInv
  PROVE  NumbersNameRows
<1> USE DEF RunInv
<1>1. file \in InputFile /\ count = hash_and_count_rows(file)
  BY InputFiles DEF TypeOK
<1>2. \A d \in dispatched : RowOf(file, d.seq, d.line) /\ open_input(file) # OpenFailed
  BY DEF ReadInOrder
<1>3. ASSUME NEW d \in dispatched, NEW e \in dispatched
      PROVE  d.seq = e.seq <=> d.line = e.line
  BY <1>1, <1>2, RowsByNumber
<1>4. ASSUME file.ends = "lf", NEW d \in dispatched
      PROVE  d.seq < count
  BY <1>1, <1>2, <1>4, RowBounds
<1>5. ASSUME NEW a \in Attempts, NEW d \in HandedOut(a), NEW e \in HandedOut(a),
             d.seq = e.seq \/ d.line = e.line
      PROVE  d = e
  <2>1. d \in [attempt : Attempts, seq : Nat, line : Nat]
        /\ e \in [attempt : Attempts, seq : Nat, line : Nat]
    BY DEF TypeOK, HandedOut
  <2>2. d.seq = e.seq /\ d.line = e.line /\ d.attempt = e.attempt
    BY <1>3, <1>5 DEF HandedOut
  <2> QED BY <2>1, <2>2
<1>6. ASSUME NEW a \in Attempts, policy[a] # "rerun", file.ends = "lf"
      PROVE  Cardinality(HandedOut(a)) <= announced[a] + Cardinality(Uncounted)
  <2> DEFINE D == HandedOut(a)
             L == {d.line : d \in D}
             g == [d \in D |-> d.line]
  <2>1. IsFiniteSet(DOMAIN file.lines) /\ Uncounted \subseteq DOMAIN file.lines
    BY <1>1, FileType, FS_Interval DEF Uncounted
  <2>2. announced[a] \in Nat /\ Cardinality(Uncounted) \in Nat
    BY <2>1, FS_Subset, FS_CardinalityType DEF AnnounceInv
  <2>3. CASE D = {}
    <3>1. Cardinality(D) = 0
      BY <2>3, FS_EmptySet
    <3> HIDE DEF D
    <3> QED BY <2>2, <3>1 DEF D
  <2>4. CASE D # {}
    <3>1. open_input(file) # OpenFailed /\ \A l \in L : \E n : RowOf(file, n, l)
      BY <1>2, <2>4 DEF HandedOut
    <3>2. announced[a] = count_input_rows(file)
      BY <1>6, <2>4 DEF AnnounceInv, Announces, InTurn, HandedOut
    <3>3. IsFiniteSet(L) /\ Cardinality(L) <= announced[a] + Cardinality(Uncounted)
      <4>1. Uncounted = Spaces(file)
        BY DEF Uncounted, Spaces
      <4> HIDE DEF L
      <4> QED BY <1>1, <1>6, <3>1, <3>2, <4>1, RowsAnnounced
    <3>4. g \in Injection(D, L)
      <4>1. \A d, e \in D : d.line = e.line => d = e
        BY <1>5
      <4>2. g \in [D -> L]
        OBVIOUS
      <4> HIDE DEF D, L
      <4> QED BY <4>1, <4>2 DEF Injection, IsInjective
    <3> HIDE DEF D, L, g
    <3>5. IsFiniteSet(D) /\ Cardinality(D) <= Cardinality(L)
      BY <3>3, <3>4, FS_Injection
    <3>6. Cardinality(D) \in Nat /\ Cardinality(L) \in Nat
      BY <3>3, <3>5, FS_CardinalityType
    <3> QED BY <2>2, <3>3, <3>5, <3>6 DEF D
  <2> QED BY <2>3, <2>4
<1>7. ASSUME NEW a \in Attempts, policy[a] = "rerun"
      PROVE  /\ Cardinality(HandedOut(a)) <= announced[a]
             /\ state[a] = "completed" => Cardinality(HandedOut(a)) = announced[a]
  <2> DEFINE D == HandedOut(a)
  <2>1. state[a] # "none" \/ D = {}
    BY DEF InTurn, HandedOut
  <2>2. CASE state[a] = "none"
    <3>1. Cardinality(D) = 0 /\ announced[a] = 0
      BY <2>1, <2>2, FS_EmptySet DEF AnnounceInv
    <3> HIDE DEF D
    <3> QED BY <2>2, <3>1 DEF D
  <2>3. CASE state[a] # "none"
    <3>1. PICK ids : Pledge(a, ids)
      BY <1>7, <2>3 DEF AnnounceInv, Announces
    <3> DEFINE g == [d \in D |-> d.seq]
    <3>2. g \in Injection(D, ids)
      <4>1. \A d, e \in D : d.seq = e.seq => d = e
        BY <1>5
      <4>2. g \in [D -> ids]
        BY <3>1 DEF Pledge, Given
      <4> HIDE DEF D
      <4> QED BY <4>1, <4>2 DEF Injection, IsInjective
    <3>3. state[a] = "completed" => g \in Surjection(D, ids)
      <4>1. ASSUME state[a] = "completed", NEW n \in ids PROVE \E d \in D : g[d] = n
        BY <3>1, <4>1 DEF Pledge, Given
      <4>2. g \in [D -> ids]
        BY <3>2 DEF Injection
      <4> HIDE DEF D, g
      <4> QED BY <4>1, <4>2 DEF Surjection
    <3>4. IsFiniteSet(ids) /\ Cardinality(ids) = announced[a]
      BY <3>1 DEF Pledge
    <3> HIDE DEF D, g
    <3>5. /\ Cardinality(D) <= Cardinality(ids)
          /\ Cardinality(D) = Cardinality(ids) <=> g \in Surjection(D, ids)
      BY <3>2, <3>4, FS_Injection
    <3> QED BY <3>3, <3>4, <3>5 DEF D
  <2> QED BY <2>2, <2>3
<1>8. \A a \in Attempts : AnnouncedIsMet(a)
  BY <1>6, <1>7 DEF AnnouncedIsMet
<1> QED BY <1>3, <1>4, <1>8 DEF NumbersNameRows

(* The number a row is dispatched, logged and resolved under is its own in    *)
(* every attempt, and below the count the execution keeps (yield_rows against *)
(* hash_and_count_rows); an attempt hands out no more rows than it announced   *)
(* (count_input_rows, and Started in run.rs), records of spaces alone excepted *)
(* which that count leaves out, and a re-run that completes exactly as many.   *)
THEOREM RowsAreNamed == Spec => []NumbersNameRows
BY RunCorrect, AnnounceCorrect, NumbersFollow, PTL

LEMMA RetriesFollow ==
  ASSUME RunInv
  PROVE  RetryHandsOutFailures
<1> USE DEF RunInv
<1>1. file \in InputFile /\ count = hash_and_count_rows(file)
  BY InputFiles DEF TypeOK
<1>2. ASSUME NEW d \in dispatched
      PROVE  LET before == {a \in Finished(state) : Before(a, d.attempt)}
             IN  /\ policy[d.attempt] = "retry" /\ file.ends = "lf" =>
                      Resolve(before, d.seq).state \in Failing
                 /\ policy[d.attempt] = "rerun" =>
                      \E a \in before : d.seq \in FailedIds(log[a])
  <2> DEFINE before == {a \in Finished(state) : Before(a, d.attempt)}
  <2>1. d.attempt \in Attempts /\ state[d.attempt] # "none" /\ Due(d.attempt, d.seq)
    BY DEF TypeOK, InTurn, HandsOutDue
  <2>2. before = Earlier(d.attempt)
    BY <2>1 DEF InTurn, Earlier, Finished
  <2> HIDE DEF before
  <2>3. file.ends = "lf" => d.seq < count
    BY <1>1, RowBounds DEF ReadInOrder
  <2> QED BY <2>1, <2>2, <2>3 DEF Due, Allows, before
<1> QED BY <1>2 DEF RetryHandsOutFailures

(* --retry-failed and the re-run button hand out rows that failed before      *)
(* (run_attempt, handleRerunConfirm).                                         *)
THEOREM RetriesAreDue == Spec => []RetryHandsOutFailures
BY RunCorrect, RetriesFollow, PTL

-----------------------------------------------------------------------------
(* What a step leaves of the logs.                                            *)

(* An attempt that has ended stays as it is; so does the file.                *)
LEMMA Settles ==
  ASSUME RunInv, [Next]_vars
  PROVE  /\ file' = file /\ count' = count
         /\ \A b \in Finished(state) : Still(b) /\ state'[b] = state[b]
<1> DEFINE Stays(b) == Still(b) /\ state'[b] = state[b]
<1>1. TypeOK /\ InTurn
  BY DEF RunInv
<1>2. ASSUME NEW a \in Attempts, NEW pol, NEW skipped, NEW total, Begin(a, pol, skipped, total)
      PROVE  file' = file /\ count' = count /\ \A b \in Finished(state) : Stays(b)
  BY <1>1, <1>2, BeginFacts DEF Finished
<1>3. ASSUME NEW a \in Attempts, ReadRow(a) \/ BeginLine(a) \/ EndLine(a)
                                   \/ FinishAttempt(a) \/ AbortAttempt(a)
      PROVE  file' = file /\ count' = count /\ \A b \in Finished(state) : Stays(b)
  <2>1. file' = file /\ count' = count /\ state[a] = "running"
    BY <1>3 DEF ReadRow, BeginLine, EndLine, FinishAttempt, AbortAttempt, execVars
  <2>2. ASSUME NEW b \in Finished(state) PROVE b \in Attempts /\ b # a
    BY <2>1 DEF Finished
  <2>3. CASE ReadRow(a)
    BY <2>1, <2>3 DEF ReadRow, Still
  <2>4. CASE BeginLine(a)
    BY <1>1, <2>1, <2>2, <2>4 DEF BeginLine, Still, TypeOK
  <2>5. CASE EndLine(a)
    BY <1>1, <2>1, <2>2, <2>5 DEF EndLine, Still, TypeOK
  <2>6. CASE FinishAttempt(a) \/ AbortAttempt(a)
    BY <1>1, <2>1, <2>2, <2>6 DEF FinishAttempt, AbortAttempt, Still, TypeOK
  <2> QED BY <1>3, <2>3, <2>4, <2>5, <2>6
<1>4. CASE Exporting \/ ReadPage \/ UNCHANGED vars
  BY <1>4 DEF Exporting, ExportResolve, ExportCheck, ExportWrite, ExportWriteFails, ReadPage,
              vars, execVars, runVars, Still
<1>5. ASSUME NEW a \in Attempts, StartAttempt(a)
      PROVE  file' = file /\ count' = count /\ \A b \in Finished(state) : Stays(b)
  <2>1. PICK pol \in Policies :
          Begin(a, pol, SkipSet(pol, compute_resolution(Finished(state))), count_input_rows(file))
    BY <1>5 DEF StartAttempt
  <2> HIDE DEF Stays
  <2> QED BY <1>2, <2>1
<1>6. ASSUME NEW a \in Attempts, ReRun(a)
      PROVE  file' = file /\ count' = count /\ \A b \in Finished(state) : Stays(b)
  <2>1. PICK ids : Begin(a, "rerun", (0..Len(file.lines)) \ ids, Cardinality(ids))
    BY <1>6 DEF ReRun
  <2> HIDE DEF Stays
  <2> QED BY <1>2, <2>1
<1> DEFINE Goal == file' = file /\ count' = count /\ \A b \in Finished(state) : Stays(b)
<1>7. Goal
  <2>1. ASSUME Attempting PROVE Goal
    <3> HIDE DEF Goal
    <3>1. PICK a \in Attempts : StartAttempt(a) \/ ReRun(a) \/ ReadRow(a) \/ BeginLine(a)
                                 \/ EndLine(a) \/ FinishAttempt(a) \/ AbortAttempt(a)
      BY <2>1 DEF Attempting
    <3> QED BY <1>3, <1>5, <1>6, <3>1 DEF Goal
  <2> HIDE DEF Goal
  <2> QED BY <1>4, <2>1 DEF Next, Goal
<1> QED BY <1>7

(* What can be read of a log only grows.                                      *)
LEMMA ParsedGrows ==
  ASSUME RunInv, [Next]_vars, NEW a \in Attempts
  PROVE  \E more \in Seq(Outcome) : Parsed(a)' = Parsed(a) \o more
<1>1. TypeOK /\ InTurn
  BY DEF RunInv
<1>2. Parsed(a) \in Seq(Outcome) /\ log[a] \in Seq(Seq(Outcome)) /\ batch \in Seq(Outcome)
  BY <1>1, ParsedIsTold DEF TypeOK
<1>3. ASSUME Parsed(a)' = Parsed(a)
      PROVE  \E more \in Seq(Outcome) : Parsed(a)' = Parsed(a) \o more
  <2>1. Parsed(a) = Parsed(a) \o <<>> /\ <<>> \in Seq(Outcome)
    BY <1>2, ConcatEmptySeq, EmptySeq
  <2> QED BY <1>3, <2>1
<1>4. ASSUME Still(a) PROVE \E more \in Seq(Outcome) : Parsed(a)' = Parsed(a) \o more
  BY <1>3, <1>4, StillParsed
<1>5. ASSUME NEW b \in Attempts, b # a, BeginLine(b) \/ EndLine(b) PROVE Still(a)
  BY <1>1, <1>5 DEF BeginLine, EndLine, Still, TypeOK
<1>6. ASSUME BeginLine(a) PROVE Parsed(a)' = Parsed(a)
  <2>1. ~torn[a] /\ log'[a] = Append(log[a], batch) /\ torn'[a] = TRUE
    BY <1>1, <1>6 DEF BeginLine, TypeOK
  <2>2. SubSeq(log'[a], 1, Len(log'[a]) - 1) = log[a]
    <3> DEFINE s == log[a]
               x == batch
               T == Seq(Outcome)
    <3>1. s \in Seq(T) /\ x \in T
      BY <1>2
    <3> HIDE DEF s, x, T
    <3>2. SubSeq(Append(s, x), 1, Len(Append(s, x)) - 1) = s
      BY <3>1
    <3> QED BY <2>1, <3>2 DEF s, x
  <2>3. Whole(a)' = log[a] /\ Whole(a) = log[a]
    BY <2>1, <2>2 DEF Whole
  <2> QED BY <2>3 DEF Parsed
<1>7. ASSUME EndLine(a) PROVE \E more \in Seq(Outcome) : Parsed(a)' = Parsed(a) \o more
  <2>1. torn[a] /\ log'[a] = log[a] /\ torn'[a] = FALSE
    BY <1>1, <1>7 DEF EndLine, TypeOK
  <2>2. Parsed(a)' = Flat(log[a])
    BY <2>1 DEF Parsed, Whole
  <2> QED BY <1>1, <2>2, ParsedIsTold
<1>8. CASE \E b \in Attempts : BeginLine(b) \/ EndLine(b)
  BY <1>3, <1>4, <1>5, <1>6, <1>7, <1>8
<1>9. CASE ~ \E b \in Attempts : BeginLine(b) \/ EndLine(b)
  <2>1. UNCHANGED <<log, torn>>
    BY <1>9 DEF Next, Attempting, StartAttempt, ReRun, Begin, ReadRow, FinishAttempt, AbortAttempt,
                Exporting, ExportResolve, ExportCheck, ExportWrite, ExportWriteFails, ReadPage,
                vars, execVars, runVars
  <2> QED BY <1>4, <2>1 DEF Still
<1> QED BY <1>8, <1>9

-----------------------------------------------------------------------------
(* The export.                                                                *)

(* An export that has resolved the logs and has not failed.                   *)
Past == {"resolved", "refused", "writing", "done"}

ExportInv ==
  /\ xformat \in DOMAIN DataFiles
  /\ xmerged \subseteq Finished(state)
  /\ xpc \in Past => xres = compute_resolution(xmerged)
  /\ xpc \in {"writing", "done"} /\ xstrict => InState(xres, {"NeverAttempted"}) = {}
  /\ xpc \in {"idle", "resolved"} => xfiles = <<>>
  /\ xpc \in {"writing", "done"} => \A f \in DOMAIN xfiles : xfiles[f] = Written(f)
  /\ xpc = "writing" => "resolution.json" \notin DOMAIN xfiles
  /\ xpc = "done" => Missing = {} /\ xreport = Report
  /\ "resolution.json" \in DOMAIN xfiles =>
       \A f \in DOMAIN xfiles \ {"resolution.json"} : xfiles[f].whole

(* The summary is the last file; the others come in pairs.                    *)
LEMMA FileOrderFacts ==
  ASSUME NEW format \in DOMAIN DataFiles
  PROVE  /\ Len(FileOrder(format)) \in {3, 5}
         /\ DOMAIN FileOrder(format) = 1..Len(FileOrder(format))
         /\ \A i \in DOMAIN FileOrder(format) :
              FileOrder(format)[i] = "resolution.json" <=> i = Len(FileOrder(format))
         /\ \A i \in {1, 3} \cap 1..(Len(FileOrder(format)) - 1) :
              /\ FileOrder(format)[i] \in {"success.csv", "success.jsonl"}
              /\ FileOrder(format)[i + 1] \in {"failed.csv", "failed.jsonl"}
<1>1. format \in {"csv", "jsonl", "both"}
  BY DEF DataFiles
<1>2. CASE format = "csv"
  <2>1. FileOrder(format) = Append(<<"success.csv", "failed.csv">>, "resolution.json")
    BY <1>2 DEF FileOrder, DataFiles
  <2> QED BY <2>1
<1>3. CASE format = "jsonl"
  <2>1. FileOrder(format) = Append(<<"success.jsonl", "failed.jsonl">>, "resolution.json")
    BY <1>3 DEF FileOrder, DataFiles
  <2> QED BY <2>1
<1>4. CASE format = "both"
  <2>1. FileOrder(format) =
          Append(<<"success.csv", "failed.csv", "success.jsonl", "failed.jsonl">>, "resolution.json")
    BY <1>4 DEF FileOrder, DataFiles
  <2> QED BY <2>1
<1> QED BY <1>1, <1>2, <1>3, <1>4

LEMMA WrittenWhole == \A f : Written(f).whole = TRUE
BY DEF Written

(* Of the places still missing the least is next; the last is that of the     *)
(* summary.                                                                   *)
LEMMA NextFileFacts ==
  ASSUME ExportInv, xpc = "writing"
  PROVE  /\ Least(Missing) \in Missing /\ NextFile \notin DOMAIN xfiles
         /\ NextFile = "resolution.json" <=> Missing = {Least(Missing)}
<1> DEFINE order == FileOrder(xformat)
           last == Len(order)
<1>1. /\ last \in {3, 5} /\ DOMAIN order = 1..last
      /\ \A i \in DOMAIN order : order[i] = "resolution.json" <=> i = last
  BY FileOrderFacts DEF ExportInv
<1>2. last \in Missing /\ Missing \subseteq 1..last
  BY <1>1 DEF Missing, ExportInv
<1>3. Least(Missing) \in Missing /\ \A j \in Missing : Least(Missing) <= j
  <2>1. IsFiniteSet(1..last) /\ 1..last \subseteq Nat
    BY <1>1, FS_Interval
  <2>2. IsFiniteSet(Missing) /\ Missing \in SUBSET Nat /\ Missing # {}
    BY <1>2, <2>1, FS_Subset
  <2> QED BY <2>2, LeastIsLeast
<1> DEFINE first == Least(Missing)
<1>4. first \in Missing /\ \A j \in Missing : first <= j
  BY <1>3
<1> HIDE DEF first
<1>5. NextFile = order[first] /\ first \in 1..last
  BY <1>2, <1>4 DEF NextFile, first
<1>6. NextFile \notin DOMAIN xfiles
  BY <1>5, <1>4 DEF Missing
<1>7. NextFile = "resolution.json" <=> first = last
  BY <1>1, <1>5
<1>8. first = last <=> Missing = {first}
  <2> HIDE DEF last, order
  <2>1. ASSUME first = last, NEW j \in Missing PROVE j = first
    <3>1. j \in 1..last /\ first <= j
      BY <1>2, <1>4
    <3> QED BY <1>1, <2>1, <3>1
  <2> QED BY <1>2, <1>4, <2>1
<1> QED BY <1>3, <1>6, <1>7, <1>8 DEF first

(* Attempts go on under an export, but not those it merged.                   *)
LEMMA ExportStill ==
  ASSUME RunInv, ExportInv, [Next]_vars, UNCHANGED exportVars
  PROVE  ExportInv'
<1>1. /\ count' = count /\ \A b \in Finished(state) : Still(b) /\ state'[b] = state[b]
      /\ UNCHANGED <<xpc, xstrict, xformat, xmerged, xres, xaborted, xfiles, xreport>>
  BY Settles DEF exportVars
<1>2. xmerged' \subseteq Finished(state')
  BY <1>1 DEF ExportInv, Finished
<1>3. compute_resolution(xmerged)' = compute_resolution(xmerged)
  <2> DEFINE merged == xmerged
  <2>1. merged' = merged /\ \A b \in merged : Still(b)
    BY <1>1 DEF ExportInv
  <2> HIDE DEF merged
  <2>2. \A b \in merged : Parsed(b)' = Parsed(b)
    BY <2>1, StillParsed
  <2>3. Seqs(merged)' = Seqs(merged)
    BY <1>1, <2>1, <2>2 DEF Seqs
  <2>4. \A n : Resolve(merged, n)' = Resolve(merged, n)
    BY <2>1, StillResolved
  <2>5. compute_resolution(merged)' = compute_resolution(merged)
    BY <2>1, <2>3, <2>4 DEF compute_resolution
  <2> QED BY <2>5 DEF merged
<1> QED BY <1>1, <1>2, <1>3
        DEF ExportInv, Written, Missing, Report, InState, SuccessRows, FailedRows

LEMMA ExportSteps ==
  ASSUME RunInv, ExportInv, Exporting
  PROVE  ExportInv'
<1>1. /\ UNCHANGED <<file, count, state, log, torn>>
      /\ \A b : Still(b)
  BY DEF Exporting, ExportResolve, ExportCheck, ExportWrite, ExportWriteFails,
         execVars, runVars, Still
<1>2. \A merged : compute_resolution(merged)' = compute_resolution(merged)
  BY <1>1 DEF compute_resolution, Resolve, Logs, Seqs, Parsed, Whole
<1>3. CASE ExportResolve
  <2>1. /\ xpc = "idle" /\ xmerged' = Finished(state) /\ xformat' \in DOMAIN DataFiles
        /\ \/ xpc' = "failed"
           \/ xpc' = "resolved" /\ xres' = compute_resolution(Finished(state))
        /\ xfiles' = xfiles
    BY <1>3 DEF ExportResolve
  <2>2. xfiles = <<>> /\ DOMAIN <<>> = {}
    BY <2>1 DEF ExportInv
  <2>3. xpc' \in Past => xres' = compute_resolution(xmerged)'
    <3> DEFINE merged == Finished(state)
    <3>1. merged' = merged
      BY <1>1
    <3> HIDE DEF merged
    <3>2. compute_resolution(merged)' = compute_resolution(merged)
      BY <1>1, <3>1 DEF compute_resolution, Resolve, Logs, Seqs, Parsed, Whole
    <3> QED BY <2>1, <3>1, <3>2 DEF Past, merged
  <2> QED BY <1>1, <2>1, <2>2, <2>3 DEF ExportInv
<1>4. CASE ExportCheck
  <2>1. /\ xpc = "resolved" /\ xpc' \in {"refused", "writing"}
        /\ xpc' = "writing" /\ xstrict => FullyProcessed(xres, xaborted')
        /\ UNCHANGED <<xstrict, xformat, xmerged, xres, xfiles, xreport>>
    BY <1>4 DEF ExportCheck
  <2>2. xfiles = <<>> /\ DOMAIN <<>> = {}
    BY <2>1 DEF ExportInv
  <2>3. xres' = compute_resolution(xmerged)'
    BY <1>2, <2>1 DEF ExportInv, Past
  <2> QED BY <1>1, <2>1, <2>2, <2>3 DEF ExportInv, FullyProcessed, InState
<1>5. CASE ExportWrite
  <2>1. /\ xpc = "writing" /\ Missing # {} /\ xfiles' = Create(NextFile, Written(NextFile))
        /\ IF Missing = {Least(Missing)} THEN xpc' = "done" /\ xreport' = Report
           ELSE xpc' = xpc
        /\ UNCHANGED <<xstrict, xformat, xmerged, xres>>
    BY <1>5 DEF ExportWrite
  <2> DEFINE next == NextFile
  <2>2. /\ Least(Missing) \in Missing /\ next \notin DOMAIN xfiles
        /\ next = "resolution.json" <=> Missing = {Least(Missing)}
    BY <2>1, NextFileFacts
  <2>3. /\ DOMAIN xfiles' = DOMAIN xfiles \cup {next} /\ xfiles'[next] = Written(next)
        /\ \A g \in DOMAIN xfiles : xfiles'[g] = xfiles[g]
    <3> DEFINE content == Written(next)
    <3>1. xfiles' = Create(next, content)
      BY <2>1
    <3>2. next \notin DOMAIN xfiles
      BY <2>2
    <3> HIDE DEF next, content
    <3>3. /\ DOMAIN xfiles' = DOMAIN xfiles \cup {next} /\ xfiles'[next] = content
          /\ \A g \in DOMAIN xfiles : xfiles'[g] = xfiles[g]
      <4>1. xfiles' = [g \in DOMAIN xfiles \cup {next} |-> IF g = next THEN content ELSE xfiles[g]]
        BY <3>1 DEF Create
      <4> QED BY <3>2, <4>1
    <3> QED BY <3>3 DEF content
  <2>4. Missing' = Missing \ {i \in Missing : FileOrder(xformat)[i] = next}
    BY <2>1, <2>3 DEF Missing
  <2>5. Missing = {Least(Missing)} => Missing' = {}
    BY <2>4 DEF NextFile
  <2> HIDE DEF next
  <2>6. \A f \in DOMAIN xfiles' : xfiles'[f] = Written(f)
    BY <2>1, <2>3 DEF ExportInv
  <2>7. \A f : Written(f)' = Written(f)
    BY <2>1 DEF Written, SuccessRows, FailedRows, InState
  <2>8. Report' = Report
    BY <2>1 DEF Report, InState
  <2>9. xres' = compute_resolution(xmerged)'
    BY <1>2, <2>1 DEF ExportInv, Past
  <2>10. xpc' \in {"writing", "done"}
    BY <2>1
  <2>11. xpc' = "done" => Missing' = {} /\ xreport' = Report'
    BY <2>1, <2>5, <2>8
  <2>12. xpc' = "writing" => "resolution.json" \notin DOMAIN xfiles'
    BY <2>1, <2>2, <2>3 DEF ExportInv
  <2>13. \A f \in DOMAIN xfiles' : xfiles'[f].whole
    BY <2>6, WrittenWhole
  <2>14. \A f \in DOMAIN xfiles' : xfiles'[f] = Written(f)'
    BY <2>6, <2>7
  <2> QED BY <1>1, <2>1, <2>9, <2>10, <2>11, <2>12, <2>13, <2>14 DEF ExportInv, InState
<1>6. CASE ExportWriteFails
  <2>1. /\ xpc = "writing" /\ xpc' = "failed"
        /\ xfiles' = Create(NextFile, [whole |-> FALSE, rows |-> {}])
        /\ UNCHANGED <<xformat, xmerged>>
    BY <1>6 DEF ExportWriteFails
  <2>2. /\ DOMAIN xfiles' = DOMAIN xfiles \cup {NextFile} /\ NextFile \notin DOMAIN xfiles
        /\ \A g \in DOMAIN xfiles : xfiles'[g] = xfiles[g]
    <3> DEFINE next == NextFile
               content == [whole |-> FALSE, rows |-> {}]
    <3>1. xfiles' = Create(next, content) /\ next \notin DOMAIN xfiles
      BY <2>1, NextFileFacts
    <3> HIDE DEF next, content
    <3>2. DOMAIN xfiles' = DOMAIN xfiles \cup {next}
          /\ \A g \in DOMAIN xfiles : xfiles'[g] = xfiles[g]
      <4>1. xfiles' = [g \in DOMAIN xfiles \cup {next} |-> IF g = next THEN content ELSE xfiles[g]]
        BY <3>1 DEF Create
      <4> QED BY <3>1, <4>1
    <3> QED BY <3>1, <3>2 DEF next
  <2>3. \A f \in DOMAIN xfiles : xfiles[f].whole
    BY <2>1, WrittenWhole DEF ExportInv
  <2>4. "resolution.json" \notin DOMAIN xfiles
    BY <2>1 DEF ExportInv
  <2> QED BY <1>1, <2>1, <2>2, <2>3, <2>4 DEF ExportInv, Past
<1> QED BY <1>3, <1>4, <1>5, <1>6 DEF Exporting

(* What an export has read and written is as ExportInv says, whatever         *)
(* attempts are made and end beside it.                                       *)
THEOREM ExportCorrect == Spec => []ExportInv
<1>1. Init => ExportInv
  BY DEF Init, ExportInv, Past, DataFiles
<1>2. RunInv /\ ExportInv /\ [Next]_vars => ExportInv'
  <2> SUFFICES ASSUME RunInv, ExportInv, [Next]_vars PROVE ExportInv'
    OBVIOUS
  <2>1. CASE Exporting
    BY <2>1, ExportSteps
  <2>2. CASE Attempting \/ ReadPage \/ UNCHANGED vars
    <3>1. UNCHANGED exportVars
      BY <2>2 DEF Attempting, StartAttempt, ReRun, Begin, ReadRow, BeginLine, EndLine,
                  FinishAttempt, AbortAttempt, ReadPage, vars
    <3> QED BY <3>1, ExportStill
  <2> QED BY <2>1, <2>2 DEF Next
<1> QED BY <1>1, <1>2, RunCorrect, PTL DEF Spec

-----------------------------------------------------------------------------
(* What a finished export says.                                               *)

LEMMA LogsReadable ==
  ASSUME TypeOK, NEW merged \in SUBSET Attempts
  PROVE  /\ Readable(Logs(merged)) /\ DOMAIN Logs(merged) = merged
         /\ \A a \in merged : Logs(merged)[a] = Parsed(a)
BY ParsedIsTold DEF Readable, Logs

(* The rows of a resolution are finitely many.                                *)
LEMMA SeqsFinite ==
  ASSUME RunInv, NEW merged \in SUBSET Attempts
  PROVE  IsFiniteSet(Seqs(merged))
<1> USE DEF RunInv
<1>1. file \in InputFile /\ count = hash_and_count_rows(file)
  BY InputFiles DEF TypeOK
<1>2. Len(file.lines) \in Nat /\ count \in Nat
  BY <1>1, FileType, CountType
<1>3. ASSUME NEW a \in merged, NEW i \in DOMAIN Parsed(a)
      PROVE  Parsed(a)[i].seq \in 0..(count + Len(file.lines))
  <2>1. PICK d \in dispatched : d.attempt = a /\ d.seq = Parsed(a)[i].seq
    BY ParsedInOrder
  <2>2. d.seq \in Nat /\ d.seq < Len(file.lines)
    BY <1>1, RowBounds DEF ReadInOrder
  <2> QED BY <1>2, <2>1, <2>2
<1>4. Seqs(merged) \subseteq 0..(count + Len(file.lines))
  BY <1>2, <1>3 DEF Seqs
<1>5. IsFiniteSet(0..(count + Len(file.lines)))
  BY <1>2, FS_Interval
<1> QED BY <1>4, <1>5, FS_Subset

LEMMA ResolutionFacts ==
  ASSUME TypeOK, NEW merged \in SUBSET Attempts
  PROVE  /\ DOMAIN compute_resolution(merged) = Seqs(merged)
         /\ \A n \in Seqs(merged) :
              /\ compute_resolution(merged)[n].state \in FoundStates
              /\ Coherent(compute_resolution(merged)[n])
              /\ compute_resolution(merged)[n].state # "NeverAttempted" =>
                   \E a \in merged : \E i \in DOMAIN Parsed(a) : Parsed(a)[i].seq = n
<1> DEFINE logs == Logs(merged)
<1>1. Readable(logs) /\ DOMAIN logs = merged /\ \A a \in merged : logs[a] = Parsed(a)
  BY LogsReadable
<1> HIDE DEF logs
<1>2. ASSUME NEW n
      PROVE  /\ ResolveIn(logs, n).state \in FoundStates /\ Coherent(ResolveIn(logs, n))
             /\ ResolveIn(logs, n).state # "NeverAttempted" =>
                  \E a \in merged : \E i \in DOMAIN Parsed(a) : Parsed(a)[i].seq = n
  <2>1. /\ ResolveIn(logs, n) \in Found /\ Coherent(ResolveIn(logs, n))
        /\ ResolveIn(logs, n).state # "NeverAttempted" =>
             \E a \in DOMAIN logs \cap Attempts : \E i \in DOMAIN logs[a] : logs[a][i].seq = n
    BY <1>1, ResolveCoherent
  <2>2. ResolveIn(logs, n).state \in FoundStates
    BY <2>1 DEF Found
  <2> QED BY <1>1, <2>1, <2>2
<1>3. \A n \in Seqs(merged) : compute_resolution(merged)[n] = ResolveIn(logs, n)
  BY DEF compute_resolution, Resolve, logs
<1>4. DOMAIN compute_resolution(merged) = Seqs(merged)
  BY DEF compute_resolution
<1> QED BY <1>2, <1>3, <1>4

(* The three groups of rows an export makes.                                  *)
LEMMA RowGroups ==
  ASSUME RunInv, ExportInv, xpc = "done"
  PROVE  LET won == SuccessRows(xres)  lost == FailedRows(xres)
         IN  /\ DOMAIN xres = Seqs(xmerged) /\ won \cap lost = {} /\ won \cup lost = DOMAIN xres
             /\ Report.success = Cardinality(won) /\ Report.failed = Cardinality(lost)
<1> DEFINE won == SuccessRows(xres)
           lost == FailedRows(xres)
           never == InState(xres, {"NeverAttempted"})
           failing == InState(xres, Failing)
<1>1. xmerged \in SUBSET Attempts /\ xres = compute_resolution(xmerged) /\ TypeOK
  BY DEF ExportInv, Past, Finished, RunInv
<1>2. DOMAIN xres = Seqs(xmerged) /\ IsFiniteSet(DOMAIN xres)
  BY <1>1, ResolutionFacts, SeqsFinite
<1>3. \A n \in DOMAIN xres : xres[n].state \in FoundStates /\ Coherent(xres[n])
  BY <1>1, <1>2, ResolutionFacts
<1>4. FoundStates = {"NeverAttempted", "Resolved"} \cup Failing
  BY DEF FoundStates, Failing
<1>5. won = InState(xres, {"Resolved"})
  BY <1>3 DEF SuccessRows, InState, Coherent
<1>6. lost = never \cup failing
  BY <1>3 DEF FailedRows, InState, Coherent
<1>7. won \cap lost = {} /\ won \cup lost = DOMAIN xres
  BY <1>3, <1>4, <1>5, <1>6 DEF InState, Failing
<1>8. never \cap failing = {}
  BY DEF InState, Failing
<1>9. Cardinality(lost) = Cardinality(failing) + Cardinality(never)
  <2>1. IsFiniteSet(never) /\ IsFiniteSet(failing)
    <3>1. never \subseteq DOMAIN xres /\ failing \subseteq DOMAIN xres
      BY DEF InState
    <3> QED BY <1>2, <3>1, FS_Subset
  <2> HIDE DEF never, failing
  <2>2. Cardinality(never \cup failing) =
          Cardinality(never) + Cardinality(failing) - Cardinality(never \cap failing)
    BY <2>1, FS_Union
  <2>3. Cardinality(never \cap failing) = 0
    BY <1>8, FS_EmptySet
  <2>4. Cardinality(lost) = Cardinality(never \cup failing)
    BY <1>6
  <2>5. Cardinality(never) \in Nat /\ Cardinality(failing) \in Nat
    BY <2>1, FS_CardinalityType
  <2> QED BY <2>2, <2>3, <2>4, <2>5
<1>10. Report.success = Cardinality(won) /\ Report.failed = Cardinality(lost)
  BY <1>5, <1>9 DEF Report
<1> QED BY <1>2, <1>7, <1>10

LEMMA PartitionFollows ==
  ASSUME RunInv, ExportInv
  PROVE  ExportPartitions
<1>1. "resolution.json" \in DOMAIN xfiles =>
        \A f \in DOMAIN xfiles \ {"resolution.json"} : xfiles[f].whole
  BY DEF ExportInv
<1>2. ASSUME xpc = "done"
      PROVE  LET order == FileOrder(xformat) IN
             \A i \in {1, 3} \cap 1..(Len(order) - 1) :
               LET won == xfiles[order[i]].rows  lost == xfiles[order[i + 1]].rows
               IN  /\ won \cap lost = {}
                   /\ won \cup lost = Seqs(xmerged)
                   /\ 0..(count - 1) \subseteq Seqs(xmerged)
                   /\ xreport.success = Cardinality(won)
                   /\ xreport.failed = Cardinality(lost)
  <2> DEFINE order == FileOrder(xformat)
  <2>1. xformat \in DOMAIN DataFiles /\ Missing = {} /\ xreport = Report
        /\ \A f \in DOMAIN xfiles : xfiles[f] = Written(f)
    BY <1>2 DEF ExportInv
  <2>2. /\ Len(order) \in {3, 5} /\ DOMAIN order = 1..Len(order)
        /\ \A i \in {1, 3} \cap 1..(Len(order) - 1) :
             /\ order[i] \in {"success.csv", "success.jsonl"}
             /\ order[i + 1] \in {"failed.csv", "failed.jsonl"}
    BY <2>1, FileOrderFacts
  <2>3. \A i \in DOMAIN order : order[i] \in DOMAIN xfiles
    BY <2>1 DEF Missing
  <2> HIDE DEF order
  <2>4. ASSUME NEW i \in {1, 3} \cap 1..(Len(order) - 1)
        PROVE  xfiles[order[i]].rows = SuccessRows(xres) /\ xfiles[order[i + 1]].rows = FailedRows(xres)
    <3>1. i \in DOMAIN order /\ i + 1 \in DOMAIN order
      BY <2>2
    <3>2. /\ xfiles[order[i]] = Written(order[i]) /\ xfiles[order[i + 1]] = Written(order[i + 1])
          /\ order[i] \in {"success.csv", "success.jsonl"}
          /\ order[i + 1] \in {"failed.csv", "failed.jsonl"}
      BY <2>1, <2>2, <2>3, <3>1
    <3> QED BY <3>2 DEF Written
  <2>5. 0..(count - 1) \subseteq Seqs(xmerged)
    BY DEF Seqs
  <2>6. /\ DOMAIN xres = Seqs(xmerged) /\ SuccessRows(xres) \cap FailedRows(xres) = {}
        /\ SuccessRows(xres) \cup FailedRows(xres) = DOMAIN xres
        /\ Report.success = Cardinality(SuccessRows(xres))
        /\ Report.failed = Cardinality(FailedRows(xres))
    BY <1>2, RowGroups
  <2> QED BY <2>1, <2>4, <2>5, <2>6 DEF order
<1> QED BY <1>1, <1>2 DEF ExportPartitions

LEMMA CompleteFollows ==
  ASSUME RunInv, ExportInv
  PROVE  StrictExportIsComplete
<1> SUFFICES ASSUME xpc = "done", xstrict, file.ends = "lf",
                    NEW item \in AllItems(file), item.kind = "row"
             PROVE  \E d \in dispatched :
                      d.line = item.line /\ d.attempt \in xmerged
                      /\ d.seq \in DOMAIN xres /\ xres[d.seq].state # "NeverAttempted"
  BY DEF StrictExportIsComplete
<1> USE DEF RunInv
<1>1. file \in InputFile /\ count = hash_and_count_rows(file)
  BY InputFiles DEF TypeOK
<1>2. xmerged \in SUBSET Attempts /\ xres = compute_resolution(xmerged)
      /\ InState(xres, {"NeverAttempted"}) = {}
  BY DEF ExportInv, Past, Finished
<1>3. open_input(file) # OpenFailed /\ RowOf(file, item.seq, item.line)
  <2>1. open_input(file) # OpenFailed
    BY DEF AllItems
  <2>2. PICK i \in DOMAIN Walk(file) : item = Reads(file, i)
    BY <2>1 DEF AllItems, Reads
  <2> QED BY <2>1, <2>2 DEF RowOf
<1> DEFINE n == item.seq
<1>4. n \in 0..(count - 1)
  <2>1. n \in Nat /\ n < count /\ count \in Nat
    BY <1>1, <1>3, RowBounds, CountType
  <2> QED BY <2>1
<1> HIDE DEF n
<1>5. n \in Seqs(xmerged)
  BY <1>4 DEF Seqs
<1>6. n \in DOMAIN xres /\ xres[n].state # "NeverAttempted"
  BY <1>2, <1>5, ResolutionFacts DEF InState
<1>7. PICK a \in xmerged : \E i \in DOMAIN Parsed(a) : Parsed(a)[i].seq = n
  BY <1>2, <1>5, <1>6, ResolutionFacts
<1>8. PICK i \in DOMAIN Parsed(a) : Parsed(a)[i].seq = n
  BY <1>7
<1>9. PICK d \in dispatched : d.attempt = a /\ d.seq = n
  BY <1>2, <1>8, ParsedInOrder
<1>10. d.line = item.line
  BY <1>1, <1>3, <1>9, RowsByNumber DEF ReadInOrder, n
<1> QED BY <1>6, <1>7, <1>9, <1>10

(* export_execution divides the rows between its files, reports how many they *)
(* hold, and with --strict has an outcome of every row of the file.           *)
THEOREM ExportsAreWhole == Spec => []ExportIsComplete
<1>1. RunInv /\ ExportInv => ExportIsComplete
  BY PartitionFollows, CompleteFollows DEF ExportIsComplete
<1> QED BY <1>1, RunCorrect, ExportCorrect, PTL

-----------------------------------------------------------------------------
(* The table of failures.                                                     *)

(* Pages so far, an initial part of what is there.                            *)
PartShown(s, there) == Len(s) <= Len(there) /\ s = SubSeq(there, 1, Len(s))

PageInv ==
  /\ shown \in Seq(Outcome) /\ PartShown(shown, FailuresOf(First))
  /\ ppc = "more" => offset = Len(shown)

LEMMA FailuresGrow ==
  ASSUME NEW s \in Seq(Outcome), NEW t \in Seq(Outcome)
  PROVE  \E r \in Seq(Outcome) : Failures(s \o t) = Failures(s) \o r
<1> DEFINE P == {q \in Seq(Outcome) :
                   \E r \in Seq(Outcome) : Failures(s \o q) = Failures(s) \o r}
<1>1. Failures(s) \in Seq(Outcome)
  BY FailuresFacts
<1>2. <<>> \in P
  <2>1. s \o <<>> = s /\ Failures(s) \o <<>> = Failures(s) /\ <<>> \in Seq(Outcome)
    BY <1>1, ConcatEmptySeq, EmptySeq
  <2> QED BY <2>1
<1>3. ASSUME NEW q \in Seq(Outcome), NEW x \in Outcome, q \in P
      PROVE  Append(q, x) \in P
  <2>1. PICK r \in Seq(Outcome) : Failures(s \o q) = Failures(s) \o r
    BY <1>3
  <2> DEFINE base == s \o q
             lost == Failures(s)
  <2>2. s \o Append(q, x) = Append(base, x) /\ base \in Seq(Outcome)
    BY AppendConcat, ConcatProperties
  <2>3. Append(q, x) \in Seq(Outcome) /\ Append(r, x) \in Seq(Outcome)
    BY AppendProperties
  <2>4. lost \o Append(r, x) = Append(lost \o r, x)
    <3>1. lost \in Seq(Outcome)
      BY <1>1
    <3> HIDE DEF lost
    <3> QED BY <3>1, AppendConcat
  <2> HIDE DEF base
  <2>5. Failures(Append(base, x)) =
          IF x.kind = "success" THEN Failures(base) ELSE Append(Failures(base), x)
    BY <2>2, FailuresFacts
  <2>6. Failures(base) = lost \o r
    BY <2>1 DEF base
  <2> HIDE DEF lost
  <2>7. \E u \in Seq(Outcome) : Failures(s \o Append(q, x)) = lost \o u
    BY <2>2, <2>3, <2>4, <2>5, <2>6
  <2> QED BY <2>3, <2>7 DEF lost
<1> HIDE DEF P
<1>4. \A q \in Seq(Outcome) : q \in P
  BY <1>2, <1>3, SeqInduction
<1> QED BY <1>4 DEF P

LEMMA PartOfMore ==
  ASSUME NEW s, NEW there \in Seq(Outcome), NEW r \in Seq(Outcome), PartShown(s, there),
         s \in Seq(Outcome)
  PROVE  PartShown(s, there \o r)
<1>1. /\ Len(s) \in Nat /\ Len(there) \in Nat /\ Len(r) \in Nat /\ Len(s) <= Len(there)
      /\ Len(there \o r) = Len(there) + Len(r) /\ s = SubSeq(there, 1, Len(s))
  BY ConcatProperties, LenProperties DEF PartShown
<1>2. SubSeq(there \o r, 1, Len(s)) = SubSeq(there, 1, Len(s))
  <2>1. CASE Len(s) = 0
    BY <2>1, SubSeqEmpty
  <2>2. CASE Len(s) # 0
    <3>1. 1 \in 1..Len(there) /\ Len(s) \in 1..Len(there)
      BY <1>1, <2>2
    <3> QED BY <3>1, SubSeqOfConcat1
  <2> QED BY <2>1, <2>2
<1> QED BY <1>1, <1>2 DEF PartShown

(* A page continues what is shown, and the last one ends it.                  *)
LEMMA PageContinues ==
  ASSUME NEW there \in Seq(Outcome), NEW s \in Seq(Outcome), PartShown(s, there)
  PROVE  LET t == s \o Slice(there, Len(s))
             next == NextOffset(there, Len(s))
         IN  /\ t \in Seq(Outcome) /\ PartShown(t, there)
             /\ next = 0 => Len(t) = Len(there)
             /\ next # 0 => next = Len(t)
<1> DEFINE k == Len(s)
           len == Len(there)
           m == IF len < k + PageLimit THEN len ELSE k + PageLimit
           t == s \o Slice(there, k)
<1>1. PageLimit \in Nat /\ PageLimit # 0
  BY ResultsAssumption
<1>2. k \in Nat /\ len \in Nat /\ k <= len /\ s = SubSeq(there, 1, k)
  BY LenProperties DEF PartShown
<1>3. m \in Nat /\ k <= m /\ m <= len
  BY <1>1, <1>2
<1>4. Slice(there, k) = SubSeq(there, k + 1, m)
  BY DEF Slice
<1>5. NextOffset(there, k) = IF len > k + PageLimit THEN k + PageLimit ELSE 0
  BY DEF NextOffset
<1>6. /\ NextOffset(there, k) = 0 => m = len
      /\ NextOffset(there, k) # 0 => NextOffset(there, k) = m
  BY <1>1, <1>2, <1>5
<1> HIDE DEF k, len, m
<1>7. t = SubSeq(there, 1, m)
  <2>1. 1 \in 1..(Len(there) + 1) /\ k \in (1 - 1)..Len(there) /\ m \in k..Len(there)
    BY <1>2, <1>3 DEF len
  <2>2. SubSeq(there, 1, k) \o SubSeq(there, k + 1, m) = SubSeq(there, 1, m)
    BY <2>1, ConcatAdjacentSubSeq
  <2> QED BY <1>2, <1>4, <2>2
<1> HIDE DEF t
<1>8. t \in Seq(Outcome) /\ Len(t) = m
  <2>1. \A i \in 1..m : there[i] \in Outcome
    <3>1. \A i \in 1..m : i \in 1..Len(there)
      BY <1>2, <1>3 DEF len
    <3> QED BY <3>1, ElementOfSeq
  <2>2. /\ SubSeq(there, 1, m) \in Seq(Outcome)
        /\ Len(SubSeq(there, 1, m)) = IF 1 <= m THEN m - 1 + 1 ELSE 0
    BY <1>3, <2>1, SubSeqProperties
  <2> QED BY <1>3, <1>7, <2>2
<1>9. PartShown(t, there)
  BY <1>3, <1>7, <1>8 DEF PartShown, len
<1> QED BY <1>6, <1>8, <1>9 DEF t, k, len

LEMMA FirstIsAttempt == First \in Attempts
BY ResultsAssumption DEF First, Attempts

(* The failures of a log only grow.                                           *)
LEMMA FailuresOfGrows ==
  ASSUME RunInv, [Next]_vars, NEW a \in Attempts
  PROVE  /\ FailuresOf(a) \in Seq(Outcome)
         /\ \E r \in Seq(Outcome) : FailuresOf(a)' = FailuresOf(a) \o r
<1>1. Parsed(a) \in Seq(Outcome)
  BY ParsedIsTold DEF RunInv
<1>2. PICK more \in Seq(Outcome) : Parsed(a)' = Parsed(a) \o more
  BY ParsedGrows
<1>3. FailuresOf(a) \in Seq(Outcome)
  BY <1>1, FailuresFacts DEF FailuresOf
<1>4. PICK r \in Seq(Outcome) : Failures(Parsed(a) \o more) = Failures(Parsed(a)) \o r
  BY <1>1, FailuresGrow
<1> QED BY <1>2, <1>3, <1>4 DEF FailuresOf

LEMMA ReadPageFacts ==
  ASSUME RunInv, PageInv, ReadPage
  PROVE  /\ shown' \in Seq(Outcome) /\ PartShown(shown', FailuresOf(First))
         /\ ppc' = "more" => offset' = Len(shown')
         /\ ppc' = "end" => Len(shown') = Len(FailuresOf(First))
<1> DEFINE there == FailuresOf(First)
<1>1. /\ ppc = "more" /\ offset' = NextOffset(there, offset)
      /\ shown' = shown \o Slice(there, offset)
      /\ ppc' = IF offset' = 0 THEN "end" ELSE "more"
  BY DEF ReadPage, Page
<1>2. shown \in Seq(Outcome) /\ PartShown(shown, there) /\ offset = Len(shown)
  BY <1>1 DEF PageInv
<1>3. there \in Seq(Outcome)
  BY ParsedIsTold, FirstIsAttempt, FailuresFacts DEF RunInv, FailuresOf
<1> HIDE DEF there
<1>4. /\ shown' \in Seq(Outcome) /\ PartShown(shown', there)
      /\ offset' = 0 => Len(shown') = Len(there)
      /\ offset' # 0 => offset' = Len(shown')
  BY <1>1, <1>2, <1>3, PageContinues
<1> QED BY <1>1, <1>4 DEF there

LEMMA PageSteps ==
  ASSUME RunInv, PageInv, [Next]_vars
  PROVE  PageInv'
<1> DEFINE there == FailuresOf(First)
<1>1. /\ there \in Seq(Outcome)
      /\ \E r \in Seq(Outcome) : there' = there \o r
  BY FailuresOfGrows, FirstIsAttempt DEF First
<1> HIDE DEF there
<1>2. /\ shown' \in Seq(Outcome) /\ PartShown(shown', there)
      /\ ppc' = "more" => offset' = Len(shown')
  <2>1. CASE ReadPage
    BY <2>1, ReadPageFacts DEF there
  <2>2. CASE ~ReadPage
    <3>1. UNCHANGED pageVars
      BY <2>2 DEF Next, Attempting, StartAttempt, ReRun, Begin, ReadRow, BeginLine, EndLine,
                  FinishAttempt, AbortAttempt, Exporting, ExportResolve, ExportCheck, ExportWrite,
                  ExportWriteFails, vars
    <3> QED BY <3>1 DEF PageInv, pageVars, there
  <2> QED BY <2>1, <2>2
<1>3. PartShown(shown', there')
  BY <1>1, <1>2, PartOfMore
<1> QED BY <1>2, <1>3 DEF PageInv, there

(* Between two pages the cursor stands behind what is shown.                  *)
THEOREM PageCorrect == Spec => []PageInv
<1>1. Init => PageInv
  <2> SUFFICES ASSUME Init PROVE PageInv
    OBVIOUS
  <2>1. shown = <<>> /\ offset = 0 /\ <<>> \in Seq(Outcome) /\ Len(<<>>) = 0
    BY EmptySeq DEF Init
  <2>2. FailuresOf(First) \in Seq(Outcome)
    BY InitRun, ParsedIsTold, FirstIsAttempt, FailuresFacts DEF RunInv, FailuresOf
  <2>3. SubSeq(FailuresOf(First), 1, 0) = <<>> /\ Len(FailuresOf(First)) \in Nat
    BY <2>2, SubSeqEmpty, LenProperties
  <2> QED BY <2>1, <2>3 DEF PageInv, PartShown
<1>2. RunInv /\ PageInv /\ [Next]_vars => PageInv'
  BY PageSteps
<1> QED BY <1>1, <1>2, RunCorrect, PTL DEF Spec

(* read_failed_page, asked again from its cursor, goes through the failures   *)
(* of a log that grows, none twice and none left out.                         *)
THEOREM PagesInOrder == Spec => PagesFollowTheLog
<1>1. RunInv /\ PageInv /\ [Next]_vars =>
        [LET there == FailuresOf(First)
         IN  /\ Len(shown') <= Len(there) /\ shown' = SubSeq(there, 1, Len(shown'))
             /\ ppc' = "end" => Len(shown') = Len(there)]_pageVars
  <2> SUFFICES ASSUME RunInv, PageInv, [Next]_vars, ~UNCHANGED pageVars
               PROVE  /\ PartShown(shown', FailuresOf(First))
                      /\ ppc' = "end" => Len(shown') = Len(FailuresOf(First))
    BY DEF PartShown
  <2>1. ReadPage
    BY DEF Next, Attempting, StartAttempt, ReRun, Begin, ReadRow, BeginLine, EndLine,
           FinishAttempt, AbortAttempt, Exporting, ExportResolve, ExportCheck, ExportWrite,
           ExportWriteFails, vars
  <2> QED BY <2>1, ReadPageFacts
<1> QED BY <1>1, RunCorrect, PageCorrect, PTL DEF Spec, PagesFollowTheLog

-----------------------------------------------------------------------------
(* History and resolution.                                                    *)

LEMMA HistoryFollows ==
  ASSUME RunInv
  PROVE  HistoryIsResolution
<1> SUFFICES ASSUME Running = {}, NEW n
             PROVE  Agree(Resolve(Finished(state), n), row_history(n))
  BY DEF HistoryIsResolution, Agree
<1> USE DEF RunInv
<1> DEFINE logs == Logs(Attempts)
           some == Logs(Finished(state))
<1>1. logs \in [Attempts -> Seq(Outcome)] /\ \A a \in Attempts : logs[a] = Parsed(a)
  BY ParsedIsTold DEF Logs
<1>2. \A a \in Attempts : Increasing(logs[a])
  BY <1>1, ParsedInOrder
<1>3. Readable(some) /\ DOMAIN some = Finished(state)
      /\ \A a \in Finished(state) : some[a] = Parsed(a)
  <2>1. Finished(state) \in SUBSET Attempts
    BY DEF Finished
  <2> QED BY <2>1, LogsReadable
<1>4. ASSUME NEW a \in Attempts, a \notin Finished(state) PROVE Parsed(a) = <<>>
  <2>1. state[a] = "none"
    BY <1>4 DEF TypeOK, Finished, Running
  <2>2. log[a] = <<>> /\ ~torn[a]
    BY <2>1 DEF InTurn, TypeOK
  <2> QED BY <2>2, FlatFacts DEF Parsed, Whole
<1>5. \A a \in Attempts : IF a \in DOMAIN some THEN some[a] = logs[a] ELSE logs[a] = <<>>
  BY <1>1, <1>3, <1>4 DEF Finished
<1> HIDE DEF logs, some
<1>6. Agree(ResolveIn(some, n), HistoryIn(logs, n))
  BY <1>1, <1>2, <1>3, <1>5, HistoryAgrees
<1> QED BY <1>6 DEF Resolve, row_history, logs, some

(* Once no attempt runs, row_history and compute_resolution name the same     *)
(* success of a row and the same last failure, though they read its logs in   *)
(* two ways.                                                                  *)
THEOREM HistoriesAgree == Spec => []HistoryIsResolution
<1>1. RunInv => HistoryIsResolution
  BY HistoryFollows
<1> QED BY <1>1, RunCorrect, PTL
=============================================================================
