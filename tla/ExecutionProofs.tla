--------------------------- MODULE ExecutionProofs --------------------------
(***************************************************************************)
(* Proofs about Executions, for any number of runs, executions, processes  *)
(* and cores and for every interleaving of their statements: no attempt    *)
(* outlives its execution, the verdict of an attempt is final, the fold    *)
(* over attempts is the derivation of the data model, and a resolved row   *)
(* stays resolved. And, where one window makes the runs: an execution has  *)
(* one run at a time, a run skips what earlier ones attempted, and the     *)
(* canonical success of a row does not change.                             *)
(***************************************************************************)
EXTENDS Executions, FoldLemmas

Active == {"running"} \cup Terminal

PreInsert == {"idle", "gated", "reading", "inserting"}

(* A run has no row before it inserts one, it has an execution once it is   *)
(* called, and an execution with a row of an attempt has a row itself. The  *)
(* first part is what AttemptsHaveAnExecution lacks to be inductive: it     *)
(* keeps a call that only begins from moving a row to another execution.    *)
StoreInv ==
  /\ execState \in [Execs -> ExecutionState \cup {"deleted"}]
  /\ attState \in [Runs -> {"none", "gone"} \cup Active]
  /\ target \in [Runs -> Execs \cup {"none"}]
  /\ \A r \in Runs : pc[r] \in PreInsert => attState[r] = "none"
  /\ \A r \in Runs : pc[r] # "idle" => target[r] \in Execs
  /\ \A r \in Runs : attState[r] \in Active =>
       target[r] \in Execs /\ execState[target[r]] # "deleted"

IsFun == /\ pc = [r \in Runs |-> pc[r]]
         /\ counts = [r \in Runs |-> counts[r]]

(* The invariant holds at the start: no run was called and no row exists.   *)
LEMMA StoreInit == Init => StoreInv /\ IsFun
BY SMT DEF Init, StoreInv, IsFun, Active, PreInsert, ExecutionState, Terminal

(* Each step keeps it: an insert meets the foreign key, a delete takes the  *)
(* attempts with the execution, and no other step adds or moves a row.      *)
LEMMA StoreStep == StoreInv /\ IsFun /\ [Next]_vars => StoreInv' /\ IsFun'
<1> SUFFICES ASSUME StoreInv, IsFun, [Next]_vars PROVE StoreInv' /\ IsFun'
  OBVIOUS
<1> USE DEF StoreInv, IsFun, Active, PreInsert, ExecutionState, Terminal, Goto, Exists,
            storeVars, diskVars, runVars, procVars
<1>1. ASSUME NEW r \in Runs, RunStep(r) PROVE StoreInv' /\ IsFun'
  <2>1. CASE CanStart(r)
    BY <2>1, SMT DEF CanStart
  <2>2. CASE CreateRead(r)
    BY <2>2, SMT DEF CreateRead
  <2>3. CASE StudioInsert(r) \/ CliInsert(r)
    <3>1. PICK next \in {"created", "running"} :
            /\ Insert(r, next)
            /\ UNCHANGED target
      BY <2>3, SMT DEF StudioInsert, CliInsert
    <3> QED BY <3>1, SMT DEF Insert
  <2>4. CASE Register(r)
    BY <2>4, SMT DEF Register
  <2>5. CASE ComputeSkip(r)
    BY <2>5, SMT DEF ComputeSkip
  <2>6. CASE \E how \in {"failed"} \cup Terminal : PipelineEnds(r, how)
    BY <2>6, SMT DEF PipelineEnds
  <2>7. CASE FinishUpdate(r)
    <3>1. /\ attState' = attState \/ (\E v \in Terminal :
                /\ attState[r] = "running" /\ attState' = [attState EXCEPT ![r] = v])
          /\ counts' = [q \in Runs |-> counts'[q]]
          /\ UNCHANGED <<execState, target>>
          /\ \E label \in {"finishing", "done", "finished"} :
                pc' = [pc EXCEPT ![r] = label]
          /\ pc[r] = "ended"
      BY <2>7, SMT DEF FinishUpdate
    <3> QED BY <3>1, SMT
  <2>8. CASE FinishRead(r)
    <3> DEFINE label == IF execState[target[r]] = "open" THEN "bumping"
                        ELSE IF core[r] = 0 THEN "done" ELSE "finished"
    <3>1. /\ UNCHANGED <<execState, attState, counts, target>>
          /\ pc[r] = "finishing"
          /\ pc' = [pc EXCEPT ![r] = label]
      BY <2>8 DEF FinishRead
    <3>2. label \in {"bumping", "done", "finished"}
      BY SMT
    <3> HIDE DEF label
    <3> QED BY <3>1, <3>2, SMT
  <2>9. CASE FinishBump(r)
    BY <2>9, SMT DEF FinishBump
  <2>10. CASE RemoveSession(r)
    BY <2>10, SMT DEF RemoveSession
  <2> QED BY <1>1, <2>1, <2>2, <2>3, <2>4, <2>5, <2>6, <2>7, <2>8, <2>9, <2>10 DEF RunStep
<1>2. ASSUME NEW r \in Runs, NEW e \in Execs, NEW how \in Policies,
             StartGate(r, e, how) \/ CliResolve(r, e, how)
      PROVE  StoreInv' /\ IsFun'
  <2>1. /\ pc[r] = "idle" /\ counts' = counts
        /\ \E label \in {"gated", "reading"} : pc' = [pc EXCEPT ![r] = label]
        /\ target' = [target EXCEPT ![r] = e]
        /\ UNCHANGED <<execState, attState>>
    BY <1>2, SMT DEF StartGate, CliResolve
  <2> QED BY <2>1, SMT
<1>3. ASSUME NEW r \in Runs, NEW row \in Rows, NEW kind \in Kinds, Outcome(r, row, kind)
      PROVE  StoreInv' /\ IsFun'
  BY <1>3, SMT DEF Outcome
<1>4. ASSUME NEW r \in Runs, GrowsQuiet(r) PROVE StoreInv' /\ IsFun'
  BY <1>4, SMT DEF GrowsQuiet
<1>5. ASSUME NEW victims \in SUBSET {r \in Runs : pc[r] \in Alive}, NEW half,
             Dies(victims, half)
      PROVE  StoreInv' /\ IsFun'
  <2>1. /\ UNCHANGED <<execState, attState, counts, target>>
        /\ pc' = [r \in Runs |-> IF r \in victims THEN "dead" ELSE pc[r]]
    BY <1>5 DEF Dies, storeVars
  <2>2. \A r \in victims : pc[r] # "idle"
    BY <1>5 DEF Alive
  <2> QED BY <2>1, <2>2, SMT
<1>6. ASSUME NEW p \in Procs, Open(p) PROVE StoreInv' /\ IsFun'
  <2>1. /\ UNCHANGED <<pc, target, counts>>
        /\ attState' = [r \in Runs |-> IF r \in Orphans THEN "aborted" ELSE attState[r]]
        /\ \A r \in Orphans : attState[r] = "running"
        /\ execState' = [e \in Execs |->
             IF execState[e] = "open" /\ (\E r \in Orphans : target[r] = e)
             THEN "iterating" ELSE execState[e]]
    BY <1>6, SMT DEF Open, Orphans
  <2> QED BY <2>1, SMT
<1>7. ASSUME NEW p \in Procs, NEW e \in Execs, DeleteGate(p, e)
      PROVE  StoreInv' /\ IsFun'
  BY <1>7, SMT DEF DeleteGate
<1>8. ASSUME NEW p \in Procs, DeleteRegistry(p) PROVE StoreInv' /\ IsFun'
  BY <1>8, SMT DEF DeleteRegistry
<1>9. ASSUME NEW p \in Procs, DeleteRows(p) PROVE StoreInv' /\ IsFun'
  <2> DEFINE e == delExec[p]
             gone == Attempts(e)
  <2>1. /\ UNCHANGED <<pc, target, counts>>
        /\ execState' = [execState EXCEPT ![e] = "deleted"]
        /\ attState' = [r \in Runs |-> IF r \in gone THEN "gone" ELSE attState[r]]
    BY <1>9, SMT DEF DeleteRows
  <2>2. \A r \in Runs : attState[r] \in Active /\ target[r] = e => r \in gone
    BY SMT DEF Attempts
  <2>3. \A r \in Runs : r \in gone => attState[r] \in Active
    BY SMT DEF Attempts
  <2> HIDE DEF e, gone
  <2>4. \A r \in Runs : attState'[r] \in Active => attState[r] \in Active /\ target[r] # e
    BY <2>1, <2>2, SMT
  <2>5. execState' \in [Execs -> ExecutionState \cup {"deleted"}]
    <3>1. execState \in [Execs -> ExecutionState \cup {"deleted"}]
      OBVIOUS
    <3>2. execState' = [x \in Execs |-> IF x = e THEN "deleted" ELSE execState[x]]
      BY <2>1, <3>1, Zenon
    <3> QED BY <3>1, <3>2, SMT
  <2>6. attState' \in [Runs -> {"none", "gone"} \cup Active]
    BY <2>1, SMT
  <2>7. \A r \in Runs : pc[r] \in PreInsert => attState'[r] = "none"
    BY <2>1, <2>3, SMT
  <2>8. \A r \in Runs : attState'[r] \in Active =>
          target[r] \in Execs /\ execState'[target[r]] # "deleted"
    <3> SUFFICES ASSUME NEW r \in Runs, attState'[r] \in Active
                 PROVE  target[r] \in Execs /\ execState'[target[r]] # "deleted"
      OBVIOUS
    <3>1. attState[r] \in Active /\ target[r] # e
      BY <2>4
    <3>2. target[r] \in Execs /\ execState[target[r]] # "deleted"
      BY <3>1
    <3>3. execState'[target[r]] = execState[target[r]]
      BY <2>1, <3>1, <3>2, SMT
    <3> QED BY <3>2, <3>3
  <2> QED BY <2>1, <2>5, <2>6, <2>7, <2>8, SMT
<1>10. ASSUME NEW e \in Execs, NEW s \in ExecutionState, SetState(e, s)
       PROVE  StoreInv' /\ IsFun'
  BY <1>10, SMT DEF SetState
<1>11. CASE UNCHANGED vars
  BY <1>11, SMT DEF vars
<1>12. ASSUME NEW p \in Procs, NEW half \in SUBSET Runs, ProcessDies(p, half)
       PROVE  StoreInv' /\ IsFun'
  BY <1>12, <1>5 DEF ProcessDies
<1>13. ASSUME NEW r \in Runs, NEW half \in SUBSET {r}, CliDies(r, half)
       PROVE  StoreInv' /\ IsFun'
  BY <1>13, <1>5 DEF CliDies
<1> QED BY <1>1, <1>2, <1>3, <1>4, <1>6, <1>7, <1>8, <1>9, <1>10, <1>11, <1>12, <1>13
        DEF Next

(* So it holds throughout.                                                 *)
LEMMA StoreInvariant == Spec => [](StoreInv /\ IsFun)
BY StoreInit, StoreStep, PTL DEF Spec

(* No attempt outlives its execution, whatever deletes, starts, crashes and *)
(* state changes of whatever processes interleave (create_attempt's foreign *)
(* key and delete_execution's transaction).                                 *)
THEOREM AttemptsHaveExecutions == Spec => []AttemptsHaveAnExecution
<1>1. StoreInv => AttemptsHaveAnExecution
  BY SMT DEF StoreInv, AttemptsHaveAnExecution, Attempts, Exists, Active, Terminal
<1> QED BY <1>1, StoreInvariant, PTL

(* The verdict of an attempt and its counts are final: of the pipeline that *)
(* reports and the orphan scans of other processes, the first one decides.  *)
THEOREM VerdictsAreFinal == Spec => VerdictIsFinal
<1> DEFINE Final ==
      \A r \in Runs : attState[r] \in Terminal =>
        /\ attState'[r] \in {attState[r], "gone"}
        /\ counts'[r] = counts[r]
<1>1. StoreInv /\ IsFun /\ [Next]_vars => [Final]_vars
  <2> SUFFICES ASSUME StoreInv, IsFun, Next, NEW r \in Runs, attState[r] \in Terminal
               PROVE  /\ attState'[r] \in {attState[r], "gone"}
                      /\ counts'[r] = counts[r]
    BY SMT DEF vars
  <2> USE DEF StoreInv, Active, Terminal, PreInsert, storeVars
  <2>1. ASSUME NEW q \in Runs, RunStep(q)
        PROVE  attState'[r] = attState[r] /\ counts'[r] = counts[r]
    <3>1. CASE StudioInsert(q) \/ CliInsert(q)
      BY <3>1, SMT DEF StudioInsert, CliInsert, Insert
    <3>2. CASE FinishUpdate(q)
      <4>1. CASE attState[q] = "running"
        <5>1. /\ \E v : attState' = [attState EXCEPT ![q] = v]
              /\ \E v : counts' = [counts EXCEPT ![q] = v]
          BY <3>2, <4>1 DEF FinishUpdate
        <5> QED BY <4>1, <5>1, SMT DEF IsFun
      <4>2. CASE attState[q] # "running"
        BY <3>2, <4>2, SMT DEF FinishUpdate
      <4> QED BY <4>1, <4>2
    <3>3. CASE UNCHANGED <<attState, counts>>
      BY <3>3
    <3> QED
      BY <2>1, <3>1, <3>2, <3>3, SMT
      DEF RunStep, CanStart, CreateRead, Register, ComputeSkip, PipelineEnds,
          FinishRead, FinishBump, RemoveSession
  <2>2. ASSUME NEW p \in Procs, Open(p)
        PROVE  attState'[r] = attState[r] /\ counts'[r] = counts[r]
    BY <2>2, SMT DEF Open, Orphans
  <2>3. ASSUME NEW p \in Procs, DeleteRows(p)
        PROVE  attState'[r] \in {attState[r], "gone"} /\ counts'[r] = counts[r]
    BY <2>3, SMT DEF DeleteRows
  <2>4. CASE UNCHANGED <<attState, counts>>
    BY <2>4
  <2> QED
    BY <2>1, <2>2, <2>3, <2>4, SMT
    DEF Next, StartGate, CliResolve, Outcome, GrowsQuiet, CliDies, ProcessDies, Dies,
        DeleteGate, DeleteRegistry, SetState
<1> QED BY <1>1, StoreInvariant, PTL DEF Spec, VerdictIsFinal

-----------------------------------------------------------------------------
(* What the walk of compute_resolution finds out about a row.               *)

States == {"NeverAttempted", "Resolved", "FailedLast", "CrashedLast", "CancelledLast", "TooLarge"}
PerSeq == [state : States, canonical : Runs \cup {"none"}, failure : Runs \cup {"none"}]

(* One attempt of the walk.                                                 *)
Visit(p, a, merged, logs, row) ==
  IF a \in merged THEN apply_row_outcome(p, a, logs[a][row]) ELSE p

(* The function by which FoldLeft walks.                                    *)
WalkFun(attempts, merged, logs, row) ==
  CHOOSE f : f = [s \in SUBSET DOMAIN attempts |->
                    IF s = {} THEN NeverAttempted
                    ELSE Visit(f[s \ {Max(s)}], attempts[Max(s)], merged, logs, row)]

LEMMA WalkOfFun ==
  ASSUME NEW attempts, NEW merged, NEW logs, NEW row
  PROVE  per_seq(attempts, merged, logs, row) = WalkFun(attempts, merged, logs, row)[DOMAIN attempts]
BY DEF per_seq, FoldLeft, MapThenFoldSet, WalkFun, Visit

LEMMA VisitType ==
  /\ NeverAttempted \in PerSeq
  /\ \A p \in PerSeq, a \in Runs : \A merged, logs, row :
       Visit(p, a, merged, logs, row) \in PerSeq
<1>1. \A kind : classify_failure(kind) \in States
  BY DEF classify_failure, States
<1>2. ASSUME NEW p \in PerSeq, NEW a \in Runs, NEW kind
      PROVE  apply_row_outcome(p, a, kind) \in PerSeq
  <2>1. /\ p = [state |-> p.state, canonical |-> p.canonical, failure |-> p.failure]
        /\ p.state \in States /\ p.canonical \in Runs \cup {"none"}
        /\ p.failure \in Runs \cup {"none"}
    BY DEF PerSeq
  <2>2. CASE kind = "none"
    BY <2>2 DEF apply_row_outcome
  <2>3. CASE kind = "success"
    BY <2>1, <2>3 DEF apply_row_outcome, PerSeq, States
  <2>4. CASE kind \notin {"none", "success"} /\ p.state = "Resolved"
    BY <2>4 DEF apply_row_outcome
  <2>5. CASE kind \notin {"none", "success"} /\ p.state # "Resolved"
    <3>1. apply_row_outcome(p, a, kind) =
            [p EXCEPT !.state = classify_failure(kind), !.failure = a]
      BY <2>5 DEF apply_row_outcome
    <3>2. classify_failure(kind) \in States
      BY <1>1
    <3> QED BY <2>1, <3>1, <3>2 DEF PerSeq
  <2> QED BY <2>2, <2>3, <2>4, <2>5
<1>3. NeverAttempted \in PerSeq
  BY DEF NeverAttempted, PerSeq, States
<1> QED BY <1>2, <1>3 DEF Visit


LEMMA Walk ==
  ASSUME NEW attempts \in Seq(Runs), NEW merged, NEW logs, NEW row
  PROVE  \E W \in [0..Len(attempts) -> PerSeq] :
           /\ W[0] = NeverAttempted
           /\ \A i \in 1..Len(attempts) : W[i] = Visit(W[i - 1], attempts[i], merged, logs, row)
           /\ per_seq(attempts, merged, logs, row) = W[Len(attempts)]
<1> DEFINE S == 1..Len(attempts)
           V == PerSeq
           base == NeverAttempted
           c == [s \in SUBSET S |-> Max(s)]
           H == [s \in SUBSET S |-> [p \in V |->
                   IF s = {} THEN p ELSE Visit(p, attempts[Max(s)], merged, logs, row)]]
           Eq(f) == f = [s \in SUBSET S |->
                      IF s = {} THEN NeverAttempted
                      ELSE Visit(f[s \ {Max(s)}], attempts[Max(s)], merged, logs, row)]
<1>1. Len(attempts) \in Nat /\ DOMAIN attempts = S /\ IsFiniteSet(S)
  BY FS_Interval
<1>2. \A i \in S : attempts[i] \in Runs
  BY <1>1
<1>3. ASSUME NEW s \in SUBSET S, s # {} PROVE Max(s) \in s
  <2>1. IsFiniteSet(s)
    BY <1>1, FS_Subset
  <2>2. s \in SUBSET Int
    OBVIOUS
  <2> HIDE DEF S
  <2> QED BY <1>3, <2>1, <2>2, MaxMin
<1>4. NeverAttempted \in V /\ \A p \in V, a \in Runs : Visit(p, a, merged, logs, row) \in V
  BY VisitType
<1> HIDE DEF S, V
<1>5. Chooses(c, S)
  BY <1>3 DEF Chooses
<1>6. \A s \in SUBSET S : s # {} => attempts[Max(s)] \in Runs
  BY <1>2, <1>3
<1>7. H \in [SUBSET S -> [V -> V]]
  BY <1>4, <1>6
<1>8. /\ \A s \in SUBSET S : c[s] = Max(s)
      /\ \A s \in SUBSET S, p \in V : s # {} =>
           H[s][p] = Visit(p, attempts[Max(s)], merged, logs, row)
  OBVIOUS
<1> HIDE DEF c, H
<1>9. PICK g \in [SUBSET S -> V] : Folds(g, c, H, base, S)
  BY <1>1, <1>4, <1>5, <1>7, FoldExists
<1>10. ASSUME NEW s \in SUBSET S
       PROVE  g[s] = IF s = {} THEN NeverAttempted
                     ELSE Visit(g[s \ {Max(s)}], attempts[Max(s)], merged, logs, row)
  <2>1. s \ {Max(s)} \in SUBSET S
    OBVIOUS
  <2>2. g[s \ {Max(s)}] \in V
    BY <2>1
  <2> QED BY <1>8, <1>9, <2>2 DEF Folds
<1>11. Eq(g)
  BY <1>10
<1> DEFINE f == WalkFun(attempts, merged, logs, row)
<1>12. Eq(f)
  <2>1. \E h : Eq(h)
    BY <1>11
  <2>2. f = CHOOSE h : Eq(h)
    BY <1>1 DEF WalkFun
  <2> HIDE DEF Eq, f
  <2> QED BY <2>1, <2>2
<1>13. \A s \in SUBSET S : f[s] = IF s = {} THEN NeverAttempted
         ELSE Visit(f[s \ {Max(s)}], attempts[Max(s)], merged, logs, row)
  BY <1>12
<1> HIDE DEF f
<1>14. ASSUME NEW i \in 0..Len(attempts) PROVE 1..i \in SUBSET S
  BY <1>1 DEF S
<1>15. f[1..0] = NeverAttempted
  <2>1. 1..0 = {} /\ {} \in SUBSET S
    OBVIOUS
  <2>2. f[{}] = NeverAttempted
    BY <1>13, <2>1
  <2> QED BY <2>1, <2>2
<1>16. ASSUME NEW i \in 1..Len(attempts)
       PROVE  f[1..i] = Visit(f[1..(i - 1)], attempts[i], merged, logs, row)
  <2>1. i \in Nat /\ i > 0 /\ 1..i \in SUBSET S /\ 1..i # {}
    BY <1>1 DEF S
  <2>2. Max(1..i) = i /\ (1..i) \ {i} = 1..(i - 1)
    BY <2>1, MaxInterval
  <2>3. f[1..i] = Visit(f[(1..i) \ {Max(1..i)}], attempts[Max(1..i)], merged, logs, row)
    BY <1>13, <2>1
  <2> QED BY <2>2, <2>3
<1> DEFINE W == [i \in 0..Len(attempts) |-> f[1..i]]
<1>17. W[0] = NeverAttempted
  BY <1>1, <1>15
<1>18. \A i \in 1..Len(attempts) : W[i] = Visit(W[i - 1], attempts[i], merged, logs, row)
  BY <1>1, <1>16
<1>19. per_seq(attempts, merged, logs, row) = W[Len(attempts)]
  BY <1>1, WalkOfFun DEF f, S
<1>20. \A i \in 0..Len(attempts) : W[i] \in PerSeq
  <2> DEFINE T == {i \in Nat : i <= Len(attempts) => W[i] \in PerSeq}
  <2>1. 0 \in T
    BY <1>4, <1>17 DEF V
  <2>2. ASSUME NEW i \in T PROVE i + 1 \in T
    <3>1. i \in Nat /\ i + 1 \in Nat
      OBVIOUS
    <3>2. CASE i + 1 <= Len(attempts)
      <4>1. i + 1 \in 1..Len(attempts) /\ W[i] \in PerSeq /\ (i + 1) - 1 = i
        BY <1>1, <3>1, <3>2
      <4>2. W[i + 1] = Visit(W[i], attempts[i + 1], merged, logs, row)
        BY <1>18, <4>1
      <4>3. attempts[i + 1] \in Runs
        BY <4>1
      <4> HIDE DEF W
      <4>4. W[i + 1] \in PerSeq
        BY <4>1, <4>2, <4>3, VisitType
      <4> QED BY <3>1, <4>4
    <3> QED BY <3>1, <3>2
  <2>3. T \in SUBSET Nat
    OBVIOUS
  <2> HIDE DEF T
  <2>4. T = Nat
    BY <2>1, <2>2, <2>3, NatSetInduction
  <2> HIDE DEF W
  <2> QED BY <1>1, <2>4 DEF T
<1>21. W \in [0..Len(attempts) -> PerSeq]
  BY <1>20
<1> HIDE DEF W
<1> QED BY <1>17, <1>18, <1>19, <1>21

(* What the record of a row says after the first n attempts: nothing if     *)
(* none of them did, else Resolved by the earliest success, or, without a   *)
(* success, what the latest attempt that said something classifies as.      *)
Summary(p, said, wins, attempts, logs, row) ==
  /\ said = {} => p = NeverAttempted
  /\ wins = {} => p.canonical = "none"
  /\ wins # {} =>
       /\ p.state = "Resolved"
       /\ \E j \in wins : (\A k \in wins : j <= k) /\ p.canonical = attempts[j]
  /\ wins = {} /\ said # {} =>
       \E j \in said : /\ \A k \in said : k <= j
                       /\ p.state = classify_failure(logs[attempts[j]][row])

LEMMA SummaryStep ==
  ASSUME NEW attempts \in Seq(Runs), NEW merged, NEW logs, NEW row, NEW p \in PerSeq,
         NEW i \in 1..Len(attempts), NEW said \in SUBSET (1..(i - 1)), NEW wins \in SUBSET said,
         Summary(p, said, wins, attempts, logs, row)
  PROVE  LET a    == attempts[i]
             kind == IF a \in merged THEN logs[a][row] ELSE "none"
         IN  Summary(Visit(p, a, merged, logs, row),
                     IF kind = "none" THEN said ELSE said \cup {i},
                     IF kind = "success" THEN wins \cup {i} ELSE wins, attempts, logs, row)
<1> DEFINE a == attempts[i]
           kind == IF a \in merged THEN logs[a][row] ELSE "none"
           q == Visit(p, a, merged, logs, row)
<1> SUFFICES Summary(q, IF kind = "none" THEN said ELSE said \cup {i},
                     IF kind = "success" THEN wins \cup {i} ELSE wins, attempts, logs, row)
  OBVIOUS
<1>1. /\ a \in Runs /\ i \in Nat /\ \A j \in said : attempts[j] \in Runs /\ j \in Nat /\ j < i
      /\ "none" \notin Runs /\ i \notin said
  BY ResolutionAssumption
<1>2. q = apply_row_outcome(p, a, kind)
  BY DEF Visit, apply_row_outcome
<1>3. p.canonical = "none" <=> wins = {}
  BY <1>1 DEF Summary
<1>4. /\ DOMAIN p = {"state", "canonical", "failure"}
      /\ \A k \in {"CrashedLast", "CancelledLast", "TooLarge", "FailedLast"} : k # "Resolved"
      /\ \A k : classify_failure(k) \in {"CrashedLast", "CancelledLast", "TooLarge", "FailedLast"}
  BY DEF PerSeq, classify_failure
<1>5. CASE kind = "none"
  <2>1. q = p
    BY <1>2, <1>5 DEF apply_row_outcome
  <2> QED BY <1>5, <2>1
<1>6. CASE kind = "success"
  <2>1. /\ q.state = "Resolved"
        /\ q.canonical = IF wins = {} THEN a ELSE p.canonical
    <3> HIDE DEF q, kind, a
    <3>1. q = apply_row_outcome(p, a, "success")
      BY <1>2, <1>6
    <3>2. q = [p EXCEPT !.state = "Resolved",
                        !.canonical = IF p.canonical = "none" THEN a ELSE p.canonical]
      BY <3>1 DEF apply_row_outcome
    <3> QED BY <1>3, <3>2 DEF PerSeq
  <2>2. CASE wins = {}
    <3>1. wins \cup {i} = {i} /\ q.canonical = attempts[i]
      BY <2>1, <2>2
    <3> HIDE DEF q, kind, a
    <3> QED BY <1>1, <1>6, <2>1, <3>1 DEF Summary
  <2>3. CASE wins # {}
    <3>1. PICK j \in wins : (\A k \in wins : j <= k) /\ p.canonical = attempts[j]
      BY <2>3 DEF Summary
    <3>2. \A k \in wins \cup {i} : j <= k
      BY <1>1, <3>1
    <3>3. q.canonical = attempts[j]
      BY <2>1, <2>3, <3>1
    <3> HIDE DEF q, kind, a
    <3> QED BY <1>1, <1>6, <2>1, <3>1, <3>2, <3>3 DEF Summary
  <2> QED BY <2>2, <2>3
<1>7. CASE kind \notin {"none", "success"}
  <2>1. CASE wins # {}
    <3>1. q = p
      <4>1. p.state = "Resolved"
        BY <2>1 DEF Summary
      <4> QED BY <1>2, <1>7, <4>1 DEF apply_row_outcome
    <3> HIDE DEF q, kind, a
    <3> QED BY <1>7, <2>1, <3>1 DEF Summary
  <2>2. CASE wins = {}
    <3>1. p.state # "Resolved"
      BY <1>4, <2>2 DEF Summary, NeverAttempted
    <3>2. q.state = classify_failure(kind) /\ q.canonical = p.canonical
      BY <1>2, <1>4, <1>7, <3>1 DEF apply_row_outcome
    <3>3. kind = logs[attempts[i]][row]
      BY <1>7
    <3>4. \A k \in said \cup {i} : k <= i
      BY <1>1
    <3> HIDE DEF q, kind, a
    <3> QED BY <1>3, <1>7, <2>2, <3>2, <3>3, <3>4 DEF Summary
  <2> QED BY <2>1, <2>2
<1> HIDE DEF q
<1> QED BY <1>5, <1>6, <1>7 DEF q

(* The walk ends with the summary of all attempts.                          *)
LEMMA WalkSummary ==
  ASSUME NEW attempts \in Seq(Runs), NEW merged, NEW logs, NEW row
  PROVE  /\ per_seq(attempts, merged, logs, row) \in PerSeq
         /\ Summary(per_seq(attempts, merged, logs, row), Said(attempts, merged, logs, row),
                    Wins(attempts, merged, logs, row), attempts, logs, row)
<1> DEFINE n == Len(attempts)
           heard(j) == IF attempts[j] \in merged THEN logs[attempts[j]][row] ELSE "none"
           said(i) == {j \in 1..i : heard(j) # "none"}
           wins(i) == {j \in 1..i : heard(j) = "success"}
<1>1. n \in Nat /\ DOMAIN attempts = 1..n
  OBVIOUS
<1>2. PICK W \in [0..n -> PerSeq] :
        /\ W[0] = NeverAttempted
        /\ \A i \in 1..n : W[i] = Visit(W[i - 1], attempts[i], merged, logs, row)
        /\ per_seq(attempts, merged, logs, row) = W[n]
  BY Walk
<1> DEFINE T == {i \in Nat : i <= n => Summary(W[i], said(i), wins(i), attempts, logs, row)}
<1>3. 0 \in T
  <2>1. said(0) = {} /\ wins(0) = {}
    OBVIOUS
  <2>2. Summary(NeverAttempted, {}, {}, attempts, logs, row)
    BY DEF Summary, NeverAttempted
  <2> QED BY <1>2, <2>1, <2>2
<1>4. ASSUME NEW m \in T PROVE m + 1 \in T
  <2> DEFINE i == m + 1
  <2>1. m \in Nat /\ i \in Nat /\ i - 1 = m
    OBVIOUS
  <2> SUFFICES ASSUME i <= n PROVE Summary(W[i], said(i), wins(i), attempts, logs, row)
    BY <2>1
  <2>2. i \in 1..n /\ m <= n /\ m \in 0..n
    BY <1>1, <2>1
  <2>3. Summary(W[m], said(m), wins(m), attempts, logs, row)
    BY <2>1, <2>2
  <2>4. W[i] = Visit(W[m], attempts[i], merged, logs, row) /\ W[m] \in PerSeq
    BY <1>2, <2>1, <2>2
  <2>5. 1..i = (1..m) \cup {i}
    BY <2>1
  <2>6. /\ said(i) = IF heard(i) = "none" THEN said(m) ELSE said(m) \cup {i}
        /\ wins(i) = IF heard(i) = "success" THEN wins(m) \cup {i} ELSE wins(m)
    <3> HIDE DEF heard, i
    <3> QED BY <2>5
  <2>7. said(m) \in SUBSET (1..(i - 1)) /\ wins(m) \in SUBSET said(m)
    BY <2>1
  <2> DEFINE S == said(m)
             V == wins(m)
  <2> HIDE DEF S, V, i, T
  <2>8. Summary(Visit(W[m], attempts[i], merged, logs, row),
                IF heard(i) = "none" THEN S ELSE S \cup {i},
                IF heard(i) = "success" THEN V \cup {i} ELSE V, attempts, logs, row)
    BY <2>2, <2>3, <2>4, <2>7, SummaryStep DEF S, V
  <2> QED BY <2>4, <2>6, <2>8 DEF S, V
<1>5. T = Nat
  <2>1. T \in SUBSET Nat
    OBVIOUS
  <2> HIDE DEF T
  <2> QED BY <1>3, <1>4, <2>1, NatSetInduction
<1>6. Summary(W[n], said(n), wins(n), attempts, logs, row)
  BY <1>1, <1>5
<1>7. said(n) = Said(attempts, merged, logs, row) /\ wins(n) = Wins(attempts, merged, logs, row)
  BY <1>1 DEF Said, Wins
<1>8. W[n] \in PerSeq
  BY <1>1, <1>2
<1> QED BY <1>2, <1>6, <1>7, <1>8

(* So the walk computes what the data model derives.                        *)
LEMMA WalkDerives ==
  ASSUME NEW attempts \in Seq(Runs), NEW merged, NEW logs, NEW row
  PROVE  /\ per_seq(attempts, merged, logs, row).state
              = DerivedState(attempts, merged, logs, row)
         /\ per_seq(attempts, merged, logs, row).canonical
              = DerivedCanonical(attempts, merged, logs, row)
<1> DEFINE p == per_seq(attempts, merged, logs, row)
           said == Said(attempts, merged, logs, row)
           wins == Wins(attempts, merged, logs, row)
<1>1. Summary(p, said, wins, attempts, logs, row)
  BY WalkSummary
<1>2. /\ said \in SUBSET Int /\ wins \in SUBSET said
      /\ IsFiniteSet(said) /\ IsFiniteSet(wins)
  <2>1. Len(attempts) \in Nat /\ DOMAIN attempts = 1..Len(attempts)
    OBVIOUS
  <2>2. IsFiniteSet(1..Len(attempts))
    BY <2>1, FS_Interval
  <2>3. said \in SUBSET (1..Len(attempts)) /\ wins \in SUBSET said
    BY <2>1 DEF Said, Wins
  <2>4. IsFiniteSet(said) /\ IsFiniteSet(wins)
    BY <2>2, <2>3, FS_Subset
  <2> QED BY <2>3, <2>4
<1> HIDE DEF p, said, wins
<1>3. ASSUME said # {}, NEW j \in said, \A k \in said : k <= j PROVE j = Max(said)
  <2>1. Max(said) \in said /\ \A y \in said : y <= Max(said)
    BY <1>2, <1>3, MaxMin
  <2>2. j \in Int /\ Max(said) \in Int /\ j <= Max(said) /\ Max(said) <= j
    BY <1>2, <1>3, <2>1
  <2> QED BY <2>2
<1>4. ASSUME wins # {}, NEW j \in wins, \A k \in wins : j <= k PROVE j = Min(wins)
  <2>1. wins \in SUBSET Int
    BY <1>2
  <2>2. Min(wins) \in wins /\ \A y \in wins : Min(wins) <= y
    BY <1>2, <1>4, <2>1, MaxMin
  <2>3. j \in Int /\ Min(wins) \in Int /\ j <= Min(wins) /\ Min(wins) <= j
    BY <1>4, <2>1, <2>2
  <2> QED BY <2>3
<1>5. p.canonical = DerivedCanonical(attempts, merged, logs, row)
  <2>1. DerivedCanonical(attempts, merged, logs, row)
          = IF wins = {} THEN "none" ELSE attempts[Min(wins)]
    BY DEF DerivedCanonical, wins
  <2> QED BY <1>1, <1>4, <2>1 DEF Summary
<1>6. p.state = DerivedState(attempts, merged, logs, row)
  <2>1. DerivedState(attempts, merged, logs, row) =
          IF said = {} THEN "NeverAttempted" ELSE IF wins # {} THEN "Resolved"
          ELSE classify_failure(logs[attempts[Max(said)]][row])
    BY DEF DerivedState, classify_failure, said, wins
  <2>2. CASE said = {}
    BY <1>1, <2>1, <2>2 DEF Summary, NeverAttempted
  <2>3. CASE said # {} /\ wins # {}
    BY <1>1, <2>1, <2>3 DEF Summary
  <2>4. CASE said # {} /\ wins = {}
    <3>1. PICK j \in said : /\ \A k \in said : k <= j
                           /\ p.state = classify_failure(logs[attempts[j]][row])
      BY <1>1, <2>4 DEF Summary
    <3>2. j = Max(said)
      BY <1>3, <2>4, <3>1
    <3> QED BY <2>1, <2>4, <3>1, <3>2
  <2> QED BY <2>2, <2>3, <2>4
<1> QED BY <1>5, <1>6 DEF p

(* The history of the attempts: what was ever inserted, in order, and the   *)
(* logs of what is still there.                                             *)
HistoryInv ==
  /\ started \in Seq(Runs)
  /\ log \in [Runs -> [Rows -> Kinds \cup {"none"}]]
  /\ \A i \in DOMAIN started : attState[started[i]] # "none"
  /\ \A r \in Runs : attState[r] # "none" => \E i \in DOMAIN started : started[i] = r
  /\ \A r \in Runs : attState[r] \in {"none", "gone"} => log[r] = NoLog
  /\ \A r \in Runs : attState[r] = "none" => pc[r] \in PreInsert \cup {"done", "dead"}

LEMMA HistoryInit == Init => HistoryInv
<1> SUFFICES ASSUME Init PROVE HistoryInv
  OBVIOUS
<1>1. started = <<>> /\ started \in Seq(Runs) /\ DOMAIN started = {}
  BY DEF Init
<1>2. log = [r \in Runs |-> NoLog] /\ NoLog \in [Rows -> Kinds \cup {"none"}]
  BY DEF Init, NoLog
<1> QED BY <1>1, <1>2 DEF Init, HistoryInv, PreInsert

(* The insert of an attempt.                                                *)
LEMMA HistoryInsert ==
  ASSUME StoreInv, IsFun, HistoryInv, NEW r \in Runs, NEW next \in {"created", "running"},
         Insert(r, next), UNCHANGED log
  PROVE  HistoryInv'
<1>1. /\ pc[r] = "inserting" /\ attState[r] = "none" /\ pc = [q \in Runs |-> pc[q]]
      /\ attState = [q \in Runs |-> attState[q]]
  BY DEF Insert, StoreInv, PreInsert, IsFun
<1>2. CASE ~Exists(target[r])
  <2>1. UNCHANGED <<attState, started>> /\ pc' = [pc EXCEPT ![r] = "done"]
    BY <1>2 DEF Insert, Goto
  <2> QED BY <1>1, <2>1 DEF HistoryInv
<1>3. CASE Exists(target[r])
  <2>1. /\ attState' = [attState EXCEPT ![r] = "running"]
        /\ started' = Append(started, r) /\ pc' = [pc EXCEPT ![r] = next]
    BY <1>3 DEF Insert, Goto
  <2>2. \A q \in Runs : /\ attState'[q] = IF q = r THEN "running" ELSE attState[q]
                        /\ pc'[q] = IF q = r THEN next ELSE pc[q]
    BY <1>1, <2>1
  <2>3. /\ started' \in Seq(Runs) /\ Len(started) \in Nat
        /\ DOMAIN started = 1..Len(started) /\ DOMAIN started' = 1..(Len(started) + 1)
        /\ \A i \in DOMAIN started : i \in DOMAIN started' /\ started'[i] = started[i]
        /\ Len(started) + 1 \in DOMAIN started' /\ started'[Len(started) + 1] = r
    BY <2>1 DEF HistoryInv
  <2>4. \A i \in DOMAIN started' : i \in DOMAIN started \/ i = Len(started) + 1
    BY <2>3
  <2>5. \A i \in DOMAIN started : started[i] \in Runs
    BY DEF HistoryInv
  <2>6. \A i \in DOMAIN started' : attState'[started'[i]] # "none"
    BY <2>2, <2>3, <2>4, <2>5 DEF HistoryInv
  <2>7. \A q \in Runs : attState'[q] # "none" => \E i \in DOMAIN started' : started'[i] = q
    BY <2>2, <2>3 DEF HistoryInv
  <2> QED BY <2>2, <2>3, <2>6, <2>7 DEF HistoryInv
<1> QED BY <1>2, <1>3

(* Every step keeps it.                                                     *)
LEMMA HistoryStep ==
  StoreInv /\ IsFun /\ HistoryInv /\ [Next]_vars => HistoryInv'
<1> SUFFICES ASSUME StoreInv, IsFun, HistoryInv, [Next]_vars PROVE HistoryInv'
  OBVIOUS
<1> USE DEF storeVars, diskVars, runVars, procVars
<1>1. pc = [q \in Runs |-> pc[q]] /\ attState = [q \in Runs |-> attState[q]]
  BY DEF StoreInv, IsFun
<1>2. ASSUME UNCHANGED <<started, log>>,
             \A r \in Runs : attState'[r] # attState[r] =>
               attState[r] = "running" /\ attState'[r] \in Terminal,
             \A r \in Runs : pc'[r] # pc[r] =>
               pc'[r] \in PreInsert \cup {"done", "dead"} \/ pc[r] \notin PreInsert \cup {"done", "dead"}
      PROVE  HistoryInv'
  <2>1. \A r \in Runs : /\ attState[r] = "none" <=> attState'[r] = "none"
                        /\ attState'[r] \in {"none", "gone"} => attState[r] \in {"none", "gone"}
    BY <1>2 DEF Terminal
  <2>2. \A i \in DOMAIN started : started[i] \in Runs
    BY DEF HistoryInv
  <2> QED BY <1>2, <2>1, <2>2 DEF HistoryInv
<1> DEFINE moves(r, l) == pc' = [pc EXCEPT ![r] = l]
           still == UNCHANGED <<attState, started, log>>
<1>3. ASSUME NEW r \in Runs, RunStep(r) PROVE HistoryInv'
  <2>1. CASE StudioInsert(r) \/ CliInsert(r)
    BY <2>1, HistoryInsert DEF StudioInsert, CliInsert
  <2>2. CASE CanStart(r) \/ CreateRead(r)
    <3>1. still /\ \E l \in {"reading", "inserting", "done"} : moves(r, l)
      BY <2>2 DEF CanStart, CreateRead, Goto
    <3> QED BY <1>1, <1>2, <3>1 DEF PreInsert
  <2>3. CASE Register(r) \/ ComputeSkip(r) \/ (\E how \in {"failed"} \cup Terminal : PipelineEnds(r, how))
             \/ RemoveSession(r) \/ FinishBump(r)
    <3>1. /\ still /\ pc[r] \notin PreInsert \cup {"done", "dead"}
          /\ \E l : moves(r, l)
      BY <2>3 DEF Register, ComputeSkip, PipelineEnds, RemoveSession, FinishBump, Goto, PreInsert
    <3> QED BY <1>1, <1>2, <3>1
  <2>4. CASE FinishRead(r)
    <3>1. still /\ pc[r] \notin PreInsert \cup {"done", "dead"} /\ \E l : moves(r, l)
      BY <2>4 DEF FinishRead, Goto, PreInsert
    <3> QED BY <1>1, <1>2, <3>1
  <2>5. CASE FinishUpdate(r)
    <3>1. /\ UNCHANGED <<started, log>> /\ pc[r] \notin PreInsert \cup {"done", "dead"}
          /\ \E l : moves(r, l)
          /\ attState' = attState \/ \E v \in Terminal :
               attState[r] = "running" /\ attState' = [attState EXCEPT ![r] = v]
      BY <2>5 DEF FinishUpdate, Goto, PreInsert, Terminal
    <3> QED BY <1>1, <1>2, <3>1
  <2> QED BY <1>3, <2>1, <2>2, <2>3, <2>4, <2>5 DEF RunStep
<1>4. ASSUME NEW r \in Runs, NEW e \in Execs, NEW how \in Policies,
             StartGate(r, e, how) \/ CliResolve(r, e, how)
      PROVE  HistoryInv'
  <2>1. still /\ \E l \in {"gated", "reading"} : moves(r, l)
    BY <1>4 DEF StartGate, CliResolve, Goto
  <2> QED BY <1>1, <1>2, <2>1 DEF PreInsert
<1>5. ASSUME NEW r \in Runs, NEW row \in Rows, NEW kind \in Kinds, Outcome(r, row, kind)
      PROVE  HistoryInv'
  <2>1. /\ pc[r] = "running" /\ attState[r] # "gone" /\ UNCHANGED <<attState, started, pc>>
        /\ log' = [log EXCEPT ![r][row] = kind]
    BY <1>5 DEF Outcome
  <2>2. attState[r] # "none"
    BY <2>1 DEF HistoryInv, PreInsert
  <2>3. log' \in [Runs -> [Rows -> Kinds \cup {"none"}]]
    BY <2>1 DEF HistoryInv
  <2>4. \A q \in Runs : q # r => log'[q] = log[q]
    BY <2>1 DEF HistoryInv
  <2> QED BY <2>1, <2>2, <2>3, <2>4 DEF HistoryInv
<1>6. ASSUME NEW r \in Runs, GrowsQuiet(r) PROVE HistoryInv'
  BY <1>2, <1>6 DEF GrowsQuiet
<1>7. ASSUME NEW victims, NEW half, Dies(victims, half) PROVE HistoryInv'
  <2>1. still /\ pc' = [r \in Runs |-> IF r \in victims THEN "dead" ELSE pc[r]]
    BY <1>7 DEF Dies
  <2> QED BY <1>2, <2>1
<1>8. ASSUME NEW p \in Procs, Open(p) PROVE HistoryInv'
  <2>1. /\ UNCHANGED <<pc, started, log>>
        /\ attState' = [r \in Runs |-> IF r \in Orphans THEN "aborted" ELSE attState[r]]
    BY <1>8 DEF Open
  <2>2. \A r \in Orphans : attState[r] = "running"
    BY DEF Orphans
  <2> QED BY <1>2, <2>1, <2>2 DEF Terminal
<1>9. ASSUME NEW p \in Procs, NEW e \in Execs, DeleteGate(p, e) PROVE HistoryInv'
  BY <1>2, <1>9 DEF DeleteGate
<1>10. ASSUME NEW p \in Procs, DeleteRegistry(p) PROVE HistoryInv'
  BY <1>2, <1>10 DEF DeleteRegistry
<1>11. ASSUME NEW p \in Procs, DeleteRows(p) PROVE HistoryInv'
  <2> DEFINE gone == Attempts(delExec[p])
  <2>1. /\ UNCHANGED <<pc, started>>
        /\ attState' = [r \in Runs |-> IF r \in gone THEN "gone" ELSE attState[r]]
        /\ log' = [r \in Runs |-> IF r \in gone THEN NoLog ELSE log[r]]
    BY <1>11 DEF DeleteRows
  <2>2. \A r \in gone : attState[r] # "none"
    BY DEF Attempts, Terminal
  <2>3. NoLog \in [Rows -> Kinds \cup {"none"}]
    BY DEF NoLog
  <2> HIDE DEF gone
  <2>4. log' \in [Runs -> [Rows -> Kinds \cup {"none"}]]
    BY <2>1, <2>3 DEF HistoryInv
  <2>5. \A i \in DOMAIN started : started[i] \in Runs
    BY DEF HistoryInv
  <2>6. \A r \in Runs : attState'[r] = "none" <=> attState[r] = "none"
    BY <2>1, <2>2
  <2>7. \A r \in Runs : attState'[r] \in {"none", "gone"} => log'[r] = NoLog
    BY <2>1 DEF HistoryInv
  <2> QED BY <2>1, <2>4, <2>5, <2>6, <2>7 DEF HistoryInv
<1>12. ASSUME NEW e \in Execs, NEW s \in ExecutionState, SetState(e, s) PROVE HistoryInv'
  BY <1>2, <1>12 DEF SetState
<1>13. CASE UNCHANGED vars
  BY <1>2, <1>13 DEF vars
<1>14. ASSUME NEW p \in Procs, NEW half \in SUBSET Runs, ProcessDies(p, half)
       PROVE  HistoryInv'
  BY <1>14, <1>7 DEF ProcessDies
<1>15. ASSUME NEW r \in Runs, NEW half \in SUBSET {r}, CliDies(r, half)
       PROVE  HistoryInv'
  BY <1>15, <1>7 DEF CliDies
<1> QED BY <1>3, <1>4, <1>5, <1>6, <1>8, <1>9, <1>10, <1>11, <1>12, <1>13, <1>14, <1>15
        DEF Next

LEMMA HistoryInvariant == Spec => [](StoreInv /\ IsFun /\ HistoryInv)
<1>1. Init => StoreInv /\ IsFun /\ HistoryInv
  BY StoreInit, HistoryInit
<1>2. StoreInv /\ IsFun /\ HistoryInv /\ [Next]_vars => (StoreInv /\ IsFun /\ HistoryInv)'
  BY StoreStep, HistoryStep
<1> QED BY <1>1, <1>2, PTL DEF Spec

(* The fold over outcomes that compute_resolution is gives every row the    *)
(* state and the exported success that the row's whole history derives, for *)
(* histories of any length and logs of any attempts (WalkDerives), so in    *)
(* every reachable state.                                                   *)
THEOREM ResolutionDerives == Spec => []FoldIsDerivation
<1>1. HistoryInv => FoldIsDerivation
  <2> SUFFICES ASSUME started \in Seq(Runs), NEW e \in Execs, NEW row \in Rows
               PROVE  /\ StateOf(e, row).state = DerivedState(started, Merged(e), log, row)
                      /\ StateOf(e, row).canonical
                           = DerivedCanonical(started, Merged(e), log, row)
    BY DEF HistoryInv, FoldIsDerivation
  <2> QED BY WalkDerives DEF StateOf
<1> QED BY <1>1, HistoryInvariant, PTL

(* A row is resolved when some attempt won it.                              *)
LEMMA ResolvedMeansWon ==
  ASSUME NEW attempts \in Seq(Runs), NEW merged, NEW logs, NEW row
  PROVE  per_seq(attempts, merged, logs, row).state = "Resolved"
           <=> Wins(attempts, merged, logs, row) # {}
<1>1. /\ \A k : classify_failure(k) # "Resolved"
      /\ NeverAttempted.state # "Resolved"
  BY DEF classify_failure, NeverAttempted
<1>2. Wins(attempts, merged, logs, row) \subseteq Said(attempts, merged, logs, row)
  BY DEF Wins, Said
<1> QED BY <1>1, <1>2, WalkSummary DEF Summary

(* The list of the attempts only grows, by one that had no row before.      *)
LEMMA HistoryGrows ==
  ASSUME StoreInv, IsFun, HistoryInv, [Next]_vars
  PROVE  /\ \A i \in DOMAIN started : i \in DOMAIN started' /\ started'[i] = started[i]
         /\ \A i \in DOMAIN started' \ DOMAIN started :
              /\ i = Len(started) + 1 /\ started' = Append(started, started'[i])
              /\ started'[i] \in Runs /\ pc[started'[i]] = "inserting"
<1>1. CASE UNCHANGED started
  BY <1>1
<1>2. CASE \E r \in Runs : pc[r] = "inserting" /\ started' = Append(started, r)
  <2>1. PICK r \in Runs : pc[r] = "inserting" /\ started' = Append(started, r)
    BY <1>2
  <2>2. /\ Len(started) \in Nat /\ DOMAIN started = 1..Len(started)
        /\ DOMAIN started' = 1..(Len(started) + 1) /\ started'[Len(started) + 1] = r
        /\ \A i \in DOMAIN started : started'[i] = started[i]
    BY <2>1 DEF HistoryInv
  <2> QED BY <2>1, <2>2
<1>3. ASSUME NEW r \in Runs, RunStep(r)
      PROVE  UNCHANGED started \/ (pc[r] = "inserting" /\ started' = Append(started, r))
  BY <1>3 DEF RunStep, CanStart, CreateRead, StudioInsert, CliInsert, Insert, Register,
       ComputeSkip, PipelineEnds, FinishUpdate, FinishRead, FinishBump, RemoveSession, storeVars
<1> QED BY <1>1, <1>2, <1>3
        DEF Next, vars, StartGate, CliResolve, Outcome, GrowsQuiet, CliDies, ProcessDies, Dies,
            Open, DeleteGate, DeleteRegistry, DeleteRows, SetState, storeVars

(* What an attempt with a verdict recorded stays, unless its execution goes. *)
LEMMA RecordKept ==
  ASSUME StoreInv, IsFun, HistoryInv, [Next]_vars, NEW r \in Runs, attState[r] \in Terminal
  PROVE  \/ execState'[target[r]] = "deleted"
         \/ /\ attState'[r] = attState[r] /\ target'[r] = target[r]
            /\ \A row \in Rows : log[r][row] # "none" => log'[r][row] = log[r][row]
<1> DEFINE kept == /\ attState'[r] = attState[r] /\ target'[r] = target[r]
                   /\ \A row \in Rows : log[r][row] # "none" => log'[r][row] = log[r][row]
<1> USE DEF storeVars, diskVars, runVars, procVars
<1>1. /\ attState = [q \in Runs |-> attState[q]] /\ target = [q \in Runs |-> target[q]]
      /\ pc[r] \notin PreInsert /\ attState[r] # "running"
  BY DEF StoreInv, Terminal
<1>2. CASE UNCHANGED <<attState, target, log>>
  BY <1>2
<1>3. ASSUME NEW q \in Runs, RunStep(q) PROVE kept
  <2>1. CASE StudioInsert(q) \/ CliInsert(q)
    <3>1. /\ pc[q] = "inserting" /\ UNCHANGED <<target, log>>
          /\ attState' = attState \/ attState' = [attState EXCEPT ![q] = "running"]
      BY <2>1 DEF StudioInsert, CliInsert, Insert
    <3> QED BY <1>1, <3>1 DEF PreInsert
  <2>2. CASE FinishUpdate(q)
    <3>1. /\ UNCHANGED <<target, log>>
          /\ attState' = attState \/ \E v : attState[q] = "running" /\ attState' = [attState EXCEPT ![q] = v]
      BY <2>2 DEF FinishUpdate
    <3> QED BY <1>1, <3>1
  <2>3. CASE UNCHANGED <<attState, target, log>>
    BY <2>3
  <2> QED BY <1>3, <2>1, <2>2, <2>3
          DEF RunStep, CanStart, CreateRead, Register, ComputeSkip, PipelineEnds, FinishRead,
              FinishBump, RemoveSession
<1>4. ASSUME NEW q \in Runs, NEW e \in Execs, NEW how \in Policies,
             StartGate(q, e, how) \/ CliResolve(q, e, how)
      PROVE  kept
  <2>1. pc[q] = "idle" /\ UNCHANGED <<attState, log>> /\ target' = [target EXCEPT ![q] = e]
    BY <1>4 DEF StartGate, CliResolve
  <2> QED BY <1>1, <2>1 DEF PreInsert
<1>5. ASSUME NEW q \in Runs, NEW row \in Rows, NEW kind \in Kinds, Outcome(q, row, kind)
      PROVE  kept
  <2>1. /\ UNCHANGED <<attState, target>> /\ log[q][row] = "none"
        /\ log' = [log EXCEPT ![q][row] = kind]
    BY <1>5 DEF Outcome
  <2>2. \A x \in Rows : log[r][x] # "none" => log'[r][x] = log[r][x]
    BY <2>1 DEF HistoryInv
  <2> QED BY <2>1, <2>2
<1>6. ASSUME NEW p \in Procs, Open(p) PROVE kept
  BY <1>1, <1>6 DEF Open, Orphans
<1>7. ASSUME NEW p \in Procs, DeleteRows(p)
      PROVE  kept \/ execState'[target[r]] = "deleted"
  <2> DEFINE gone == Attempts(delExec[p])
  <2>1. /\ UNCHANGED target
        /\ attState' = [q \in Runs |-> IF q \in gone THEN "gone" ELSE attState[q]]
        /\ log' = [q \in Runs |-> IF q \in gone THEN NoLog ELSE log[q]]
        /\ execState' = [execState EXCEPT ![delExec[p]] = "deleted"]
    BY <1>7 DEF DeleteRows
  <2>2. CASE r \in gone
    <3>1. target[r] = delExec[p] /\ target[r] \in Execs
      BY <2>2 DEF Attempts, StoreInv, Active, Terminal
    <3>2. execState'[target[r]] = "deleted"
      BY <2>1, <3>1 DEF StoreInv
    <3> QED BY <3>2
  <2>3. CASE r \notin gone
    BY <2>1, <2>3
  <2> QED BY <2>2, <2>3
<1> QED BY <1>2, <1>3, <1>4, <1>5, <1>6, <1>7
        DEF Next, vars, GrowsQuiet, CliDies, ProcessDies, Dies, DeleteGate, DeleteRegistry,
            SetState

(* A win stays one.                                                         *)
LEMMA WinKept ==
  ASSUME StoreInv, IsFun, HistoryInv, [Next]_vars, NEW e \in Execs, NEW row \in Rows,
         NEW i \in Wins(started, Merged(e), log, row)
  PROVE  execState'[e] = "deleted" \/ i \in Wins(started, Merged(e), log, row)'
<1> DEFINE r == started[i]
<1>1. i \in DOMAIN started /\ r \in Merged(e) /\ log[r][row] = "success"
  BY DEF Wins
<1>2. r \in Runs /\ target[r] = e /\ attState[r] \in Terminal
  BY <1>1 DEF Merged, Attempts
<1>3. i \in DOMAIN started' /\ started'[i] = r
  BY <1>1, HistoryGrows
<1> HIDE DEF r
<1>4. ASSUME execState'[e] # "deleted"
      PROVE  r \in Merged(e)' /\ log'[r][row] = "success"
  <2>1. attState'[r] = attState[r] /\ target'[r] = target[r] /\ log'[r][row] = "success"
    BY <1>1, <1>2, <1>4, RecordKept
  <2> QED BY <1>2, <2>1 DEF Merged, Attempts
<1> QED BY <1>3, <1>4 DEF Wins

(* A row that is resolved stays resolved until its execution is deleted:    *)
(* some attempt with a verdict has a success of it, and neither verdict nor *)
(* success is taken back (R2).                                              *)
THEOREM ResolvedForGood == Spec => ResolvedIsAbsorbing
<1> DEFINE Stays ==
      \A e \in Execs, row \in Rows :
        StateOf(e, row).state = "Resolved" =>
          StateOf(e, row)'.state = "Resolved" \/ ~Exists(e)'
<1>1. StoreInv /\ IsFun /\ HistoryInv /\ HistoryInv' /\ [Next]_vars => [Stays]_vars
  <2> SUFFICES ASSUME StoreInv, IsFun, HistoryInv, HistoryInv', [Next]_vars,
                      NEW e \in Execs, NEW row \in Rows, StateOf(e, row).state = "Resolved",
                      execState'[e] # "deleted"
               PROVE  StateOf(e, row)'.state = "Resolved"
    BY DEF Exists
  <2>1. started \in Seq(Runs) /\ started' \in Seq(Runs)
    BY DEF HistoryInv
  <2>2. Wins(started, Merged(e), log, row) # {}
    BY <2>1, ResolvedMeansWon DEF StateOf
  <2>3. Wins(started, Merged(e), log, row)' # {}
    BY <2>2, WinKept
  <2>4. per_seq(started', Merged(e)', log', row).state = "Resolved"
    BY <2>1, <2>3, ResolvedMeansWon
  <2> QED BY <2>4 DEF StateOf
<1> QED BY <1>1, HistoryInvariant, PTL DEF Spec, ResolvedIsAbsorbing

-----------------------------------------------------------------------------
(* One window: a process makes every run, one call of start_run at a time,  *)
(* and does not open the workspace a second time while it lives. Others may *)
(* open it too, scan it for orphans and delete executions.                  *)

OneWindow(p) ==
  /\ p \in Procs /\ Home = [r \in Runs |-> p]
  /\ ~Overlap /\ "reopen" \notin Events

Calling  == {"gated", "reading", "inserting", "created", "registered"}
Unstored == {"gated", "reading", "inserting"}
Admitted == {"reading", "inserting", "created"} \cup Live

(* The inductive invariant of OneRunPerExecution: what the gate on the      *)
(* store found out holds until the insert, and what the gate on the         *)
(* registry found out holds until the session is registered.                *)
WindowInv(p) ==
  /\ core = [r \in Runs |-> core[r]] /\ coreOf = [q \in Procs |-> coreOf[q]]
  /\ \A r \in Runs : pc[r] \in Alive => core[r] = coreOf[p] /\ coreOf[p] # 0
  /\ \A r, s \in Runs : pc[r] \in Calling /\ pc[s] \in Calling => r = s
  /\ \A r \in Runs : pc[r] \in Live => r \in sessions
  /\ \A r \in Runs : pc[r] \in Unstored =>
       \A s \in Runs : target[s] = target[r] => attState[s] # "running"
  /\ \A r, s \in Runs :
       r # s /\ pc[r] \in Admitted /\ pc[s] \in Live => target[r] # target[s]
  /\ \A r, s \in Runs :
       attState[r] = "running" /\ attState[s] = "running" /\ target[r] = target[s] => r = s

LEMMA InitWindow == ASSUME NEW p, OneWindow(p) PROVE Init => WindowInv(p)
BY DEF Init, WindowInv, OneWindow, Alive, Calling, Unstored, Live

(* Runs that go on to a label they may reach leave the invariant alone when *)
(* they come no closer to a row or to the registry.                         *)
LEMMA WindowRunStep ==
  ASSUME NEW p, OneWindow(p), StoreInv, IsFun, WindowInv(p), NEW r \in Runs, RunStep(r)
  PROVE  WindowInv(p)'
<1> USE DEF WindowInv, Alive, Calling, Unstored, Live, Admitted, PreInsert
<1>1. UNCHANGED <<core, coreOf, target>>
  BY DEF RunStep, CanStart, CreateRead, StudioInsert, CliInsert, Insert, Register,
         ComputeSkip, PipelineEnds, FinishUpdate, FinishRead, FinishBump, RemoveSession,
         procVars
<1>2. pc = [q \in Runs |-> pc[q]] /\ attState \in [Runs -> {"none", "gone"} \cup Active]
  BY DEF StoreInv, IsFun
<1>3. CASE CanStart(r)
  <2>1. /\ pc[r] = "gated" /\ UNCHANGED <<attState, sessions>>
        /\ pc' = [pc EXCEPT ![r] = IF can_start(r) THEN "reading" ELSE "done"]
    BY <1>3 DEF CanStart, Goto, storeVars, procVars
  <2>2. can_start(r) => \A s \in Runs : pc[s] \in Live => target[s] # target[r]
    BY <2>1 DEF can_start, Sessions
  <2>3. CASE can_start(r)
    <3>1. \A q \in Runs : pc'[q] = IF q = r THEN "reading" ELSE pc[q]
      BY <1>2, <2>1, <2>3
    <3> QED BY <1>1, <2>1, <2>2, <2>3, <3>1
  <2>4. CASE ~can_start(r)
    <3>1. \A q \in Runs : pc'[q] = IF q = r THEN "done" ELSE pc[q]
      BY <1>2, <2>1, <2>4
    <3> QED BY <1>1, <2>1, <3>1
  <2> QED BY <2>3, <2>4
<1>4. CASE CreateRead(r)
  <2>1. /\ pc[r] = "reading" /\ UNCHANGED <<attState, sessions>>
        /\ \E label \in {"inserting", "done"} : pc' = [pc EXCEPT ![r] = label]
    BY <1>4 DEF CreateRead, Goto, storeVars, procVars
  <2> QED BY <1>1, <1>2, <2>1
<1>5. CASE StudioInsert(r)
  <2>1. pc[r] = "inserting" /\ UNCHANGED sessions
    BY <1>5 DEF StudioInsert, Insert, procVars
  <2>2. CASE Exists(target[r])
    <3>1. attState' = [attState EXCEPT ![r] = "running"] /\ pc' = [pc EXCEPT ![r] = "created"]
      BY <1>5, <2>2 DEF StudioInsert, Insert, Goto
    <3>2. /\ \A q \in Runs : pc'[q] = IF q = r THEN "created" ELSE pc[q]
          /\ \A q \in Runs : attState'[q] = IF q = r THEN "running" ELSE attState[q]
      BY <1>2, <3>1
    <3> QED BY <1>1, <2>1, <3>2
  <2>3. CASE ~Exists(target[r])
    <3>1. attState' = attState /\ pc' = [pc EXCEPT ![r] = "done"]
      BY <1>5, <2>3 DEF StudioInsert, Insert, Goto
    <3>2. \A q \in Runs : pc'[q] = IF q = r THEN "done" ELSE pc[q]
      BY <1>2, <3>1
    <3> QED BY <1>1, <2>1, <3>1, <3>2
  <2> QED BY <2>2, <2>3
<1>6. CASE Register(r)
  <2>1. /\ pc[r] = "created" /\ UNCHANGED attState /\ sessions' = sessions \cup {r}
        /\ \A q \in Runs : pc'[q] = IF q = r THEN "registered" ELSE pc[q]
    BY <1>2, <1>6 DEF Register, Goto, storeVars
  <2> QED BY <1>1, <2>1
<1>7. CASE ComputeSkip(r)
  <2>1. /\ pc[r] = "registered" /\ UNCHANGED <<attState, sessions>>
        /\ \A q \in Runs : pc'[q] = IF q = r THEN "running" ELSE pc[q]
    BY <1>2, <1>7 DEF ComputeSkip, Goto, storeVars, procVars
  <2> QED BY <1>1, <2>1
<1>8. CASE CliInsert(r)
  BY <1>8 DEF CliInsert, Insert
<1>9. CASE \E how \in {"failed"} \cup Terminal : PipelineEnds(r, how)
  <2>1. /\ pc[r] = "running" /\ UNCHANGED <<attState, sessions>>
        /\ \A q \in Runs : pc'[q] = IF q = r THEN "ended" ELSE pc[q]
    BY <1>2, <1>9 DEF PipelineEnds, Goto, storeVars, procVars
  <2> QED BY <1>1, <2>1
<1>10. CASE FinishUpdate(r)
  <2>1. /\ pc[r] = "ended" /\ UNCHANGED sessions
        /\ \E label \in {"finishing", "done", "finished"} : pc' = [pc EXCEPT ![r] = label]
        /\ attState' = attState \/ \E v \in Terminal : attState' = [attState EXCEPT ![r] = v]
    BY <1>10 DEF FinishUpdate, Goto, procVars, Terminal
  <2>2. \A q \in Runs : attState'[q] = "running" => attState[q] = "running"
    BY <1>2, <2>1 DEF Terminal
  <2>3. PICK label \in {"finishing", "done", "finished"} :
          \A q \in Runs : pc'[q] = IF q = r THEN label ELSE pc[q]
    BY <1>2, <2>1
  <2> QED BY <1>1, <2>1, <2>2, <2>3
<1>11. CASE FinishRead(r)
  <2> DEFINE label == IF execState[target[r]] = "open" THEN "bumping"
                      ELSE IF core[r] = 0 THEN "done" ELSE "finished"
  <2>1. /\ pc[r] = "finishing" /\ UNCHANGED <<attState, sessions>>
        /\ pc' = [pc EXCEPT ![r] = label]
    BY <1>11 DEF FinishRead, Goto, storeVars, procVars
  <2>2. label \in {"bumping", "done", "finished"}
    OBVIOUS
  <2> HIDE DEF label
  <2>3. \A q \in Runs : pc'[q] = IF q = r THEN label ELSE pc[q]
    BY <1>2, <2>1
  <2> QED BY <1>1, <2>1, <2>2, <2>3
<1>12. CASE FinishBump(r)
  <2>1. /\ pc[r] = "bumping" /\ UNCHANGED <<attState, sessions>>
        /\ \E label \in {"done", "finished"} : pc' = [pc EXCEPT ![r] = label]
    BY <1>12 DEF FinishBump, Goto, procVars
  <2> QED BY <1>1, <1>2, <2>1
<1>13. CASE RemoveSession(r)
  <2>1. /\ pc[r] = "finished" /\ UNCHANGED attState /\ sessions' = sessions \ {r}
        /\ \A q \in Runs : pc'[q] = IF q = r THEN "done" ELSE pc[q]
    BY <1>2, <1>13 DEF RemoveSession, Goto, storeVars
  <2> QED BY <1>1, <2>1
<1> QED BY <1>3, <1>4, <1>5, <1>6, <1>7, <1>8, <1>9, <1>10, <1>11, <1>12, <1>13 DEF RunStep

(* A call begins when no other is under way and no attempt is running.      *)
LEMMA WindowCall ==
  ASSUME NEW p, OneWindow(p), StoreInv, IsFun, WindowInv(p), NEW r \in Runs, NEW e \in Execs,
         NEW how \in Policies, StartGate(r, e, how) \/ CliResolve(r, e, how)
  PROVE  WindowInv(p)'
<1> USE DEF WindowInv, Alive, Calling, Unstored, Live, Admitted, PreInsert
<1>1. Home[r] = p /\ Home[r] # "cli"
  BY ExecutionsAssumption DEF OneWindow
<1>2. StartGate(r, e, how)
  BY <1>1 DEF CliResolve
<1>3. /\ pc[r] = "idle" /\ coreOf[p] # 0
      /\ UNCHANGED <<attState, sessions, coreOf>>
      /\ pc' = [pc EXCEPT ![r] = "gated"] /\ target' = [target EXCEPT ![r] = e]
      /\ core' = [core EXCEPT ![r] = coreOf[p]]
      /\ NoCallUnderWay(coreOf[p]) /\ ~has_active_attempt(e)
  BY <1>1, <1>2 DEF StartGate, Goto, storeVars, procVars, OneWindow
<1>4. /\ pc = [q \in Runs |-> pc[q]] /\ target \in [Runs -> Execs \cup {"none"}]
      /\ attState[r] = "none"
  BY <1>3 DEF StoreInv, IsFun
<1>5. /\ \A q \in Runs : pc'[q] = IF q = r THEN "gated" ELSE pc[q]
      /\ \A q \in Runs : target'[q] = IF q = r THEN e ELSE target[q]
      /\ \A q \in Runs : core'[q] = IF q = r THEN coreOf[p] ELSE core[q]
      /\ core' = [q \in Runs |-> core'[q]]
  BY <1>3, <1>4
<1>6. \A q \in Runs : pc[q] \notin Calling
  BY <1>3 DEF NoCallUnderWay
<1>7. \A q \in Runs : target[q] = e => attState[q] # "running"
  BY <1>3 DEF has_active_attempt, Attempts
<1> QED BY <1>3, <1>4, <1>5, <1>6, <1>7

LEMMA WindowOtherStep ==
  ASSUME NEW p, OneWindow(p), StoreInv, IsFun, WindowInv(p),
         \/ \E r \in Runs, row \in Rows, kind \in Kinds : Outcome(r, row, kind)
         \/ \E r \in Runs : GrowsQuiet(r)
         \/ \E q \in Procs : DeleteRegistry(q) \/ \E e \in Execs : DeleteGate(q, e)
         \/ \E e \in Execs, s \in ExecutionState : SetState(e, s)
         \/ UNCHANGED vars
  PROVE  WindowInv(p)'
<1>1. UNCHANGED <<pc, core, coreOf, target, attState, sessions>>
  BY DEF Outcome, GrowsQuiet, DeleteRegistry, DeleteGate, SetState, vars, storeVars,
         runVars, procVars
<1> QED BY <1>1 DEF WindowInv

(* Deletions and orphan scans leave fewer attempts running; whoever dies    *)
(* leaves the registry with all its runs; only a process without runs opens.*)
LEMMA WindowProcStep ==
  ASSUME NEW p, OneWindow(p), StoreInv, IsFun, WindowInv(p), NEW q \in Procs,
         Open(q) \/ DeleteRows(q) \/ \E half \in SUBSET Runs : ProcessDies(q, half)
  PROVE  WindowInv(p)'
<1> USE DEF WindowInv, Alive, Calling, Unstored, Live, Admitted
<1>1. /\ pc = [r \in Runs |-> pc[r]] /\ attState \in [Runs -> {"none", "gone"} \cup Active]
      /\ p \in Procs /\ \A r \in Runs : Home[r] = p
  BY DEF StoreInv, IsFun, OneWindow
<1>2. CASE Open(q)
  <2>1. /\ UNCHANGED <<pc, core, target, sessions>>
        /\ coreOf' = [coreOf EXCEPT ![q] = cores + 1] /\ coreOf[q] = 0
        /\ \A r \in Runs : attState'[r] = "running" => attState[r] = "running"
    BY <1>2 DEF Open, runVars, OneWindow
  <2>2. coreOf' = [x \in Procs |-> IF x = q THEN cores + 1 ELSE coreOf[x]]
    BY <2>1
  <2>3. CASE q = p
    <3>1. \A r \in Runs : pc[r] \notin Alive
      BY <2>1, <2>3
    <3> QED BY <2>1, <2>2, <3>1
  <2>4. CASE q # p
    BY <1>1, <2>1, <2>2, <2>4
  <2> QED BY <2>3, <2>4
<1>3. CASE DeleteRows(q)
  <2>1. /\ UNCHANGED <<pc, core, coreOf, target, sessions>>
        /\ \A r \in Runs : attState'[r] = "running" => attState[r] = "running"
    BY <1>3 DEF DeleteRows, runVars
  <2> QED BY <2>1
<1>4. ASSUME NEW half, ProcessDies(q, half) PROVE WindowInv(p)'
  <2> DEFINE victims == {r \in Runs : Home[r] = q /\ pc[r] \in Alive}
  <2>1. /\ UNCHANGED <<core, target, attState>> /\ sessions' = sessions \ victims
        /\ pc' = [r \in Runs |-> IF r \in victims THEN "dead" ELSE pc[r]]
        /\ coreOf' = [coreOf EXCEPT ![q] = 0]
    BY <1>4 DEF ProcessDies, Dies, storeVars
  <2>2. coreOf' = [x \in Procs |-> IF x = q THEN 0 ELSE coreOf[x]]
    BY <2>1
  <2>3. CASE q = p
    <3>1. \A r \in Runs : pc'[r] \notin Alive
      BY <1>1, <2>1, <2>3
    <3> QED BY <2>1, <2>2, <3>1
  <2>4. CASE q # p
    <3>1. victims = {}
      BY <1>1, <2>4
    <3>2. \A r \in Runs : pc'[r] = pc[r]
      BY <2>1, <3>1
    <3> QED BY <1>1, <2>1, <2>2, <2>4, <3>1, <3>2
  <2> QED BY <2>3, <2>4
<1> QED BY <1>2, <1>3, <1>4

LEMMA WindowStep ==
  ASSUME NEW p, OneWindow(p)
  PROVE  StoreInv /\ IsFun /\ WindowInv(p) /\ [Next]_vars => WindowInv(p)'
<1> SUFFICES ASSUME StoreInv, IsFun, WindowInv(p), [Next]_vars PROVE WindowInv(p)'
  OBVIOUS
<1>1. \A r \in Runs : \A half : ~CliDies(r, half)
  BY ExecutionsAssumption DEF OneWindow, CliDies
<1> QED BY <1>1, WindowRunStep, WindowCall, WindowOtherStep, WindowProcStep DEF Next

LEMMA WindowInvariant ==
  ASSUME NEW p, OneWindow(p)
  PROVE  Spec => [](StoreInv /\ IsFun /\ WindowInv(p))
<1>1. Init => StoreInv /\ IsFun /\ WindowInv(p)
  BY StoreInit, InitWindow
<1>2. StoreInv /\ IsFun /\ WindowInv(p) /\ [Next]_vars => (StoreInv /\ IsFun /\ WindowInv(p))'
  BY StoreStep, WindowStep
<1> QED BY <1>1, <1>2, PTL DEF Spec

(* In one window, never two pipelines of an execution and never two         *)
(* attempts of it running, whatever crashes, orphan scans and deletions of  *)
(* others come between (the two gates of start_run, which lie apart).       *)
THEOREM OneRunInAWindow ==
  ASSUME NEW p, OneWindow(p)
  PROVE  Spec => []OneRunPerExecution
<1>1. WindowInv(p) => OnePipelinePerExecution
  BY DEF WindowInv, OnePipelinePerExecution, Admitted
<1>2. WindowInv(p) => OneActiveAttempt
  <2> SUFFICES ASSUME WindowInv(p), NEW e \in Execs
               PROVE  Cardinality({r \in Attempts(e) : attState[r] = "running"}) <= 1
    BY DEF OneActiveAttempt
  <2> DEFINE busy == {r \in Attempts(e) : attState[r] = "running"}
  <2>1. \A r, s \in busy : r = s
    BY DEF WindowInv, Attempts
  <2> HIDE DEF busy
  <2>2. CASE busy = {}
    BY <2>2, FS_EmptySet DEF busy
  <2>3. CASE busy # {}
    <3>1. PICK r : busy = {r}
      BY <2>1, <2>3
    <3>2. Cardinality(busy) = 1
      BY <3>1, FS_Singleton
    <3> QED BY <3>2 DEF busy
  <2> QED BY <2>2, <2>3
<1> QED BY <1>1, <1>2, WindowInvariant, PTL DEF OneRunPerExecution

(* In one window an earlier attempt of the same execution is over when a    *)
(* later one is inserted, and its log with it.                              *)
Going == {"idle"} \cup Calling \cup Live

TornBefore(r) == \E q \in Runs : Before(q, r) /\ target[q] = target[r] /\ q \in torn

(* No row of r that s recorded before, up to what a torn log hides.         *)
Disjoint(s, r) ==
  TornBefore(r) \/ \A row \in Rows :
    /\ log[r][row] = "none" \/ log[s][row] = "none"
    /\ pc[r] = "running" => log[s][row] = "none" \/ row \in skip[r]

SerialInv ==
  \A r, s \in Runs : Before(s, r) /\ target[s] = target[r] =>
    /\ attState[s] # "running" /\ pc[s] \notin Going
    /\ policy[r] = "skip" => Disjoint(s, r)

(* Half a line is what a process left that died.                            *)
CallInv == /\ skip = [r \in Runs |-> skip[r]] /\ policy = [r \in Runs |-> policy[r]]
           /\ \A r \in Runs : r \in torn => pc[r] = "dead"

(* The order of the attempts after a step: the same, but for one attempt    *)
(* that was inserted and comes last.                                        *)
LEMMA OrderKept ==
  ASSUME StoreInv, IsFun, HistoryInv, [Next]_vars, NEW s \in Runs, NEW r \in Runs, Before(s, r)'
  PROVE  \/ Before(s, r)
         \/ pc[r] = "inserting" /\ started' = Append(started, r) /\ s # r /\ attState[s] # "none"
<1>1. PICK i \in DOMAIN started', j \in DOMAIN started' :
        i < j /\ started'[i] = s /\ started'[j] = r
  BY DEF Before
<1>2. /\ \A k \in DOMAIN started : k \in DOMAIN started' /\ started'[k] = started[k]
      /\ \A k \in DOMAIN started' \ DOMAIN started :
           /\ k = Len(started) + 1 /\ started' = Append(started, started'[k])
           /\ started'[k] \in Runs /\ pc[started'[k]] = "inserting"
  BY HistoryGrows
<1>3. Len(started) \in Nat /\ DOMAIN started = 1..Len(started)
  BY DEF HistoryInv
<1>4. CASE j \in DOMAIN started
  <2>1. i \in DOMAIN started
    BY <1>1, <1>2, <1>3, <1>4
  <2> QED BY <1>1, <1>2, <1>4, <2>1 DEF Before
<1>5. CASE j \notin DOMAIN started
  <2>1. j = Len(started) + 1 /\ started' = Append(started, r) /\ pc[r] = "inserting"
    BY <1>1, <1>2, <1>5
  <2>2. i \in DOMAIN started /\ started[i] = s
    BY <1>1, <1>2, <1>3, <2>1
  <2>3. attState[s] # "none" /\ attState[r] = "none"
    BY <2>1, <2>2 DEF HistoryInv, StoreInv, PreInsert
  <2> QED BY <2>1, <2>3
<1> QED BY <1>4, <1>5

(* An attempt that another one precedes was inserted.                       *)
LEMMA BeforeInserted ==
  ASSUME HistoryInv, StoreInv, NEW s \in Runs, NEW r \in Runs, Before(s, r)
  PROVE  attState[s] # "none" /\ attState[r] # "none"
         /\ pc[s] \notin PreInsert /\ pc[r] \notin PreInsert
BY DEF HistoryInv, StoreInv, Before

LEMMA BeforeStays ==
  ASSUME StoreInv, IsFun, HistoryInv, [Next]_vars, NEW s \in Runs, NEW r \in Runs, Before(s, r)
  PROVE  Before(s, r)'
BY HistoryGrows DEF Before

(* A run that is over stays over, and its log stays or goes.                *)
LEMMA OverStays ==
  ASSUME StoreInv, IsFun, HistoryInv, [Next]_vars, NEW s \in Runs,
         attState[s] \notin {"none", "running"}, pc[s] \notin Going
  PROVE  /\ attState'[s] \notin {"none", "running"} /\ pc'[s] \notin Going
         /\ log'[s] \in {log[s], NoLog}
<1> DEFINE kept == /\ attState'[s] \notin {"none", "running"} /\ pc'[s] \notin Going
                   /\ log'[s] \in {log[s], NoLog}
<1> USE DEF storeVars, diskVars, runVars, procVars, Going, Calling, Live
<1>1. attState = [q \in Runs |-> attState[q]] /\ pc = [q \in Runs |-> pc[q]]
  BY DEF StoreInv, IsFun
<1>2. CASE UNCHANGED <<attState, pc, log>>
  BY <1>2
<1>3. ASSUME NEW q \in Runs, RunStep(q) PROVE kept
  <2>1. CASE pc[q] \in Going
    <3>1. /\ UNCHANGED log /\ \E l : pc' = [pc EXCEPT ![q] = l]
          /\ attState' = attState \/ \E v : attState' = [attState EXCEPT ![q] = v]
      BY <1>3, <2>1
      DEF RunStep, CanStart, CreateRead, StudioInsert, CliInsert, Insert, Register, ComputeSkip,
          PipelineEnds, FinishUpdate, FinishRead, FinishBump, RemoveSession, Goto
    <3> QED BY <1>1, <2>1, <3>1
  <2>2. CASE pc[q] \notin Going
    <3>1. /\ UNCHANGED <<log, attState>>
          /\ \E l \in {"bumping", "done", "finished"} : pc' = [pc EXCEPT ![q] = l]
      BY <1>3, <2>2
      DEF RunStep, CanStart, CreateRead, StudioInsert, CliInsert, Insert, Register, ComputeSkip,
          PipelineEnds, FinishUpdate, FinishRead, FinishBump, RemoveSession, Goto
    <3> QED BY <1>1, <3>1
  <2> QED BY <2>1, <2>2
<1>4. ASSUME NEW q \in Runs, NEW e \in Execs, NEW how \in Policies,
             StartGate(q, e, how) \/ CliResolve(q, e, how)
      PROVE  kept
  <2>1. pc[q] = "idle" /\ UNCHANGED <<attState, log>> /\ \E l : pc' = [pc EXCEPT ![q] = l]
    BY <1>4 DEF StartGate, CliResolve, Goto
  <2> QED BY <1>1, <2>1
<1>5. ASSUME NEW q \in Runs, NEW row \in Rows, NEW kind \in Kinds, Outcome(q, row, kind)
      PROVE  kept
  <2>1. /\ UNCHANGED <<attState, pc>> /\ pc[q] = "running"
        /\ log' = [log EXCEPT ![q][row] = kind]
    BY <1>5 DEF Outcome
  <2>2. log'[s] = log[s]
    BY <2>1 DEF HistoryInv
  <2> QED BY <2>1, <2>2
<1>6. ASSUME NEW p \in Procs, Open(p) PROVE kept
  BY <1>1, <1>6 DEF Open, Orphans
<1>7. ASSUME NEW p \in Procs, DeleteRows(p) PROVE kept
  BY <1>1, <1>7 DEF DeleteRows
<1>8. ASSUME NEW victims, NEW half, Dies(victims, half) PROVE kept
  BY <1>1, <1>8 DEF Dies
<1> QED BY <1>2, <1>3, <1>4, <1>5, <1>6, <1>7, <1>8
        DEF Next, vars, GrowsQuiet, CliDies, ProcessDies, DeleteGate, DeleteRegistry, SetState

(* An attempt keeps its execution and its policy.                           *)
LEMMA CallKept ==
  ASSUME StoreInv, IsFun, HistoryInv, CallInv, [Next]_vars, NEW r \in Runs, attState[r] # "none"
  PROVE  target'[r] = target[r] /\ policy'[r] = policy[r] /\ pc[r] \notin PreInsert
<1>1. pc[r] \notin PreInsert /\ target = [q \in Runs |-> target[q]]
  BY DEF StoreInv
<1>2. CASE UNCHANGED <<target, policy>>
  BY <1>1, <1>2
<1>3. ASSUME NEW q \in Runs, NEW e \in Execs, NEW how \in Policies,
             StartGate(q, e, how) \/ CliResolve(q, e, how)
      PROVE  target'[r] = target[r] /\ policy'[r] = policy[r]
  <2>1. /\ pc[q] = "idle" /\ target' = [target EXCEPT ![q] = e]
        /\ policy' = [policy EXCEPT ![q] = how]
    BY <1>3 DEF StartGate, CliResolve
  <2> QED BY <1>1, <2>1 DEF PreInsert, CallInv
<1>4. ASSUME NEW q \in Runs, RunStep(q) PROVE UNCHANGED <<target, policy>>
  BY <1>4
  DEF RunStep, CanStart, CreateRead, StudioInsert, CliInsert, Insert, Register, ComputeSkip,
      PipelineEnds, FinishUpdate, FinishRead, FinishBump, RemoveSession
<1> QED BY <1>1, <1>2, <1>3, <1>4
        DEF Next, vars, runVars, Outcome, GrowsQuiet, CliDies, ProcessDies, Dies,
            Open, DeleteGate, DeleteRegistry, DeleteRows, SetState

(* What a log says counts as attempted.                                     *)
LEMMA SaidIsAttempted ==
  ASSUME NEW attempts \in Seq(Runs), NEW merged, NEW logs, NEW row \in Rows,
         NEW i \in DOMAIN attempts, attempts[i] \in merged, logs[attempts[i]][row] # "none"
  PROVE  row \in attempted_seqs(attempts, merged, logs)
<1>1. \A k : classify_failure(k) # "NeverAttempted"
  BY DEF classify_failure
<1>2. Said(attempts, merged, logs, row) # {}
  BY DEF Said
<1>3. per_seq(attempts, merged, logs, row).state # "NeverAttempted"
  BY <1>1, <1>2, WalkSummary DEF Summary
<1> QED BY <1>3 DEF attempted_seqs

(* The rows to skip, computed while the run is registered: everything that  *)
(* attempts before it recorded, if their logs can be read.                  *)
LEMMA SkipComputed ==
  ASSUME NEW p, OneWindow(p), StoreInv, IsFun, HistoryInv, WindowInv(p), CallInv, SerialInv,
         NEW r \in Runs, NEW s \in Runs, Before(s, r), target[s] = target[r],
         policy[r] = "skip", ComputeSkip(r)
  PROVE  TornBefore(r) \/ \A row \in Rows : log[s][row] = "none" \/ row \in skip'[r]
<1> DEFINE e == target[r]
<1> SUFFICES ASSUME ~TornBefore(r), NEW row \in Rows, log[s][row] # "none"
             PROVE  row \in skip'[r]
  OBVIOUS
<1>1. pc[r] = "registered" /\ skip' = [skip EXCEPT ![r] =
        IF policy[r] = "skip" /\ Exists(e) /\ Readable(e)
        THEN attempted_seqs(started, Merged(e), log) ELSE {}]
  BY DEF ComputeSkip
<1>2. attState[s] \in Terminal /\ e \in Execs /\ Exists(e)
  <2>1. attState[s] \notin {"none", "gone"}
    <3>1. NoLog[row] = "none"
      BY DEF NoLog
    <3> QED BY <3>1 DEF HistoryInv
  <2>2. attState[s] # "running"
    BY DEF SerialInv
  <2>3. attState[s] \in Active
    BY <2>1 DEF StoreInv
  <2> QED BY <2>2, <2>3 DEF StoreInv, Active, Terminal, Exists
<1>3. s \in Merged(e)
  BY <1>2 DEF Merged, Attempts
<1>4. Readable(e)
  <2> SUFFICES ASSUME NEW q \in Runs, target[q] = e, attState[q] \in Terminal, q \in torn
               PROVE  FALSE
    BY DEF Readable, Attempts
  <2>1. PICK i \in DOMAIN started, j \in DOMAIN started : started[i] = r /\ started[j] = q
    BY BeforeInserted DEF HistoryInv, Terminal
  <2>2. i \in Int /\ j \in Int
    BY DEF HistoryInv
  <2>3. CASE j < i
    BY <2>1, <2>3 DEF Before, TornBefore
  <2>4. CASE i < j
    <3>1. Before(r, q)
      BY <2>1, <2>4 DEF Before
    <3> QED BY <1>1, <3>1 DEF SerialInv, Going, Live
  <2>5. CASE i = j
    BY <1>1, <2>1, <2>5 DEF CallInv
  <2> QED BY <2>2, <2>3, <2>4, <2>5
<1>5. PICK i \in DOMAIN started : started[i] = s
  BY DEF Before
<1>6. row \in attempted_seqs(started, Merged(e), log)
  BY <1>3, <1>5, SaidIsAttempted DEF HistoryInv
<1>7. skip' = [skip EXCEPT ![r] = attempted_seqs(started, Merged(e), log)]
  BY <1>1, <1>2, <1>4
<1> QED BY <1>6, <1>7 DEF CallInv

LEMMA CallStep == StoreInv /\ IsFun /\ CallInv /\ [Next]_vars => CallInv'
<1> SUFFICES ASSUME StoreInv, IsFun, CallInv, [Next]_vars PROVE CallInv'
  OBVIOUS
<1> USE DEF storeVars, diskVars, runVars, procVars, CallInv
<1>1. pc = [q \in Runs |-> pc[q]]
  BY DEF IsFun
<1>2. CASE UNCHANGED <<skip, policy, torn, pc>>
  BY <1>2
<1>3. ASSUME NEW q \in Runs, RunStep(q) PROVE CallInv'
  <2>1. /\ UNCHANGED <<policy, torn>>
        /\ pc[q] # "dead" /\ \E l : pc' = [pc EXCEPT ![q] = l]
        /\ skip' = skip \/ \E v : skip' = [skip EXCEPT ![q] = v]
    BY <1>3
    DEF RunStep, CanStart, CreateRead, StudioInsert, CliInsert, Insert, Register, ComputeSkip,
        PipelineEnds, FinishUpdate, FinishRead, FinishBump, RemoveSession, Goto
  <2> QED BY <1>1, <2>1
<1>4. ASSUME NEW q \in Runs, NEW e \in Execs, NEW how \in Policies,
             StartGate(q, e, how) \/ CliResolve(q, e, how)
      PROVE  CallInv'
  <2>1. /\ UNCHANGED torn /\ pc[q] = "idle" /\ \E l : pc' = [pc EXCEPT ![q] = l]
        /\ policy' = [policy EXCEPT ![q] = how]
        /\ skip' = skip \/ \E v : skip' = [skip EXCEPT ![q] = v]
    BY <1>4 DEF StartGate, CliResolve, Goto
  <2> QED BY <1>1, <2>1
<1>5. ASSUME NEW victims, NEW half, Dies(victims, half) PROVE CallInv'
  BY <1>5 DEF Dies
<1>6. ASSUME NEW p \in Procs, DeleteRows(p) PROVE CallInv'
  BY <1>6 DEF DeleteRows
<1> QED BY <1>2, <1>3, <1>4, <1>5, <1>6
        DEF Next, vars, Outcome, Open, GrowsQuiet, CliDies, ProcessDies, DeleteGate,
            DeleteRegistry, SetState

(* What an earlier attempt recorded and what the run does stay apart.       *)
LEMMA DisjointKept ==
  ASSUME NEW p, OneWindow(p), StoreInv, IsFun, HistoryInv, WindowInv(p), CallInv, SerialInv,
         [Next]_vars, NEW r \in Runs, NEW s \in Runs, Before(s, r), target[s] = target[r],
         policy[r] = "skip"
  PROVE  Disjoint(s, r)'
<1> USE DEF storeVars, diskVars, runVars, procVars
<1>1. /\ pc = [q \in Runs |-> pc[q]]
      /\ pc[s] \notin Going /\ attState[s] \notin {"none", "running"} /\ Disjoint(s, r)
      /\ attState[r] # "none"
  BY BeforeInserted DEF SerialInv, IsFun
<1>2. log'[s] \in {log[s], NoLog}
  BY <1>1, OverStays
<1>3. \A row \in Rows : NoLog[row] = "none"
  BY DEF NoLog
<1>4. ASSUME torn \subseteq torn', TornBefore(r) PROVE TornBefore(r)'
  <2>1. PICK q \in Runs : Before(q, r) /\ target[q] = target[r] /\ q \in torn
    BY <1>4 DEF TornBefore
  <2>2. Before(q, r)' /\ target'[q] = target'[r]
    BY <2>1, BeforeStays, BeforeInserted, CallKept
  <2> QED BY <1>4, <2>1, <2>2 DEF TornBefore
<1>5. ASSUME torn \subseteq torn', log'[r] = log[r], pc'[r] = "running" => pc[r] = "running",
             pc'[r] = "running" => skip'[r] = skip[r]
      PROVE  Disjoint(s, r)'
  BY <1>1, <1>2, <1>3, <1>4, <1>5 DEF Disjoint
<1>6. CASE UNCHANGED <<torn, log, pc, skip>>
  BY <1>5, <1>6
<1>7. ASSUME NEW q \in Runs, RunStep(q) PROVE Disjoint(s, r)'
  <2>1. CASE ComputeSkip(q) /\ q = r
    <3>1. UNCHANGED <<torn, log>> /\ pc[r] = "registered"
      BY <2>1 DEF ComputeSkip
    <3>2. TornBefore(r) \/ \A row \in Rows : log[s][row] = "none" \/ row \in skip'[r]
      BY <2>1, SkipComputed
    <3>3. TornBefore(r) \/ \A row \in Rows : log[r][row] = "none" \/ log[s][row] = "none"
      BY <1>1 DEF Disjoint
    <3> QED BY <1>4, <3>1, <3>2, <3>3 DEF Disjoint
  <2>2. CASE ~(ComputeSkip(q) /\ q = r)
    <3>1. /\ UNCHANGED <<torn, log>>
          /\ \E l : pc' = [pc EXCEPT ![q] = l] /\ (q # r \/ l # "running")
          /\ skip' = skip \/ \E v : skip' = [skip EXCEPT ![q] = v]
      <4>1. ~CliInsert(q)
        BY ExecutionsAssumption DEF CliInsert, Insert, OneWindow, WindowInv, Alive
      <4> QED BY <1>7, <2>2, <4>1
          DEF RunStep, CanStart, CreateRead, StudioInsert, Insert, Register,
              ComputeSkip, PipelineEnds, FinishUpdate, FinishRead, FinishBump, RemoveSession, Goto
    <3>2. pc'[r] = "running" => q # r /\ pc[r] = "running"
      BY <1>1, <3>1
    <3> QED BY <1>5, <3>1, <3>2 DEF CallInv
  <2> QED BY <2>1, <2>2
<1>8. ASSUME NEW q \in Runs, NEW e \in Execs, NEW how \in Policies,
             StartGate(q, e, how) \/ CliResolve(q, e, how)
      PROVE  Disjoint(s, r)'
  <2>1. q # r
    BY <1>1, <1>8 DEF StartGate, CliResolve, StoreInv, PreInsert
  <2>2. /\ UNCHANGED <<torn, log>> /\ \E l : pc' = [pc EXCEPT ![q] = l]
        /\ skip' = skip \/ \E v : skip' = [skip EXCEPT ![q] = v]
    BY <1>8 DEF StartGate, CliResolve, Goto
  <2> QED BY <1>1, <1>5, <2>1, <2>2 DEF CallInv
<1>9. ASSUME NEW q \in Runs, NEW row \in Rows, NEW kind \in Kinds, Outcome(q, row, kind)
      PROVE  Disjoint(s, r)'
  <2>1. /\ UNCHANGED <<torn, pc, skip>> /\ pc[q] = "running" /\ row \notin skip[q]
        /\ log' = [log EXCEPT ![q][row] = kind]
    BY <1>9 DEF Outcome
  <2>2. CASE q # r
    <3>1. log'[r] = log[r]
      BY <2>1, <2>2 DEF HistoryInv
    <3> QED BY <1>5, <2>1, <3>1
  <2>3. CASE q = r
    <3>1. log'[s] = log[s]
      BY <1>1, <2>1 DEF HistoryInv, Going, Live
    <3>2. \A x \in Rows : x # row => log'[r][x] = log[r][x]
      BY <2>1, <2>3 DEF HistoryInv
    <3>3. TornBefore(r) \/ \A x \in Rows :
            log'[r][x] = "none" \/ log[s][x] = "none"
      BY <1>1, <2>1, <2>3, <3>2 DEF Disjoint
    <3> QED BY <1>1, <1>4, <2>1, <3>1, <3>3 DEF Disjoint
  <2> QED BY <2>2, <2>3
<1>10. ASSUME NEW q \in Procs, Open(q) PROVE Disjoint(s, r)'
  BY <1>6, <1>10 DEF Open
<1>11. ASSUME NEW victims, NEW half, Dies(victims, half) PROVE Disjoint(s, r)'
  BY <1>5, <1>11 DEF Dies
<1>12. ASSUME NEW q \in Procs, DeleteRows(q) PROVE Disjoint(s, r)'
  <2> DEFINE gone == Attempts(delExec[q])
  <2>1. /\ UNCHANGED <<pc, skip>> /\ torn' = torn \ gone
        /\ log' = [x \in Runs |-> IF x \in gone THEN NoLog ELSE log[x]]
    BY <1>12 DEF DeleteRows
  <2>2. CASE target[s] = delExec[q]
    <3>1. attState[s] = "gone" \/ s \in gone
      BY <1>1, <2>2 DEF Attempts, StoreInv, Active
    <3>2. log'[s] = NoLog
      BY <2>1, <3>1 DEF HistoryInv
    <3> QED BY <1>3, <3>2 DEF Disjoint
  <2>3. CASE target[s] # delExec[q]
    <3>1. log'[s] = log[s] /\ log'[r] = log[r]
      BY <2>1, <2>3 DEF Attempts
    <3>2. ASSUME TornBefore(r) PROVE TornBefore(r)'
      <4>1. PICK x \in Runs : Before(x, r) /\ target[x] = target[r] /\ x \in torn
        BY <3>2 DEF TornBefore
      <4>2. x \in torn'
        BY <2>1, <2>3, <4>1 DEF Attempts
      <4>3. Before(x, r)' /\ target'[x] = target'[r]
        BY <4>1, BeforeStays, BeforeInserted, CallKept
      <4> QED BY <4>2, <4>3 DEF TornBefore
    <3> QED BY <1>1, <2>1, <3>1, <3>2 DEF Disjoint
  <2> QED BY <2>2, <2>3
<1> QED BY <1>6, <1>7, <1>8, <1>9, <1>10, <1>11, <1>12
        DEF Next, vars, GrowsQuiet, CliDies, ProcessDies, DeleteGate, DeleteRegistry, SetState

LEMMA SerialStep ==
  ASSUME NEW p, OneWindow(p), StoreInv, IsFun, HistoryInv, WindowInv(p), CallInv, SerialInv,
         [Next]_vars
  PROVE  SerialInv'
<1> SUFFICES ASSUME NEW r \in Runs, NEW s \in Runs, Before(s, r)', target'[s] = target'[r]
             PROVE  /\ attState'[s] # "running" /\ pc'[s] \notin Going
                    /\ policy'[r] = "skip" => Disjoint(s, r)'
  BY DEF SerialInv
<1>1. CASE Before(s, r)
  <2>1. target[s] = target[r] /\ policy'[r] = policy[r] /\ attState[s] # "none"
    BY <1>1, BeforeInserted, CallKept
  <2>2. attState[s] # "running" /\ pc[s] \notin Going
    BY <1>1, <2>1 DEF SerialInv
  <2> QED BY <1>1, <2>1, <2>2, OverStays, DisjointKept
<1>2. CASE /\ pc[r] = "inserting" /\ started' = Append(started, r)
           /\ s # r /\ attState[s] # "none"
  <2>1. attState[r] = "none" /\ target'[s] = target[s] /\ pc[s] \notin PreInsert
    BY <1>2, CallKept DEF StoreInv, PreInsert
  <2>2. log[r] = NoLog /\ started # started'
    BY <1>2, <2>1 DEF HistoryInv
  <2>3. StudioInsert(r)
    <3>1. Next
      BY <2>2 DEF vars, storeVars
    <3>2. PICK q \in Runs : StudioInsert(q) \/ CliInsert(q)
      BY <2>2, <3>1
      DEF Next, RunStep, CanStart, CreateRead, Register, ComputeSkip, PipelineEnds, FinishUpdate,
          FinishRead, FinishBump, RemoveSession, StartGate, CliResolve, Outcome, GrowsQuiet,
          CliDies, ProcessDies, Dies, Open, DeleteGate, DeleteRegistry, DeleteRows, SetState,
          storeVars
    <3>3. pc[q] = "inserting"
      BY <3>2 DEF StudioInsert, CliInsert, Insert
    <3>4. q = r
      BY <1>2, <3>3 DEF WindowInv, Calling
    <3>5. ~CliInsert(q)
      BY <3>3 DEF CliInsert, WindowInv, Alive
    <3> QED BY <3>2, <3>4, <3>5
  <2>4. /\ UNCHANGED <<log, target>> /\ pc' = [pc EXCEPT ![r] = "created"]
        /\ attState' = [attState EXCEPT ![r] = "running"]
    BY <2>2, <2>3 DEF StudioInsert, Insert, Goto, diskVars
  <2>5. target[s] = target[r] /\ attState[s] # "running"
    BY <1>2, <2>4 DEF WindowInv, Unstored
  <2>6. pc[s] \notin Going
    BY <1>2, <2>1, <2>5 DEF WindowInv, Going, Calling, Admitted, PreInsert
  <2>7. /\ attState'[s] = attState[s] /\ pc'[s] = pc[s] /\ pc'[r] = "created"
    BY <1>2, <2>4 DEF StoreInv, IsFun
  <2>8. Disjoint(s, r)'
    <3>1. \A row \in Rows : log'[r][row] = "none"
      BY <2>2, <2>4 DEF NoLog
    <3> QED BY <2>7, <3>1 DEF Disjoint
  <2> QED BY <2>5, <2>6, <2>7, <2>8
<1> QED BY <1>1, <1>2, OrderKept

WindowHistory(p) == WindowInv(p) /\ HistoryInv /\ CallInv /\ SerialInv

LEMMA SerialInvariant ==
  ASSUME NEW p, OneWindow(p)
  PROVE  Spec => [](StoreInv /\ IsFun /\ WindowHistory(p))
<1>1. Init => CallInv /\ SerialInv
  BY DEF Init, CallInv, SerialInv, Before
<1>2. Init => StoreInv /\ IsFun /\ WindowHistory(p)
  BY <1>1, StoreInit, InitWindow, HistoryInit DEF WindowHistory
<1>3. StoreInv /\ IsFun /\ WindowHistory(p) /\ [Next]_vars
        => (StoreInv /\ IsFun /\ WindowHistory(p))'
  BY StoreStep, WindowStep, HistoryStep, CallStep, SerialStep DEF WindowHistory
<1> QED BY <1>2, <1>3, PTL DEF Spec

(* In one window, a run that skips what was attempted records no row that   *)
(* an earlier attempt recorded, whatever crashes, orphan scans and deletions *)
(* come between, as long as the earlier logs can be read.                   *)
THEOREM SkipsAreHonoured ==
  ASSUME NEW p, OneWindow(p)
  PROVE  Spec => []SkipHonoured
<1>1. HistoryInv /\ SerialInv => SkipHonoured
  <2> SUFFICES ASSUME SerialInv, NEW r \in Runs, NEW s \in Runs, policy[r] = "skip",
                      Before(s, r), target[s] = target[r],
                      \A q \in Runs : Before(q, r) => q \notin torn
               PROVE  \A row \in Rows : log[r][row] = "none" \/ log[s][row] = "none"
    BY DEF SkipHonoured
  <2> QED BY DEF SerialInv, Disjoint, TornBefore
<1> QED BY <1>1, SerialInvariant, PTL DEF WindowHistory

(* In one window, the attempt that a row's exported success comes from does *)
(* not change: an attempt that an earlier one preceded found it over, so    *)
(* that a win that appears comes after those that are there (R4).           *)
THEOREM CanonicalForGood ==
  ASSUME NEW p, OneWindow(p)
  PROVE  Spec => CanonicalIsStable
<1> DEFINE Stays ==
      \A e \in Execs, row \in Rows :
        StateOf(e, row).canonical # "none" /\ Exists(e)' =>
          StateOf(e, row)'.canonical = StateOf(e, row).canonical
<1>1. StoreInv /\ IsFun /\ WindowHistory(p) /\ HistoryInv' /\ [Next]_vars => [Stays]_vars
  <2> SUFFICES ASSUME StoreInv, IsFun, WindowHistory(p), HistoryInv', [Next]_vars,
                      NEW e \in Execs, NEW row \in Rows, StateOf(e, row).canonical # "none",
                      execState'[e] # "deleted"
               PROVE  StateOf(e, row)'.canonical = StateOf(e, row).canonical
    BY DEF Exists
  <2> DEFINE wins == Wins(started, Merged(e), log, row)
             more == Wins(started', Merged(e)', log', row)
  <2>1. started \in Seq(Runs) /\ started' \in Seq(Runs) /\ HistoryInv /\ SerialInv
    BY DEF WindowHistory, HistoryInv
  <2>2. StateOf(e, row).canonical = DerivedCanonical(started, Merged(e), log, row)
    BY <2>1, WalkDerives DEF StateOf
  <2>3. per_seq(started', Merged(e)', log', row).canonical
          = DerivedCanonical(started', Merged(e)', log', row)
    BY <2>1, WalkDerives
  <2>4. StateOf(e, row)'.canonical = DerivedCanonical(started', Merged(e)', log', row)
    BY <2>3 DEF StateOf
  <2>5. /\ DerivedCanonical(started, Merged(e), log, row)
             = IF wins = {} THEN "none" ELSE started[Min(wins)]
        /\ DerivedCanonical(started', Merged(e)', log', row)
             = IF more = {} THEN "none" ELSE started'[Min(more)]
    BY DEF DerivedCanonical
  <2>6. wins # {}
    BY <2>2, <2>5
  <2>7. wins \subseteq more
    <3>1. \A i \in wins : i \in Wins(started, Merged(e), log, row)'
      BY <2>1, WinKept
    <3> QED BY <3>1
  <2>8. /\ wins \subseteq DOMAIN started /\ more \subseteq DOMAIN started'
        /\ DOMAIN started = 1..Len(started) /\ Len(started) \in Nat
        /\ DOMAIN started' = 1..Len(started') /\ Len(started') \in Nat
    BY <2>1 DEF Wins
  <2>9. IsFiniteSet(wins) /\ IsFiniteSet(more) /\ wins \in SUBSET Int /\ more \in SUBSET Int
    <3>1. IsFiniteSet(1..Len(started)) /\ IsFiniteSet(1..Len(started'))
      BY <2>8, FS_Interval
    <3>2. wins \in SUBSET (1..Len(started)) /\ more \in SUBSET (1..Len(started'))
      BY <2>8
    <3> HIDE DEF wins, more
    <3>3. IsFiniteSet(wins) /\ IsFiniteSet(more)
      BY <3>1, <3>2, FS_Subset
    <3> QED BY <3>2, <3>3
  <2> DEFINE i == Min(wins)
  <2>10. i \in wins /\ i \in Int
    BY <2>6, <2>9, MaxMin
  <2>11. started'[i] = started[i] /\ started[i] \in Runs /\ target[started[i]] = e
    BY <2>1, <2>8, <2>10, HistoryGrows DEF Wins, Merged, Attempts
  <2>12. ASSUME NEW j \in more, j < i PROVE FALSE
    <3> DEFINE s == started[j]
    <3>1. j \in DOMAIN started /\ s \in Runs /\ started'[j] = s
      <4>1. j \in DOMAIN started
        <5>1. j \in 1..Len(started') /\ i \in 1..Len(started) /\ j < i
          BY <2>8, <2>10, <2>12
        <5> HIDE DEF i, more
        <5>2. j \in 1..Len(started)
          BY <2>8, <5>1
        <5> QED BY <2>8, <5>2
      <4> HIDE DEF i, more, wins
      <4>2. started[j] \in Runs
        BY <2>1, <4>1
      <4> QED BY <2>1, <4>1, <4>2, HistoryGrows
    <3>2. Before(s, started[i])
      BY <2>8, <2>10, <2>12, <3>1 DEF Before
    <3> HIDE DEF s
    <3>3. s \in Merged(e)' /\ log'[s][row] = "success"
      BY <3>1 DEF Wins
    <3>4. attState[s] # "none" /\ target'[s] = target[s] /\ target'[s] = e
      BY <2>1, <2>11, <3>1, <3>2, <3>3, BeforeInserted, CallKept DEF Merged, Attempts, WindowHistory
    <3>5. attState[s] # "running" /\ pc[s] \notin Going
      BY <2>1, <2>11, <3>1, <3>2, <3>4 DEF SerialInv
    <3>6. log'[s] \in {log[s], NoLog} /\ NoLog[row] = "none"
      BY <2>1, <3>1, <3>4, <3>5, OverStays DEF NoLog
    <3>7. log[s][row] = "success"
      BY <3>3, <3>6
    <3>8. attState[s] \in Terminal
      <4>1. attState[s] # "gone"
        BY <2>1, <3>1, <3>6, <3>7 DEF HistoryInv
      <4> QED BY <3>1, <3>4, <3>5, <4>1 DEF StoreInv, Active
    <3>9. j \in wins
      BY <3>1, <3>4, <3>7, <3>8 DEF Wins, Merged, Attempts, s
    <3> QED BY <2>6, <2>9, <2>10, <2>12, <3>9, MaxMin
  <2>13. Min(more) = i
    <3> HIDE DEF wins, more, i
    <3>1. Min(more) \in more /\ \A y \in more : Min(more) <= y
      BY <2>6, <2>7, <2>9, MaxMin
    <3>2. i \in more /\ Min(more) \in Int
      BY <2>7, <2>9, <2>10, <3>1
    <3> QED BY <2>10, <2>12, <3>1, <3>2
  <2> QED BY <2>2, <2>4, <2>5, <2>6, <2>7, <2>11, <2>13
<1> QED BY <1>1, SerialInvariant, HistoryInvariant, PTL DEF Spec, CanonicalIsStable
=============================================================================
