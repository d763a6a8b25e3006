----------------------------- MODULE Executions -----------------------------
(***************************************************************************)
(* Executions and their attempts: StudioCore::start_run (run.rs),          *)
(* open/scan_for_orphans and execution_delete (lib.rs), the session        *)
(* registry (session.rs), the sqlite store (execution_store.rs) and the    *)
(* command line's exec run and exec set-state (exec_cmd.rs).               *)
(*                                                                         *)
(* Any number of processes share one sqlite file. A process of Procs has   *)
(* at most one StudioCore open at a time; a core keeps a session registry  *)
(* of its own and locks the store for the statements of one block. A run   *)
(* of the command line locks nothing. A statement is atomic; what lies     *)
(* between two statements is not.                                          *)
(*                                                                         *)
(* A run is a call of start_run or of exec run and the attempt it creates. *)
(* The pipeline in the middle is the one module Pool models: it appends at *)
(* most one outcome per due row and its log is final when it reports.      *)
(***************************************************************************)
EXTENDS Resolution

CONSTANTS
  Procs, Execs,
  Home,             \* run -> the process that makes it, or "cli"
  WorkspaceLimit,   \* max_concurrent_runs
  Policies,         \* subset of {"skip", "retry", "force"}
  Overlap,          \* may two start_run calls of one core be under way at once
  Events,           \* subset of {"crash", "quiet", "set_state", "delete", "reopen"}
  MaxCores          \* bound: how often StudioCore::open is called

ASSUME ExecutionsAssumption ==
  /\ Home \in [Runs -> Procs \cup {"cli"}] /\ "cli" \notin Procs
  /\ WorkspaceLimit \in Nat \ {0} /\ MaxCores \in Nat \ {0}
  /\ Policies \subseteq {"skip", "retry", "force"}
  /\ Overlap \in BOOLEAN

ExecutionState == {"open", "iterating", "settled", "closed", "abandoned"}
Terminal == {"completed", "aborted"}

VARIABLES
  execState,   \* executions.state, "deleted" once the row is gone
  attState,    \* attempts.state: "none" before the insert, "gone" after a delete
  counts,      \* attempts.success_count, failed_count
  started,     \* the attempts ever inserted, in order of started_at
  log,         \* outcomes.jsonl of each attempt
  torn,        \* attempts whose log ends in half a line
  quiet,       \* running attempts whose log is older than ORPHAN_MTIME_THRESHOLD
  pc,          \* where a run is
  target,      \* the execution it is for
  core,        \* the StudioCore it was called on, 0 for the command line
  policy, skip,\* which rows it leaves out
  result,      \* how its pipeline ended
  sessions,    \* the registered runs, of all cores
  coreOf,      \* the core a process has open, 0 for none
  cores,       \* cores opened so far
  delPc, delExec  \* an execution_delete under way in a process

storeVars == <<execState, attState, counts, started>>
diskVars  == <<log, torn, quiet>>
runVars   == <<pc, target, core, policy, skip, result>>
procVars  == <<sessions, coreOf, cores, delPc, delExec>>
vars == <<storeVars, diskVars, runVars, procVars>>

TypeOK ==
  /\ execState \in [Execs -> ExecutionState \cup {"deleted"}]
  /\ attState \in [Runs -> {"none", "running", "gone"} \cup Terminal]
  /\ counts \in [Runs -> Nat \X Nat]
  /\ started \in Seq(Runs)
  /\ log \in [Runs -> [Rows -> Kinds \cup {"none"}]]
  /\ torn \subseteq Runs /\ quiet \subseteq Runs
  /\ pc \in [Runs -> {"idle", "gated", "reading",
                      "inserting", "created", "registered", "running", "ended",
                      "finishing", "bumping", "finished", "done", "dead"}]
  /\ target \in [Runs -> Execs \cup {"none"}]
  /\ core \in [Runs -> 0..MaxCores]
  /\ policy \in [Runs -> Policies \cup {"none"}]
  /\ skip \in [Runs -> SUBSET Rows]
  /\ result \in [Runs -> {"none", "failed"} \cup Terminal]
  /\ sessions \subseteq Runs
  /\ coreOf \in [Procs -> 0..MaxCores] /\ cores \in 0..MaxCores
  /\ delPc \in [Procs -> {"idle", "gated", "clear"}]
  /\ delExec \in [Procs -> Execs \cup {"none"}]

Init ==
  /\ execState = [e \in Execs |-> "open"]
  /\ attState = [r \in Runs |-> "none"]
  /\ counts = [r \in Runs |-> <<0, 0>>]
  /\ started = <<>>
  /\ log = [r \in Runs |-> NoLog] /\ torn = {} /\ quiet = {}
  /\ pc = [r \in Runs |-> "idle"]
  /\ target = [r \in Runs |-> "none"]
  /\ core = [r \in Runs |-> 0]
  /\ policy = [r \in Runs |-> "none"]
  /\ skip = [r \in Runs |-> {}]
  /\ result = [r \in Runs |-> "none"]
  /\ sessions = {} /\ cores = 0
  /\ coreOf = [p \in Procs |-> 0]
  /\ delPc = [p \in Procs |-> "idle"]
  /\ delExec = [p \in Procs |-> "none"]

---------------------------------------------------------------------------
(* What a statement reads.                                                  *)

Exists(e) == execState[e] # "deleted"
Attempts(e) == {r \in Runs : target[r] = e /\ attState[r] \in {"running"} \cup Terminal}

has_active_attempt(e) == \E r \in Attempts(e) : attState[r] = "running"

(* compute_resolution: the attempts of other executions and those running   *)
(* are left out, and a line that does not parse fails the computation.      *)
Merged(e) == {r \in Attempts(e) : attState[r] \in Terminal}
Readable(e) == \A r \in Attempts(e) : attState[r] \in Terminal => r \notin torn
StateOf(e, row) == per_seq(started, Merged(e), log, row)

Tally(r) == LET wins == {row \in Rows : log[r][row] = "success"}
                said == {row \in Rows : log[r][row] # "none"} IN
            <<Cardinality(wins), Cardinality(said \ wins)>>

Sessions(c) == {r \in sessions : core[r] = c}

(* The store of a core is locked while a run is between the statements of   *)
(* a block of its own.                                                      *)
Unlocked(c) ==
  c # 0 => \A s \in Runs : core[s] = c => pc[s] \notin {"inserting", "finishing", "bumping"}

Goto(r, label) == pc' = [pc EXCEPT ![r] = label]

---------------------------------------------------------------------------
(* StudioCore::start_run                                                    *)

(* A click of Run waits for the answer of the one before it.                *)
NoCallUnderWay(c) ==
  \A s \in Runs : core[s] = c => pc[s] \notin {"gated", "reading",
                                               "inserting", "created", "registered"}

(* 1a. The gate on the store.                                               *)
StartGate(r, e, how) ==
  /\ pc[r] = "idle" /\ Home[r] # "cli" /\ coreOf[Home[r]] # 0
  /\ how \in Policies \ {"retry"}
  /\ Unlocked(coreOf[Home[r]])
  /\ Overlap \/ NoCallUnderWay(coreOf[Home[r]])
  /\ ~has_active_attempt(e)
  /\ Goto(r, "gated")
  /\ target' = [target EXCEPT ![r] = e]
  /\ core' = [core EXCEPT ![r] = coreOf[Home[r]]]
  /\ policy' = [policy EXCEPT ![r] = how]
  /\ UNCHANGED <<storeVars, diskVars, procVars, skip, result>>

can_start(r) ==
  LET mine == Sessions(core[r]) IN
  /\ Cardinality(mine) < WorkspaceLimit
  /\ \A s \in mine : target[s] # target[r]

(* 1b. The gate on the registry, which refuses with RunBusy.                *)
CanStart(r) ==
  /\ pc[r] = "gated"
  /\ Goto(r, IF can_start(r) THEN "reading" ELSE "done")
  /\ UNCHANGED <<storeVars, diskVars, procVars, target, core, policy, skip, result>>

(* create_attempt: the state of the execution is read in one statement ...  *)
CreateRead(r) ==
  /\ pc[r] = "reading"
  /\ Unlocked(core[r])
  /\ LET takes == execState[target[r]] \in {"open", "iterating", "settled"} IN
     Goto(r, IF takes THEN "inserting" ELSE "done")
  /\ UNCHANGED <<storeVars, diskVars, procVars, target, core, policy, skip, result>>

(* Mutant of Insert: the foreign key is not enforced.                       *)
InsertAnyway(r, next) ==
  /\ pc[r] = "inserting"
  /\ attState' = [attState EXCEPT ![r] = "running"]
  /\ started' = Append(started, r)
  /\ Goto(r, next)
  /\ UNCHANGED <<execState, counts>>

(* ... and the row is inserted in another. The foreign key on execution_id  *)
(* refuses an execution that is gone.                                       *)
Insert(r, next) ==
  /\ pc[r] = "inserting"
  /\ IF Exists(target[r])
     THEN /\ attState' = [attState EXCEPT ![r] = "running"]
          /\ started' = Append(started, r)
          /\ Goto(r, next)
     ELSE /\ Goto(r, "done") /\ UNCHANGED <<attState, started>>
  /\ UNCHANGED <<execState, counts>>

StudioInsert(r) ==
  /\ core[r] # 0
  /\ Insert(r, "created")
  /\ UNCHANGED <<diskVars, procVars, target, core, policy, skip, result>>

(* Mutant of Register: the session is not put in the registry.              *)
RegisterNothing(r) ==
  /\ pc[r] = "created"
  /\ Goto(r, "registered")
  /\ UNCHANGED <<storeVars, diskVars, target, core, policy, skip, result,
                 sessions, coreOf, cores, delPc, delExec>>

(* 5. The session is registered.                                            *)
Register(r) ==
  /\ pc[r] = "created"
  /\ sessions' = sessions \cup {r}
  /\ Goto(r, "registered")
  /\ UNCHANGED <<storeVars, diskVars, target, core, policy, skip, result,
                 coreOf, cores, delPc, delExec>>

(* 6. The rows to skip; a resolution that fails skips nothing. 7. The task  *)
(* that runs the pipeline is spawned.                                       *)
ComputeSkip(r) ==
  /\ pc[r] = "registered"
  /\ Unlocked(core[r])
  /\ LET e == target[r] IN
     skip' = [skip EXCEPT ![r] =
       IF policy[r] = "skip" /\ Exists(e) /\ Readable(e)
       THEN attempted_seqs(started, Merged(e), log) ELSE {}]
  /\ Goto(r, "running")
  /\ UNCHANGED <<storeVars, diskVars, procVars, target, core, policy, result>>

---------------------------------------------------------------------------
(* exec run: run_attempt                                                    *)

(* The rows to skip come first, and a resolution that fails ends the        *)
(* command. No gate looks for a running attempt.                            *)
CliResolve(r, e, how) ==
  /\ pc[r] = "idle" /\ Home[r] = "cli"
  /\ how \in Policies
  /\ Exists(e)
  /\ how = "force" \/ Readable(e)
  /\ Goto(r, "reading")
  /\ target' = [target EXCEPT ![r] = e]
  /\ policy' = [policy EXCEPT ![r] = how]
  /\ skip' = [skip EXCEPT ![r] =
       CASE how = "force" -> {}
         [] how = "retry" -> Rows \ failed_seqs(started, Merged(e), log)
         [] OTHER         -> attempted_seqs(started, Merged(e), log)]
  /\ UNCHANGED <<storeVars, diskVars, procVars, core, result>>

CliInsert(r) ==
  /\ core[r] = 0
  /\ Insert(r, "running")
  /\ UNCHANGED <<diskVars, procVars, target, core, policy, skip, result>>

---------------------------------------------------------------------------
(* The pipeline and what follows it                                         *)

(* The pipeline appends the outcome of a row that is due; the log is fresh. *)
(* What it appends to a file that was deleted under it nobody sees.         *)
Outcome(r, row, kind) ==
  /\ pc[r] = "running" /\ attState[r] # "gone"
  /\ row \notin skip[r] /\ log[r][row] = "none"
  /\ log' = [log EXCEPT ![r][row] = kind]
  /\ quiet' = quiet \ {r}
  /\ UNCHANGED <<storeVars, runVars, procVars, torn>>

(* It reports: completed, aborted, or with an error of its own.             *)
PipelineEnds(r, how) ==
  /\ pc[r] = "running"
  /\ how \in {"failed"} \cup Terminal
  /\ result' = [result EXCEPT ![r] = how]
  /\ skip' = [skip EXCEPT ![r] = {}]
  /\ Goto(r, "ended")
  /\ UNCHANGED <<storeVars, diskVars, procVars, target, core, policy>>

(* Mutant of FinishUpdate: the state of the row is not looked at.           *)
FinishAnyState(r) ==
  /\ pc[r] = "ended"
  /\ Unlocked(core[r])
  /\ attState' = [attState EXCEPT ![r] =
       IF result[r] = "completed" THEN "completed" ELSE "aborted"]
  /\ counts' = [counts EXCEPT ![r] =
       IF result[r] = "failed" THEN <<0, 0>> ELSE Tally(r)]
  /\ Goto(r, "finishing")
  /\ result' = [result EXCEPT ![r] = "none"]
  /\ quiet' = quiet \ {r}
  /\ UNCHANGED <<execState, started, log, torn, procVars, target, core, policy, skip>>

(* finish_attempt: UPDATE ... WHERE state = 'running'. If that finds no row *)
(* the failure is reported and the run goes on to its end.                  *)
FinishUpdate(r) ==
  /\ pc[r] = "ended"
  /\ Unlocked(core[r])
  /\ IF attState[r] = "running"
     THEN /\ attState' = [attState EXCEPT ![r] =
               IF result[r] = "completed" THEN "completed" ELSE "aborted"]
          /\ counts' = [counts EXCEPT ![r] =
               IF result[r] = "failed" THEN <<0, 0>> ELSE Tally(r)]
          /\ Goto(r, "finishing")
     ELSE /\ Goto(r, IF core[r] = 0 THEN "done" ELSE "finished")
          /\ UNCHANGED <<attState, counts>>
  /\ result' = [result EXCEPT ![r] = "none"]
  /\ quiet' = quiet \ {r}
  /\ UNCHANGED <<execState, started, log, torn, procVars, target, core, policy, skip>>

(* ... then the state of the execution is read ...                          *)
FinishRead(r) ==
  /\ pc[r] = "finishing"
  /\ Goto(r, IF execState[target[r]] = "open" THEN "bumping"
             ELSE IF core[r] = 0 THEN "done" ELSE "finished")
  /\ UNCHANGED <<storeVars, diskVars, procVars, target, core, policy, skip, result>>

(* ... and one that was open then is set to iterating, whatever it is now.  *)
FinishBump(r) ==
  /\ pc[r] = "bumping"
  /\ execState' = IF Exists(target[r])
                  THEN [execState EXCEPT ![target[r]] = "iterating"] ELSE execState
  /\ Goto(r, IF core[r] = 0 THEN "done" ELSE "finished")
  /\ UNCHANGED <<attState, counts, started, diskVars, procVars,
                 target, core, policy, skip, result>>

(* Mutant of RemoveSession: the session stays.                              *)
ForgetSession(r) ==
  /\ pc[r] = "finished"
  /\ Goto(r, "done")
  /\ UNCHANGED <<storeVars, diskVars, target, core, policy, skip, result,
                 sessions, coreOf, cores, delPc, delExec>>

(* The task ends with the removal of the session.                           *)
RemoveSession(r) ==
  /\ pc[r] = "finished"
  /\ sessions' = sessions \ {r}
  /\ Goto(r, "done")
  /\ UNCHANGED <<storeVars, diskVars, target, core, policy, skip, result,
                 coreOf, cores, delPc, delExec>>

---------------------------------------------------------------------------
(* StudioCore::open and execution_delete                                    *)

Orphans == {r \in Runs : attState[r] = "running" /\ r \in quiet}

(* Open: a process opens the workspace, for the first time or again (runs   *)
(* of its previous core go on, with the registry of that core). Every       *)
(* attempt that is running and whose log is old is marked aborted with no   *)
(* counts. The scan's statements are one step.                              *)
Open(p) ==
  /\ cores < MaxCores
  /\ coreOf[p] = 0 \/ "reopen" \in Events
  /\ delPc[p] = "idle"
  /\ \A s \in Runs : Home[s] = p /\ core[s] = coreOf[p] =>
       pc[s] \in {"idle", "running", "ended", "finished", "done", "dead"}
  /\ cores' = cores + 1
  /\ coreOf' = [coreOf EXCEPT ![p] = cores + 1]
  /\ attState' = [r \in Runs |-> IF r \in Orphans THEN "aborted" ELSE attState[r]]
  /\ execState' = [e \in Execs |->
       IF execState[e] = "open" /\ (\E r \in Orphans : target[r] = e)
       THEN "iterating" ELSE execState[e]]
  /\ quiet' = {}
  /\ UNCHANGED <<counts, started, log, torn, runVars, sessions, delPc, delExec>>

(* 2a. The gate on the store.                                               *)
DeleteGate(p, e) ==
  /\ "delete" \in Events
  /\ coreOf[p] # 0 /\ delPc[p] = "idle"
  /\ Exists(e)
  /\ Unlocked(coreOf[p])
  /\ ~has_active_attempt(e)
  /\ delPc' = [delPc EXCEPT ![p] = "gated"]
  /\ delExec' = [delExec EXCEPT ![p] = e]
  /\ UNCHANGED <<storeVars, diskVars, runVars, sessions, coreOf, cores>>

has_active_run_for_exec(p, e) == \E r \in Sessions(coreOf[p]) : target[r] = e

(* 2b. The gate on the registry.                                            *)
DeleteRegistry(p) ==
  /\ delPc[p] = "gated"
  /\ LET busy == has_active_run_for_exec(p, delExec[p]) IN
     /\ delPc' = [delPc EXCEPT ![p] = IF busy THEN "idle" ELSE "clear"]
     /\ delExec' = [delExec EXCEPT ![p] = IF busy THEN "none" ELSE @]
  /\ UNCHANGED <<storeVars, diskVars, runVars, sessions, coreOf, cores>>

(* 3. The rows go in one transaction. 4. So does the directory; should that *)
(* fail, nothing refers to what is left of it.                              *)
DeleteRows(p) ==
  LET gone == Attempts(delExec[p]) IN
  /\ delPc[p] = "clear"
  /\ Unlocked(coreOf[p])
  /\ execState' = [execState EXCEPT ![delExec[p]] = "deleted"]
  /\ attState' = [r \in Runs |-> IF r \in gone THEN "gone" ELSE attState[r]]
  /\ log' = [r \in Runs |-> IF r \in gone THEN NoLog ELSE log[r]]
  /\ torn' = torn \ gone /\ quiet' = quiet \ gone
  /\ delPc' = [delPc EXCEPT ![p] = "idle"]
  /\ delExec' = [delExec EXCEPT ![p] = "none"]
  /\ UNCHANGED <<counts, started, runVars, sessions, coreOf, cores>>

---------------------------------------------------------------------------
(* The operator and the world                                               *)

(* exec set-state: any state, from any state.                               *)
SetState(e, s) ==
  /\ "set_state" \in Events
  /\ Exists(e) /\ s \in ExecutionState
  /\ execState' = [execState EXCEPT ![e] = s]
  /\ UNCHANGED <<attState, counts, started, diskVars, runVars, procVars>>

(* No line is appended for ORPHAN_MTIME_THRESHOLD: by a run whose process   *)
(* is gone, or by one that only takes its time.                             *)
GrowsQuiet(r) ==
  /\ "quiet" \in Events
  /\ attState[r] = "running" /\ r \notin quiet
  /\ quiet' = quiet \cup {r}
  /\ UNCHANGED <<storeVars, runVars, procVars, log, torn>>

Alive == {"gated", "reading", "inserting", "created", "registered",
          "running", "ended", "finishing", "bumping", "finished"}

(* A process dies, and its runs with it. A line that was being written may  *)
(* be left half written.                                                    *)
Dies(victims, halfWritten) ==
  /\ "crash" \in Events
  /\ halfWritten \subseteq {r \in victims : pc[r] = "running"}
  /\ torn' = torn \cup {r \in halfWritten : attState[r] # "gone"}
  /\ pc' = [r \in Runs |-> IF r \in victims THEN "dead" ELSE pc[r]]
  /\ sessions' = sessions \ victims
  /\ skip' = [r \in Runs |-> IF r \in victims THEN {} ELSE skip[r]]
  /\ result' = [r \in Runs |-> IF r \in victims THEN "none" ELSE result[r]]
  /\ UNCHANGED <<storeVars, log, quiet, target, core, policy, cores>>

ProcessDies(p, halfWritten) ==
  /\ coreOf[p] # 0
  /\ Dies({r \in Runs : Home[r] = p /\ pc[r] \in Alive}, halfWritten)
  /\ coreOf' = [coreOf EXCEPT ![p] = 0]
  /\ delPc' = [delPc EXCEPT ![p] = "idle"]
  /\ delExec' = [delExec EXCEPT ![p] = "none"]

CliDies(r, halfWritten) ==
  /\ Home[r] = "cli" /\ pc[r] \in Alive
  /\ Dies({r}, halfWritten)
  /\ UNCHANGED <<coreOf, delPc, delExec>>

(* What a run does by itself, once called.                                  *)
RunStep(r) ==
  \/ CanStart(r) \/ CreateRead(r) \/ StudioInsert(r) \/ Register(r) \/ ComputeSkip(r)
  \/ CliInsert(r)
  \/ \E how \in {"failed"} \cup Terminal : PipelineEnds(r, how)
  \/ FinishUpdate(r) \/ FinishRead(r) \/ FinishBump(r) \/ RemoveSession(r)

Next ==
  \/ \E r \in Runs :
       \/ RunStep(r)
       \/ \E e \in Execs, how \in Policies : StartGate(r, e, how) \/ CliResolve(r, e, how)
       \/ \E row \in Rows, kind \in Kinds : Outcome(r, row, kind)
       \/ GrowsQuiet(r)
       \/ \E half \in SUBSET {r} : CliDies(r, half)
  \/ \E p \in Procs :
       \/ Open(p)
       \/ \E e \in Execs : DeleteGate(p, e)
       \/ DeleteRegistry(p) \/ DeleteRows(p)
       \/ \E half \in SUBSET Runs : ProcessDies(p, half)
  \/ \E e \in Execs, s \in ExecutionState : SetState(e, s)

Spec == Init /\ [][Next]_vars

(* A call that was made goes on to its end: the runtime schedules it and    *)
(* its pipeline ends (Pool's Terminates). Nothing is assumed of operators,  *)
(* of crashes or of the next open.                                          *)
FairSpec == Spec /\ \A r \in Runs : WF_vars(RunStep(r))

---------------------------------------------------------------------------
(* Properties                                                               *)

(* The fold over outcomes that compute_resolution is gives every row the    *)
(* state and the exported success that the data model derives from the      *)
(* row's whole history (docs/spec/cli/part-4-data.md 9.1).                  *)
FoldIsDerivation ==
  \A e \in Execs, row \in Rows :
    /\ StateOf(e, row).state = DerivedState(started, Merged(e), log, row)
    /\ StateOf(e, row).canonical = DerivedCanonical(started, Merged(e), log, row)

(* A row that is resolved stays resolved until its execution is deleted,    *)
(* whatever runs, orphan scans and crashes follow (R2).                     *)
ResolvedIsAbsorbing ==
  [][\A e \in Execs, row \in Rows :
       StateOf(e, row).state = "Resolved" =>
         StateOf(e, row)'.state = "Resolved" \/ ~Exists(e)']_vars

(* An attempt that was closed is not closed again: its state and its counts *)
(* stay what the first of pipeline and orphan scan made them.               *)
VerdictIsFinal ==
  [][\A r \in Runs : attState[r] \in Terminal =>
       /\ attState'[r] \in {attState[r], "gone"}
       /\ counts'[r] = counts[r]]_vars

(* No attempt outlives its execution: one whose row exists belongs to an    *)
(* execution whose row exists, also when a delete meets a start.            *)
AttemptsHaveAnExecution ==
  \A e \in Execs : Attempts(e) # {} => Exists(e)

(* A registered run leaves the registry, so that it does not hold one of    *)
(* the workspace's slots for ever, or its process died.                     *)
SessionsEnd == \A r \in Runs : r \in sessions ~> r \notin sessions

(* The row of an attempt whose process lives does not stay running.         *)
AttemptsAreClosed ==
  \A r \in Runs : attState[r] = "running" ~> (attState[r] # "running" \/ pc[r] = "dead")

(* Whatever way a run ends, nothing of it stays behind: neither its session  *)
(* in the registry nor a running row in the store (run_attempt, the paths   *)
(* of start_run, finish_attempt).                                           *)
RunsAreClosed == SessionsEnd /\ AttemptsAreClosed

Live == {"registered", "running", "ended"}

(* At most one pipeline of an execution is live at a time.                  *)
OnePipelinePerExecution ==
  \A r, s \in Runs :
    r # s /\ pc[r] \in Live /\ pc[s] \in Live => target[r] # target[s]

(* The attempt a row's exported success comes from does not change once     *)
(* there is one: the earliest success stays canonical (R4).                 *)
CanonicalIsStable ==
  [][\A e \in Execs, row \in Rows :
       StateOf(e, row).canonical # "none" /\ Exists(e)' =>
         StateOf(e, row)'.canonical = StateOf(e, row).canonical]_vars

Before(s, r) == \E i, j \in DOMAIN started : i < j /\ started[i] = s /\ started[j] = r

(* A run that skips what was attempted records no row that an earlier       *)
(* attempt recorded, crashed attempts included, as long as the earlier logs *)
(* can be read.                                                             *)
SkipHonoured ==
  \A r, s \in Runs :
    /\ policy[r] = "skip" /\ Before(s, r) /\ target[s] = target[r]
    /\ \A q \in Runs : Before(q, r) => q \notin torn
    => \A row \in Rows : log[r][row] = "none" \/ log[s][row] = "none"

(* "Refuse ... an exec that is running in Studio" (execution_delete): an    *)
(* execution is not deleted under a live run of it.                         *)
NotDeletedUnderARun ==
  \A r \in Runs : pc[r] \in {"registered", "running"} => Exists(target[r])

(* "Execution already has an active run (per-exec limit = 1)" (start_run).  *)
OneActiveAttempt ==
  \A e \in Execs : Cardinality({r \in Attempts(e) : attState[r] = "running"}) <= 1

(* Between calls made one at a time, neither the store nor the registry ever  *)
(* has two runs of an execution, orphan scans and crashes included (the      *)
(* gates of start_run).                                                     *)
OneRunPerExecution == OnePipelinePerExecution /\ OneActiveAttempt

(* CLOSED and ABANDONED are terminal (docs/spec/cli/part-2-model.md): only  *)
(* the operator takes an execution out of them.                             *)
ClosedStaysClosed ==
  [][\A e \in Execs :
       execState[e] \in {"closed", "abandoned"} /\ execState'[e] # execState[e] =>
         \/ execState'[e] = "deleted"
         \/ \E s \in ExecutionState : SetState(e, s)]_vars
=============================================================================
