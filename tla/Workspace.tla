------------------------------ MODULE Workspace ------------------------------
(***************************************************************************)
(* A workspace on disk, shared by Studio processes and CLI processes: the    *)
(* database executions.db with its schema version (execution_store.rs), the  *)
(* directories under executions/, and the cached list of executions that     *)
(* each Studio shows (cache.rs, lib.rs).                                     *)
(*                                                                         *)
(* The database and the directories change in separate steps, and a process   *)
(* may end between any two of them. Studio's commands on executions run one   *)
(* at a time on its main thread, so a process has one job at a time. Attempts *)
(* are module Executions' matter: here they only make a deletion refuse.      *)
(***************************************************************************)
EXTENDS Integers, Sequences

CONSTANTS
  Studios,   (* processes of the desktop application                         *)
  Clis,      (* processes of the command line                                *)
  Execs,     (* executions that may be made: each id is fresh, used once     *)
  Name,      (* their names                                                 *)
  TTL,       (* cache.rs DEFAULT_TTL, in ticks                               *)
  WalkMax,   (* bound: ticks the walk over the directories takes             *)
  Scenes     (* bounds of a behaviour: the schema version it starts with (0    *)
             (* for none), the executions it has, its ticks, and what may go   *)
             (* wrong: "crash" of a process, "io" errors                      *)

Procs   == Studios \cup Clis
Never   == -1
Current == 4                        \* SCHEMA_VERSION
Elements ==
  {"executions", "handler_instances", "attempts", "last_handler_dir",
   "cancelled_reason"}

ASSUME WorkspaceAssumption ==
  /\ Studios \cap Clis = {}
  /\ TTL \in Nat /\ WalkMax \in Nat
  /\ \A s \in Scenes : /\ s.version \in 0..(Current + 1)
                       /\ s.execs \subseteq Execs /\ s.ticks \in Nat
                       /\ s.faults \subseteq {"crash", "io"}

VARIABLES
  scene,     (* the bounds of this behaviour                                 *)
  schema,    (* the tables and columns that exist                            *)
  version,   (* the row of schema_version, 0 when there is none              *)
  proc,      (* per process: "closed", "opening", "open"                     *)
  next,      (* per process: the migration statement it is at                *)
  rows,      (* the executions in the database                              *)
  disk,      (* per execution: what its directory holds                      *)
  born,      (* ids given out                                               *)
  job,       (* per process: the command at work                            *)
  claims,    (* history, per process: executions it reported deleted         *)
  cache,     (* per Studio: the cached list, and when it was put             *)
  same,      (* per Studio: the database file has its mtime of that time     *)
  now,       (* ticks                                                       *)
  inserted, gone  (* history, per execution: when its row came and went      *)

schemaVars == <<scene, schema, version, next>>
execVars   == <<rows, disk, born, claims, inserted, gone>>
cacheVars  == <<cache, same>>
vars       == <<schemaVars, proc, execVars, job, cacheVars, now>>

NoJob              == [kind |-> "none"]
CreateAt(e, i)     == [kind |-> "create", exec |-> e, at |-> i]
DeleteList(es)     == [kind |-> "delete", todo |-> es]
DeleteAt(e, i, es) == [kind |-> "deleting", exec |-> e, at |-> i, todo |-> es]
NoCache            == [at |-> Never, rows |-> {}]

-----------------------------------------------------------------------------
(* Opening the store: migrate                                                *)

(* Each statement commits by itself; the version is recorded last.           *)
Statements ==
  <<"executions", "handler_instances", "attempts", "last_handler_dir",
    "cancelled_reason", "version">>

(* Mutant of MigrationSteps: the version comes before the columns.           *)
VersionFirst ==
  <<"executions", "handler_instances", "attempts", "version",
    "last_handler_dir", "cancelled_reason">>

MigrationSteps == Statements

(* The first statement that a store of version v lacks.                      *)
FirstMissing(v) == CASE v = 0 -> 1 [] v = 1 -> 3 [] v = 2 -> 4 [] v = 3 -> 5

Init ==
  /\ scene \in Scenes
  /\ version = scene.version
  /\ schema = IF version >= Current THEN Elements
              ELSE {Statements[i] : i \in 1..(FirstMissing(version) - 1)}
  /\ proc = [p \in Procs |-> "closed"]
  /\ next = [p \in Procs |-> 1]
  /\ rows = {} /\ born = {}
  /\ disk = [e \in Execs |-> {}]
  /\ job = [p \in Procs |-> NoJob]
  /\ claims = [p \in Procs |-> {}]
  /\ cache = [p \in Studios |-> NoCache]
  /\ same = [p \in Studios |-> FALSE]
  /\ now = 0
  /\ inserted = [e \in Execs |-> Never]
  /\ gone = [e \in Execs |-> Never]

(* A version above the known one is refused: nothing changes.                *)
Open(p) ==
  /\ proc[p] = "closed"
  /\ version <= Current
  /\ IF version = Current
     THEN proc' = [proc EXCEPT ![p] = "open"] /\ UNCHANGED next
     ELSE /\ proc' = [proc EXCEPT ![p] = "opening"]
          /\ next' = [next EXCEPT ![p] = FirstMissing(version)]
  /\ UNCHANGED <<scene, schema, version, execVars, job, cacheVars, now>>

Migrate(p) ==
  LET s == MigrationSteps[next[p]] IN
  /\ proc[p] = "opening"
  /\ s \notin schema
  /\ IF s = "version"
     THEN version' = Current /\ UNCHANGED schema
     ELSE schema' = schema \cup {s} /\ UNCHANGED version
  /\ IF next[p] < Len(MigrationSteps)
     THEN next' = [next EXCEPT ![p] = @ + 1] /\ UNCHANGED proc
     ELSE proc' = [proc EXCEPT ![p] = "open"] /\ UNCHANGED next
  /\ UNCHANGED <<scene, execVars, job, cacheVars, now>>

(* No statement tolerates that what it makes is there already: the open fails. *)
MigrateFails(p) ==
  /\ proc[p] = "opening"
  /\ MigrationSteps[next[p]] \in schema \/ "io" \in scene.faults
  /\ proc' = [proc EXCEPT ![p] = "closed"]
  /\ UNCHANGED <<schemaVars, execVars, job, cacheVars, now>>

-----------------------------------------------------------------------------
(* Creating an execution                                                     *)

CreateSteps == <<"partial", "input", "sha256", "row", "manifest">>

(* Mutant of CreateOrder: the row comes before the input is copied.          *)
InsertFirst == <<"row", "partial", "input", "sha256", "manifest">>

CreateOrder == CreateSteps

(* Studio refuses a name that is taken; the CLI does not look.               *)
Create(p, e) ==
  /\ proc[p] = "open" /\ job[p] = NoJob
  /\ e \in scene.execs \ born
  /\ p \in Studios => \A x \in rows : Name[x] # Name[e]
  /\ born' = born \cup {e}
  /\ disk' = [disk EXCEPT ![e] = {"dir"}]
  /\ job' = [job EXCEPT ![p] = CreateAt(e, 1)]
  /\ UNCHANGED <<schemaVars, proc, rows, claims, inserted, gone, cacheVars, now>>

Creating(p) == job[p].kind = "create"

CreateStep(p) ==
  /\ Creating(p)
  /\ LET e == job[p].exec
         s == CreateOrder[job[p].at]
     IN
     /\ IF s = "row"
        THEN /\ rows' = rows \cup {e}
             /\ inserted' = [inserted EXCEPT ![e] = now]
             /\ UNCHANGED disk
        ELSE /\ "dir" \in disk[e]
             /\ disk' = [disk EXCEPT ![e] = (@ \ {"partial"}) \cup {s}]
             /\ UNCHANGED <<rows, inserted>>
     /\ job' = [job EXCEPT ![p] = IF job[p].at < Len(CreateOrder)
                                  THEN CreateAt(e, job[p].at + 1) ELSE NoJob]
  /\ UNCHANGED <<schemaVars, proc, born, claims, gone, cacheVars, now>>

(* What was done stays: an execution whose manifest cannot be written exists,  *)
(* although the command reports an error.                                    *)
CreateFails(p) ==
  /\ Creating(p)
  /\ "io" \in scene.faults \/ "dir" \notin disk[job[p].exec]
  /\ job' = [job EXCEPT ![p] = NoJob]
  /\ UNCHANGED <<schemaVars, proc, execVars, cacheVars, now>>

-----------------------------------------------------------------------------
(* Deleting executions                                                       *)

DeleteSteps == <<"row", "files", "dir">>

DeleteOrder == DeleteSteps

(* A deletion is of one execution or of the selected ones, in any order.      *)
Delete(p, es) ==
  /\ proc[p] = "open" /\ job[p] = NoJob
  /\ job' = [job EXCEPT ![p] = DeleteList(es)]
  /\ UNCHANGED <<schemaVars, proc, execVars, cacheVars, now>>

(* The next id; one with an active attempt is refused, and the rest goes on.   *)
DeleteNext(p, e) ==
  /\ job[p].kind = "delete" /\ e \in job[p].todo
  /\ \E j \in {DeleteAt(e, 1, job[p].todo \ {e}), DeleteList(job[p].todo \ {e})} :
       job' = [job EXCEPT ![p] = j]
  /\ UNCHANGED <<schemaVars, proc, execVars, cacheVars, now>>

DeleteDone(p) ==
  /\ job[p].kind = "delete" /\ job[p].todo = {}
  /\ job' = [job EXCEPT ![p] = NoJob]
  /\ UNCHANGED <<schemaVars, proc, execVars, cacheVars, now>>

Deleting(p) == job[p].kind = "deleting"
Rest(p)     == DeleteList(job[p].todo)

(* delete_execution found the row.                                           *)
Found(e) == e \in rows

DeleteStep(p) ==
  /\ Deleting(p)
  /\ LET e == job[p].exec
         s == DeleteOrder[job[p].at]
         On == IF job[p].at < Len(DeleteOrder)
               THEN DeleteAt(e, job[p].at + 1, job[p].todo) ELSE Rest(p)
     IN
     \/ /\ s = "row" /\ Found(e)
        /\ rows' = rows \ {e}
        /\ gone' = [gone EXCEPT ![e] = now]
        /\ claims' = [claims EXCEPT ![p] = @ \cup {e}]
        /\ job' = [job EXCEPT ![p] = On]
        /\ UNCHANGED disk
     \/ /\ s = "row" /\ ~Found(e)
        /\ job' = [job EXCEPT ![p] = Rest(p)]
        /\ UNCHANGED <<rows, gone, claims, disk>>
     \/ /\ s = "files"
        /\ disk' = [disk EXCEPT ![e] = @ \cap {"dir"}]
        /\ job' = [job EXCEPT ![p] = On]
        /\ UNCHANGED <<rows, gone, claims>>
     \/ /\ s = "dir"
        /\ disk' = [disk EXCEPT ![e] = IF @ = {"dir"} THEN {} ELSE @]
        /\ job' = [job EXCEPT ![p] = On]
        /\ UNCHANGED <<rows, gone, claims>>
  /\ UNCHANGED <<schemaVars, proc, born, inserted, cacheVars, now>>

(* remove_dir_all fails part of the way: logged, and reported as a success.    *)
RemoveFails(p) ==
  /\ "io" \in scene.faults
  /\ Deleting(p) /\ DeleteOrder[job[p].at] # "row"
  /\ job' = [job EXCEPT ![p] = Rest(p)]
  /\ UNCHANGED <<schemaVars, proc, execVars, cacheVars, now>>

-----------------------------------------------------------------------------
(* Listing executions                                                        *)

(* Mutant of Fresh: the mtime alone.                                         *)
SameFile(p) == cache[p] # NoCache /\ same[p]

(* get_if_fresh: the cached list is within TTL and the file's mtime is the same. *)
Fresh(p) ==
  /\ cache[p] # NoCache
  /\ now - cache[p].at <= TTL
  /\ same[p]

(* A list that is not fresh is read under the store's lock; then, without it,  *)
(* the directories are walked for their sizes. A fresh one is served as it is.  *)
ListRead(p) ==
  /\ proc[p] = "open" /\ job[p] = NoJob
  /\ ~Fresh(p)
  /\ job' = [job EXCEPT ![p] = [kind |-> "list", rows |-> rows, since |-> now]]
  /\ UNCHANGED <<schemaVars, proc, execVars, cacheVars, now>>

(* The mtime put beside the list is the file's after the walk.               *)
ListPut(p) ==
  /\ job[p].kind = "list"
  /\ cache' = [cache EXCEPT ![p] = [at |-> now, rows |-> job[p].rows]]
  /\ same' = [same EXCEPT ![p] = TRUE]
  /\ job' = [job EXCEPT ![p] = NoJob]
  /\ UNCHANGED <<schemaVars, proc, execVars, now>>

(* In WAL mode a commit goes to another file: the database file itself only     *)
(* changes when SQLite copies the log back, at a moment of its own.           *)
Checkpoint ==
  /\ \E p \in Studios : same[p]
  /\ same' = [p \in Studios |-> FALSE]
  /\ UNCHANGED <<schemaVars, proc, execVars, job, cache, now>>

-----------------------------------------------------------------------------

(* A process ends: between commands, or anywhere when it crashes.            *)
End(p) ==
  /\ proc[p] # "closed"
  /\ "crash" \in scene.faults \/ (proc[p] = "open" /\ job[p] = NoJob)
  /\ proc' = [proc EXCEPT ![p] = "closed"]
  /\ job' = [job EXCEPT ![p] = NoJob]
  /\ IF p \in Studios
     THEN cache' = [cache EXCEPT ![p] = NoCache] /\ same' = [same EXCEPT ![p] = FALSE]
     ELSE UNCHANGED cacheVars
  /\ UNCHANGED <<schemaVars, execVars, now>>

Tick ==
  /\ now < scene.ticks
  /\ \A p \in Procs : job[p].kind = "list" => now < job[p].since + WalkMax
  /\ now' = now + 1
  /\ UNCHANGED <<schemaVars, proc, execVars, job, cacheVars>>

Next ==
  \/ \E p \in Procs :
       \/ Open(p) \/ Migrate(p) \/ MigrateFails(p)
       \/ \E e \in scene.execs : Create(p, e) \/ DeleteNext(p, e)
       \/ CreateStep(p) \/ CreateFails(p)
       \/ \E es \in SUBSET scene.execs \ {{}} : Delete(p, es)
       \/ DeleteStep(p) \/ RemoveFails(p) \/ DeleteDone(p)
       \/ End(p)
  \/ \E p \in Studios : ListRead(p) \/ ListPut(p)
  \/ Checkpoint
  \/ Tick

Spec == Init /\ [][Next]_vars

-----------------------------------------------------------------------------
(* Properties                                                                *)

(* A process that has the store open finds every table and column its queries  *)
(* name, whichever version it found, however many processes migrate at a time   *)
(* and wherever an earlier migration was cut off (execution_store.rs migrate).  *)
OpenMeansWhole ==
  \A p \in Procs : proc[p] = "open" => schema = Elements /\ version = Current

(* An execution in the database has its snapshot of the input, whole, and its   *)
(* hash on disk: an attempt may start on it at any moment, while it is being    *)
(* created, deleted, or after either was cut off (create_execution,            *)
(* execution_delete).                                                        *)
RowsAreBacked == \A e \in rows : {"dir", "input", "sha256"} \subseteq disk[e]

(* Of several processes that delete an execution one reports it deleted, and    *)
(* no execution that was reported deleted is still there (the count of rows      *)
(* that delete_execution returns).                                           *)
OneDeleterWins ==
  \A p \in Procs :
    /\ claims[p] \cap rows = {}
    /\ claims[p] \subseteq born
    /\ \A q \in Procs \ {p} : claims[p] \cap claims[q] = {}

(* The row of e was there (or not) at some moment since t.                   *)
WasSince(e, t) == inserted[e] # Never /\ (gone[e] = Never \/ gone[e] >= t)
WasNotSince(e, t) == inserted[e] = Never \/ inserted[e] >= t \/ gone[e] # Never

(* What a Studio shows is what the database held not longer ago than a walk and  *)
(* the lifetime of the cache, although commits need not change the mtime that     *)
(* the cache goes by (lib.rs list, cache.rs get_if_fresh and put).             *)
ListsAreRecent ==
  \A p \in Studios :
    Fresh(p) =>
      \A e \in Execs :
        LET t == now - TTL - WalkMax
        IN IF e \in cache[p].rows THEN WasSince(e, t) ELSE WasNotSince(e, t)
=============================================================================
