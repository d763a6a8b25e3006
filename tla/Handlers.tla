------------------------------- MODULE Handlers -------------------------------
(***************************************************************************)
(* The handlers of a workspace: the directories under handlers/, what is    *)
(* done to them from Studio's page (handler.rs, lib.rs), by the user's own  *)
(* editor and by builds (build.rs, handler_build_cmd.rs), and the two users  *)
(* of their binaries, the attempts and the smoke tests of module Smoke.      *)
(*                                                                         *)
(* A directory keeps its identity through a rename, and so does what runs or *)
(* is built in it; a path does not. Sources are versions: each edit makes    *)
(* the next one, and a binary is the version it was built from. Modification *)
(* times matter as one bit: whether a source that the gate looks at is newer  *)
(* than the binary. It looks at files at the top of the directory with an     *)
(* extension it knows; a save of any other (src/main.rs, go.mod) it misses.    *)
(* The handlers are those with a build command and a binary of their own: the  *)
(* gate never builds one without, nor an interpreter or an absolute path.      *)
(***************************************************************************)
EXTENDS Smoke

CONSTANTS
  Names,       (* the names of handlers                                     *)
  Runs,        (* the attempts                                              *)
  Builders,    (* who builds besides smoke tests and attempts: the button in *)
               (* Studio, `rowforge handler build`                          *)
  Ops,         (* the operations on directories that the instance has       *)
  MaxDirs,     (* bound: directories ever made                              *)
  Scenes       (* bounds: who takes part, how many operations on directories *)
               (* and edits there are, whether handlers do more than boot   *)

Nobody == "nobody"

ASSUME HandlersAssumption ==
  /\ MaxDirs \in Nat \ {0}
  /\ \A s \in Scenes : s.parties \subseteq Calls \cup Runs \cup Builders
  /\ Ops \subseteq {"scaffold", "import", "fork", "rename", "delete"}
  /\ Nobody \notin Calls
  /\ Calls \cap Runs = {} /\ Calls \cap Builders = {} /\ Runs \cap Builders = {}

None     == 0
Files    == {"manifest", "source", "binary"}
Parties  == Calls \cup Runs \cup Builders

VARIABLES
  scene,     (* the bounds of this behaviour                                *)
  at,        (* per name: the directory it names, or None                    *)
  has,       (* per directory: its files                                    *)
  src, bin,  (* per directory: the versions of source and binary            *)
  newer,     (* per directory: a source the gate looks at is newer           *)
  misled,    (* history: directories whose times hide a source from the gate *)
  made,      (* directories made so far                                     *)
  edits,     (* edits so far                                                *)
  op, ops,   (* the operation at work on Studio's main thread; their number  *)
  bpc, bdir, bver,  (* per party: is it building, where, which version       *)
  path, ran, (* per party: the name it was given; what it has started        *)
  gate,      (* history, per party: what its gate saw                        *)
  att,       (* per attempt: "none", "active", "over"                        *)
  holder     (* the call that has the smoke lock                            *)

dirVars   == <<at, has, src, bin, newer, misled, made, edits>>
opVars    == <<scene, op, ops>>
buildVars == <<bpc, bdir, bver>>
useVars   == <<path, ran, gate, att, holder>>
hVars     == <<dirVars, opVars, buildVars, useVars, smokeVars>>

Dirs   == 1..MaxDirs
NoOp   == [kind |-> "none", from |-> None, to |-> None, todo |-> {}]
NoSight == [dir |-> None, ver |-> 0]

(* What a gate finds under a name: the directory and the source in it.        *)
Sight(n) == [dir |-> at[n], ver |-> IF "source" \in has[at[n]] THEN src[at[n]] ELSE 0]

(* The manifest of the handler of a name can be loaded.                       *)
Loads(n) == at[n] # None /\ "manifest" \in has[at[n]]

---------------------------------------------------------------------------
(* Operations on directories. Their commands are synchronous and run on the   *)
(* main thread, one after the other; builds, smoke tests, attempts and the    *)
(* user's editor go on between the files they touch. A failure half way is    *)
(* reported and leaves what there is.                                       *)

(* The checks that a name is free and create_dir_all.                        *)
Make(kind, from, n, todo) ==
  /\ kind \in Ops /\ op = NoOp /\ ops < scene.ops /\ made < MaxDirs
  /\ at[n] = None
  /\ made' = made + 1
  /\ at' = [at EXCEPT ![n] = made + 1]
  /\ op' = [kind |-> kind, from |-> from, to |-> made + 1, todo |-> todo]
  /\ ops' = ops + 1
  /\ UNCHANGED <<has, src, bin, newer, misled, edits, scene, buildVars, useVars, smokeVars>>

scaffold(n) == Make("scaffold", None, n, {"manifest", "source"})

(* The folder that is imported holds a manifest, and may hold a binary.       *)
import(n) ==
  \E b \in SUBSET {"binary"} : Make("import", None, n, {"manifest", "source"} \cup b)

fork(m, n) == at[m] # None /\ Make("fork", at[m], n, has[at[m]])

(* One file is written. A template is written in its order, the manifest       *)
(* first; a copy in the order of the directory walk, and its time is that of   *)
(* the copy, whatever the original's was. The sources may be where the gate   *)
(* does not look.                                                           *)
PutFile ==
  /\ op.kind \in {"scaffold", "import", "fork"} /\ op.todo # {}
  /\ \E f \in op.todo, seen \in BOOLEAN :
       /\ op.kind = "scaffold" => f = "manifest" \/ op.todo = {f}
       /\ op' = IF op.todo = {f} THEN NoOp ELSE [op EXCEPT !.todo = @ \ {f}]
       /\ has' = [has EXCEPT ![op.to] = @ \cup {f}]
       /\ src' = IF f = "source" /\ op.from # None
                 THEN [src EXCEPT ![op.to] = src[op.from]] ELSE src
       /\ bin' = IF f = "binary" /\ op.from # None
                 THEN [bin EXCEPT ![op.to] = bin[op.from]] ELSE bin
       /\ newer' = IF f = "manifest" THEN newer
                   ELSE [newer EXCEPT ![op.to] = (f = "source" /\ seen)]
       /\ misled' = IF /\ bin'[op.to] < src'[op.to]
                       /\ \/ f = "binary"
                          \/ f = "source" /\ ~seen /\ "binary" \in has[op.to]
                    THEN misled \cup {op.to} ELSE misled
  /\ UNCHANGED <<at, made, edits, scene, ops, buildVars, useVars, smokeVars>>

(* fs::rename: one step, within one directory tree. What the store has on     *)
(* record of attempts stays as it is.                                       *)
rename(m, n) ==
  /\ "rename" \in Ops /\ op = NoOp /\ ops < scene.ops
  /\ at[m] # None /\ at[n] = None
  /\ at' = [at EXCEPT ![m] = None, ![n] = at[m]]
  /\ ops' = ops + 1
  /\ UNCHANGED <<has, src, bin, newer, misled, made, edits, scene, op, buildVars, useVars, smokeVars>>

(* remove_dir_all: the files in any order, then the directory.               *)
delete(n) ==
  /\ "delete" \in Ops /\ op = NoOp /\ ops < scene.ops /\ at[n] # None
  /\ op' = [kind |-> "delete", from |-> None, to |-> at[n], todo |-> has[at[n]]]
  /\ ops' = ops + 1
  /\ UNCHANGED <<dirVars, scene, buildVars, useVars, smokeVars>>

RemoveFile ==
  /\ op.kind = "delete" /\ op.todo # {}
  /\ \E f \in op.todo :
       /\ has' = [has EXCEPT ![op.to] = @ \ {f}]
       /\ op' = [op EXCEPT !.todo = @ \ {f}]
  /\ UNCHANGED <<at, src, bin, newer, misled, made, edits, scene, ops, buildVars, useVars, smokeVars>>

(* A file that a build has put there meanwhile keeps the directory.           *)
RemoveDir ==
  /\ op.kind = "delete" /\ op.todo = {}
  /\ at' = IF has[op.to] = {} THEN [n \in Names |-> IF at[n] = op.to THEN None ELSE at[n]]
           ELSE at
  /\ op' = NoOp
  /\ UNCHANGED <<has, src, bin, newer, misled, made, edits, scene, ops, buildVars, useVars, smokeVars>>

OpFails ==
  /\ op # NoOp
  /\ op' = NoOp
  /\ UNCHANGED <<dirVars, scene, ops, buildVars, useVars, smokeVars>>

(* The user saves a source file, which the gate looks at or not. Over a binary  *)
(* that passes for new the gate misses the one it does not look at.           *)
Edit(n) ==
  /\ edits < scene.edits /\ at[n] # None /\ "source" \in has[at[n]]
  /\ edits' = edits + 1
  /\ src' = [src EXCEPT ![at[n]] = edits + 1]
  /\ \/ newer' = [newer EXCEPT ![at[n]] = TRUE] /\ misled' = misled
     \/ /\ misled' = IF "binary" \in has[at[n]] /\ ~newer[at[n]]
                     THEN misled \cup {at[n]} ELSE misled
        /\ newer' = newer
  /\ UNCHANGED <<at, has, bin, made, opVars, buildVars, useVars, smokeVars>>

Authoring ==
  \/ \E n \in Names : scaffold(n) \/ import(n) \/ delete(n) \/ Edit(n)
  \/ \E m, n \in Names : fork(m, n) \/ rename(m, n)
  \/ PutFile \/ RemoveFile \/ RemoveDir \/ OpFails

---------------------------------------------------------------------------
(* Builds: the tool runs in the directory, reads the sources, and writes the   *)
(* binary when it is through.                                               *)

(* Mutant of needs_build: only a missing binary is built.                     *)
MissingOnly(d) == "binary" \notin has[d]

(* needs_build: the binary is missing, or a source at the top of the directory  *)
(* and with a listed extension is newer (max_source_mtime).                   *)
needs_build(d) == "binary" \notin has[d] \/ ("source" \in has[d] /\ newer[d])

BeginBuild(p, d) ==
  /\ bpc' = [bpc EXCEPT ![p] = TRUE]
  /\ bdir' = [bdir EXCEPT ![p] = d]
  /\ bver' = [bver EXCEPT ![p] = src[d]]

(* The end of run_build: the binary is there and newer than the sources as     *)
(* they were; or the build failed, as it does without sources.              *)
BuildEnds(p, ok) ==
  /\ bpc[p]
  /\ bpc' = [bpc EXCEPT ![p] = FALSE]
  /\ IF ok
     THEN /\ "source" \in has[bdir[p]] /\ \E n \in Names : at[n] = bdir[p]
          /\ has' = [has EXCEPT ![bdir[p]] = @ \cup {"binary"}]
          /\ bin' = [bin EXCEPT ![bdir[p]] = bver[p]]
          /\ newer' = [newer EXCEPT ![bdir[p]] = FALSE]
          /\ misled' = IF bver[p] < src[bdir[p]] THEN misled \cup {bdir[p]} ELSE misled
     ELSE UNCHANGED <<has, bin, newer, misled>>
  /\ UNCHANGED <<at, src, made, edits, opVars, bdir, bver>>

(* handler_build and `rowforge handler build --force` build whether there is    *)
(* need or not; without --force the command builds only when there is need,     *)
(* which is one of these.                                                   *)
Build(p, n) ==
  /\ p \in scene.parties /\ ~bpc[p] /\ gate[p] = NoSight /\ Loads(n)
  /\ gate' = [gate EXCEPT ![p] = Sight(n)]
  /\ BeginBuild(p, at[n])
  /\ UNCHANGED <<dirVars, opVars, path, ran, att, holder, smokeVars>>

BuildOver(p) ==
  /\ \E ok \in BOOLEAN : BuildEnds(p, ok)
  /\ UNCHANGED <<useVars, smokeVars>>

Building == \E p \in Builders : BuildOver(p) \/ \E n \in Names : Build(p, n)

---------------------------------------------------------------------------
(* Attempts. The command line builds what needs it before it registers the     *)
(* handler, under its path; Studio does not build. Which of the two it was is  *)
(* in the gate: only the command line has one.                               *)

RunGate(r) ==
  /\ r \in scene.parties /\ att[r] = "none" /\ gate[r] = NoSight
  /\ \E n \in Names :
       /\ Loads(n)
       /\ path' = [path EXCEPT ![r] = n]
       /\ gate' = [gate EXCEPT ![r] = Sight(n)]
       /\ IF needs_build(at[n]) THEN BeginBuild(r, at[n]) ELSE UNCHANGED buildVars
  /\ UNCHANGED <<dirVars, opVars, ran, att, holder, smokeVars>>

RunBuilt(r) ==
  /\ \E ok \in BOOLEAN :
       /\ BuildEnds(r, ok)
       /\ att' = IF ok THEN att ELSE [att EXCEPT ![r] = "over"]
  /\ UNCHANGED <<path, ran, gate, holder, smokeVars>>

(* The attempt is in the store and its handlers are started.                  *)
StartRun(r) ==
  /\ r \in scene.parties /\ att[r] = "none" /\ ~bpc[r]
  /\ \E n \in Names :
       /\ gate[r] # NoSight => n = path[r]
       /\ gate[r] = NoSight => Loads(n)
       /\ at[n] # None /\ "binary" \in has[at[n]]
       /\ path' = [path EXCEPT ![r] = n]
       /\ ran' = [ran EXCEPT ![r] = [dir |-> at[n], ver |-> bin[at[n]]]]
  /\ att' = [att EXCEPT ![r] = "active"]
  /\ UNCHANGED <<dirVars, opVars, buildVars, gate, holder, smokeVars>>

EndRun(r) ==
  /\ att[r] = "active"
  /\ att' = [att EXCEPT ![r] = "over"]
  /\ UNCHANGED <<dirVars, opVars, buildVars, path, ran, gate, holder, smokeVars>>

Running == \E r \in Runs : RunGate(r) \/ RunBuilt(r) \/ StartRun(r) \/ EndRun(r)

---------------------------------------------------------------------------
(* handler_smoke_run.                                                       *)

(* has_active_attempt_for_handler_dir, which goes by the path.                *)
Busy(n) == \E r \in Runs : att[r] = "active" /\ path[r] = n

(* The page loads fixtures and sends their rows; the handler exists; an active *)
(* attempt under its path refuses the call.                                  *)
SmokeAsk(c) ==
  /\ c \in scene.parties /\ pc[c] = "idle"
  /\ \E f \in Fixtures, n \in Names :
       /\ rows' = [rows EXCEPT ![c] = load_fixtures(f, RowLimit)]
       /\ path' = [path EXCEPT ![c] = n]
       /\ Goto(c, IF rows'[c] = {} \/ at[n] = None \/ Busy(n) THEN "failed" ELSE "gate")
  /\ UNCHANGED <<dirVars, opVars, buildVars, ran, gate, att, holder, outs, process>>

(* The build gate, passed before the lock is asked for.                       *)
SmokeGate(c) ==
  /\ pc[c] = "gate" /\ ~bpc[c]
  /\ IF ~Loads(path[c])
     THEN Goto(c, "failed") /\ UNCHANGED <<gate, buildVars>>
     ELSE /\ gate' = [gate EXCEPT ![c] = Sight(path[c])]
          /\ IF needs_build(at[path[c]])
             THEN BeginBuild(c, at[path[c]]) /\ Goto(c, "build")
             ELSE Goto(c, "lock") /\ UNCHANGED buildVars
  /\ UNCHANGED <<dirVars, opVars, path, ran, att, holder, rows, outs, process>>

SmokeBuilt(c) ==
  /\ pc[c] = "build"
  /\ \E ok \in BOOLEAN : BuildEnds(c, ok) /\ Goto(c, IF ok THEN "lock" ELSE "failed")
  /\ UNCHANGED <<useVars, rows, outs, process>>

(* With the lock, run_smoke loads the manifest again and starts the binary     *)
(* that is there now; if it cannot the lock is released at once.              *)
SmokeStart(c) ==
  /\ pc[c] = "lock" /\ holder = Nobody
  /\ IF Loads(path[c]) /\ "binary" \in has[at[path[c]]]
     THEN /\ holder' = c
          /\ ran' = [ran EXCEPT ![c] = [dir |-> at[path[c]], ver |-> bin[at[path[c]]]]]
          /\ Spawn(c)
     ELSE Goto(c, "failed") /\ UNCHANGED <<holder, ran, rows, outs, process>>
  /\ UNCHANGED <<dirVars, opVars, buildVars, path, gate, att>>

(* Mutant of Released: the guard is dropped before the worker is shut down.    *)
ReleasedEarly(c) == IF pc'[c] \in Over \cup {"shutdown"} THEN Nobody ELSE holder

(* Mutant of Released: a call whose handler never got ready keeps the lock.    *)
ReleasedWhenDone(c) == IF pc'[c] = "done" THEN Nobody ELSE holder

(* The guard of the lock is dropped on every way out.                         *)
Released(c) == IF pc'[c] \in Over THEN Nobody ELSE holder

SmokeStep(c) ==
  /\ pc[c] \in Conversing
  /\ Runner(c)
  /\ holder' = Released(c)
  /\ UNCHANGED <<dirVars, opVars, buildVars, path, ran, gate, att>>

SmokeProcess(c) ==
  /\ scene.talks /\ Process(c)
  /\ UNCHANGED <<dirVars, opVars, buildVars, useVars>>

Call(c) == SmokeAsk(c) \/ SmokeGate(c) \/ SmokeBuilt(c) \/ SmokeStart(c) \/ SmokeStep(c)

---------------------------------------------------------------------------
(* One handler, built from its only source, is there at the start; names are   *)
(* alike.                                                                   *)
Init ==
  /\ scene \in Scenes
  /\ at = [n \in Names |-> IF n = CHOOSE m \in Names : TRUE THEN 1 ELSE None]
  /\ has = [d \in Dirs |-> IF d = 1 THEN Files ELSE {}]
  /\ src = [d \in Dirs |-> 0] /\ bin = [d \in Dirs |-> 0]
  /\ newer = [d \in Dirs |-> FALSE] /\ misled = {}
  /\ made = 1 /\ edits = 0 /\ op = NoOp /\ ops = 0
  /\ bpc = [p \in Parties |-> FALSE] /\ bdir = [p \in Parties |-> None]
  /\ bver = [p \in Parties |-> 0]
  /\ path = [p \in Parties |-> Nobody] /\ ran = [p \in Parties |-> NoSight]
  /\ gate = [p \in Parties |-> NoSight]
  /\ att = [r \in Runs |-> "none"] /\ holder = Nobody
  /\ SmokeInit

Next ==
  \/ Authoring \/ Building \/ Running
  \/ \E c \in Calls : Call(c) \/ SmokeProcess(c)

Spec == Init /\ [][Next]_hVars

(* The runner goes on when it can, its timeouts fire, and builds end. Nothing  *)
(* is asked of the handler's process, the page or the user: a write that needs  *)
(* the process to read may never return.                                     *)
Fairness ==
  \A c \in Calls :
    /\ WF_hVars(SmokeGate(c)) /\ WF_hVars(SmokeBuilt(c)) /\ WF_hVars(SmokeStart(c))
    /\ WF_hVars(SmokeStep(c) /\ ~Blocks(c))

FairSpec == Spec /\ Fairness

---------------------------------------------------------------------------
(* Properties.                                                              *)

(* A smoke test, or an attempt of the command line, runs at least what was      *)
(* saved when it asked for a build, though others build in the same directory  *)
(* and names are moved under it. Excepted are directories where a source was   *)
(* saved that the gate does not look at, or during a build, or where a stale    *)
(* binary was copied after its source: there the gate passes an old binary.    *)
RunsWhatWasSaved ==
  \A p \in Calls \cup Runs :
    gate[p].dir # None /\ ran[p].dir = gate[p].dir /\ gate[p].dir \notin misled =>
      ran[p].ver >= gate[p].ver

(* At most one handler is being talked to: a process that lives is that of the  *)
(* call which holds the smoke lock. The others are dead, reaped or not, but     *)
(* for those that were given up before they got ready: nobody kills them, but   *)
(* they never had a row, nothing is recorded of them, and their input is at     *)
(* its end.                                                                 *)
OneHandlerAtWork ==
  \A c \in Calls :
    proc[c] \in Alive =>
      \/ holder = c
      \/ pc[c] = "failed" /\ closed[c] /\ hin[c] = <<>> /\ outs[c] = <<>>

(* A call of a smoke test ends, whoever else has the lock, unless a call is     *)
(* blocked for ever in a write to a live handler that does not read; that call  *)
(* keeps the lock, and the others wait with it. Excepted is also a handler that  *)
(* prints for ever: the timeout of the handshake is of one line, and MaxChatter  *)
(* stands for finitely many.                                                *)
SmokeCallsEnd ==
  \/ <>[](\E c \in Calls : Blocks(c))
  \/ \A c \in Calls : (pc[c] # "idle") ~> (pc[c] \in Over)

=============================================================================
