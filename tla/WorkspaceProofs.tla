--------------------------- MODULE WorkspaceProofs ---------------------------
(***************************************************************************)
(* Proofs about Workspace, for any number of processes and executions, any   *)
(* version to start with and any faults: a store that is open has the whole   *)
(* schema, a row has its files, one deletion of an execution wins, and a list   *)
(* that is shown is not older than a walk and the cache's lifetime.           *)
(***************************************************************************)
EXTENDS Workspace, TLAPS

(* A migration has made what its statements so far name. A statement that     *)
(* finds its element fails, so the version is recorded by a process that has   *)
(* seen all the others through.                                              *)
Reached(s, n) ==
  /\ n >= 2 => "executions" \in s
  /\ n >= 3 => "handler_instances" \in s
  /\ n >= 4 => "attempts" \in s
  /\ n >= 5 => "last_handler_dir" \in s
  /\ n >= 6 => "cancelled_reason" \in s

SchemaInv ==
  /\ scene \in Scenes
  /\ proc = [p \in Procs |-> proc[p]] /\ next = [p \in Procs |-> next[p]]
  /\ schema \subseteq Elements
  /\ version \in 0 .. (Current + 1)
  /\ version = 1 => Reached(schema, 3)
  /\ version = 2 => Reached(schema, 4)
  /\ version = 3 => Reached(schema, 5)
  /\ version = Current => schema = Elements
  /\ \A p \in Procs : proc[p] = "opening" => next[p] \in 1 .. 6 /\ Reached(schema, next[p])
  /\ \A p \in Procs : proc[p] = "open" => version = Current

(* An id is given out once: what a creation has before it inserts the row, the  *)
(* row, and what a deletion removes after it are never of one execution.      *)
Types ==
  /\ scene \in Scenes
  /\ now \in Nat
  /\ gone \in [Execs -> Int]
  /\ disk = [e \in Execs |-> disk[e]]
  /\ job = [p \in Procs |-> job[p]]
  /\ claims = [p \in Procs |-> claims[p]]
  /\ rows \subseteq born /\ born \subseteq Execs

CreateOk(p) ==
  LET e == job[p].exec IN
  /\ e \in born
  /\ job[p].at \in 1 .. 5
  /\ job[p].at <= 4 => e \notin rows /\ gone[e] = Never /\ "dir" \in disk[e]
  /\ job[p].at \in {3, 4} => "input" \in disk[e]
  /\ job[p].at = 4 => "sha256" \in disk[e]

DeleteOk(p) ==
  /\ job[p].exec \in Execs /\ job[p].todo \subseteq Execs
  /\ job[p].at \in 1 .. 3
  /\ job[p].at >= 2 => gone[job[p].exec] # Never

ExecInv ==
  /\ Types
  /\ \A e \in rows : gone[e] = Never
  /\ \A e \in Execs : gone[e] # Never => e \in born
  /\ RowsAreBacked
  /\ \A p \in Procs : Creating(p) => CreateOk(p)
  /\ \A p, q \in Procs :
       p # q /\ Creating(p) /\ Creating(q) => job[p].exec # job[q].exec
  /\ \A p \in Procs : job[p].kind = "delete" => job[p].todo \subseteq Execs
  /\ \A p \in Procs : Deleting(p) => DeleteOk(p)

ClaimInv ==
  /\ \A p \in Procs : \A e \in claims[p] : e \in born /\ gone[e] # Never
  /\ OneDeleterWins

-----------------------------------------------------------------------------

(* A process opens nothing before it found or recorded the current version.   *)
LEMMA SchemaInit == Init => SchemaInv
<1> SUFFICES ASSUME Init PROVE SchemaInv
  OBVIOUS
<1>1. version \in 0 .. 5 /\ scene \in Scenes
  BY WorkspaceAssumption, SMT DEF Init, Current
<1>2. CASE version >= 4
  BY <1>1, <1>2, SMT DEF Init, SchemaInv, Current, Elements, Procs
<1>3. CASE version \in 0 .. 3
  <2>1. /\ FirstMissing(0) = 1 /\ FirstMissing(1) = 3
        /\ FirstMissing(2) = 4 /\ FirstMissing(3) = 5
    BY SMT DEF FirstMissing
  <2>2. schema = {Statements[i] : i \in 1 .. (FirstMissing(version) - 1)}
    BY <1>3, SMT DEF Init, Current
  <2>3. \A i \in 1 .. 5 : Statements[i] \in Elements
    BY SMT DEF Statements, Elements
  <2>4. schema \subseteq Elements
    BY <1>3, <2>1, <2>2, <2>3, SMT
  <2>5. /\ Statements[1] = "executions" /\ Statements[2] = "handler_instances"
        /\ Statements[3] = "attempts" /\ Statements[4] = "last_handler_dir"
    BY SMT DEF Statements
  <2>6. /\ version = 1 => Reached(schema, 3)
        /\ version = 2 => Reached(schema, 4)
        /\ version = 3 => Reached(schema, 5)
    <3>1. CASE version = 1
      BY <3>1, <2>1, <2>2, <2>5, SMT DEF Reached
    <3>2. CASE version = 2
      BY <3>2, <2>1, <2>2, <2>5, SMT DEF Reached
    <3>3. CASE version = 3
      BY <3>3, <2>1, <2>2, <2>5, SMT DEF Reached
    <3> QED BY <3>1, <3>2, <3>3
  <2> QED BY <1>1, <1>3, <2>4, <2>6, SMT DEF Init, SchemaInv, Current, Procs
<1> QED BY <1>1, <1>2, <1>3, SMT

LEMMA SchemaStep == SchemaInv /\ [Next]_vars => SchemaInv'
<1> SUFFICES ASSUME SchemaInv, [Next]_vars PROVE SchemaInv'
  OBVIOUS
<1> USE DEF SchemaInv, Reached
<1>1. CASE UNCHANGED <<schemaVars, proc>>
  BY <1>1, SMT DEF schemaVars
<1>2. ASSUME NEW p \in Procs, Open(p) PROVE SchemaInv'
  <2>1. version \in 0 .. 4
    BY <1>2, SMT DEF Open, Current
  <2>2. CASE version = 4
    BY <1>2, <2>2, SMT DEF Open, Current
  <2>3. CASE version \in 0 .. 3
    <3>1. PICK n \in 1 .. 6 : n = FirstMissing(version) /\ Reached(schema, n)
      BY <2>3, SMT DEF FirstMissing
    <3>2. /\ proc' = [proc EXCEPT ![p] = "opening"]
          /\ next' = [next EXCEPT ![p] = n]
          /\ UNCHANGED <<scene, schema, version>>
      BY <1>2, <2>3, <3>1, SMT DEF Open, Current
    <3> HIDE DEF Reached
    <3>3. \A q \in Procs :
            /\ proc'[q] = "opening" => next'[q] \in 1 .. 6 /\ Reached(schema', next'[q])
            /\ proc'[q] = "open" => version' = Current
      <4> TAKE q \in Procs
      <4>1. CASE q = p
        BY <4>1, <3>1, <3>2
      <4>2. CASE q # p
        BY <4>2, <3>2
      <4> QED BY <4>1, <4>2
    <3>4. /\ proc' = [q \in Procs |-> proc'[q]]
          /\ next' = [q \in Procs |-> next'[q]]
      BY <3>2
    <3> QED BY <3>2, <3>3, <3>4 DEF Current
  <2> QED BY <2>1, <2>2, <2>3, SMT
<1>3. ASSUME NEW p \in Procs, Migrate(p) PROVE SchemaInv'
  <2>1. next[p] \in 1 .. 6 /\ proc[p] = "opening" /\ Reached(schema, next[p])
    BY <1>3, SMT DEF Migrate
  <2>2. UNCHANGED scene
    BY <1>3 DEF Migrate
  <2>3. CASE next[p] = 6
    <3>1. /\ version' = Current /\ UNCHANGED <<schema, next>>
          /\ proc' = [proc EXCEPT ![p] = "open"]
      BY <1>3, <2>3, SMT DEF Migrate, MigrationSteps, Statements
    <3>2. schema = Elements
      BY <2>1, <2>3, SMT DEF Elements
    <3> QED BY <2>2, <3>1, <3>2, SMT DEF Current, Elements
  <2>4. CASE next[p] \in 1 .. 5
    <3>1. PICK s \in Elements :
            /\ schema' = schema \cup {s}
            /\ s = MigrationSteps[next[p]]
      BY <1>3, <2>4, SMT DEF Migrate, MigrationSteps, Statements, Elements
    <3>2. /\ next' = [next EXCEPT ![p] = next[p] + 1]
          /\ UNCHANGED <<version, proc>>
      BY <1>3, <2>4, SMT DEF Migrate, MigrationSteps, Statements
    <3>3. Reached(schema', next[p] + 1)
      BY <2>1, <2>4, <3>1, SMT DEF MigrationSteps, Statements
    <3>4. \A n \in 1 .. 6 : Reached(schema, n) => Reached(schema', n)
      BY <3>1, SMT
    <3>5. schema' \subseteq Elements /\ (schema = Elements => schema' = Elements)
      BY <3>1, SMT
    <3> HIDE DEF Reached
    <3>6. next'[p] = next[p] + 1
      BY <2>1, <3>2, SMT DEF Reached
    <3>7. \A q \in Procs : proc'[q] = "opening" =>
             next'[q] \in 1 .. 6 /\ Reached(schema', next'[q])
      <4> TAKE q \in Procs
      <4>1. CASE q = p
        BY <4>1, <2>4, <3>2, <3>3, <3>6, SMT
      <4>2. CASE q # p
        BY <4>2, <3>2, <3>4, SMT DEF Reached
      <4> QED BY <4>1, <4>2
    <3> USE DEF Reached
    <3>8. /\ next' = [q \in Procs |-> next'[q]]
          /\ proc' = [q \in Procs |-> proc'[q]]
      BY <3>2, SMT
    <3> QED BY <2>2, <3>2, <3>4, <3>5, <3>7, <3>8, SMT DEF Current
  <2> QED BY <2>1, <2>3, <2>4, SMT
<1>4. ASSUME NEW p \in Procs, MigrateFails(p) \/ End(p) PROVE SchemaInv'
  BY <1>4, SMT DEF MigrateFails, End, schemaVars
<1>5. CASE UNCHANGED vars
  BY <1>5, <1>1 DEF vars
<1>6. ASSUME NEW p \in Procs,
             \/ \E e \in scene.execs : Create(p, e) \/ DeleteNext(p, e)
             \/ CreateStep(p) \/ CreateFails(p)
             \/ \E es \in SUBSET scene.execs \ {{}} : Delete(p, es)
             \/ DeleteStep(p) \/ RemoveFails(p) \/ DeleteDone(p)
             \/ ListRead(p) \/ ListPut(p) \/ Checkpoint \/ Tick
      PROVE UNCHANGED <<schemaVars, proc>>
  BY <1>6, Zenon DEF Create, DeleteNext, CreateStep, CreateFails, Delete, DeleteStep,
     RemoveFails, DeleteDone, ListRead, ListPut, Checkpoint, Tick
<1>7. CASE Checkpoint \/ Tick
  BY <1>1, <1>7, Zenon DEF Checkpoint, Tick
<1> QED BY <1>1, <1>2, <1>3, <1>4, <1>5, <1>6, <1>7, Zenon DEF Next, Procs

-----------------------------------------------------------------------------

(* No row, no job and no claim at the start.                                 *)
LEMMA ExecInit == Init => ExecInv /\ ClaimInv
<1> SUFFICES ASSUME Init PROVE ExecInv /\ ClaimInv
  OBVIOUS
<1>1. Types
  BY SMT DEF Init, Types, Never
<1>2. \A p \in Procs : job[p] = NoJob /\ claims[p] = {}
  BY DEF Init
<1>3. \A p \in Procs : job[p].kind = "none"
  BY <1>2 DEF NoJob
<1>4. rows = {}
  BY DEF Init
<1> QED
  BY <1>1, <1>2, <1>3, <1>4, SMT
  DEF Init, ExecInv, ClaimInv, RowsAreBacked, Creating, Deleting, OneDeleterWins, Never

(* A job record is what it was made of.                                      *)
LEMMA JobRecords ==
  ASSUME NEW e, NEW i, NEW es
  PROVE  /\ NoJob.kind = "none"
         /\ CreateAt(e, i).kind = "create"
         /\ CreateAt(e, i).exec = e /\ CreateAt(e, i).at = i
         /\ DeleteList(es).kind = "delete" /\ DeleteList(es).todo = es
         /\ DeleteAt(e, i, es).kind = "deleting" /\ DeleteAt(e, i, es).exec = e
         /\ DeleteAt(e, i, es).at = i /\ DeleteAt(e, i, es).todo = es
BY SMT DEF NoJob, CreateAt, DeleteList, DeleteAt

(* Steps that touch no row, no directory and no history keep the invariant as   *)
(* long as the job they leave is one.                                        *)
LEMMA JobOnly ==
  ASSUME ExecInv, ClaimInv, NEW p \in Procs, NEW j,
         job' = [job EXCEPT ![p] = j], UNCHANGED <<scene, execVars, now>>,
         \/ j.kind \in {"none", "list"}
         \/ j.kind = "delete" /\ j.todo \subseteq Execs
         \/ /\ j.kind = "deleting" /\ j.exec \in Execs
            /\ j.todo \subseteq Execs /\ j.at = 1
         \/ /\ Deleting(p) /\ j.kind = "deleting" /\ j.exec = job[p].exec
            /\ j.at = job[p].at /\ j.todo \subseteq Execs
  PROVE  ExecInv' /\ ClaimInv'
<1>1. UNCHANGED <<rows, disk, born, claims, inserted, gone, scene, now>>
  BY DEF execVars
<1>2. Types'
  BY <1>1, SMT DEF ExecInv, Types
<1>3. \A q \in Procs : job'[q] = IF q = p THEN j ELSE job[q]
  BY SMT DEF ExecInv, Types
<1>4. /\ RowsAreBacked' /\ ClaimInv'
      /\ \A e \in rows' : gone'[e] = Never
      /\ \A e \in Execs : gone'[e] # Never => e \in born'
  BY <1>1, SMT DEF ExecInv, ClaimInv, RowsAreBacked, OneDeleterWins
<1>5. \A q \in Procs : Creating(q)' => q # p /\ Creating(q)
  BY <1>3, SMT DEF Creating
<1>6. \A q \in Procs : Creating(q)' => CreateOk(q)'
  BY <1>1, <1>3, <1>5, SMT DEF ExecInv, CreateOk
<1>7. \A q \in Procs : job'[q].kind = "delete" => job'[q].todo \subseteq Execs
  BY <1>3, SMT DEF ExecInv
<1>8. \A q \in Procs : Deleting(q)' => DeleteOk(q)'
  BY <1>1, <1>3, SMT DEF ExecInv, Deleting, DeleteOk
<1>9. \A q, r \in Procs :
        q # r /\ Creating(q)' /\ Creating(r)' => job'[q].exec # job'[r].exec
  BY <1>3, <1>5, SMT DEF ExecInv
<1> QED BY <1>2, <1>4, <1>6, <1>7, <1>8, <1>9 DEF ExecInv

(* A creation begins with an id that no row, job or deletion has had.         *)
LEMMA CreateBegins ==
  ASSUME ExecInv, ClaimInv, NEW p \in Procs, NEW e \in scene.execs, Create(p, e)
  PROVE  ExecInv' /\ ClaimInv'
<1>1. /\ e \in Execs /\ e \notin born
      /\ gone[e] = Never /\ e \notin rows
      /\ \A q \in Procs : Creating(q) => job[q].exec # e
  <2>1. scene \in Scenes
    BY DEF ExecInv, Types
  <2>2. e \in Execs /\ e \notin born
    BY <2>1, WorkspaceAssumption DEF Create
  <2> QED BY <2>2 DEF ExecInv, Types, CreateOk
<1>2. /\ born' = born \cup {e}
      /\ disk' = [disk EXCEPT ![e] = {"dir"}]
      /\ job' = [job EXCEPT ![p] = CreateAt(e, 1)]
      /\ UNCHANGED <<rows, claims, inserted, gone, scene, now>>
  BY DEF Create, schemaVars
<1>3. Types'
  <2>1. disk' = [x \in Execs |-> disk'[x]]
    BY <1>1, <1>2 DEF ExecInv, Types
  <2>2. job' = [q \in Procs |-> job'[q]]
    BY <1>2 DEF ExecInv, Types
  <2>3. rows' \subseteq born' /\ born' \subseteq Execs
    BY <1>1, <1>2 DEF ExecInv, Types
  <2> QED BY <1>2, <2>1, <2>2, <2>3 DEF ExecInv, Types
<1>4. \A q \in Procs : job'[q] = IF q = p THEN CreateAt(e, 1) ELSE job[q]
  BY <1>2, SMT DEF ExecInv, Types
<1>5. /\ CreateAt(e, 1).kind = "create" /\ CreateAt(e, 1).exec = e
      /\ CreateAt(e, 1).at = 1
  BY JobRecords
<1> HIDE DEF CreateAt
<1>6. /\ disk'[e] = {"dir"}
      /\ \A x \in Execs : x # e => disk'[x] = disk[x]
  BY <1>1, <1>2, SMT DEF ExecInv, Types
<1>7. \A x \in rows : x \in Execs /\ x # e
  BY <1>1, SMT DEF ExecInv, Types
<1>8. /\ RowsAreBacked' /\ ClaimInv'
      /\ \A x \in rows' : gone'[x] = Never
      /\ \A x \in Execs : gone'[x] # Never => x \in born'
  BY <1>2, <1>6, <1>7, SMT
  DEF ExecInv, ClaimInv, RowsAreBacked, OneDeleterWins
<1>9. \A q \in Procs : Creating(q)' => CreateOk(q)'
  <2> TAKE q \in Procs
  <2>1. CASE q = p
    BY <2>1, <1>1, <1>2, <1>4, <1>5, <1>6, SMT DEF CreateOk
  <2>2. CASE q # p
    <3>1. Creating(q)' => Creating(q) /\ CreateOk(q) /\ job[q].exec # e
      BY <2>2, <1>1, <1>4 DEF Creating, ExecInv
    <3>2. Creating(q)' => job[q].exec \in Execs
      BY <3>1 DEF CreateOk, ExecInv, Types
    <3> QED BY <2>2, <1>2, <1>4, <1>6, <3>1, <3>2, SMT DEF CreateOk
  <2> QED BY <2>1, <2>2
<1>10. \A q \in Procs : job'[q].kind = "delete" => job'[q].todo \subseteq Execs
  BY <1>4, <1>5 DEF ExecInv
<1>11. \A q \in Procs : Deleting(q)' => DeleteOk(q)'
  BY <1>2, <1>4, <1>5, SMT DEF ExecInv, Deleting, DeleteOk
<1>12. \A q, r \in Procs :
         q # r /\ Creating(q)' /\ Creating(r)' => job'[q].exec # job'[r].exec
  BY <1>1, <1>4, <1>5, SMT DEF ExecInv, Creating
<1> QED BY <1>3, <1>8, <1>9, <1>10, <1>11, <1>12 DEF ExecInv

(* Each step of a creation adds one thing; the row is added over a whole         *)
(* snapshot, and nothing is taken away under a row.                           *)
LEMMA CreateGoesOn ==
  ASSUME ExecInv, ClaimInv, NEW p \in Procs, CreateStep(p)
  PROVE  ExecInv' /\ ClaimInv'
<1> DEFINE e == job[p].exec
           i == job[p].at
<1>1. /\ Creating(p) /\ CreateOk(p) /\ e \in Execs /\ i \in 1 .. 5
  BY DEF CreateStep, ExecInv, CreateOk, Types
<1>2. UNCHANGED <<born, claims, gone, scene, now>>
  BY DEF CreateStep, schemaVars
<1>3. job' = [job EXCEPT ![p] = IF i < 5 THEN CreateAt(e, i + 1) ELSE NoJob]
  BY SMT DEF CreateStep, CreateOrder, CreateSteps
<1>4. /\ i = 4 => rows' = rows \cup {e} /\ disk' = disk
      /\ i # 4 => rows' = rows
      /\ i = 1 => disk' = [disk EXCEPT ![e] = (disk[e] \ {"partial"}) \cup {"partial"}]
      /\ i = 2 => disk' = [disk EXCEPT ![e] = (disk[e] \ {"partial"}) \cup {"input"}]
      /\ i = 3 => disk' = [disk EXCEPT ![e] = (disk[e] \ {"partial"}) \cup {"sha256"}]
      /\ i = 5 => disk' = [disk EXCEPT ![e] = (disk[e] \ {"partial"}) \cup {"manifest"}]
  BY <1>1, SMT DEF CreateStep, CreateOrder, CreateSteps
<1>5. /\ CreateAt(e, i + 1).kind = "create" /\ CreateAt(e, i + 1).exec = e
      /\ CreateAt(e, i + 1).at = i + 1 /\ NoJob.kind = "none"
  BY JobRecords
<1>6. \A q \in Procs :
        job'[q] = IF q = p THEN IF i < 5 THEN CreateAt(e, i + 1) ELSE NoJob ELSE job[q]
  BY <1>3 DEF ExecInv, Types
<1> HIDE DEF CreateAt, NoJob, e, i
<1>7. \A x \in Execs :
        /\ x # e => disk'[x] = disk[x]
        /\ disk[x] \ {"partial"} \subseteq disk'[x]
        /\ x = e /\ i = 2 => "input" \in disk'[x]
        /\ x = e /\ i = 3 => "sha256" \in disk'[x]
  BY <1>1, <1>4, SMT DEF ExecInv, Types
<1>8. Types'
  <2>1. e \in born
    BY <1>1 DEF CreateOk, e
  <2>2. rows' \subseteq born
    BY <2>1, <1>1, <1>4, SMT DEF ExecInv, Types
  <2>3. disk' = [x \in Execs |-> disk'[x]]
    BY <1>1, <1>4, SMT DEF ExecInv, Types
  <2>4. job' = [q \in Procs |-> job'[q]]
    BY <1>3, SMT DEF ExecInv, Types
  <2> QED BY <1>2, <2>2, <2>3, <2>4 DEF ExecInv, Types
<1>9. RowsAreBacked'
  <2> SUFFICES ASSUME NEW x \in rows' PROVE {"dir", "input", "sha256"} \subseteq disk'[x]
    BY DEF RowsAreBacked
  <2>1. x \in Execs
    BY <1>8 DEF Types
  <2>2. CASE x \in rows
    BY <2>1, <2>2, <1>7, SMT DEF ExecInv, RowsAreBacked
  <2>3. CASE x \notin rows
    <3>1. x = e /\ i = 4
      BY <2>3, <1>1, <1>4, SMT
    <3> QED BY <2>1, <3>1, <1>1, <1>7, SMT DEF CreateOk, e, i
  <2> QED BY <2>2, <2>3
<1>10. /\ \A x \in rows' : gone'[x] = Never
       /\ \A x \in Execs : gone'[x] # Never => x \in born'
  BY <1>1, <1>2, <1>4, SMT DEF ExecInv, CreateOk, e, i
<1>11. ClaimInv'
  <2>1. \A q \in Procs : \A x \in claims[q] : x \notin rows'
    BY <1>10, <1>2 DEF ClaimInv
  <2> QED BY <2>1, <1>2 DEF ClaimInv, OneDeleterWins
<1>12. \A q \in Procs : Creating(q)' => CreateOk(q)'
  <2> TAKE q \in Procs
  <2>1. CASE q = p
    <3>1. Creating(q)' => i < 5
      BY <2>1, <1>5, <1>6 DEF Creating
    <3>2. ASSUME i < 5
          PROVE  /\ job'[q].exec = e /\ job'[q].at = i + 1
                 /\ i + 1 \in 1 .. 5 /\ e \in born'
      BY <2>1, <3>2, <1>1, <1>2, <1>5, <1>6, SMT DEF CreateOk, e
    <3>3. ASSUME i < 5
          PROVE  /\ i + 1 <= 4 => e \notin rows' /\ gone'[e] = Never /\ "dir" \in disk'[e]
                 /\ i + 1 \in {3, 4} => "input" \in disk'[e]
                 /\ i + 1 = 4 => "sha256" \in disk'[e]
      BY <3>3, <1>1, <1>2, <1>4, <1>7, SMT DEF CreateOk, e, i
    <3> QED BY <3>1, <3>2, <3>3 DEF CreateOk
  <2>2. CASE q # p
    <3>1. Creating(q)' => Creating(q) /\ CreateOk(q) /\ job[q].exec # e
      BY <2>2, <1>1, <1>6 DEF Creating, ExecInv, e
    <3>2. Creating(q)' => job[q].exec \in Execs
      BY <3>1 DEF CreateOk, ExecInv, Types
    <3> QED BY <2>2, <1>1, <1>2, <1>4, <1>6, <1>7, <3>1, <3>2, SMT DEF CreateOk
  <2> QED BY <2>1, <2>2
<1>13. \A q \in Procs : job'[q].kind = "delete" => job'[q].todo \subseteq Execs
  BY <1>5, <1>6 DEF ExecInv
<1>14. \A q \in Procs : Deleting(q)' => DeleteOk(q)'
  BY <1>2, <1>5, <1>6, SMT DEF ExecInv, Deleting, DeleteOk
<1>15. \A q, r \in Procs :
         q # r /\ Creating(q)' /\ Creating(r)' => job'[q].exec # job'[r].exec
  BY <1>1, <1>5, <1>6, SMT DEF ExecInv, Creating, e
<1> QED BY <1>8, <1>9, <1>10, <1>11, <1>12, <1>13, <1>14, <1>15 DEF ExecInv

(* A deletion takes the row first, if it is there, and files only after: what    *)
(* it removes has no row, and is not being created.                           *)
LEMMA DeleteGoesOn ==
  ASSUME ExecInv, ClaimInv, NEW p \in Procs, DeleteStep(p)
  PROVE  ExecInv' /\ ClaimInv'
<1> DEFINE e == job[p].exec
           i == job[p].at
           es == job[p].todo
<1>1. /\ Deleting(p) /\ DeleteOk(p) /\ e \in Execs /\ i \in 1 .. 3
      /\ es \subseteq Execs
  BY DEF DeleteStep, ExecInv, DeleteOk
<1>2. UNCHANGED <<born, inserted, scene, now>>
  BY DEF DeleteStep, schemaVars
<1>3. PICK j \in {DeleteAt(e, i + 1, es), DeleteList(es)} :
        /\ job' = [job EXCEPT ![p] = j]
        /\ i = 3 => j = DeleteList(es)
        /\ i = 1 /\ e \notin rows => j = DeleteList(es)
  BY <1>1, SMT DEF DeleteStep, DeleteOrder, DeleteSteps, Found, Rest
<1>4. /\ i = 1 /\ e \in rows =>
           /\ rows' = rows \ {e} /\ disk' = disk
           /\ gone' = [gone EXCEPT ![e] = now]
           /\ claims' = [claims EXCEPT ![p] = @ \cup {e}]
      /\ ~(i = 1 /\ e \in rows) => UNCHANGED <<rows, gone, claims>>
      /\ i = 1 => disk' = disk
      /\ i = 2 => disk' = [disk EXCEPT ![e] = @ \cap {"dir"}]
      /\ i = 3 => disk' = [disk EXCEPT ![e] = IF @ = {"dir"} THEN {} ELSE @]
  <2>1. CASE i = 1
    BY <2>1, SMT DEF DeleteStep, DeleteOrder, DeleteSteps, Found
  <2>2. CASE i = 2
    BY <2>2, SMT DEF DeleteStep, DeleteOrder, DeleteSteps
  <2>3. CASE i = 3
    BY <2>3, SMT DEF DeleteStep, DeleteOrder, DeleteSteps
  <2> QED BY <1>1, <2>1, <2>2, <2>3, SMT
<1>5. /\ DeleteAt(e, i + 1, es).kind = "deleting" /\ DeleteAt(e, i + 1, es).exec = e
      /\ DeleteAt(e, i + 1, es).at = i + 1 /\ DeleteAt(e, i + 1, es).todo = es
      /\ DeleteList(es).kind = "delete" /\ DeleteList(es).todo = es
  BY JobRecords
<1>6. \A q \in Procs : job'[q] = IF q = p THEN j ELSE job[q]
  BY <1>3 DEF ExecInv, Types
<1>7. i >= 2 => gone[e] # Never
  BY <1>1 DEF DeleteOk, e, i
<1>8. \A q \in Procs : Creating(q)' => Creating(q) /\ q # p
  BY <1>3, <1>5, <1>6 DEF Creating
<1> HIDE DEF DeleteAt, DeleteList, e, i, es
<1>9. now # Never
  BY SMT DEF ExecInv, Types, Never
<1>10. /\ \A x \in Execs : x # e \/ i = 1 => disk'[x] = disk[x]
       /\ \A x \in Execs : x # e => gone'[x] = gone[x]
       /\ \A x \in Execs : gone[x] # Never => gone'[x] # Never
       /\ i = 1 /\ e \in rows => gone'[e] # Never
       /\ rows' \subseteq rows
       /\ gone' \in [Execs -> Int]
  BY <1>1, <1>4, <1>9, SMT DEF ExecInv, Types
<1>11. Types'
  <2>1. disk' = [x \in Execs |-> disk'[x]]
    BY <1>1, <1>4, SMT DEF ExecInv, Types
  <2>2. job' = [q \in Procs |-> job'[q]]
    BY <1>3 DEF ExecInv, Types
  <2>3. claims' = [q \in Procs |-> claims'[q]]
    BY <1>4 DEF ExecInv, Types
  <2> QED BY <1>2, <1>10, <2>1, <2>2, <2>3 DEF ExecInv, Types
<1>12. \A x \in rows' : x \in Execs /\ x \in rows /\ gone'[x] = Never /\ disk'[x] = disk[x]
  <2> TAKE x \in rows'
  <2>1. x \in Execs /\ x \in rows /\ gone[x] = Never
    BY <1>10, <1>11, SMT DEF ExecInv, Types
  <2>2. CASE i = 1
    <3>1. e \in rows => x # e
      BY <2>2, <1>4
    <3> QED BY <2>1, <2>2, <3>1, <1>4, <1>10
  <2>3. CASE i \in 2 .. 3
    <3>1. x # e
      BY <2>1, <2>3, <1>7, SMT
    <3> QED BY <2>1, <3>1, <1>10
  <2> QED BY <1>1, <2>2, <2>3, SMT
<1>13. RowsAreBacked'
  BY <1>12 DEF ExecInv, RowsAreBacked
<1>14. \A x \in Execs : gone'[x] # Never => x \in born'
  BY <1>2, <1>4, <1>10 DEF ExecInv, Types
<1>15. ClaimInv'
  <2>1. CASE i = 1 /\ e \in rows
    <3>1. gone[e] = Never
      BY <2>1 DEF ExecInv
    <3>2. \A q \in Procs : e \notin claims[q]
      BY <3>1 DEF ClaimInv
    <3>3. \A q \in Procs :
            claims'[q] = IF q = p THEN claims[q] \cup {e} ELSE claims[q]
      BY <2>1, <1>4 DEF ExecInv, Types
    <3>4. e \in born' /\ gone'[e] # Never
      BY <2>1, <1>2, <1>10 DEF ExecInv, Types
    <3>5. \A q \in Procs : \A x \in claims[q] : x \in born' /\ gone'[x] # Never
      BY <1>2, <1>10 DEF ExecInv, ClaimInv, Types
    <3>6. \A q \in Procs : \A x \in claims'[q] : x \in born' /\ gone'[x] # Never
      BY <3>3, <3>4, <3>5
    <3>7. \A q, r \in Procs : q # r => claims'[q] \cap claims'[r] = {}
      <4> SUFFICES ASSUME NEW q \in Procs, NEW r \in Procs, q # r,
                          NEW x \in claims'[q], x \in claims'[r]
                   PROVE FALSE
        OBVIOUS
      <4>1. claims[q] \cap claims[r] = {}
        BY DEF ClaimInv, OneDeleterWins
      <4>2. x # e
        BY <3>2, <3>3
      <4> QED BY <3>3, <4>1, <4>2
    <3>8. \A q \in Procs : claims'[q] \cap rows' = {}
      BY <3>6, <1>12
    <3> QED BY <3>6, <3>7, <3>8 DEF ClaimInv, OneDeleterWins
  <2>2. CASE ~(i = 1 /\ e \in rows)
    <3>1. UNCHANGED <<rows, gone, claims, born>>
      BY <2>2, <1>2, <1>4
    <3> QED BY <3>1 DEF ClaimInv, OneDeleterWins
  <2> QED BY <2>1, <2>2
<1>16. \A q \in Procs : Creating(q)' => CreateOk(q)'
  <2> SUFFICES ASSUME NEW q \in Procs, Creating(q)' PROVE CreateOk(q)'
    OBVIOUS
  <2>1. Creating(q) /\ CreateOk(q) /\ q # p /\ job'[q] = job[q]
    BY <1>6, <1>8 DEF ExecInv
  <2> DEFINE x == job[q].exec
  <2>2. x \in Execs /\ x \in born
    BY <2>1 DEF CreateOk, ExecInv, Types
  <2>3. job[q].at <= 4 => x # e \/ ~(i >= 2)
    BY <2>1, <1>7 DEF CreateOk
  <2>4. job[q].at <= 4 => x \notin rows'
    BY <2>1, <1>10 DEF CreateOk
  <2>5. job[q].at <= 4 => disk'[x] = disk[x]
    BY <2>2, <2>3, <1>1, <1>10, SMT
  <2>6. job[q].at <= 4 => gone'[x] = Never
    <3>1. CASE x = e
      <4>1. job[q].at <= 4 => x \notin rows /\ gone[x] = Never
        BY <2>1 DEF CreateOk
      <4>2. job[q].at <= 4 => gone' = gone
        BY <3>1, <4>1, <1>4
      <4> QED BY <4>1, <4>2
    <3>2. CASE x # e
      BY <3>2, <2>1, <2>2, <1>10 DEF CreateOk
    <3> QED BY <3>1, <3>2
  <2> QED BY <2>1, <2>2, <2>4, <2>5, <2>6, <1>2, SMT DEF CreateOk
<1>17. \A q \in Procs : job'[q].kind = "delete" => job'[q].todo \subseteq Execs
  BY <1>1, <1>3, <1>5, <1>6 DEF ExecInv
<1>18. \A q \in Procs : Deleting(q)' => DeleteOk(q)'
  <2> SUFFICES ASSUME NEW q \in Procs, Deleting(q)' PROVE DeleteOk(q)'
    OBVIOUS
  <2>1. CASE q = p
    <3>1. j = DeleteAt(e, i + 1, es) /\ i # 3 /\ (i = 1 => e \in rows)
      BY <2>1, <1>3, <1>5, <1>6 DEF Deleting
    <3>2. gone'[e] # Never
      BY <3>1, <1>1, <1>7, <1>10, SMT
    <3> QED BY <2>1, <3>1, <3>2, <1>1, <1>5, <1>6, SMT DEF DeleteOk
  <2>2. CASE q # p
    BY <2>2, <1>6, <1>10 DEF Deleting, DeleteOk, ExecInv
  <2> QED BY <2>1, <2>2
<1>19. \A q, r \in Procs :
         q # r /\ Creating(q)' /\ Creating(r)' => job'[q].exec # job'[r].exec
  BY <1>6, <1>8 DEF ExecInv
<1>20. \A x \in rows' : gone'[x] = Never
  BY <1>12
<1> QED BY <1>11, <1>13, <1>14, <1>15, <1>16, <1>17, <1>18, <1>19, <1>20 DEF ExecInv

LEMMA ExecStep == ExecInv /\ ClaimInv /\ [Next]_vars => ExecInv' /\ ClaimInv'
<1> SUFFICES ASSUME ExecInv, ClaimInv, [Next]_vars PROVE ExecInv' /\ ClaimInv'
  OBVIOUS
<1>1. ASSUME UNCHANGED <<scene, execVars, job>>, now' \in Nat PROVE ExecInv' /\ ClaimInv'
  <2>1. UNCHANGED <<scene, rows, disk, born, claims, inserted, gone, job>>
    BY <1>1 DEF execVars
  <2>2. Types' /\ RowsAreBacked' /\ OneDeleterWins'
    BY <1>1, <2>1 DEF ExecInv, ClaimInv, Types, RowsAreBacked, OneDeleterWins
  <2>3. \A q \in Procs : /\ Creating(q)' = Creating(q) /\ CreateOk(q)' = CreateOk(q)
                        /\ Deleting(q)' = Deleting(q) /\ DeleteOk(q)' = DeleteOk(q)
    BY <2>1 DEF Creating, CreateOk, Deleting, DeleteOk
  <2> QED BY <2>1, <2>2, <2>3 DEF ExecInv, ClaimInv
<1>2. now \in Nat
  BY DEF ExecInv, Types
<1>3. ASSUME NEW p \in Procs, Open(p) \/ Migrate(p) \/ MigrateFails(p)
      PROVE ExecInv' /\ ClaimInv'
  BY <1>1, <1>2, <1>3, Zenon DEF Open, Migrate, MigrateFails, schemaVars
<1>4. ASSUME NEW p \in Procs, NEW e \in scene.execs, DeleteNext(p, e)
      PROVE ExecInv' /\ ClaimInv'
  <2> DEFINE es == job[p].todo \ {e}
  <2>1. e \in Execs /\ es \subseteq Execs
    BY <1>4 DEF DeleteNext, ExecInv
  <2>2. PICK j \in {DeleteAt(e, 1, es), DeleteList(es)} :
          job' = [job EXCEPT ![p] = j]
    BY <1>4 DEF DeleteNext
  <2>3. UNCHANGED <<scene, execVars, now>>
    BY <1>4 DEF DeleteNext, schemaVars
  <2>4. \/ j.kind = "delete" /\ j.todo \subseteq Execs
        \/ /\ j.kind = "deleting" /\ j.exec \in Execs
           /\ j.todo \subseteq Execs /\ j.at = 1
    BY <2>1, <2>2, JobRecords
  <2> QED BY <2>2, <2>3, <2>4, JobOnly
<1>5. ASSUME NEW p \in Procs, NEW es \in SUBSET scene.execs, Delete(p, es)
      PROVE ExecInv' /\ ClaimInv'
  <2>1. es \subseteq Execs
    BY WorkspaceAssumption DEF ExecInv, Types
  <2>2. /\ job' = [job EXCEPT ![p] = DeleteList(es)]
        /\ UNCHANGED <<scene, execVars, now>>
    BY <1>5 DEF Delete, schemaVars
  <2>3. DeleteList(es).kind = "delete" /\ DeleteList(es).todo \subseteq Execs
    BY <2>1, JobRecords
  <2> QED BY <2>2, <2>3, JobOnly
<1>6. ASSUME NEW p \in Procs, CreateFails(p) \/ DeleteDone(p) PROVE ExecInv' /\ ClaimInv'
  <2>1. /\ job' = [job EXCEPT ![p] = NoJob]
        /\ UNCHANGED <<scene, execVars, now>>
    BY <1>6 DEF CreateFails, DeleteDone, schemaVars
  <2>2. NoJob.kind = "none"
    BY JobRecords
  <2> QED BY <2>1, <2>2, JobOnly
<1>7. ASSUME NEW p \in Procs, RemoveFails(p) PROVE ExecInv' /\ ClaimInv'
  <2>1. /\ job' = [job EXCEPT ![p] = DeleteList(job[p].todo)]
        /\ UNCHANGED <<scene, execVars, now>>
    BY <1>7 DEF RemoveFails, Rest, schemaVars
  <2>2. job[p].todo \subseteq Execs
    BY <1>7 DEF RemoveFails, ExecInv, DeleteOk
  <2>3. /\ DeleteList(job[p].todo).kind = "delete"
        /\ DeleteList(job[p].todo).todo \subseteq Execs
    BY <2>2, JobRecords
  <2> QED BY <2>1, <2>3, JobOnly
<1>8. ASSUME NEW p \in Procs, ListRead(p) \/ ListPut(p) \/ End(p)
      PROVE ExecInv' /\ ClaimInv'
  <2>1. PICK j \in {NoJob, [kind |-> "list", rows |-> rows, since |-> now]} :
          job' = [job EXCEPT ![p] = j]
    BY <1>8, Zenon DEF ListRead, ListPut, End
  <2>2. UNCHANGED <<scene, execVars, now>>
    BY <1>8, Zenon DEF ListRead, ListPut, End, schemaVars
  <2>3. j.kind \in {"none", "list"}
    BY <2>1, JobRecords
  <2> QED BY <2>1, <2>2, <2>3, JobOnly
<1>9. CASE Checkpoint
  BY <1>1, <1>2, <1>9 DEF Checkpoint, schemaVars
<1>10. CASE Tick
  BY <1>1, <1>2, <1>10, SMT DEF Tick, schemaVars
<1>11. CASE UNCHANGED vars
  BY <1>1, <1>2, <1>11 DEF vars, schemaVars
<1> QED
  BY <1>3, <1>4, <1>5, <1>6, <1>7, <1>8, <1>9, <1>10, <1>11,
     CreateBegins, CreateGoesOn, DeleteGoesOn, Zenon
  DEF Next, Procs

-----------------------------------------------------------------------------
(* Results                                                                   *)

(* Whatever migrations meet, crash or fail, an open store has the whole schema.  *)
THEOREM SchemaIsWhole == Spec => []OpenMeansWhole
<1>1. SchemaInv => OpenMeansWhole
  BY DEF SchemaInv, OpenMeansWhole
<1> QED BY SchemaInit, SchemaStep, <1>1, PTL DEF Spec

(* A row has its snapshot and its hash, whichever processes create, delete and    *)
(* crash.                                                                    *)
THEOREM RowsStayBacked == Spec => []RowsAreBacked
<1>1. ExecInv => RowsAreBacked
  BY DEF ExecInv
<1> QED BY ExecInit, ExecStep, <1>1, PTL DEF Spec

(* One of the processes that delete an execution reports it deleted, for good.    *)
THEOREM OneDeletionWins == Spec => []OneDeleterWins
<1>1. ClaimInv => OneDeleterWins
  BY DEF ClaimInv
<1> QED BY ExecInit, ExecStep, <1>1, PTL DEF Spec

-----------------------------------------------------------------------------
(***************************************************************************)
(* Lists. A list is right for a moment t when each of its executions was in   *)
(* the database at some moment since t, and each other one was not. Commits    *)
(* only add such moments, so a list that was right for t stays right.         *)
(***************************************************************************)
RightFor(list, t) ==
  \A e \in Execs : IF e \in list THEN WasSince(e, t) ELSE WasNotSince(e, t)

(* The history says of each execution whether it has a row.                   *)
HistoryInv ==
  /\ inserted \in [Execs -> Int]
  /\ \A e \in rows : inserted[e] # Never
  /\ \A e \in Execs : inserted[e] # Never => e \in rows \/ gone[e] # Never

(* A walk is not over its bound yet, and its list is right for when it was read. *)
WalkOk(p) ==
  /\ job[p].since \in Nat
  /\ job[p].since <= now /\ now <= job[p].since + WalkMax
  /\ RightFor(job[p].rows, job[p].since)

CacheOk(p) ==
  /\ cache[p].at \in Nat /\ cache[p].at <= now
  /\ RightFor(cache[p].rows, cache[p].at - WalkMax)

ListInv ==
  /\ HistoryInv
  /\ cache = [p \in Studios |-> cache[p]]
  /\ \A p \in Procs : job[p].kind = "list" => WalkOk(p)
  /\ \A p \in Studios : cache[p] # NoCache => CacheOk(p)

(* What a step does to the rows and their history.                            *)
Kept == UNCHANGED <<rows, inserted, gone>>
Added(e) ==
  /\ e \in Execs
  /\ rows' = rows \cup {e} /\ inserted' = [inserted EXCEPT ![e] = now]
  /\ gone' = gone
Removed(e) ==
  /\ e \in rows
  /\ rows' = rows \ {e} /\ gone' = [gone EXCEPT ![e] = now]
  /\ inserted' = inserted

LEMMA ListInit == Init => ListInv
<1> SUFFICES ASSUME Init PROVE ListInv
  OBVIOUS
<1>1. HistoryInv
  BY SMT DEF Init, HistoryInv, Never
<1>2. \A p \in Procs : job[p].kind = "none"
  BY JobRecords DEF Init
<1>3. cache = [p \in Studios |-> NoCache]
  BY DEF Init
<1> HIDE DEF NoCache
<1> QED BY <1>1, <1>2, <1>3 DEF ListInv

(* The shape of a step: at most one row comes or goes, and ticks go forward.     *)
LEMMA RowStep ==
  ASSUME ExecInv, [Next]_vars
  PROVE  /\ Kept \/ (\E e \in Execs : Added(e)) \/ (\E e \in Execs : Removed(e))
         /\ now' \in Nat /\ now <= now'
<1>1. now \in Nat /\ rows \subseteq Execs
  BY DEF ExecInv, Types
<1>2. ASSUME Kept, now' = now \/ now' = now + 1
      PROVE  /\ Kept \/ (\E e \in Execs : Added(e)) \/ (\E e \in Execs : Removed(e))
             /\ now' \in Nat /\ now <= now'
  BY <1>1, <1>2, SMT
<1>3. ASSUME NEW p \in Procs, CreateStep(p)
      PROVE  now' = now /\ (Kept \/ \E e \in Execs : Added(e))
  <2>1. job[p].exec \in Execs
    BY <1>3 DEF CreateStep, ExecInv, CreateOk, Types
  <2>2. now' = now /\ gone' = gone
    BY <1>3 DEF CreateStep
  <2>3. CASE CreateOrder[job[p].at] = "row"
    <3>1. Added(job[p].exec)
      BY <1>3, <2>1, <2>2, <2>3, Zenon DEF CreateStep, Added
    <3> QED BY <2>1, <2>2, <3>1
  <2>4. CASE CreateOrder[job[p].at] # "row"
    BY <1>3, <2>2, <2>4, Zenon DEF CreateStep, Kept
  <2> QED BY <2>3, <2>4
<1>4. ASSUME NEW p \in Procs, DeleteStep(p)
      PROVE  now' = now /\ (Kept \/ \E e \in Execs : Removed(e))
  <2>1. now' = now /\ inserted' = inserted
    BY <1>4 DEF DeleteStep
  <2>2. \/ UNCHANGED <<rows, gone>>
        \/ /\ job[p].exec \in rows /\ rows' = rows \ {job[p].exec}
           /\ gone' = [gone EXCEPT ![job[p].exec] = now]
    BY <1>4, Zenon DEF DeleteStep, Found
  <2> QED BY <1>1, <2>1, <2>2, Zenon DEF Kept, Removed
<1>5. ASSUME NEW p \in Procs, NEW e \in scene.execs, Create(p, e)
      PROVE  Kept /\ now' = now
  BY <1>5, Zenon DEF Create, Kept
<1>6. ASSUME NEW p \in Procs,
             \/ Open(p) \/ Migrate(p) \/ MigrateFails(p) \/ CreateFails(p)
             \/ RemoveFails(p) \/ DeleteDone(p) \/ End(p) \/ ListRead(p) \/ ListPut(p)
             \/ (\E e \in scene.execs : DeleteNext(p, e))
             \/ (\E es \in SUBSET scene.execs \ {{}} : Delete(p, es))
      PROVE  Kept /\ now' = now
  <2>1. UNCHANGED <<execVars, now>>
    BY <1>6, Zenon
    DEF Open, Migrate, MigrateFails, CreateFails, RemoveFails, DeleteDone, End,
        ListRead, ListPut, DeleteNext, Delete
  <2> QED BY <2>1 DEF execVars, Kept
<1>7. ASSUME Checkpoint \/ UNCHANGED vars PROVE Kept /\ now' = now
  BY <1>7 DEF Checkpoint, vars, execVars, Kept
<1>8. ASSUME Tick PROVE Kept /\ now' = now + 1
  BY <1>8 DEF Tick, execVars, Kept
<1>9. CASE UNCHANGED vars
  BY <1>2, <1>7, <1>9
<1>10. CASE Next
  <2>1. \/ \E p \in Procs :
             \/ Open(p) \/ Migrate(p) \/ MigrateFails(p) \/ CreateFails(p)
             \/ RemoveFails(p) \/ DeleteDone(p) \/ End(p) \/ ListRead(p) \/ ListPut(p)
             \/ (\E e \in scene.execs : DeleteNext(p, e))
             \/ (\E es \in SUBSET scene.execs \ {{}} : Delete(p, es))
        \/ \E p \in Procs : CreateStep(p) \/ DeleteStep(p)
        \/ \E p \in Procs : \E e \in scene.execs : Create(p, e)
        \/ Checkpoint \/ Tick
    BY <1>10, Zenon DEF Next, Procs
  <2>2. \/ Kept /\ now' = now + 1
        \/ /\ now' = now
           /\ Kept \/ (\E e \in Execs : Added(e)) \/ (\E e \in Execs : Removed(e))
    BY <2>1, <1>3, <1>4, <1>5, <1>6, <1>7, <1>8, Zenon
  <2> QED BY <2>2, <1>1, SMT
<1> QED BY <1>9, <1>10

(* The history keeps its word, and a list that is right for an earlier moment    *)
(* stays right for it.                                                       *)
LEMMA HistoryStep ==
  ASSUME ExecInv, ExecInv', ListInv, [Next]_vars
  PROVE  /\ HistoryInv'
         /\ \A list : \A t \in Int : t <= now /\ RightFor(list, t) => RightFor(list, t)'
<1>1. /\ now \in Nat /\ gone \in [Execs -> Int] /\ rows \subseteq Execs
      /\ \A e \in rows : gone[e] = Never
  BY DEF ExecInv, Types
<1>2. HistoryInv
  BY DEF ListInv
<1>3. PICK e : \/ Kept
               \/ e \in Execs /\ Added(e)
               \/ e \in Execs /\ Removed(e)
  BY RowStep
<1>4. CASE Kept
  <2>1. \A list : \A t \in Int : RightFor(list, t) => RightFor(list, t)'
    BY <1>4, SMT DEF Kept, RightFor, WasSince, WasNotSince
  <2> QED BY <1>2, <1>4, <2>1, SMT DEF HistoryInv, Kept
<1>5. CASE e \in Execs /\ Added(e)
  <2>1. /\ \A x \in Execs : inserted'[x] = IF x = e THEN now ELSE inserted[x]
        /\ inserted' \in [Execs -> Int]
    BY <1>1, <1>2, <1>5, SMT DEF HistoryInv, Added
  <2>2. HistoryInv'
    BY <1>1, <1>2, <1>5, <2>1, SMT DEF HistoryInv, Added, Never
  <2>3. ASSUME NEW list, NEW t \in Int, t <= now, RightFor(list, t)
        PROVE  RightFor(list, t)'
    BY <1>1, <1>5, <2>1, <2>3, SMT DEF RightFor, WasSince, WasNotSince, Added, Never
  <2> QED BY <2>2, <2>3
<1>6. CASE e \in Execs /\ Removed(e)
  <2>1. \A x \in Execs : gone'[x] = IF x = e THEN now ELSE gone[x]
    BY <1>1, <1>6, SMT DEF Removed
  <2>2. HistoryInv'
    BY <1>1, <1>2, <1>6, <2>1, SMT DEF HistoryInv, Removed, Never
  <2>3. ASSUME NEW list, NEW t \in Int, t <= now, RightFor(list, t)
        PROVE  RightFor(list, t)'
    BY <1>1, <1>6, <2>1, <2>3, SMT DEF RightFor, WasSince, WasNotSince, Removed, Never
  <2> QED BY <2>2, <2>3
<1> QED BY <1>3, <1>4, <1>5, <1>6

(* A list that was just read is right for this moment.                        *)
LEMMA ReadNow == ASSUME ExecInv, HistoryInv PROVE RightFor(rows, now)
BY SMT DEF ExecInv, Types, HistoryInv, RightFor, WasSince, WasNotSince

LEMMA RightEarlier ==
  ASSUME ExecInv, HistoryInv, NEW list, NEW t \in Int, NEW u \in Int, u <= t,
         RightFor(list, t)
  PROVE  RightFor(list, u)
BY SMT DEF ExecInv, Types, HistoryInv, RightFor, WasSince, WasNotSince

(* The lists that a step leaves: those from before, one just read, or one put     *)
(* beside the tick its walk ended at.                                        *)
Before(p) == job'[p] = job[p]
ReadIt(p) ==
  /\ job'[p].rows = rows /\ job'[p].since = now
  /\ Kept /\ now' = now
PutIt(p) ==
  /\ p \in Procs /\ job[p].kind = "list"
  /\ cache'[p] = [at |-> now, rows |-> job[p].rows]
  /\ now' = now

LEMMA JobStep ==
  ASSUME ExecInv, [Next]_vars, NEW p \in Procs, job'[p].kind = "list"
  PROVE  /\ Before(p) \/ ReadIt(p)
         /\ now' = now \/ (now' = now + 1 /\ now < job[p].since + WalkMax
                           /\ job'[p] = job[p])
<1>1. job = [q \in Procs |-> job[q]]
  BY DEF ExecInv, Types
<1>2. ASSUME NEW q \in Procs, NEW j, job' = [job EXCEPT ![q] = j], now' = now,
             j.kind # "list"
      PROVE  Before(p) /\ now' = now
  BY <1>1, <1>2 DEF Before
<1>3. ASSUME UNCHANGED <<job, now>> PROVE Before(p) /\ now' = now
  BY <1>3 DEF Before
<1>4. /\ NoJob.kind = "none"
      /\ \A e, i : CreateAt(e, i).kind = "create"
      /\ \A es : DeleteList(es).kind = "delete"
      /\ \A e, i, es : DeleteAt(e, i, es).kind = "deleting"
  BY JobRecords
<1>5. ASSUME NEW q \in Procs, Open(q) \/ Migrate(q) \/ MigrateFails(q)
      PROVE  Before(p) /\ now' = now
  BY <1>3, <1>5, Zenon DEF Open, Migrate, MigrateFails
<1>6. ASSUME NEW q \in Procs, NEW e \in scene.execs, Create(q, e) \/ DeleteNext(q, e)
      PROVE  Before(p) /\ now' = now
  <2>1. CASE Create(q, e)
    BY <2>1, <1>2, <1>4, Zenon DEF Create
  <2>2. CASE DeleteNext(q, e)
    <3>1. now' = now
      BY <2>2 DEF DeleteNext
    <3>2. PICK j \in {DeleteAt(e, 1, job[q].todo \ {e}), DeleteList(job[q].todo \ {e})} :
            job' = [job EXCEPT ![q] = j]
      BY <2>2 DEF DeleteNext
    <3>3. j.kind # "list"
      BY <3>2, <1>4
    <3> QED BY <3>1, <3>2, <3>3, <1>2
  <2> QED BY <1>6, <2>1, <2>2
<1>7. ASSUME NEW q \in Procs,
             \/ CreateFails(q) \/ DeleteDone(q) \/ End(q) \/ ListPut(q)
      PROVE  Before(p) /\ now' = now
  BY <1>2, <1>4, <1>7, Zenon DEF CreateFails, DeleteDone, End, ListPut
<1>8. ASSUME NEW q \in Procs,
             RemoveFails(q) \/ (\E es \in SUBSET scene.execs \ {{}} : Delete(q, es))
      PROVE  Before(p) /\ now' = now
  BY <1>2, <1>4, <1>8, Zenon DEF RemoveFails, Delete, Rest
<1>9. ASSUME NEW q \in Procs, CreateStep(q) PROVE Before(p) /\ now' = now
  <2>1. now' = now
    BY <1>9 DEF CreateStep
  <2>2. \E j : job' = [job EXCEPT ![q] = j] /\ j.kind # "list"
    <3>1. \/ job' = [job EXCEPT ![q] = CreateAt(job[q].exec, job[q].at + 1)]
          \/ job' = [job EXCEPT ![q] = NoJob]
      BY <1>9, Zenon DEF CreateStep
    <3> QED BY <3>1, <1>4
  <2> QED BY <2>1, <2>2, <1>2
<1>10. ASSUME NEW q \in Procs, DeleteStep(q) PROVE Before(p) /\ now' = now
  <2>1. now' = now
    BY <1>10 DEF DeleteStep
  <2>2. \E j : job' = [job EXCEPT ![q] = j] /\ j.kind # "list"
    <3>1. \/ job' = [job EXCEPT ![q] = DeleteAt(job[q].exec, job[q].at + 1, job[q].todo)]
          \/ job' = [job EXCEPT ![q] = Rest(q)]
      BY <1>10, Zenon DEF DeleteStep
    <3> QED BY <3>1, <1>4 DEF Rest
  <2> QED BY <2>1, <2>2, <1>2
<1>11. ASSUME NEW q \in Studios, ListRead(q)
       PROVE  (Before(p) \/ ReadIt(p)) /\ now' = now
  <2>1. /\ Kept /\ now' = now
        /\ job' = [job EXCEPT ![q] = [kind |-> "list", rows |-> rows, since |-> now]]
    BY <1>11 DEF ListRead, execVars, Kept
  <2>2. CASE p = q
    BY <1>1, <2>1, <2>2 DEF ReadIt
  <2>3. CASE p # q
    BY <1>1, <2>1, <2>3 DEF Before
  <2> QED BY <2>1, <2>2, <2>3
<1>12. ASSUME Checkpoint \/ UNCHANGED vars PROVE Before(p) /\ now' = now
  BY <1>3, <1>12 DEF Checkpoint, vars
<1>13. ASSUME Tick
       PROVE  Before(p) /\ now' = now + 1 /\ now < job[p].since + WalkMax
  BY <1>13 DEF Tick, Before
<1> QED
  BY <1>5, <1>6, <1>7, <1>8, <1>9, <1>10, <1>11, <1>12, <1>13, Zenon
  DEF Next, Procs, Before

LEMMA CacheStep ==
  ASSUME ListInv, [Next]_vars
  PROVE  /\ cache' = [p \in Studios |-> cache'[p]]
         /\ \A p \in Studios : \/ cache'[p] = cache[p]
                               \/ cache'[p] = NoCache
                               \/ PutIt(p)
<1>1. cache = [p \in Studios |-> cache[p]]
  BY DEF ListInv
<1>2. ASSUME cache' = cache
      PROVE  /\ cache' = [p \in Studios |-> cache'[p]]
             /\ \A p \in Studios : cache'[p] = cache[p]
  BY <1>1, <1>2
<1>3. ASSUME NEW q \in Studios, ListPut(q)
      PROVE  /\ cache' = [p \in Studios |-> cache'[p]]
             /\ \A p \in Studios : cache'[p] = cache[p] \/ PutIt(p)
  BY <1>1, <1>3 DEF ListPut, PutIt, Procs
<1>4. ASSUME NEW q \in Procs, End(q)
      PROVE  /\ cache' = [p \in Studios |-> cache'[p]]
             /\ \A p \in Studios : cache'[p] = cache[p] \/ cache'[p] = NoCache
  <2>1. CASE q \in Studios
    BY <1>1, <1>4, <2>1 DEF End
  <2>2. CASE q \notin Studios
    BY <1>2, <1>4, <2>2 DEF End, cacheVars
  <2> QED BY <2>1, <2>2
<1>5. \/ cache' = cache
      \/ \E q \in Studios : ListPut(q)
      \/ \E q \in Procs : End(q)
  <2>1. CASE UNCHANGED vars
    BY <2>1 DEF vars, cacheVars
  <2>2. CASE \E q \in Procs :
               \/ Open(q) \/ Migrate(q) \/ MigrateFails(q)
               \/ \E e \in scene.execs : Create(q, e) \/ DeleteNext(q, e)
               \/ CreateStep(q) \/ CreateFails(q)
               \/ \E es \in SUBSET scene.execs \ {{}} : Delete(q, es)
               \/ DeleteStep(q) \/ RemoveFails(q) \/ DeleteDone(q)
    <3>1. UNCHANGED cacheVars
      BY <2>2, Zenon
      DEF Open, Migrate, MigrateFails, Create, DeleteNext, CreateStep, CreateFails,
          Delete, DeleteStep, RemoveFails, DeleteDone
    <3> QED BY <3>1 DEF cacheVars
  <2>3. CASE (\E q \in Studios : ListRead(q)) \/ Checkpoint \/ Tick
    BY <2>3 DEF ListRead, Checkpoint, Tick, cacheVars
  <2> QED BY <2>1, <2>2, <2>3, Zenon DEF Next
<1> QED BY <1>2, <1>3, <1>4, <1>5, Zenon

LEMMA ListStep == ExecInv /\ ExecInv' /\ ListInv /\ [Next]_vars => ListInv'
<1> SUFFICES ASSUME ExecInv, ExecInv', ListInv, [Next]_vars PROVE ListInv'
  OBVIOUS
<1>1. now \in Nat /\ now' \in Nat /\ now <= now' /\ WalkMax \in Nat
  BY RowStep, WorkspaceAssumption DEF ExecInv, Types
<1>2. /\ HistoryInv /\ HistoryInv'
      /\ \A list : \A t \in Int : t <= now /\ RightFor(list, t) => RightFor(list, t)'
  BY HistoryStep DEF ListInv
<1>3. ASSUME NEW p \in Procs, job'[p].kind = "list" PROVE WalkOk(p)'
  <2>1. CASE Before(p)
    <3>1. WalkOk(p) /\ job'[p] = job[p]
      BY <1>3, <2>1 DEF ListInv, Before
    <3>2. RightFor(job[p].rows, job[p].since)'
      <4>1. RightFor(job[p].rows, job[p].since) /\ job[p].since \in Int
            /\ job[p].since <= now
        BY <3>1, SMT DEF WalkOk
      <4> DEFINE list == job[p].rows
                 t == job[p].since
      <4> QED BY <4>1, <3>1, <1>2 DEF RightFor, WasSince, WasNotSince
    <3>3. now' <= job[p].since + WalkMax
      <4>1. now' = now \/ (now' = now + 1 /\ now < job[p].since + WalkMax)
        BY <1>3, JobStep
      <4> QED BY <4>1, <3>1, <1>1, SMT DEF WalkOk
    <3> QED BY <1>1, <3>1, <3>2, <3>3, SMT DEF WalkOk
  <2>2. CASE ReadIt(p)
    <3>1. RightFor(rows, now)'
      BY <1>2, <2>2, ReadNow DEF ReadIt, Kept, RightFor, WasSince, WasNotSince
    <3> QED BY <1>1, <2>2, <3>1, SMT DEF ReadIt, Kept, WalkOk
  <2> QED BY <1>3, <2>1, <2>2, JobStep
<1>4. ASSUME NEW p \in Studios, cache'[p] # NoCache PROVE CacheOk(p)'
  <2>1. CASE cache'[p] = cache[p]
    <3>1. CacheOk(p)
      BY <1>4, <2>1 DEF ListInv
    <3>2. cache[p].at - WalkMax \in Int /\ cache[p].at - WalkMax <= now
      BY <1>1, <3>1, SMT DEF CacheOk
    <3>3. RightFor(cache[p].rows, cache[p].at - WalkMax)'
      BY <1>2, <2>1, <3>1, <3>2 DEF CacheOk, RightFor, WasSince, WasNotSince
    <3> QED BY <1>1, <2>1, <3>1, <3>3, SMT DEF CacheOk
  <2>2. CASE PutIt(p)
    <3>1. PICK list, u : list = job[p].rows /\ u = now - WalkMax
      OBVIOUS
    <3>2. /\ job[p].since \in Int /\ u \in Int /\ u <= job[p].since /\ u <= now
          /\ RightFor(list, job[p].since)
      BY <1>1, <2>2, <3>1, SMT DEF PutIt, ListInv, WalkOk
    <3>3. RightFor(list, u)
      BY <1>2, <3>2, RightEarlier
    <3>4. RightFor(list, u)'
      BY <1>2, <3>2, <3>3
    <3>5. cache'[p].at = now /\ cache'[p].rows = list /\ now' = now
      BY <2>2, <3>1 DEF PutIt
    <3> QED BY <1>1, <3>1, <3>4, <3>5 DEF CacheOk
  <2> QED BY <1>4, <2>1, <2>2, CacheStep
<1> QED BY <1>2, <1>3, <1>4, CacheStep DEF ListInv

(* What a Studio shows is right for a moment a cache's lifetime and a walk ago.   *)
THEOREM ListsStayRecent == Spec => []ListsAreRecent
<1>1. ExecInv /\ ListInv => ListsAreRecent
  <2> SUFFICES ASSUME ExecInv, ListInv, NEW p \in Studios, Fresh(p)
               PROVE  RightFor(cache[p].rows, now - TTL - WalkMax)
    BY DEF ListsAreRecent, RightFor
  <2>1. CacheOk(p) /\ now - cache[p].at <= TTL
    BY DEF Fresh, ListInv
  <2> DEFINE list == cache[p].rows
             t == cache[p].at - WalkMax
             u == now - TTL - WalkMax
  <2>2. t \in Int /\ u \in Int /\ u <= t /\ RightFor(list, t)
    BY <2>1, WorkspaceAssumption, SMT DEF CacheOk, ExecInv, Types
  <2> HIDE DEF list, t, u
  <2>3. RightFor(list, u)
    BY <2>2, RightEarlier DEF ListInv
  <2> QED BY <2>3 DEF list, u
<1> QED BY ExecInit, ExecStep, ListInit, ListStep, <1>1, PTL DEF Spec
=============================================================================
