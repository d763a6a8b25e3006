------------------------------- MODULE Results -------------------------------
(***************************************************************************)
(* From an input file to what is shown and exported of it. An execution is  *)
(* created from a file; attempts of the command line, and re-runs of failed  *)
(* rows from Studio, read it again and again, each skipping what its policy   *)
(* tells it to, and append outcomes to their logs; and while they do, one     *)
(* client either exports the execution (export.rs) or pages through the      *)
(* failures of the first attempt (failed.rs). The dispatch of rows to         *)
(* handlers is Pool's: here a row read gets an outcome or, when its attempt    *)
(* is cut short, none.                                                      *)
(***************************************************************************)
EXTENDS Integers, SequencesExt, InputRows

CONSTANTS
  Files,        (* the input files, as InputRows describes them             *)
  AttemptSeq,   (* bound: the attempts, in the order they are made          *)
  BatchRows,    (* rows in a line of the log                                *)
  Outcomes,     (* the kinds of outcome handlers and pool produce           *)
  PageLimit,    (* rows in a page of failures                               *)
  Clients       (* bound: what the client may do, "export" or "page"        *)

Attempts == {AttemptSeq[i] : i \in DOMAIN AttemptSeq}
Policies == {"default", "retry", "force"}
Outcome  == [seq : Nat, kind : Outcomes]

ASSUME ResultsAssumption ==
  /\ Files \subseteq InputFile
  /\ AttemptSeq \in Seq(Attempts) /\ AttemptSeq # <<>> /\ "none" \notin Attempts
  /\ \A i, j \in DOMAIN AttemptSeq : AttemptSeq[i] = AttemptSeq[j] => i = j
  /\ BatchRows \in Nat \ {0} /\ PageLimit \in Nat \ {0}
  /\ Outcomes \subseteq {"success", "error", "crash", "cancelled", "too_large"}
  /\ Clients \subseteq {"export", "page"}

VARIABLES
  file, count,     (* the snapshot in the execution's directory and its count *)
  state, policy,   (* the attempts: their sqlite state, and the option given  *)
  skip, it,        (* of the attempt at work: rows to skip, the iterator      *)
  batch,           (* outcomes not yet in the log                            *)
  log, torn,       (* per attempt its lines, and whether the last is half written *)
  announced,       (* per attempt the rows it said it would hand out         *)
  dispatched,      (* history: every row handed out, with attempt and line    *)
  client,          (* what the client does                                   *)
  xpc, xstrict, xformat, xmerged, xres, xaborted, xfiles, xreport, (* an export *)
  ppc, offset, shown                                        (* a table of failures *)

execVars   == <<file, count>>
runVars    == <<state, policy, skip, it, batch, log, torn, announced, dispatched>>
exportVars == <<xpc, xstrict, xformat, xmerged, xres, xaborted, xfiles, xreport>>
pageVars   == <<ppc, offset, shown>>
vars == <<execVars, runVars, client, exportVars, pageVars>>

R == INSTANCE Resolution WITH Rows <- Nat, Runs <- Attempts, Kinds <- Outcomes

Failing == {"FailedLast", "CrashedLast", "CancelledLast", "TooLarge"}
Before(a, b) ==
  \E i, j \in DOMAIN AttemptSeq : i < j /\ AttemptSeq[i] = a /\ AttemptSeq[j] = b
Finished(s) == {a \in Attempts : s[a] \in {"completed", "aborted"}}

---------------------------------------------------------------------------
(* Row resolution over the logs as they are on disk.                        *)

(* The outcomes of the lines of a log, in order.                            *)
Flat(lines) == FoldLeft(LAMBDA acc, line : acc \o line, <<>>, lines)

(* All that can be read of a log; a half-written last line does not parse.   *)
Whole(a)  == IF torn[a] THEN SubSeq(log[a], 1, Len(log[a]) - 1) ELSE log[a]
Parsed(a) == Flat(Whole(a))
Logs(merged) == [a \in merged |-> Parsed(a)]

(* ingest_jsonl fails on the first line that does not parse.                 *)
ResolutionFails(merged) == \E a \in merged : torn[a]

Seqs(merged) ==
  (0..(count - 1)) \cup
  UNION {{Parsed(a)[i].seq : i \in DOMAIN Parsed(a)} : a \in merged}

(* What the log of an attempt adds to what is known of a row.               *)
Ingest(p, a, outcomes, n) ==
  FoldLeft(LAMBDA q, o : IF o.seq = n THEN R!apply_row_outcome(q, a, o.kind) ELSE q,
           p, outcomes)

(* One row after the logs given, oldest first; attempts without are passed.  *)
ResolveIn(logs, n) ==
  FoldLeft(LAMBDA p, a : IF a \in DOMAIN logs THEN Ingest(p, a, logs[a], n) ELSE p,
           R!NeverAttempted, AttemptSeq)

Resolve(merged, n) == ResolveIn(Logs(merged), n)

compute_resolution(merged) == [n \in Seqs(merged) |-> Resolve(merged, n)]

InState(res, states) == {n \in DOMAIN res : res[n].state \in states}

---------------------------------------------------------------------------
(* The attempts of the command line.                                        *)

NoRun == /\ skip = {} /\ it = OpenFailed /\ batch = <<>>
Running == {a \in Attempts : state[a] = "running"}

(* Mutant of SkipSet: --retry-failed skips the rows that never ran, and no   *)
(* others.                                                                  *)
SkipUntried(pol, res) ==
  CASE pol = "force"   -> {}
    [] pol = "retry"   -> InState(res, {"NeverAttempted"})
    [] OTHER           -> DOMAIN res \ InState(res, {"NeverAttempted"})

(* run_attempt's rows to skip: what has been attempted; with --retry-failed   *)
(* the row numbers below input_row_count that have not failed; with --force   *)
(* nothing.                                                                 *)
SkipSet(pol, res) ==
  CASE pol = "force"   -> {}
    [] pol = "retry"   -> (0..(count - 1)) \ InState(res, Failing)
    [] OTHER           -> DOMAIN res \ InState(res, {"NeverAttempted"})

(* An attempt up to its reader: the row of the attempt, the input, and last     *)
(* Started, with the number of rows to come. An input that does not open       *)
(* aborts it, and nothing is announced.                                     *)
Begin(a, pol, skipped, total) ==
  /\ state[a] = "none" /\ Running = {}
  /\ \A b \in Attempts : Before(b, a) => state[b] # "none"
  /\ policy' = [policy EXCEPT ![a] = pol]
  /\ LET begun == open_input(file)
     IN  IF begun = OpenFailed
         THEN state' = [state EXCEPT ![a] = "aborted"] /\ UNCHANGED <<skip, it, announced>>
         ELSE /\ state' = [state EXCEPT ![a] = "running"] /\ skip' = skipped /\ it' = begun
              /\ announced' = [announced EXCEPT ![a] = total]
  /\ UNCHANGED <<execVars, batch, log, torn, dispatched, client, exportVars, pageVars>>

(* `exec run`: the resolution (not with --force) decides what to skip. What    *)
(* is announced is the file, skipped rows and all.                          *)
StartAttempt(a) ==
  LET merged == Finished(state)
  IN  \E pol \in Policies :
        /\ pol # "force" => ~ResolutionFails(merged)
        /\ Begin(a, pol, SkipSet(pol, compute_resolution(merged)), count_input_rows(file))

(* attempt_failed_row_ids, of the lines of a log that can be read: every row  *)
(* logged as an error or a crash, which is every one that is no success.      *)
FailedIds(lines) ==
  {o.seq : o \in {p \in UNION {ToSet(lines[k]) : k \in DOMAIN lines} : p.kind # "success"}}

(* What the page of an attempt may take for its failed rows: it reads them      *)
(* when it is opened, while the attempt runs or later, and never again.       *)
Kept(a) ==
  {FailedIds(SubSeq(log[a], 1, k)) : k \in 0..Len(Whole(a))}

(* The page's button, once its attempt has ended: start_run with only_row_ids,   *)
(* which keep the reader from every other row (no number is beyond the lines)  *)
(* and whose number is announced.                                           *)
ReRun(a) ==
  \E b \in Finished(state) : \E ids \in Kept(b) \ {{}} :
    Begin(a, "rerun", (0..Len(file.lines)) \ ids, Cardinality(ids))

(* The reader takes the next row. One that does not parse or is to be skipped *)
(* is passed over; another goes out, and an outcome for it comes back.        *)
ReadRow(a) ==
  /\ state[a] = "running" /\ Len(batch) < BatchRows /\ ~torn[a]
  /\ LET item == yield_next(file, it)
     IN  /\ item.kind # "end"
         /\ it' = item.next
         /\ IF item.kind = "error" \/ item.seq \in skip
            THEN UNCHANGED <<batch, dispatched>>
            ELSE /\ dispatched' = dispatched \cup
                      {[attempt |-> a, seq |-> item.seq, line |-> item.line]}
                 /\ \E k \in Outcomes :
                      batch' = Append(batch, [seq |-> item.seq, kind |-> k])
  /\ UNCHANGED <<execVars, state, policy, skip, log, torn, announced, client, exportVars,
                 pageVars>>

(* A line of the log is begun, and is on disk in full only later.            *)
BeginLine(a) ==
  /\ state[a] = "running" /\ batch # <<>> /\ ~torn[a]
  /\ log' = [log EXCEPT ![a] = Append(@, batch)]
  /\ torn' = [torn EXCEPT ![a] = TRUE]
  /\ batch' = <<>>
  /\ UNCHANGED <<execVars, state, policy, skip, it, announced, dispatched, client, exportVars,
                 pageVars>>

EndLine(a) ==
  /\ state[a] = "running" /\ torn[a]
  /\ torn' = [torn EXCEPT ![a] = FALSE]
  /\ UNCHANGED <<execVars, state, policy, skip, it, batch, log, announced, dispatched, client,
                 exportVars, pageVars>>

(* finish_attempt after the last row.                                       *)
FinishAttempt(a) ==
  /\ state[a] = "running" /\ batch = <<>> /\ ~torn[a]
  /\ yield_next(file, it).kind = "end"
  /\ state' = [state EXCEPT ![a] = "completed"]
  /\ skip' = {} /\ it' = OpenFailed
  /\ UNCHANGED <<execVars, policy, batch, log, torn, announced, dispatched, client, exportVars,
                 pageVars>>

(* The attempt is cut short: cancelled or stalled, or its process died and    *)
(* an orphan scan closed it. What was not in the log is gone.               *)
AbortAttempt(a) ==
  /\ state[a] = "running"
  /\ state' = [state EXCEPT ![a] = "aborted"]
  /\ skip' = {} /\ it' = OpenFailed /\ batch' = <<>>
  /\ UNCHANGED <<execVars, policy, log, torn, announced, dispatched, client, exportVars,
                 pageVars>>

Attempting ==
  \E a \in Attempts :
    StartAttempt(a) \/ ReRun(a) \/ ReadRow(a) \/ BeginLine(a) \/ EndLine(a)
      \/ FinishAttempt(a) \/ AbortAttempt(a)

---------------------------------------------------------------------------
(* export_execution. Studio calls it under the lock of its store, the command *)
(* line from its own process: neither keeps attempts from being finished     *)
(* meanwhile.                                                               *)

(* The files of an export in the order in which they are written.            *)
DataFiles == [csv   |-> <<"success.csv", "failed.csv">>,
              jsonl |-> <<"success.jsonl", "failed.jsonl">>,
              both  |-> <<"success.csv", "failed.csv", "success.jsonl", "failed.jsonl">>]

FileOrder(format) == Append(DataFiles[format], "resolution.json")

(* compute_resolution. A log that does not parse ends the export before any   *)
(* file.                                                                    *)
ExportResolve ==
  /\ "export" = client /\ xpc = "idle"
  /\ LET merged == Finished(state)
     IN  /\ xstrict' \in BOOLEAN /\ xformat' \in DOMAIN DataFiles
         /\ xmerged' = merged
         /\ IF ResolutionFails(merged)
            THEN xpc' = "failed" /\ UNCHANGED xres
            ELSE xpc' = "resolved" /\ xres' = compute_resolution(merged)
  /\ UNCHANGED <<execVars, runVars, client, xaborted, xfiles, xreport, pageVars>>

(* Mutant of Completeness: aborted attempts alone make an export incomplete.  *)
AbortedOnly(res, aborted) == aborted = {}

(* Completeness::compute.                                                   *)
FullyProcessed(res, aborted) ==
  InState(res, {"NeverAttempted"}) = {} /\ aborted = {}

(* collect_aborted_attempts reads the attempts again, later than the         *)
(* resolution did. A strict export of an incomplete execution stops here.    *)
ExportCheck ==
  /\ xpc = "resolved"
  /\ xaborted' = {a \in Attempts : state[a] = "aborted"}
  /\ xpc' = IF xstrict /\ ~FullyProcessed(xres, xaborted') THEN "refused" ELSE "writing"
  /\ UNCHANGED <<execVars, runVars, client, xstrict, xformat, xmerged, xres, xfiles, xreport,
                 pageVars>>

(* write_failed_csv and write_failed_jsonl: a row that never ran gets a line  *)
(* of its own making, a failing one its latest failure.                      *)
FailedRows(res) ==
  InState(res, {"NeverAttempted"})
    \cup {n \in InState(res, Failing) : res[n].failure # "none"}

(* write_success_csv and write_success_jsonl: the canonical success.         *)
SuccessRows(res) == {n \in DOMAIN res : res[n].canonical # "none"}

Written(f) ==
  CASE f \in {"success.csv", "success.jsonl"} -> [whole |-> TRUE, rows |-> SuccessRows(xres)]
    [] f \in {"failed.csv", "failed.jsonl"}   -> [whole |-> TRUE, rows |-> FailedRows(xres)]
    [] OTHER -> [whole |-> TRUE, rows |-> DOMAIN xres]

(* The places in the order of the files that are still to be written.        *)
Missing == {i \in DOMAIN FileOrder(xformat) : FileOrder(xformat)[i] \notin DOMAIN xfiles}
NextFile == FileOrder(xformat)[Least(Missing)]

(* The files with one more.                                                 *)
Create(f, content) ==
  [g \in DOMAIN xfiles \cup {f} |-> IF g = f THEN content ELSE xfiles[g]]

(* The counts the caller is given.                                          *)
Report ==
  [success |-> Cardinality(InState(xres, {"Resolved"})),
   failed  |-> Cardinality(InState(xres, Failing))
                 + Cardinality(InState(xres, {"NeverAttempted"}))]

(* One file is created, written and closed; after the last the report.       *)
ExportWrite ==
  /\ xpc = "writing" /\ Missing # {}
  /\ xfiles' = Create(NextFile, Written(NextFile))
  /\ IF Missing = {Least(Missing)} THEN xpc' = "done" /\ xreport' = Report
     ELSE UNCHANGED <<xpc, xreport>>
  /\ UNCHANGED <<execVars, runVars, client, xstrict, xformat, xmerged, xres, xaborted, pageVars>>

(* A write fails: its file is left as it is, and no report is given.         *)
ExportWriteFails ==
  /\ xpc = "writing" /\ Missing # {}
  /\ xfiles' = Create(NextFile, [whole |-> FALSE, rows |-> {}])
  /\ xpc' = "failed"
  /\ UNCHANGED <<execVars, runVars, client, xstrict, xformat, xmerged, xres, xaborted, xreport,
                 pageVars>>

Exporting == ExportResolve \/ ExportCheck \/ ExportWrite \/ ExportWriteFails

---------------------------------------------------------------------------
(* The table of failed rows of the first attempt: read_failed_page, and the   *)
(* caller that asks again from next_offset until there is none.              *)

First == AttemptSeq[1]

Failures(outcomes) ==
  FoldLeft(LAMBDA acc, o : IF o.kind = "success" THEN acc ELSE Append(acc, o),
           <<>>, outcomes)

FailuresOf(a) == Failures(Parsed(a))

(* The cursor is given when a further row was met, 0 standing for none.      *)
NextOffset(found, off) ==
  IF Len(found) > off + PageLimit THEN off + PageLimit ELSE 0

(* What a page holds of a sequence: what is there from the offset on.        *)
Slice(s, off) ==
  SubSeq(s, off + 1, IF Len(s) < off + PageLimit THEN Len(s) ELSE off + PageLimit)

(* Mutant of Page: the offset counts all outcomes, successes too.            *)
PageOfAll(a, off) == Failures(Slice(Parsed(a), off))

Page(a, off) == Slice(FailuresOf(a), off)

ReadPage ==
  /\ client = "page" /\ ppc = "more"
  /\ shown' = shown \o Page(First, offset)
  /\ offset' = NextOffset(FailuresOf(First), offset)
  /\ ppc' = IF offset' = 0 THEN "end" ELSE "more"
  /\ UNCHANGED <<execVars, runVars, client, exportVars>>

---------------------------------------------------------------------------
Init ==
  /\ file \in Files /\ count = hash_and_count_rows(file)
  /\ state = [a \in Attempts |-> "none"] /\ policy = [a \in Attempts |-> "default"]
  /\ NoRun
  /\ log = [a \in Attempts |-> <<>>] /\ torn = [a \in Attempts |-> FALSE]
  /\ announced = [a \in Attempts |-> 0] /\ dispatched = {}
  /\ client \in Clients
  /\ xpc = "idle" /\ xstrict = FALSE /\ xformat = "csv" /\ xmerged = {}
  /\ xres = <<>> /\ xaborted = {} /\ xfiles = <<>> /\ xreport = <<>>
  /\ ppc = "more" /\ offset = 0 /\ shown = <<>>

Next == Attempting \/ Exporting \/ ReadPage

Spec == Init /\ [][Next]_vars

---------------------------------------------------------------------------
(* Properties.                                                              *)

(* The rows an attempt handed out.                                          *)
HandedOut(a) == {d \in dispatched : d.attempt = a}

(* Records of the file that count_input_rows does not see.                   *)
Uncounted == {i \in DOMAIN file.lines : file.lines[i] = "spaces"}

(* What an attempt announced bounds what it hands out: for a re-run the        *)
(* number of its ids, all of which it hands out if it completes; else the       *)
(* count, which is short by the records of spaces alone.                     *)
AnnouncedIsMet(a) ==
  LET given == Cardinality(HandedOut(a))
  IN  IF policy[a] = "rerun"
      THEN given <= announced[a] /\ (state[a] = "completed" => given = announced[a])
      ELSE file.ends = "lf" => given <= announced[a] + Cardinality(Uncounted)

(* A number names one row of the file, whichever attempt reads it, and a row *)
(* has one number; the number is one the execution counted, so that the      *)
(* resolution, the export and --retry-failed, which all go by the count,     *)
(* know of the row; and no attempt hands out more rows than it announced, but *)
(* for records count_input_rows trims to nothing. The counts are of line      *)
(* feeds: they say nothing of a file without them.                           *)
NumbersNameRows ==
  /\ \A d, e \in dispatched : d.seq = e.seq <=> d.line = e.line
  /\ file.ends = "lf" => \A d \in dispatched : d.seq < count
  /\ \A a \in Attempts : AnnouncedIsMet(a)

(* --retry-failed hands out rows whose last outcome so far is a failure, and *)
(* no other: none that succeeded, none that never ran (again where the count  *)
(* is right: a row beyond it is not skipped). A re-run from Studio hands out   *)
(* rows that failed in an earlier attempt, whatever the count says.           *)
RetryHandsOutFailures ==
  \A d \in dispatched :
    LET before == {a \in Finished(state) : Before(a, d.attempt)}
    IN  /\ policy[d.attempt] = "retry" /\ file.ends = "lf" =>
             Resolve(before, d.seq).state \in Failing
        /\ policy[d.attempt] = "rerun" =>
             \E a \in before : d.seq \in FailedIds(log[a])

(* An export is a partition: every row number the execution counted and      *)
(* every row an attempt reported is in the success file or in the failed     *)
(* file and not in both, in either format; the report counts what the files   *)
(* hold; and where resolution.json stands the data files stand whole.        *)
ExportPartitions ==
  /\ "resolution.json" \in DOMAIN xfiles =>
       \A f \in DOMAIN xfiles \ {"resolution.json"} : xfiles[f].whole
  /\ xpc = "done" =>
       LET order == FileOrder(xformat) IN
       \A i \in {1, 3} \cap 1..(Len(order) - 1) :
         LET won == xfiles[order[i]].rows  lost == xfiles[order[i + 1]].rows
         IN  /\ won \cap lost = {}
             /\ won \cup lost = Seqs(xmerged)
             /\ 0..(count - 1) \subseteq Seqs(xmerged)
             /\ xreport.success = Cardinality(won)
             /\ xreport.failed = Cardinality(lost)

(* All that reading the file to its end yields.                              *)
AllItems(f) ==
  IF open_input(f) = OpenFailed THEN {}
  ELSE {yield_next(f, Walk(f)[i]) : i \in DOMAIN Walk(f)}

(* A strict export that succeeds has a real outcome of every row that can be *)
(* read from the file, whatever attempts were made and ended meanwhile (of a  *)
(* file without line feeds it takes the count's word that there is no row).   *)
StrictExportIsComplete ==
  xpc = "done" /\ xstrict /\ file.ends = "lf" =>
    \A item \in AllItems(file) :
      item.kind = "row" =>
        \E d \in dispatched : d.line = item.line /\ d.attempt \in xmerged
                              /\ d.seq \in DOMAIN xres /\ xres[d.seq].state # "NeverAttempted"

(* What an export says is the whole truth of the rows it is about: its files    *)
(* divide them, and a strict one has an outcome of each (export_execution).    *)
ExportIsComplete == ExportPartitions /\ StrictExportIsComplete

(* The pages of a table, put one after the other, are the failures of the     *)
(* log in its order, none twice and none left out, though the log grows       *)
(* between them; and the caller is told to stop only at the end of it.       *)
PagesFollowTheLog ==
  [][LET there == FailuresOf(First)
     IN  /\ Len(shown') <= Len(there) /\ shown' = SubSeq(there, 1, Len(shown'))
         /\ ppc' = "end" => Len(shown') = Len(there)]_pageVars

(* read_outcome_for_seq: the first outcome of a row in a log.                *)
FirstOf(outcomes, n) ==
  LET at == {i \in DOMAIN outcomes : outcomes[i].seq = n}
  IN  IF at = {} THEN "none" ELSE outcomes[Least(at)].kind

(* Mutant of Recount: the failures after the success are listed as well.     *)
RecountAll(h, a, kind) ==
  CASE kind = "none"    -> h
    [] kind = "success" -> [h EXCEPT !.resolved_at = IF @ = "none" THEN a ELSE @]
    [] OTHER            -> [h EXCEPT !.failures = Append(@, a)]

(* One attempt more; the walk over them ends at the first success.           *)
Recount(h, a, kind) ==
  CASE kind = "none" \/ h.resolved_at # "none" -> h
    [] kind = "success" /\ h.resolved_at = "none" -> [h EXCEPT !.resolved_at = a]
    [] OTHER -> [h EXCEPT !.failures = Append(@, a)]

(* row_history, of every attempt's log: the failures of a row, and the success. *)
HistoryIn(logs, n) ==
  FoldLeft(LAMBDA h, a : Recount(h, a, FirstOf(logs[a], n)),
           [resolved_at |-> "none", failures |-> <<>>], AttemptSeq)

row_history(n) == HistoryIn(Logs(Attempts), n)

(* The history shown of a row and the resolution of it, which read the same  *)
(* logs in two ways, agree once no attempt runs: the same attempt made it     *)
(* succeed, and the last failure shown is the one exported.                  *)
HistoryIsResolution ==
  Running = {} /\ ~ResolutionFails(Finished(state)) =>
    \A n \in Seqs(Finished(state)) :
      LET h == row_history(n)
          p == Resolve(Finished(state), n)
      IN  /\ h.resolved_at = p.canonical
          /\ (h.failures # <<>> => p.failure = Last(h.failures))
=============================================================================
