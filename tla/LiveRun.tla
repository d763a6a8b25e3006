------------------------------- MODULE LiveRun ------------------------------
(***************************************************************************)
(* One run as the Studio shows it: the task start_run spawns (run.rs), the *)
(* session's status and cancel, the ProgressAggregator with its tick loop  *)
(* and broadcast channel (aggregator.rs), the forwarder of the Tauri shell *)
(* (events.rs) and the page that watches (use-run.ts, run-state.ts,        *)
(* AttemptDetail.tsx).                                                     *)
(*                                                                         *)
(*   workers, run task, tick loop, cancel --chan--> forwarder              *)
(*                                                     --> reducer --> page *)
(*                                                                         *)
(* The pipeline is the one of module Pool: its workers are joined, and the *)
(* token has fired, when it reports; a hard flag makes the report aborted. *)
(***************************************************************************)
EXTENDS Integers, Sequences

CONSTANTS
  MaxRows,     (* bound: outcomes recorded                                   *)
  MaxTicks,    (* bound: ticks composed                                      *)
  MaxCancels,  (* bound: calls of cancel                                     *)
  ChanCap,     (* BROADCAST_CAPACITY                                         *)
  Watched,     (* bound: whether a page is opened                            *)
  Faults       (* what may happen: see FaultKinds                            *)

FaultKinds == {
  "abort",     \* the pool aborts by itself (stall, worker error, start-up)
  "fail",      \* execute() returns an error
  "panic",     \* the pipeline's task panics
  "persist" }  \* finish_attempt fails

ASSUME LiveAssumption ==
  /\ MaxRows \in Nat /\ MaxTicks \in Nat /\ MaxCancels \in Nat
  /\ ChanCap \in Nat \ {0} /\ Watched \in BOOLEAN
  /\ Faults \subseteq FaultKinds

VARIABLES
  tpc,         (* the run task: "start", "prepare", "execute", "ended",
                  "announce", "mark", "remove", "gone"                       *)
  result,      (* how the pipeline ended, "none" until then                  *)
  stored,      (* the attempt in sqlite: "running", "closed"                 *)
  killed,      (* attempts.cancelled_reason is "hard_cancel"                 *)
  warned,      (* PERSIST_FAILED has been sent                               *)
  dispatching, (* the pipeline's accumulator and workers are there           *)
  logged,      (* outcomes in outcomes.jsonl                                 *)
  tooLarge,    (* those of them the accumulator has written: ROW_TOO_LARGE   *)
  counts,      (* snapshot.processed                                         *)
  phase,       (* snapshot.phase                                             *)
  registered,  (* the session is in the registry                             *)
  status,      (* Session.status                                             *)
  token, hard, (* the cancellation token and the hard_cancel flag            *)
  cpc, mode,   (* a call of cancel: where it is and what it was asked        *)
  cancels,     (* calls of cancel so far                                     *)
  firedBy,     (* history: what fired the token first                        *)
  kpc, tick,   (* tick loop: "idle", "composed", "ended"; the tick in hand   *)
  ticks,       (* tick_seq                                                   *)
  stopTicks,   (* tick_stop                                                  *)
  fpc,         (* forwarder: "none", "on", "refused", "closed"               *)
  chan, lag,   (* the broadcast channel; the receiver has missed events      *)
  vpc,         (* page: "closed", "listening", "asked", "ready"   *)
  reply,       (* the answer of run_snapshot on its way to the page          *)
  view,        (* RunState: status, phantomBootstrap                         *)
  shown,       (* the last render took the run for ended                     *)
  detail       (* attempt_show, as last fetched, says is_terminal            *)

taskVars   == <<tpc, result, stored, killed, warned, dispatching>>
countVars  == <<logged, tooLarge, counts, phase>>
sessVars   == <<registered, status, token, hard>>
cancelVars == <<cpc, mode, cancels, firedBy>>
tickVars   == <<kpc, tick, ticks, stopTicks>>
fwdVars    == <<fpc, chan, lag>>
pageVars   == <<vpc, reply, view, shown, detail>>
vars == <<taskVars, countVars, sessVars, cancelVars, tickVars, fwdVars, pageVars>>

Ended == {"done", "aborted", "crashed"}

(* ProgressEvent. A sample of an outcome changes nothing but the list of    *)
(* the latest errors and is left out; it takes room in the channel as a     *)
(* tick does.                                                               *)
PhaseChanged(p) == [type |-> "phase_changed", phase |-> p]
Tick(n, c)      == [type |-> "tick", seq |-> n, counts |-> c]
Done(c)         == [type |-> "done", counts |-> c]
Aborted(why, c) == [type |-> "aborted", reason |-> why, counts |-> c]
Warning         == [type |-> "pipeline_warning"]
NoTick          == Tick(0, 0)

Init ==
  /\ tpc = "start" /\ result = "none" /\ stored = "running"
  /\ killed = FALSE /\ warned = FALSE /\ dispatching = FALSE
  /\ logged = 0 /\ tooLarge = 0 /\ counts = 0 /\ phase = "none"
  /\ registered = TRUE /\ status = "starting" /\ token = FALSE /\ hard = FALSE
  /\ cpc = "idle" /\ mode = "soft" /\ cancels = 0 /\ firedBy = "none"
  /\ kpc = "idle" /\ tick = NoTick /\ ticks = 0 /\ stopTicks = FALSE
  /\ fpc = "none" /\ chan = <<>> /\ lag = FALSE
  /\ vpc = "closed" /\ reply = "none"
  /\ view = [status |-> "starting", phantom |-> FALSE]
  /\ shown = FALSE /\ detail = FALSE

(* broadcast::Sender::send: nobody listens, or the channel takes the event, *)
(* a full one in the place of its oldest.                                   *)
Send(e) ==
  /\ chan' = IF fpc # "on" THEN chan
             ELSE IF Len(chan) < ChanCap THEN Append(chan, e)
             ELSE Append(Tail(chan), e)
  /\ lag' = (lag \/ (fpc = "on" /\ Len(chan) = ChanCap))
  /\ UNCHANGED fpc

(* ProgressAggregator::set_phase                                            *)
SetPhase(p) == phase' = p /\ Send(PhaseChanged(p))

Fire(who) ==
  /\ token' = TRUE
  /\ firedBy' = IF token THEN firedBy ELSE who

-----------------------------------------------------------------------------
(* The run task and the pipeline inside it                                  *)

(* set_phase(Starting), with Snapshotting behind it, which is shown alike.  *)
Starts ==
  /\ tpc = "start"
  /\ SetPhase("starting")
  /\ tpc' = "prepare"
  /\ UNCHANGED <<result, stored, killed, warned, dispatching, logged, tooLarge, counts,
                 sessVars, cancelVars, tickVars, pageVars>>

(* RunProgressEvent::Started, whatever a cancel has made of the phase.      *)
Runs ==
  /\ tpc = "prepare"
  /\ SetPhase("running")
  /\ tpc' = "execute" /\ dispatching' = TRUE
  /\ UNCHANGED <<result, stored, killed, warned, logged, tooLarge, counts,
                 sessVars, cancelVars, tickVars, pageVars>>

(* The accumulator refuses a row. It appends the outcome and tells nobody.  *)
RowTooLarge ==
  /\ dispatching /\ logged < MaxRows
  /\ logged' = logged + 1 /\ tooLarge' = tooLarge + 1
  /\ UNCHANGED <<counts, phase, taskVars, sessVars, cancelVars, tickVars, fwdVars, pageVars>>

(* A worker appends an outcome ...                                          *)
RowAppended ==
  /\ dispatching /\ logged < MaxRows
  /\ logged' = logged + 1
  /\ UNCHANGED <<tooLarge, counts, phase, taskVars, sessVars, cancelVars, tickVars, fwdVars,
                 pageVars>>

WorkersLogged == logged - tooLarge

(* ... and tells the aggregator: report_outcomes, which on_outcome counts.  *)
RowReported ==
  /\ counts < WorkersLogged
  /\ counts' = counts + 1
  /\ UNCHANGED <<logged, tooLarge, phase, taskVars, sessVars, cancelVars, tickVars, fwdVars,
                 pageVars>>

(* Mutant of PipelineReports: the workers are not waited for.               *)
PipelineReportsEarly(how) ==
  /\ tpc = "execute"
  /\ how = "completed" => ~hard
  /\ how = "aborted" => token \/ "abort" \in Faults
  /\ result' = how /\ tpc' = "ended" /\ dispatching' = FALSE
  /\ Fire("pool")
  /\ UNCHANGED <<stored, killed, warned, countVars, registered, status, hard,
                 cpc, mode, cancels, tickVars, fwdVars, pageVars>>

(* The pool reports, accumulator and workers joined; it has fired the token *)
(* itself, to wake its monitor or to stop what had started.                 *)
PipelineReports(how) ==
  /\ tpc = "execute" /\ counts = WorkersLogged
  /\ how = "completed" => ~hard
  /\ how = "aborted" => token \/ "abort" \in Faults
  /\ result' = how /\ tpc' = "ended" /\ dispatching' = FALSE
  /\ Fire("pool")
  /\ UNCHANGED <<stored, killed, warned, countVars, registered, status, hard,
                 cpc, mode, cancels, tickVars, fwdVars, pageVars>>

(* An error before the workers are there, or in writing meta.json after.    *)
PipelineFails ==
  /\ "fail" \in Faults
  /\ \/ tpc = "prepare" /\ UNCHANGED <<token, firedBy>>
     \/ tpc = "execute" /\ logged = 0 /\ UNCHANGED <<token, firedBy>>
     \/ tpc = "execute" /\ counts = WorkersLogged /\ Fire("pool")
  /\ result' = "failed" /\ tpc' = "ended" /\ dispatching' = FALSE
  /\ UNCHANGED <<stored, killed, warned, countVars, registered, status, hard,
                 cpc, mode, cancels, tickVars, fwdVars, pageVars>>

(* A panic: accumulator and workers, tasks of their own, are left alone.    *)
PipelinePanics ==
  /\ "panic" \in Faults
  /\ tpc = "execute"
  /\ result' = "panicked" /\ tpc' = "ended"
  /\ UNCHANGED <<stored, killed, warned, dispatching, countVars,
                 sessVars, cancelVars, tickVars, fwdVars, pageVars>>

DetachedEnd ==
  /\ dispatching /\ result = "panicked" /\ counts = WorkersLogged
  /\ dispatching' = FALSE
  /\ UNCHANGED <<tpc, result, stored, killed, warned, countVars,
                 sessVars, cancelVars, tickVars, fwdVars, pageVars>>

(* run_pipeline_in_process: an aborted report is a cancellation if the      *)
(* token has fired.                                                         *)
Cancelled == result = "aborted" /\ token

(* finish_attempt, with the hard flag read just before.                     *)
Finish ==
  /\ tpc = "ended"
  /\ stored' = "closed" /\ killed' = (Cancelled /\ hard)
  /\ tpc' = "announce"
  /\ UNCHANGED <<result, warned, dispatching, countVars,
                 sessVars, cancelVars, tickVars, fwdVars, pageVars>>

(* Mutant of FinishFails: nobody is told.                                   *)
FinishFailsSilently ==
  /\ "persist" \in Faults
  /\ tpc = "ended"
  /\ tpc' = "announce"
  /\ UNCHANGED <<result, stored, killed, warned, dispatching, countVars,
                 sessVars, cancelVars, tickVars, fwdVars, pageVars>>

FinishFails ==
  /\ "persist" \in Faults
  /\ tpc = "ended"
  /\ warned' = TRUE /\ Send(Warning)
  /\ tpc' = "announce"
  /\ UNCHANGED <<result, stored, killed, dispatching, countVars,
                 sessVars, cancelVars, tickVars, pageVars>>

(* The terminal event carries the aggregator's counts of the moment.        *)
Terminal ==
  CASE result = "completed" -> Done(counts)
    [] result = "panicked"  -> Aborted("crashed", counts)
    [] OTHER -> Aborted(IF Cancelled THEN "user_cancelled" ELSE "internal", counts)

Announce ==
  /\ tpc = "announce"
  /\ Send(Terminal)
  /\ tpc' = "mark"
  /\ UNCHANGED <<result, stored, killed, warned, dispatching, countVars,
                 sessVars, cancelVars, tickVars, pageVars>>

(* The session gets its last status, the tick loop its stop.                *)
Mark ==
  /\ tpc = "mark"
  /\ status' = CASE result = "completed" -> "done"
                 [] result = "panicked"  -> "crashed"
                 [] OTHER                -> "aborted"
  /\ stopTicks' = TRUE
  /\ tpc' = "remove"
  /\ UNCHANGED <<result, stored, killed, warned, dispatching, countVars,
                 registered, token, hard, cancelVars, kpc, tick, ticks, fwdVars, pageVars>>

(* Mutant of Remove: the session stays in the registry.                     *)
Keep ==
  /\ tpc = "remove"
  /\ tpc' = "gone"
  /\ UNCHANGED <<result, stored, killed, warned, dispatching, countVars,
                 sessVars, cancelVars, tickVars, fwdVars, pageVars>>

Remove ==
  /\ tpc = "remove"
  /\ registered' = FALSE
  /\ tpc' = "gone"
  /\ UNCHANGED <<result, stored, killed, warned, dispatching, countVars,
                 status, token, hard, cancelVars, tickVars, fwdVars, pageVars>>

TaskStep ==
  \/ Starts \/ Runs
  \/ \E how \in {"completed", "aborted"} : PipelineReports(how)
  \/ PipelineFails \/ PipelinePanics
  \/ Finish \/ FinishFails \/ Announce \/ Mark \/ Remove

-----------------------------------------------------------------------------
(* StudioCore::cancel, called from anywhere while the session is found      *)

CancelFinds(m) ==
  /\ cpc = "idle" /\ cancels < MaxCancels /\ registered
  /\ cpc' = "found" /\ mode' = m /\ cancels' = cancels + 1
  /\ UNCHANGED <<firedBy, taskVars, countVars, sessVars, tickVars, fwdVars, pageVars>>

(* The status is overwritten, and the phase, whatever they are.             *)
CancelTells ==
  /\ cpc = "found"
  /\ status' = "cancelling"
  /\ SetPhase("cancelling")
  /\ cpc' = IF mode = "hard" THEN "flag" ELSE "fire"
  /\ UNCHANGED <<mode, cancels, firedBy, registered, token, hard, logged, tooLarge, counts,
                 taskVars, tickVars, pageVars>>

(* Mutant of CancelFlags: the token fires before the flag is set.           *)
CancelFiresFirst ==
  /\ cpc = "flag"
  /\ IF token THEN hard' = TRUE /\ cpc' = "fire" /\ UNCHANGED <<token, firedBy>>
              ELSE Fire("hard") /\ UNCHANGED <<hard, cpc>>
  /\ UNCHANGED <<mode, cancels, registered, status,
                 taskVars, countVars, tickVars, fwdVars, pageVars>>

(* The flag is set first, then the token fires.                             *)
CancelFlags ==
  /\ cpc = "flag"
  /\ hard' = TRUE
  /\ cpc' = "fire"
  /\ UNCHANGED <<mode, cancels, firedBy, registered, status, token,
                 taskVars, countVars, tickVars, fwdVars, pageVars>>

CancelFires ==
  /\ cpc = "fire"
  /\ Fire(mode)
  /\ cpc' = "idle" /\ mode' = "soft"
  /\ UNCHANGED <<cancels, registered, status, hard,
                 taskVars, countVars, tickVars, fwdVars, pageVars>>

CancelStep == CancelTells \/ CancelFlags \/ CancelFires

-----------------------------------------------------------------------------
(* ProgressAggregator::tick_loop: a tick is composed under the lock and     *)
(* sent after it; an interval that is due may win over the stop.            *)

Compose ==
  /\ kpc = "idle" /\ ticks < MaxTicks
  /\ ticks' = ticks + 1
  /\ tick' = Tick(ticks + 1, counts)
  /\ kpc' = "composed"
  /\ UNCHANGED <<stopTicks, taskVars, countVars, sessVars, cancelVars, fwdVars, pageVars>>

(* Mutant of SendTick: a send that fails for want of a listener is tried    *)
(* again, so that a tick may be sent twice.                                 *)
SendTickAgain ==
  /\ kpc = "composed"
  /\ Send(tick)
  /\ kpc' \in {"idle", "composed"}
  /\ UNCHANGED <<tick, ticks, stopTicks, taskVars, countVars, sessVars, cancelVars, pageVars>>

SendTick ==
  /\ kpc = "composed"
  /\ Send(tick)
  /\ kpc' = "idle" /\ tick' = NoTick
  /\ UNCHANGED <<ticks, stopTicks, taskVars, countVars, sessVars, cancelVars, pageVars>>

TickStops ==
  /\ kpc = "idle" /\ stopTicks
  /\ kpc' = "ended"
  /\ UNCHANGED <<tick, ticks, stopTicks, taskVars, countVars, sessVars, cancelVars,
                 fwdVars, pageVars>>

TickLoop == Compose \/ SendTick \/ TickStops

-----------------------------------------------------------------------------
(* run_start of the Tauri shell subscribes once start_run has returned, and *)
(* fails if the run is over by then; else forward_run_events runs.          *)

Subscribe ==
  /\ fpc = "none"
  /\ fpc' = IF registered THEN "on" ELSE "refused"
  /\ UNCHANGED <<chan, lag, taskVars, countVars, sessVars, cancelVars, tickVars, pageVars>>

StatusOf(p) == IF p \in {"running", "cancelling"} THEN p ELSE "starting"

(* reduceRun: ticks and warnings leave the status alone.                    *)
Reduced(v, e) ==
  CASE e.type = "phase_changed" -> [v EXCEPT !.status = StatusOf(e.phase)]
    [] e.type = "done"          -> [v EXCEPT !.status = "done"]
    [] e.type = "aborted"       -> [v EXCEPT !.status = IF e.reason = "crashed" THEN "crashed"
                                                        ELSE "aborted"]
    [] OTHER                    -> v

(* app.emit: an event reaches the page if it listens, and is lost if not.   *)
(* The webview's queue is part of the forwarder's delay. What a lagging     *)
(* receiver has missed is told by a warning.                                *)
Emit(e) ==
  view' = IF vpc \in {"listening", "asked", "ready"} THEN Reduced(view, e) ELSE view

Forward ==
  /\ fpc = "on"
  /\ IF lag
     THEN lag' = FALSE /\ Emit(Warning) /\ UNCHANGED chan
     ELSE chan # <<>> /\ Emit(Head(chan)) /\ chan' = Tail(chan) /\ UNCHANGED lag
  /\ UNCHANGED <<fpc, vpc, reply, shown, detail,
                 taskVars, countVars, sessVars, cancelVars, tickVars>>

(* The channel closes with the last owner of the aggregator: the registry,  *)
(* the run task, a call of cancel, the tick loop, the pipeline's workers.   *)
SenderGone ==
  /\ ~registered /\ tpc = "gone" /\ cpc = "idle" /\ kpc = "ended" /\ ~dispatching

ForwarderEnds ==
  /\ fpc = "on" /\ chan = <<>> /\ ~lag /\ SenderGone
  /\ fpc' = "closed"
  /\ UNCHANGED <<chan, lag, taskVars, countVars, sessVars, cancelVars, tickVars, pageVars>>

Forwarder == Subscribe \/ Forward \/ ForwarderEnds

-----------------------------------------------------------------------------
(* The page of the attempt: useRun and AttemptDetailPage                    *)

(* It opens with the handle run_start returned, or with the one             *)
(* attempt_active_handle finds; attempt_show is fetched and listen() comes  *)
(* into effect. Only then run_snapshot is called.                           *)
PageOpens ==
  /\ vpc = "closed" /\ Watched
  /\ fpc \in {"on", "closed"} \/ registered
  /\ vpc' = "listening"
  /\ detail' = (stored = "closed")
  /\ UNCHANGED <<reply, view, shown,
                 taskVars, countVars, sessVars, cancelVars, tickVars, fwdVars>>

Asks ==
  /\ vpc = "listening"
  /\ reply' = IF registered THEN phase ELSE "unknown"
  /\ vpc' = "asked"
  /\ UNCHANGED <<view, shown, detail,
                 taskVars, countVars, sessVars, cancelVars, tickVars, fwdVars>>

(* Mutant of Answered: an error of run_snapshot is only logged.             *)
AnswerLogged ==
  /\ vpc = "asked"
  /\ vpc' = "ready"
  /\ view' = IF reply = "unknown" THEN view ELSE [view EXCEPT !.status = StatusOf(reply)]
  /\ reply' = "none"
  /\ UNCHANGED <<shown, detail,
                 taskVars, countVars, sessVars, cancelVars, tickVars, fwdVars>>

(* _terminal_before_listen, or _bootstrap with the status of the snapshot,  *)
(* whatever the events handled before it have made of the status.           *)
Answered ==
  /\ vpc = "asked"
  /\ vpc' = "ready"
  /\ view' = IF reply = "unknown" THEN [view EXCEPT !.phantom = TRUE]
             ELSE [view EXCEPT !.status = StatusOf(reply)]
  /\ reply' = "none"
  /\ UNCHANGED <<shown, detail,
                 taskVars, countVars, sessVars, cancelVars, tickVars, fwdVars>>

(* A render may cover several actions of the reducer. The effect of a run   *)
(* newly seen to be over fetches attempt_show again, unless that is known.  *)
Over == view.status \in Ended \/ view.phantom

Renders ==
  /\ shown # Over
  /\ shown' = Over
  /\ detail' = IF Over /\ ~detail THEN stored = "closed" ELSE detail
  /\ UNCHANGED <<vpc, reply, view,
                 taskVars, countVars, sessVars, cancelVars, tickVars, fwdVars>>

PageStep == Asks \/ Answered \/ Renders

-----------------------------------------------------------------------------
Next ==
  \/ TaskStep
  \/ RowTooLarge \/ RowAppended \/ RowReported
  \/ DetachedEnd
  \/ \E m \in {"soft", "hard"} : CancelFinds(m)
  \/ CancelStep
  \/ TickLoop
  \/ Forwarder
  \/ PageOpens
  \/ PageStep

Spec == Init /\ [][Next]_vars

(* Tasks and callbacks that can run do run in the end, and a pipeline ends  *)
(* (Pool!Terminates); operators and pages are free to do nothing.           *)
Fairness ==
  /\ WF_vars(TaskStep) /\ WF_vars(DetachedEnd)
  /\ WF_vars(RowReported)
  /\ WF_vars(CancelStep)
  /\ WF_vars(TickLoop)
  /\ WF_vars(Forwarder)
  /\ WF_vars(Asks \/ Answered) /\ WF_vars(Renders)

FairSpec == Spec /\ Fairness

-----------------------------------------------------------------------------
Counters == 0 .. MaxRows

Events ==
  [type : {"phase_changed"}, phase : {"starting", "running", "cancelling"}]
    \cup [type : {"tick"}, seq : 0 .. MaxTicks, counts : Counters]
    \cup [type : {"done"}, counts : Counters]
    \cup [type : {"aborted"}, reason : {"crashed", "user_cancelled", "internal"},
          counts : Counters]
    \cup {Warning}

(* What the variables range over.                                           *)
TaskType ==
  /\ tpc \in {"start", "prepare", "execute", "ended", "announce", "mark", "remove", "gone"}
  /\ result \in {"none", "completed", "aborted", "failed", "panicked"}
  /\ stored \in {"running", "closed"}
  /\ killed \in BOOLEAN /\ warned \in BOOLEAN /\ dispatching \in BOOLEAN

CountType ==
  /\ logged \in Counters /\ tooLarge \in 0 .. logged /\ counts \in Counters
  /\ phase \in {"none", "starting", "running", "cancelling"}

SessType ==
  /\ registered \in BOOLEAN /\ token \in BOOLEAN /\ hard \in BOOLEAN
  /\ status \in {"starting", "cancelling", "done", "aborted", "crashed"}

CancelType ==
  /\ cpc \in {"idle", "found", "flag", "fire"}
  /\ mode \in {"soft", "hard"} /\ cancels \in 0 .. MaxCancels
  /\ firedBy \in {"none", "soft", "hard", "pool"}

TickType ==
  /\ kpc \in {"idle", "composed", "ended"} /\ tick \in Events
  /\ ticks \in 0 .. MaxTicks /\ stopTicks \in BOOLEAN

FwdType ==
  /\ fpc \in {"none", "on", "refused", "closed"} /\ lag \in BOOLEAN
  /\ chan \in Seq(Events) /\ Len(chan) <= ChanCap

PageType ==
  /\ vpc \in {"closed", "listening", "asked", "ready"}
  /\ reply \in {"none", "starting", "running", "cancelling", "unknown"}
  /\ view \in [status : {"starting", "running", "cancelling"} \cup Ended, phantom : BOOLEAN]
  /\ shown \in BOOLEAN /\ detail \in BOOLEAN

(* Every part of the state has its type, and the broadcast channel keeps    *)
(* its capacity.                                                            *)
TypeOK ==
  TaskType /\ CountType /\ SessType /\ CancelType /\ TickType /\ FwdType /\ PageType

(* The ticks a page handles are numbered upwards and never count fewer rows *)
(* than an earlier one, through drops, lag and a late listener.             *)
TicksInOrder ==
  \A i, j \in 1 .. Len(chan) :
    (i < j /\ chan[i].type = "tick" /\ chan[j].type = "tick")
      => /\ chan[i].seq < chan[j].seq
         /\ chan[i].counts <= chan[j].counts

Terminals == {i \in 1 .. Len(chan) : chan[i].type \in {"done", "aborted"}}

(* The event that ends a run counts every outcome its workers have logged   *)
(* and none besides, unless the run crashed, and no task of the pipeline is *)
(* left to log or to report one after it. Rows the accumulator has refused  *)
(* are in the log and not in the counts.                                    *)
FinalReportIsComplete ==
  \A i \in Terminals :
    \/ chan[i].type = "aborted" /\ chan[i].reason = "crashed"
    \/ ~dispatching /\ chan[i].counts = WorkersLogged

(* The task has told the channel that the run is over.                      *)
Announced == tpc \in {"mark", "remove", "gone"}

(* A page that learns of the end finds it in sqlite, or has been warned.    *)
PersistedBeforeAnnounced == Announced => stored = "closed" \/ warned

(* A run ended by a hard cancel is stored as force-killed: whoever sees the *)
(* token fired by it sees the flag too.                                     *)
ForceKillIsRecorded ==
  (firedBy = "hard" /\ result = "aborted" /\ stored = "closed") => killed

(* The forwarder of every run ends: nothing keeps the aggregator, with a    *)
(* cancel, a panic or a tick in the way.                                    *)
ForwardersEnd == (fpc = "on") ~> (fpc = "closed")

(* isTerminal of the page.                                                  *)
Displayed == shown \/ detail

(* A call of cancel that outlives the run may send "cancelling" after it.   *)
LateCancel == Announced /\ cpc # "idle"

(* A page whose bootstrap is over, with the forwarder there, before the run *)
(* is announced to be over, or that asked when the session had gone, shows  *)
(* the end and stays with it.                                               *)
InTime == (vpc = "ready" /\ fpc = "on" /\ ~Announced) \/ reply = "unknown"
WatcherSettles == ([]~LateCancel /\ <>InTime) => <>[]Displayed

=============================================================================
