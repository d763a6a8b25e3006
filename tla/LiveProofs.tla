----------------------------- MODULE LiveProofs ----------------------------
(***************************************************************************)
(* What a run tells of its end is true, for any number of outcomes, ticks  *)
(* and cancellations, any capacity of the channel, watched or not.         *)
(*                                                                         *)
(* The three properties of the end are not inductive. EndInv says, for     *)
(* each stage of the run task, what must have happened by then: that       *)
(* nothing is recorded any more once the pipeline has reported, that the   *)
(* token was fired with the flag set, and that no terminal event is in the *)
(* channel before its time. TickInv puts the tick that is composed and not *)
(* yet sent above those in the channel.                                    *)
(***************************************************************************)
EXTENDS LiveRun, TLAPS

Early == {"start", "prepare"}
Late == {"announce", "mark", "remove", "gone"}

(* Outcomes: none before the pool, none after a report.                     *)
Recording ==
  /\ counts <= WorkersLogged
  /\ tpc \in Early => logged = 0 /\ ~dispatching
  /\ result = "none" <=> tpc \in Early \cup {"execute"}
  /\ result \notin {"none", "panicked"} => counts = WorkersLogged /\ ~dispatching

(* The token, the flag and what the store makes of them.                    *)
Firing ==
  /\ firedBy # "none" => token
  /\ firedBy = "hard" => hard
  /\ cpc = "fire" /\ mode = "hard" => hard
  /\ result = "aborted" => token
  /\ stored = "closed" => tpc \in Late
  /\ ForceKillIsRecorded

(* The end in the store and in the channel.                                 *)
Truthful(e) ==
  e.type \in {"done", "aborted"} =>
    /\ Announced
    /\ \/ e.type = "aborted" /\ e.reason = "crashed"
       \/ result # "panicked" /\ ~dispatching /\ e.counts = WorkersLogged

ChannelTruthful == \A i \in 1 .. Len(chan) : Truthful(chan[i])

Telling ==
  /\ tpc \in Late => stored = "closed" \/ warned
  /\ tick.type = "tick"
  /\ ChannelTruthful

EndInv == Recording /\ Firing /\ Telling

-----------------------------------------------------------------------------
(* The channel: what is in it after a send was there or is what was sent.   *)

LEMMA SendTyped ==
  ASSUME LiveAssumption, TypeOK, NEW e \in Events, Send(e)
  PROVE  /\ chan' \in Seq(Events) /\ Len(chan') <= ChanCap
         /\ lag' \in BOOLEAN /\ fpc' = fpc
         /\ \A i \in 1 .. Len(chan') :
              chan'[i] = e \/ \E j \in 1 .. Len(chan) : chan'[i] = chan[j]
<1>1. chan \in Seq(Events) /\ Len(chan) <= ChanCap /\ ChanCap \in Nat \ {0} /\ lag \in BOOLEAN
  BY DEF TypeOK, FwdType, LiveAssumption
<1>2. CASE fpc # "on"
  BY <1>1, <1>2 DEF Send
<1>3. CASE fpc = "on" /\ Len(chan) < ChanCap
  BY <1>1, <1>3 DEF Send
<1>4. CASE fpc = "on" /\ ~(Len(chan) < ChanCap)
  <2>1. chan # <<>> /\ Tail(chan) \in Seq(Events) /\ Len(Tail(chan)) = Len(chan) - 1
    BY <1>1, <1>4
  <2>2. \A i \in 1 .. Len(chan) - 1 : Tail(chan)[i] = chan[i + 1]
    BY <1>1, <2>1
  <2>3. chan' = Append(Tail(chan), e) /\ fpc' = fpc /\ lag' \in BOOLEAN
    BY <1>1, <1>4 DEF Send
  <2>4. chan' \in Seq(Events) /\ Len(chan') = Len(chan) /\ chan'[Len(chan)] = e
    BY <1>1, <2>1, <2>3
  <2>5. \A i \in 1 .. Len(chan) - 1 : chan'[i] = chan[i + 1] /\ i + 1 \in 1 .. Len(chan)
    <3>1. \A i \in 1 .. Len(chan) - 1 : chan'[i] = Tail(chan)[i]
      BY <1>1, <2>1, <2>3
    <3> QED BY <1>1, <2>2, <3>1
  <2>6. \A i \in 1 .. Len(chan') : i = Len(chan) \/ i \in 1 .. Len(chan) - 1
    BY <1>1, <2>4
  <2> QED BY <1>1, <2>3, <2>4, <2>5, <2>6
<1> QED BY <1>2, <1>3, <1>4

-----------------------------------------------------------------------------
(* Types                                                                    *)

(* What is sent by anyone is an event.                                      *)
LEMMA EventTypes ==
  ASSUME LiveAssumption, TypeOK
  PROVE  /\ \A p \in {"starting", "running", "cancelling"} : PhaseChanged(p) \in Events
         /\ Warning \in Events /\ NoTick \in Events
         /\ Terminal \in Events
         /\ ticks < MaxTicks => Tick(ticks + 1, counts) \in Events
<1>1. counts \in Counters /\ ticks \in 0 .. MaxTicks /\ 0 \in Counters /\ 0 \in 0 .. MaxTicks
  BY DEF TypeOK, CountType, TickType, LiveAssumption, Counters
<1>2. \A c \in Counters : /\ Done(c) \in Events
                          /\ \A n \in 0 .. MaxTicks : Tick(n, c) \in Events
                          /\ \A r \in {"crashed", "user_cancelled", "internal"} :
                               Aborted(r, c) \in Events
  BY DEF Events, Done, Tick, Aborted
<1>3. \A p \in {"starting", "running", "cancelling"} : PhaseChanged(p) \in Events
  BY DEF Events, PhaseChanged
<1>4. Warning \in Events
  BY DEF Events
<1>5. Terminal \in Events
  BY <1>1, <1>2 DEF Terminal
<1>6. ticks < MaxTicks => ticks + 1 \in 0 .. MaxTicks
  BY <1>1 DEF LiveAssumption
<1> QED BY <1>1, <1>2, <1>3, <1>4, <1>5, <1>6 DEF NoTick

(* A part of the state that a step leaves alone keeps its type.             *)
LEMMA TypeFrame ==
  ASSUME TypeOK
  PROVE  /\ UNCHANGED taskVars => TaskType'
         /\ UNCHANGED countVars => CountType'
         /\ UNCHANGED sessVars => SessType'
         /\ UNCHANGED cancelVars => CancelType'
         /\ UNCHANGED tickVars => TickType'
         /\ UNCHANGED fwdVars => FwdType'
         /\ UNCHANGED pageVars => PageType'
<1>1. UNCHANGED taskVars => TaskType'
  BY DEF TypeOK, TaskType, taskVars
<1>2. UNCHANGED countVars => CountType'
  BY DEF TypeOK, CountType, countVars
<1>3. UNCHANGED sessVars => SessType'
  BY DEF TypeOK, SessType, sessVars
<1>4. UNCHANGED cancelVars => CancelType'
  BY DEF TypeOK, CancelType, cancelVars
<1>5. UNCHANGED tickVars => TickType'
  BY DEF TypeOK, TickType, tickVars
<1>6. UNCHANGED fwdVars => FwdType'
  BY DEF TypeOK, FwdType, fwdVars
<1>7. UNCHANGED pageVars => PageType'
  BY DEF TypeOK, PageType, pageVars
<1> QED BY <1>1, <1>2, <1>3, <1>4, <1>5, <1>6, <1>7

(* The types hold at the start ...                                          *)
LEMMA TypeInit == LiveAssumption /\ Init => TypeOK
<1> SUFFICES ASSUME LiveAssumption, Init PROVE TypeOK
  OBVIOUS
<1>1. NoTick \in Events
  BY DEF NoTick, Tick, Events, Counters, LiveAssumption
<1>2. TaskType /\ SessType
  BY DEF Init, TaskType, SessType
<1>3. CountType /\ CancelType
  BY DEF Init, CountType, CancelType, Counters, LiveAssumption
<1>4. TickType
  <2>1. tick = NoTick /\ ticks = 0 /\ 0 \in 0 .. MaxTicks
    BY DEF Init, LiveAssumption
  <2> QED BY <1>1, <2>1 DEF Init, TickType
<1>5. FwdType
  <2>1. chan = <<>> /\ fpc = "none" /\ lag = FALSE
    BY DEF Init
  <2>2. chan \in Seq(Events) /\ Len(chan) = 0 /\ 0 <= ChanCap
    BY <2>1 DEF LiveAssumption
  <2> QED BY <2>1, <2>2 DEF FwdType
<1>6. PageType
  BY DEF Init, PageType
<1> QED BY <1>2, <1>3, <1>4, <1>5, <1>6 DEF TypeOK

(* A send keeps the type of the channel.                                    *)
LEMMA TypeSend ==
  ASSUME LiveAssumption, TypeOK, NEW e \in Events, Send(e)
  PROVE  FwdType'
<1>1. chan' \in Seq(Events) /\ Len(chan') <= ChanCap /\ lag' \in BOOLEAN /\ fpc' = fpc
  BY SendTyped
<1> QED BY <1>1 DEF TypeOK, FwdType

(* ... and after each step of the run task, the pipeline in it included,    *)
LEMMA TypeTask ==
  ASSUME LiveAssumption, TypeOK, TaskStep
  PROVE  TypeOK'
<1>0. TaskType /\ CountType /\ SessType /\ CancelType /\ TickType
  BY DEF TypeOK
<1>1. CASE Starts
  <2>1. PhaseChanged("starting") \in Events /\ Send(PhaseChanged("starting"))
    BY EventTypes, <1>1 DEF Starts, SetPhase
  <2>2. FwdType'
    BY TypeSend, <2>1
  <2>3. TaskType' /\ CountType'
    BY <1>0, <1>1 DEF Starts, SetPhase, TaskType, CountType
  <2> QED BY TypeFrame, <1>1, <2>2, <2>3 DEF Starts, TypeOK
<1>2. CASE Runs
  <2>1. PhaseChanged("running") \in Events /\ Send(PhaseChanged("running"))
    BY EventTypes, <1>2 DEF Runs, SetPhase
  <2>2. FwdType'
    BY TypeSend, <2>1
  <2>3. TaskType' /\ CountType'
    BY <1>0, <1>2 DEF Runs, SetPhase, TaskType, CountType
  <2> QED BY TypeFrame, <1>2, <2>2, <2>3 DEF Runs, TypeOK
<1>3. ASSUME NEW how \in {"completed", "aborted"}, PipelineReports(how) PROVE TypeOK'
  <2>1. TaskType'
    BY <1>0, <1>3 DEF PipelineReports, TaskType
  <2>2. SessType' /\ CancelType'
    BY <1>0, <1>3 DEF PipelineReports, Fire, SessType, CancelType
  <2> QED BY TypeFrame, <1>3, <2>1, <2>2 DEF PipelineReports, TypeOK
<1>4. CASE PipelineFails
  <2>1. TaskType'
    BY <1>0, <1>4 DEF PipelineFails, TaskType
  <2>2. SessType' /\ CancelType'
    BY <1>0, <1>4 DEF PipelineFails, Fire, SessType, CancelType
  <2> QED BY TypeFrame, <1>4, <2>1, <2>2 DEF PipelineFails, TypeOK
<1>5. CASE PipelinePanics
  BY TypeFrame, <1>0, <1>5 DEF PipelinePanics, TypeOK, TaskType
<1>6. CASE Finish
  <2>1. TaskType'
    BY <1>0, <1>6 DEF Finish, Cancelled, TaskType, SessType
  <2> QED BY TypeFrame, <1>6, <2>1 DEF Finish, TypeOK
<1>7. CASE FinishFails
  <2>1. Warning \in Events /\ Send(Warning)
    BY EventTypes, <1>7 DEF FinishFails
  <2>2. TaskType'
    BY <1>0, <1>7 DEF FinishFails, TaskType
  <2> QED BY TypeFrame, TypeSend, <1>7, <2>1, <2>2 DEF FinishFails, TypeOK
<1>8. CASE Announce
  <2>1. Terminal \in Events /\ Send(Terminal)
    BY EventTypes, <1>8 DEF Announce
  <2>2. FwdType'
    BY TypeSend, <2>1
  <2>3. TaskType'
    BY <1>0, <1>8 DEF Announce, TaskType
  <2> QED BY TypeFrame, <1>8, <2>2, <2>3 DEF Announce, TypeOK
<1>9. CASE Mark
  <2>1. TaskType'
    BY <1>0, <1>9 DEF Mark, TaskType
  <2>2. SessType' /\ TickType'
    BY <1>0, <1>9 DEF Mark, SessType, TickType
  <2> QED BY TypeFrame, <1>9, <2>1, <2>2 DEF Mark, TypeOK
<1>10. CASE Remove
  <2>1. TaskType' /\ SessType'
    BY <1>0, <1>10 DEF Remove, TaskType, SessType
  <2> QED BY TypeFrame, <1>10, <2>1 DEF Remove, TypeOK
<1> QED BY <1>1, <1>2, <1>3, <1>4, <1>5, <1>6, <1>7, <1>8, <1>9, <1>10 DEF TaskStep

(* ... of the workers,                                                      *)
LEMMA TypeRows ==
  ASSUME LiveAssumption, TypeOK, RowTooLarge \/ RowAppended \/ RowReported \/ DetachedEnd
  PROVE  TypeOK'
<1>0. TaskType /\ CountType /\ MaxRows \in Nat
  BY DEF TypeOK, LiveAssumption
<1>1. CASE RowTooLarge \/ RowAppended
  <2>1. CountType'
    BY <1>0, <1>1 DEF RowTooLarge, RowAppended, CountType, Counters
  <2> QED BY TypeFrame, <1>1, <2>1 DEF RowTooLarge, RowAppended, TypeOK
<1>2. CASE RowReported
  <2>1. CountType'
    BY <1>0, <1>2 DEF RowReported, WorkersLogged, CountType, Counters
  <2> QED BY TypeFrame, <1>2, <2>1 DEF RowReported, TypeOK
<1>3. CASE DetachedEnd
  <2>1. TaskType'
    BY <1>0, <1>3 DEF DetachedEnd, TaskType
  <2> QED BY TypeFrame, <1>3, <2>1 DEF DetachedEnd, TypeOK
<1> QED BY <1>1, <1>2, <1>3

(* ... of a call of cancel,                                                 *)
LEMMA TypeCancel ==
  ASSUME LiveAssumption, TypeOK,
         (\E m \in {"soft", "hard"} : CancelFinds(m)) \/ CancelStep
  PROVE  TypeOK'
<1>0. CountType /\ SessType /\ CancelType
  BY DEF TypeOK
<1>1. ASSUME NEW m \in {"soft", "hard"}, CancelFinds(m) PROVE TypeOK'
  <2>1. CancelType'
    BY <1>0, <1>1 DEF CancelFinds, CancelType, LiveAssumption
  <2> QED BY TypeFrame, <1>1, <2>1 DEF CancelFinds, TypeOK
<1>2. CASE CancelTells
  <2>1. PhaseChanged("cancelling") \in Events /\ Send(PhaseChanged("cancelling"))
    BY EventTypes, <1>2 DEF CancelTells, SetPhase
  <2>2. FwdType'
    BY TypeSend, <2>1
  <2>3. CountType' /\ SessType'
    BY <1>0, <1>2 DEF CancelTells, SetPhase, CountType, SessType
  <2>4. CancelType'
    BY <1>0, <1>2 DEF CancelTells, CancelType
  <2> QED BY TypeFrame, <1>2, <2>2, <2>3, <2>4 DEF CancelTells, TypeOK
<1>3. CASE CancelFlags
  <2>1. SessType' /\ CancelType'
    BY <1>0, <1>3 DEF CancelFlags, SessType, CancelType
  <2> QED BY TypeFrame, <1>3, <2>1 DEF CancelFlags, TypeOK
<1>4. CASE CancelFires
  <2>1. SessType' /\ CancelType'
    BY <1>0, <1>4 DEF CancelFires, Fire, SessType, CancelType
  <2> QED BY TypeFrame, <1>4, <2>1 DEF CancelFires, TypeOK
<1> QED BY <1>1, <1>2, <1>3, <1>4 DEF CancelStep

(* ... of the tick loop,                                                    *)
LEMMA TypeTicks ==
  ASSUME LiveAssumption, TypeOK, TickLoop
  PROVE  TypeOK'
<1>0. TickType /\ MaxTicks \in Nat /\ NoTick \in Events
  BY EventTypes DEF TypeOK, LiveAssumption
<1>1. CASE Compose
  <2>1. TickType'
    BY EventTypes, <1>0, <1>1 DEF Compose, TickType
  <2> QED BY TypeFrame, <1>1, <2>1 DEF Compose, TypeOK
<1>2. CASE SendTick
  <2>1. TickType'
    BY <1>0, <1>2 DEF SendTick, TickType
  <2>2. tick \in Events /\ Send(tick)
    BY <1>0, <1>2 DEF SendTick, TickType
  <2>3. FwdType'
    BY TypeSend, <2>2
  <2> QED BY TypeFrame, <1>2, <2>1, <2>3 DEF SendTick, TypeOK
<1>3. CASE TickStops
  <2>1. TickType'
    BY <1>0, <1>3 DEF TickStops, TickType
  <2> QED BY TypeFrame, <1>3, <2>1 DEF TickStops, TypeOK
<1> QED BY <1>1, <1>2, <1>3 DEF TickLoop

(* The reducer gives a run state.                                           *)
LEMMA TypeReduced ==
  ASSUME TypeOK, NEW e
  PROVE  Reduced(view, e) \in
           [status : {"starting", "running", "cancelling"} \cup Ended, phantom : BOOLEAN]
<1>1. view \in [status : {"starting", "running", "cancelling"} \cup Ended, phantom : BOOLEAN]
  BY DEF TypeOK, PageType
<1>2. ASSUME NEW st \in {"starting", "running", "cancelling"} \cup Ended
      PROVE  [view EXCEPT !.status = st] \in
               [status : {"starting", "running", "cancelling"} \cup Ended, phantom : BOOLEAN]
  BY <1>1
<1>3. \A p : StatusOf(p) \in {"starting", "running", "cancelling"}
  BY DEF StatusOf
<1>4. "done" \in Ended /\ "crashed" \in Ended /\ "aborted" \in Ended
  BY DEF Ended
<1> QED BY <1>1, <1>2, <1>3, <1>4 DEF Reduced

(* ... of the forwarder, which reduces the event it delivers,               *)
LEMMA TypeForwarder ==
  ASSUME LiveAssumption, TypeOK, Forwarder
  PROVE  TypeOK'
<1>0. FwdType /\ PageType
  BY DEF TypeOK
<1>1. CASE Subscribe
  <2>1. FwdType'
    BY <1>0, <1>1 DEF Subscribe, FwdType
  <2> QED BY TypeFrame, <1>1, <2>1 DEF Subscribe, TypeOK
<1>2. CASE Forward
  <2>1. FwdType'
    <3>1. CASE lag
      BY <1>0, <1>2, <3>1 DEF Forward, FwdType
    <3>2. CASE ~lag
      <4>1. chan \in Seq(Events) /\ chan # <<>> /\ Len(chan) <= ChanCap /\ chan' = Tail(chan)
        BY <1>0, <1>2, <3>2 DEF Forward, FwdType
      <4>2. Tail(chan) \in Seq(Events) /\ Len(Tail(chan)) = Len(chan) - 1
        BY <4>1
      <4>3. Len(chan) \in Nat /\ ChanCap \in Nat
        BY <4>1 DEF LiveAssumption
      <4>4. Len(chan') <= ChanCap
        BY <4>1, <4>2, <4>3
      <4> QED BY <1>0, <1>2, <3>2, <4>1, <4>2, <4>4 DEF Forward, FwdType
    <3> QED BY <3>1, <3>2
  <2>2. view' \in [status : {"starting", "running", "cancelling"} \cup Ended, phantom : BOOLEAN]
    BY TypeReduced, <1>0, <1>2 DEF Forward, Emit, PageType
  <2>3. PageType'
    BY <1>0, <1>2, <2>2 DEF Forward, PageType
  <2> QED BY TypeFrame, <1>2, <2>1, <2>3 DEF Forward, TypeOK
<1>3. CASE ForwarderEnds
  <2>1. FwdType'
    BY <1>0, <1>3 DEF ForwarderEnds, FwdType
  <2> QED BY TypeFrame, <1>3, <2>1 DEF ForwarderEnds, TypeOK
<1> QED BY <1>1, <1>2, <1>3 DEF Forwarder

(* ... and of the page.                                                     *)
LEMMA TypePage ==
  ASSUME TypeOK, PageOpens \/ PageStep
  PROVE  TypeOK'
<1>0. PageType /\ CountType
  BY DEF TypeOK
<1>1. CASE PageOpens
  <2>1. PageType'
    BY <1>0, <1>1 DEF PageOpens, PageType
  <2> QED BY TypeFrame, <1>1, <2>1 DEF PageOpens, TypeOK
<1>2. CASE Asks
  <2>1. PageType'
    <3>1. reply' \in {"none", "starting", "running", "cancelling", "unknown"}
      BY <1>0, <1>2 DEF Asks, CountType
    <3> QED BY <1>0, <1>2, <3>1 DEF Asks, PageType
  <2> QED BY TypeFrame, <1>2, <2>1 DEF Asks, TypeOK
<1>3. CASE Answered
  <2>1. StatusOf(reply) \in {"starting", "running", "cancelling"}
    BY DEF StatusOf
  <2>2. view' \in [status : {"starting", "running", "cancelling"} \cup Ended, phantom : BOOLEAN]
    BY <1>0, <1>3, <2>1 DEF Answered, PageType
  <2>3. PageType'
    BY <1>0, <1>3, <2>2 DEF Answered, PageType
  <2> QED BY TypeFrame, <1>3, <2>3 DEF Answered, TypeOK
<1>4. CASE Renders
  <2>1. PageType'
    BY <1>0, <1>4 DEF Renders, Over, PageType
  <2> QED BY TypeFrame, <1>4, <2>1 DEF Renders, TypeOK
<1> QED BY <1>1, <1>2, <1>3, <1>4 DEF PageStep

(* The state keeps its types, and the broadcast channel its capacity.       *)
THEOREM LiveTypeCorrect == Spec => []TypeOK
<1>1. Init => TypeOK
  BY LiveAssumption, TypeInit
<1>2. TypeOK /\ [Next]_vars => TypeOK'
  <2> SUFFICES ASSUME TypeOK, [Next]_vars PROVE TypeOK'
    OBVIOUS
  <2>1. CASE UNCHANGED vars
    BY TypeFrame, <2>1 DEF vars, TypeOK
  <2> QED BY LiveAssumption, TypeTask, TypeRows, TypeCancel, TypeTicks, TypeForwarder, TypePage,
       <2>1 DEF Next
<1> QED BY <1>1, <1>2, PTL DEF Spec

-----------------------------------------------------------------------------
(* EndInv                                                                   *)

(* At the start nothing has been recorded, fired or told.                   *)
LEMMA EndInit == LiveAssumption /\ Init => EndInv
<1> SUFFICES ASSUME LiveAssumption, Init PROVE EndInv
  OBVIOUS
<1>1. Recording
  BY DEF Init, Recording, Early, WorkersLogged
<1>2. Firing
  BY DEF Init, Firing, Late, ForceKillIsRecorded
<1>3. Telling
  <2>1. chan = <<>> /\ tick = NoTick /\ tpc = "start"
    BY DEF Init
  <2>2. ChannelTruthful
    BY <2>1 DEF ChannelTruthful
  <2> QED BY <2>1, <2>2 DEF Telling, Late, NoTick, Tick
<1> QED BY <1>1, <1>2, <1>3 DEF EndInv

(* What a step must leave alone for a part of EndInv to stay.               *)
LEMMA EndFrame ==
  ASSUME EndInv
  PROVE  /\ UNCHANGED <<taskVars, logged, tooLarge, counts>> => Recording'
         /\ UNCHANGED <<taskVars, token, hard, cpc, mode, firedBy>> => Firing'
         /\ UNCHANGED <<taskVars, logged, tooLarge, tick, chan>> => Telling'
<1>1. UNCHANGED <<taskVars, logged, tooLarge, counts>> => Recording'
  BY DEF EndInv, Recording, taskVars, WorkersLogged
<1>2. UNCHANGED <<taskVars, token, hard, cpc, mode, firedBy>> => Firing'
  BY DEF EndInv, Firing, ForceKillIsRecorded, taskVars
<1>3. UNCHANGED <<taskVars, logged, tooLarge, tick, chan>> => Telling'
  BY DEF EndInv, Telling, ChannelTruthful, Truthful, Announced, taskVars, WorkersLogged
<1> QED BY <1>1, <1>2, <1>3

(* What has been told stays true while the end stands.                      *)
LEMMA TruthStays ==
  ASSUME Announced => /\ Announced' /\ result' = result
                      /\ result = "panicked" \/ UNCHANGED <<dispatching, logged, tooLarge>>
  PROVE  \A f : Truthful(f) => Truthful(f)'
BY DEF Truthful, WorkersLogged

(* A channel of true events stays one when a true event is sent.            *)
LEMMA ChannelAfterSend ==
  ASSUME LiveAssumption, TypeOK, ChannelTruthful, NEW e \in Events, Send(e),
         \A f : Truthful(f) => Truthful(f)',
         \A f : f = e => Truthful(f)'
  PROVE  ChannelTruthful'
<1>1. \A i \in 1 .. Len(chan') :
        chan'[i] = e \/ \E j \in 1 .. Len(chan) : chan'[i] = chan[j]
  BY SendTyped
<1>2. \A j \in 1 .. Len(chan) : Truthful(chan[j])
  BY DEF ChannelTruthful
<1>3. ASSUME NEW i \in 1 .. Len(chan') PROVE Truthful(chan[i])'
  <2>1. \A f : f = chan'[i] => Truthful(f)'
    BY <1>1, <1>2, <1>3
  <2> QED BY <2>1 DEF Truthful
<1> QED BY <1>3 DEF ChannelTruthful

(* A change of phase, a warning or a tick says nothing of the end.          *)
LEMMA PlainEvents ==
  ASSUME TypeOK, EndInv
  PROVE  /\ \A p, f : f = PhaseChanged(p) => Truthful(f)'
         /\ \A f : f = Warning => Truthful(f)'
         /\ \A f : f = tick => Truthful(f)'
BY DEF EndInv, Telling, Truthful, PhaseChanged, Warning

(* set_phase(Starting) and Started: no outcome and no end yet.              *)
LEMMA EndStarts ==
  ASSUME LiveAssumption, TypeOK, EndInv, Starts \/ Runs
  PROVE  EndInv'
<1>0. Recording /\ Firing /\ Telling /\ TaskType /\ CountType
  BY DEF EndInv, TypeOK
<1>1. PICK p \in {"starting", "running"} :
        SetPhase(p) /\ UNCHANGED <<result, stored, killed, warned, logged, tooLarge, counts,
                                  sessVars, cancelVars, tickVars>>
  BY DEF Starts, Runs
<1>2. tpc \in Early /\ tpc' \in {"prepare", "execute"}
  BY DEF Starts, Runs, Early
<1>3. dispatching' => tpc' = "execute"
  BY <1>0 DEF Starts, Runs, Recording, Early
<1>4. Recording'
  BY <1>0, <1>1, <1>2, <1>3 DEF Recording, Early, WorkersLogged
<1>5. Firing'
  BY <1>0, <1>1, <1>2 DEF Firing, ForceKillIsRecorded, Early, Late, sessVars, cancelVars
<1>6. ChannelTruthful'
  <2>1. PhaseChanged(p) \in Events /\ Send(PhaseChanged(p))
    BY EventTypes, <1>1 DEF SetPhase
  <2>2. \A f : Truthful(f) => Truthful(f)'
    BY TruthStays, <1>2 DEF Announced, Early
  <2>3. \A f : f = PhaseChanged(p) => Truthful(f)'
    BY PlainEvents
  <2> QED BY ChannelAfterSend, <1>0, <2>1, <2>2, <2>3 DEF Telling
<1>7. Telling'
  BY <1>0, <1>1, <1>2, <1>6 DEF Telling, Late, tickVars
<1> QED BY <1>4, <1>5, <1>7 DEF EndInv

(* The end of the pipeline: the workers are joined and the token has fired. *)
LEMMA EndPipeline ==
  ASSUME LiveAssumption, TypeOK, EndInv,
         (\E how \in {"completed", "aborted"} : PipelineReports(how))
           \/ PipelineFails \/ PipelinePanics
  PROVE  EndInv'
<1>0. Recording /\ Firing /\ Telling /\ TaskType /\ CountType
  BY DEF EndInv, TypeOK
<1>1. tpc \in {"prepare", "execute"} /\ tpc' = "ended"
  BY DEF PipelineReports, PipelineFails, PipelinePanics
<1>2. UNCHANGED <<stored, killed, warned, logged, tooLarge, counts, hard, cpc, mode, tick, chan>>
  BY DEF PipelineReports, PipelineFails, PipelinePanics, countVars, sessVars, cancelVars,
     tickVars, fwdVars
<1>3. result' # "none" /\ (result' # "panicked" => counts = WorkersLogged /\ ~dispatching')
  <2>1. tpc \in Early \/ logged = 0 => counts = WorkersLogged
    BY <1>0 DEF Recording, WorkersLogged, CountType, Counters
  <2> QED BY <1>0, <2>1 DEF PipelineReports, PipelineFails, PipelinePanics, Recording, Early
<1>4. /\ UNCHANGED <<token, firedBy>> \/ Fire("pool")
      /\ result' = "aborted" => token'
  <2>1. ASSUME NEW how \in {"completed", "aborted"}, PipelineReports(how) PROVE Fire("pool")
    BY <2>1 DEF PipelineReports
  <2>2. CASE PipelineFails
    BY <2>2 DEF PipelineFails
  <2>3. CASE PipelinePanics
    BY <2>3 DEF PipelinePanics, sessVars, cancelVars
  <2> QED BY <2>1, <2>2, <2>3 DEF Fire
<1>5. Recording'
  BY <1>0, <1>1, <1>2, <1>3 DEF Recording, Early, WorkersLogged
<1>6. Firing'
  <2>1. stored # "closed"
    BY <1>0, <1>1 DEF Firing, Late
  <2>2. (firedBy' # "none" => token') /\ (firedBy' = "hard" => hard')
    BY <1>0, <1>2, <1>4 DEF Firing, Fire
  <2> QED BY <1>0, <1>1, <1>2, <1>4, <2>1, <2>2 DEF Firing, ForceKillIsRecorded
<1>7. Telling'
  <2>1. \A f : Truthful(f) => Truthful(f)'
    BY TruthStays, <1>1 DEF Announced
  <2>2. ChannelTruthful'
    BY <1>0, <1>2, <2>1 DEF Telling, ChannelTruthful, Truthful
  <2> QED BY <1>0, <1>1, <1>2, <2>2 DEF Telling, Late
<1> QED BY <1>5, <1>6, <1>7 DEF EndInv

(* finish_attempt stores the flag as it is, or its failure is sent.         *)
LEMMA EndFinish ==
  ASSUME LiveAssumption, TypeOK, EndInv, Finish \/ FinishFails
  PROVE  EndInv'
<1>0. Recording /\ Firing /\ Telling /\ TaskType
  BY DEF EndInv, TypeOK
<1>1. /\ tpc = "ended" /\ tpc' = "announce"
      /\ UNCHANGED <<result, dispatching, logged, tooLarge, counts>>
  BY DEF Finish, FinishFails, countVars
<1>2. UNCHANGED <<token, hard, cpc, mode, firedBy, tick>>
  BY DEF Finish, FinishFails, sessVars, cancelVars, tickVars
<1>3. Recording'
  BY <1>0, <1>1 DEF Recording, Early, WorkersLogged
<1>4. Firing'
  <2>1. stored # "closed"
    BY <1>0, <1>1 DEF Firing, Late
  <2>2. ForceKillIsRecorded'
    <3>1. CASE Finish
      BY <1>0, <1>1, <1>2, <3>1 DEF Finish, Cancelled, Firing, ForceKillIsRecorded
    <3>2. CASE FinishFails
      BY <2>1, <3>2 DEF FinishFails, ForceKillIsRecorded
    <3> QED BY <3>1, <3>2
  <2> QED BY <1>0, <1>1, <1>2, <2>2 DEF Firing, Late
<1>5. Telling'
  <2>1. \A f : Truthful(f) => Truthful(f)'
    BY TruthStays, <1>1 DEF Announced
  <2>2. ChannelTruthful'
    <3>1. CASE Finish
      BY <1>0, <2>1, <3>1 DEF Finish, Telling, ChannelTruthful, Truthful, fwdVars
    <3>2. CASE FinishFails
      <4>1. Warning \in Events /\ Send(Warning)
        BY EventTypes, <3>2 DEF FinishFails
      <4>2. \A f : f = Warning => Truthful(f)'
        BY PlainEvents
      <4> QED BY ChannelAfterSend, <1>0, <2>1, <4>1, <4>2 DEF Telling
    <3> QED BY <3>1, <3>2
  <2>3. stored' = "closed" \/ warned'
    BY DEF Finish, FinishFails
  <2> QED BY <1>0, <1>2, <2>2, <2>3 DEF Telling
<1> QED BY <1>3, <1>4, <1>5 DEF EndInv

(* The terminal event counts what the workers have logged, unless the run   *)
(* crashed.                                                                 *)
LEMMA EndAnnounce ==
  ASSUME LiveAssumption, TypeOK, EndInv, Announce
  PROVE  EndInv'
<1>0. Recording /\ Firing /\ Telling /\ TaskType
  BY DEF EndInv, TypeOK
<1>1. /\ tpc = "announce" /\ tpc' = "mark"
      /\ UNCHANGED <<result, stored, killed, warned, dispatching, logged, tooLarge, counts,
                     token, hard, cpc, mode, firedBy, tick>>
  BY DEF Announce, countVars, sessVars, cancelVars, tickVars
<1>2. Recording'
  BY <1>0, <1>1 DEF Recording, Early, WorkersLogged
<1>3. Firing'
  BY <1>0, <1>1 DEF Firing, ForceKillIsRecorded, Late
<1>4. ChannelTruthful'
  <2>1. Terminal \in Events /\ Send(Terminal)
    BY EventTypes DEF Announce
  <2>2. \A f : Truthful(f) => Truthful(f)'
    BY TruthStays, <1>1 DEF Announced
  <2>3. result # "panicked" => counts = WorkersLogged /\ ~dispatching
    BY <1>0, <1>1 DEF Recording, Early
  <2>4. /\ Announced' /\ result' = result /\ dispatching' = dispatching
        /\ WorkersLogged' = WorkersLogged
    BY <1>1 DEF Announced, WorkersLogged
  <2>5. \/ result = "panicked" /\ Terminal = Aborted("crashed", counts)
        \/ result # "panicked" /\ Terminal = Done(counts)
        \/ result # "panicked" /\ \E r : Terminal = Aborted(r, counts)
    BY DEF Terminal, Cancelled
  <2>6. \A f : f = Terminal => Truthful(f)'
    BY <2>3, <2>4, <2>5 DEF Truthful, Done, Aborted
  <2> QED BY ChannelAfterSend, <1>0, <2>1, <2>2, <2>6 DEF Telling
<1>5. Telling'
  BY <1>0, <1>1, <1>4 DEF Telling, Late
<1> QED BY <1>2, <1>3, <1>5 DEF EndInv

(* What follows the terminal event leaves all of it alone.                  *)
LEMMA EndMark ==
  ASSUME TypeOK, EndInv, Mark \/ Remove
  PROVE  EndInv'
<1>0. Recording /\ Firing /\ Telling
  BY DEF EndInv
<1>1. /\ tpc \in {"mark", "remove"} /\ tpc' \in {"remove", "gone"}
      /\ UNCHANGED <<result, stored, killed, warned, dispatching, logged, tooLarge, counts,
                     token, hard, cpc, mode, firedBy, tick, chan>>
  BY DEF Mark, Remove, countVars, cancelVars, tickVars, fwdVars
<1>2. Recording'
  BY <1>0, <1>1 DEF Recording, Early, WorkersLogged
<1>3. Firing'
  BY <1>0, <1>1 DEF Firing, ForceKillIsRecorded, Late
<1>4. Telling'
  <2>1. \A f : Truthful(f) => Truthful(f)'
    BY TruthStays, <1>1 DEF Announced
  <2>2. ChannelTruthful'
    BY <1>0, <1>1, <2>1 DEF Telling, ChannelTruthful, Truthful
  <2> QED BY <1>0, <1>1, <2>2 DEF Telling, Late
<1> QED BY <1>2, <1>3, <1>4 DEF EndInv

(* Outcomes are recorded before a report, or after a panic.                 *)
LEMMA EndRows ==
  ASSUME LiveAssumption, TypeOK, EndInv,
         RowTooLarge \/ RowAppended \/ RowReported \/ DetachedEnd
  PROVE  EndInv'
<1>0. Recording /\ Firing /\ Telling /\ TaskType /\ CountType /\ MaxRows \in Nat
  BY DEF EndInv, TypeOK, LiveAssumption
<1>1. UNCHANGED <<tpc, result, stored, killed, warned, token, hard, cpc, mode, firedBy, tick, chan>>
  BY DEF RowTooLarge, RowAppended, RowReported, DetachedEnd, taskVars, sessVars, cancelVars,
     tickVars, fwdVars
<1>2. UNCHANGED <<dispatching, logged, tooLarge>> \/ dispatching
  BY DEF RowTooLarge, RowAppended, RowReported, DetachedEnd, countVars, taskVars
<1>3. Recording'
  <2>1. CASE RowTooLarge \/ RowAppended
    <3>1. WorkersLogged' >= WorkersLogged /\ WorkersLogged \in Int /\ WorkersLogged' \in Int
      BY <1>0, <2>1 DEF RowTooLarge, RowAppended, WorkersLogged, CountType, Counters
    <3>2. /\ dispatching /\ counts' = counts /\ counts \in Int /\ UNCHANGED taskVars
      BY <1>0, <2>1 DEF RowTooLarge, RowAppended, CountType, Counters
    <3> QED BY <1>0, <3>1, <3>2 DEF Recording, taskVars
  <2>2. CASE RowReported
    <3>1. /\ WorkersLogged' = WorkersLogged /\ counts < WorkersLogged /\ counts' = counts + 1
          /\ UNCHANGED <<logged, taskVars>>
      BY <2>2 DEF RowReported, WorkersLogged
    <3>2. WorkersLogged \in Int /\ counts \in Int
      BY <1>0 DEF WorkersLogged, CountType, Counters
    <3>3. logged = 0 => ~(counts < WorkersLogged)
      BY <1>0 DEF WorkersLogged, CountType, Counters
    <3> QED BY <1>0, <3>1, <3>2, <3>3 DEF Recording, taskVars
  <2>3. CASE DetachedEnd
    BY <1>0, <2>3 DEF DetachedEnd, Recording, WorkersLogged, countVars
  <2> QED BY <2>1, <2>2, <2>3
<1>4. Firing'
  BY <1>0, <1>1 DEF Firing, ForceKillIsRecorded
<1>5. Telling'
  <2>1. Announced => result = "panicked" \/ UNCHANGED <<dispatching, logged, tooLarge>>
    BY <1>0, <1>2 DEF Announced, Recording, Early
  <2>2. \A f : Truthful(f) => Truthful(f)'
    BY TruthStays, <1>1, <2>1 DEF Announced
  <2>3. ChannelTruthful'
    BY <1>0, <1>1, <2>2 DEF Telling, ChannelTruthful, Truthful
  <2> QED BY <1>0, <1>1, <2>3 DEF Telling
<1> QED BY <1>3, <1>4, <1>5 DEF EndInv

(* cancel sets the flag before it fires the token.                          *)
LEMMA EndCancel ==
  ASSUME LiveAssumption, TypeOK, EndInv,
         (\E m \in {"soft", "hard"} : CancelFinds(m)) \/ CancelStep
  PROVE  EndInv'
<1>0. Recording /\ Firing /\ Telling /\ TaskType /\ CancelType
  BY DEF EndInv, TypeOK
<1>1. UNCHANGED <<taskVars, logged, tooLarge, counts, tick>>
  BY DEF CancelFinds, CancelStep, CancelTells, CancelFlags, CancelFires, countVars, tickVars
<1>2. Recording'
  BY EndFrame, <1>1
<1>3. ASSUME NEW m \in {"soft", "hard"}, CancelFinds(m) PROVE Firing'
  BY <1>0, <1>1, <1>3 DEF CancelFinds, Firing, ForceKillIsRecorded, sessVars, taskVars
<1>4. ASSUME CancelTells PROVE Firing'
  <2>1. UNCHANGED <<mode, firedBy, token, hard>> /\ (cpc' = "fire" => mode # "hard")
    BY <1>4 DEF CancelTells
  <2> QED BY <1>0, <1>1, <2>1 DEF Firing, ForceKillIsRecorded, taskVars
<1>5. ASSUME CancelFlags PROVE Firing'
  <2>1. UNCHANGED <<mode, firedBy, token>> /\ hard'
    BY <1>5 DEF CancelFlags
  <2> QED BY <1>0, <1>1, <2>1 DEF Firing, ForceKillIsRecorded, taskVars
<1>6. ASSUME CancelFires PROVE Firing'
  <2>1. token' /\ (token => firedBy' = firedBy) /\ (~token => firedBy' = mode)
    BY <1>6 DEF CancelFires, Fire
  <2>2. /\ firedBy' = "hard" => hard'
        /\ cpc' = "idle" /\ hard' = hard
    BY <1>0, <1>6, <2>1 DEF CancelFires, Firing
  <2>3. ForceKillIsRecorded'
    BY <1>0, <1>1, <2>1 DEF Firing, ForceKillIsRecorded, taskVars
  <2> QED BY <1>0, <1>1, <2>1, <2>2, <2>3 DEF Firing, taskVars
<1>7. Telling'
  <2>1. CASE CancelTells
    <3>1. PhaseChanged("cancelling") \in Events /\ Send(PhaseChanged("cancelling"))
      BY EventTypes, <2>1 DEF CancelTells, SetPhase
    <3>2. \A f : Truthful(f) => Truthful(f)'
      BY TruthStays, <1>1 DEF Announced, taskVars
    <3>3. \A f : f = PhaseChanged("cancelling") => Truthful(f)'
      BY PlainEvents
    <3>4. ChannelTruthful'
      BY ChannelAfterSend, <1>0, <3>1, <3>2, <3>3 DEF Telling
    <3> QED BY <1>0, <1>1, <3>4 DEF Telling, taskVars
  <2>2. CASE ~CancelTells
    <3>1. UNCHANGED chan
      BY <2>2 DEF CancelFinds, CancelStep, CancelFlags, CancelFires, fwdVars
    <3> QED BY EndFrame, <1>1, <3>1
  <2> QED BY <2>1, <2>2
<1> QED BY <1>2, <1>3, <1>4, <1>5, <1>6, <1>7 DEF EndInv, CancelStep

(* The tick loop sends ticks only, however late.                            *)
LEMMA EndTicks ==
  ASSUME LiveAssumption, TypeOK, EndInv, TickLoop
  PROVE  EndInv'
<1>0. Recording /\ Firing /\ Telling
  BY DEF EndInv
<1>1. UNCHANGED <<taskVars, logged, tooLarge, counts, token, hard, cpc, mode, firedBy>>
  BY DEF TickLoop, Compose, SendTick, TickStops, countVars, sessVars, cancelVars
<1>2. Recording' /\ Firing'
  BY EndFrame, <1>1
<1>3. tick'.type = "tick"
  BY <1>0 DEF TickLoop, Compose, SendTick, TickStops, Telling, NoTick, Tick
<1>4. ChannelTruthful'
  <2>1. \A f : Truthful(f) => Truthful(f)'
    BY TruthStays, <1>1 DEF Announced, taskVars
  <2>2. CASE SendTick
    <3>1. tick \in Events /\ Send(tick)
      BY <2>2 DEF SendTick, TypeOK, TickType
    <3>2. \A f : f = tick => Truthful(f)'
      BY PlainEvents
    <3> QED BY ChannelAfterSend, <1>0, <2>1, <3>1, <3>2 DEF Telling
  <2>3. CASE ~SendTick
    <3>1. UNCHANGED chan
      BY <2>3 DEF TickLoop, Compose, TickStops, fwdVars
    <3> QED BY <1>0, <2>1, <3>1 DEF Telling, ChannelTruthful, Truthful
  <2> QED BY <2>2, <2>3
<1>5. Telling'
  BY <1>0, <1>1, <1>3, <1>4 DEF Telling, taskVars
<1> QED BY <1>2, <1>5 DEF EndInv

(* Forwarder and page take events out of the channel and write nothing.     *)
LEMMA EndWatched ==
  ASSUME LiveAssumption, TypeOK, EndInv, Forwarder \/ PageOpens \/ PageStep
  PROVE  EndInv'
<1>0. Recording /\ Firing /\ Telling
  BY DEF EndInv
<1>1. UNCHANGED <<taskVars, countVars, sessVars, cancelVars, tickVars>>
  BY DEF Forwarder, Subscribe, Forward, ForwarderEnds, PageOpens, PageStep, Asks, Answered, Renders
<1>2. UNCHANGED <<taskVars, logged, tooLarge, counts, token, hard, cpc, mode, firedBy, tick>>
  BY <1>1 DEF countVars, sessVars, cancelVars, tickVars
<1>3. Recording' /\ Firing'
  BY EndFrame, <1>2
<1>4. CASE UNCHANGED chan
  BY EndFrame, <1>2, <1>3, <1>4 DEF EndInv
<1>5. CASE chan' = Tail(chan) /\ chan # <<>>
  <2>1. chan \in Seq(Events)
    BY DEF TypeOK, FwdType
  <2>2. \A i \in 1 .. Len(Tail(chan)) : i + 1 \in 1 .. Len(chan) /\ Tail(chan)[i] = chan[i + 1]
    BY <1>5, <2>1
  <2>3. \A f : Truthful(f) => Truthful(f)'
    BY TruthStays, <1>2 DEF Announced, taskVars
  <2>4. ASSUME NEW i \in 1 .. Len(chan') PROVE Truthful(chan[i])'
    <3>1. Truthful(chan[i + 1]) /\ chan'[i] = chan[i + 1]
      BY <1>0, <1>5, <2>2, <2>4 DEF Telling, ChannelTruthful
    <3> QED BY <2>3, <3>1 DEF Truthful
  <2>5. Telling'
    BY <1>0, <1>2, <2>4 DEF Telling, ChannelTruthful, taskVars
  <2> QED BY <1>3, <2>5 DEF EndInv
<1> QED BY <1>4, <1>5 DEF Forwarder, Subscribe, Forward, ForwarderEnds, PageOpens, PageStep,
     Asks, Answered, Renders, fwdVars

(* In every run the end is recorded, stored and told as EndInv says.        *)
THEOREM EndInvariant == Spec => [](TypeOK /\ EndInv)
<1>1. Init => TypeOK /\ EndInv
  BY LiveAssumption, TypeInit, EndInit
<1>2. TypeOK /\ EndInv /\ [Next]_vars => EndInv'
  <2> SUFFICES ASSUME TypeOK, EndInv, [Next]_vars PROVE EndInv'
    OBVIOUS
  <2>1. CASE UNCHANGED vars
    BY EndFrame, <2>1 DEF vars, countVars, sessVars, cancelVars, tickVars, fwdVars, EndInv
  <2>2. CASE TaskStep
    BY LiveAssumption, EndStarts, EndPipeline, EndFinish, EndAnnounce, EndMark, <2>2 DEF TaskStep
  <2> QED BY LiveAssumption, EndRows, EndCancel, EndTicks, EndWatched, <2>1, <2>2 DEF Next
<1> QED BY <1>1, <1>2, LiveTypeCorrect, PTL DEF Spec

-----------------------------------------------------------------------------
(* FinalReportIsComplete, for every run: unless the run crashed, the event  *)
(* that ends it counts every outcome its workers have logged, and none      *)
(* besides, and nobody is left to log another (report_outcomes, the joins   *)
(* of run_pool_streaming and the task of start_run).                        *)
THEOREM ReportComplete == Spec => []FinalReportIsComplete
<1>1. EndInv => FinalReportIsComplete
  BY DEF EndInv, Telling, ChannelTruthful, Truthful, FinalReportIsComplete, Terminals
<1> QED BY <1>1, EndInvariant, PTL

(* PersistedBeforeAnnounced, for every run: an announced end is in sqlite,  *)
(* or a warning has been sent.                                              *)
THEOREM EndPersisted == Spec => []PersistedBeforeAnnounced
<1>1. EndInv => PersistedBeforeAnnounced
  BY DEF EndInv, Telling, Late, Announced, PersistedBeforeAnnounced
<1> QED BY <1>1, EndInvariant, PTL

(* ForceKillIsRecorded, for every run: an attempt that a hard cancel ended  *)
(* is stored as force-killed.                                               *)
THEOREM ForceKillStored == Spec => []ForceKillIsRecorded
<1>1. EndInv => ForceKillIsRecorded
  BY DEF EndInv, Firing
<1> QED BY <1>1, EndInvariant, PTL

-----------------------------------------------------------------------------
(* The order of the ticks. Those in the channel are numbered below the one  *)
(* that is composed and not sent, and count no more rows than it.           *)
Below(e, n, c) == e.type = "tick" => e.seq <= n /\ e.counts <= c

InOrder(e, f) == e.type = "tick" /\ f.type = "tick" => e.seq < f.seq /\ e.counts <= f.counts

TickInv ==
  /\ TicksInOrder
  /\ \A i \in 1 .. Len(chan) : Below(chan[i], ticks, counts)
  /\ kpc = "composed" =>
       /\ tick.type = "tick" /\ tick.seq = ticks /\ tick.counts <= counts
       /\ \A i \in 1 .. Len(chan) : InOrder(chan[i], tick)

(* A tick has a number and counts.                                          *)
LEMMA TickNumbers ==
  ASSUME NEW e \in Events, e.type = "tick"
  PROVE  e.seq \in Int /\ e.counts \in Int
BY DEF Events, Warning, Counters

(* What a send leaves keeps its order, and what it adds comes last.         *)
LEMMA SendInOrder ==
  ASSUME LiveAssumption, TypeOK, NEW e \in Events, Send(e),
         NEW i \in 1 .. Len(chan'), NEW j \in 1 .. Len(chan'), i < j
  PROVE  \/ \E k, l \in 1 .. Len(chan) : k < l /\ chan'[i] = chan[k] /\ chan'[j] = chan[l]
         \/ chan'[j] = e /\ \E k \in 1 .. Len(chan) : chan'[i] = chan[k]
<1>1. chan \in Seq(Events) /\ Len(chan) \in Nat /\ ChanCap \in Nat \ {0}
  BY DEF TypeOK, FwdType, LiveAssumption
<1>2. CASE fpc # "on"
  BY <1>1, <1>2 DEF Send
<1>3. CASE fpc = "on" /\ Len(chan) < ChanCap
  <2>1. chan' = Append(chan, e)
    BY <1>3 DEF Send
  <2>2. Len(chan') = Len(chan) + 1 /\ chan'[Len(chan) + 1] = e
        /\ \A k \in 1 .. Len(chan) : chan'[k] = chan[k]
    BY <1>1, <2>1
  <2>3. i \in 1 .. Len(chan) /\ (j \in 1 .. Len(chan) \/ j = Len(chan) + 1)
    BY <1>1, <2>2
  <2> QED BY <2>2, <2>3
<1>4. CASE fpc = "on" /\ ~(Len(chan) < ChanCap)
  <2>1. chan # <<>> /\ Tail(chan) \in Seq(Events) /\ Len(Tail(chan)) = Len(chan) - 1
    BY <1>1, <1>4
  <2>2. \A k \in 1 .. Len(chan) - 1 : Tail(chan)[k] = chan[k + 1]
    BY <1>1, <2>1
  <2>3. chan' = Append(Tail(chan), e)
    BY <1>4 DEF Send
  <2>4. Len(chan') = Len(chan) /\ chan'[Len(chan)] = e
        /\ \A k \in 1 .. Len(chan) - 1 : chan'[k] = Tail(chan)[k]
    BY <1>1, <2>1, <2>3
  <2>5. i \in 1 .. Len(chan) - 1 /\ (j \in 1 .. Len(chan) - 1 \/ j = Len(chan))
    BY <1>1, <2>4
  <2>6. chan'[i] = chan[i + 1] /\ i + 1 \in 1 .. Len(chan)
    BY <1>1, <2>2, <2>4, <2>5
  <2>7. CASE j = Len(chan)
    BY <2>4, <2>6, <2>7
  <2>8. CASE j \in 1 .. Len(chan) - 1
    <3>1. chan'[j] = chan[j + 1] /\ j + 1 \in 1 .. Len(chan) /\ i + 1 < j + 1
      BY <1>1, <2>2, <2>4, <2>5, <2>8
    <3> QED BY <2>6, <3>1
  <2> QED BY <2>5, <2>7, <2>8
<1> QED BY <1>2, <1>3, <1>4

(* A send of something else than a tick.                                    *)
LEMMA TickOther ==
  ASSUME LiveAssumption, TypeOK, TickInv, NEW e \in Events, e.type # "tick", Send(e),
         UNCHANGED <<kpc, tick, ticks, counts>>
  PROVE  TickInv'
<1>1. \A i \in 1 .. Len(chan') : chan'[i] = e \/ \E k \in 1 .. Len(chan) : chan'[i] = chan[k]
  BY SendTyped
<1>2. TicksInOrder'
  <2> SUFFICES ASSUME NEW i \in 1 .. Len(chan'), NEW j \in 1 .. Len(chan'), i < j,
                      chan'[i].type = "tick", chan'[j].type = "tick"
               PROVE  chan'[i].seq < chan'[j].seq /\ chan'[i].counts <= chan'[j].counts
    BY DEF TicksInOrder
  <2>1. \/ \E k, l \in 1 .. Len(chan) : k < l /\ chan'[i] = chan[k] /\ chan'[j] = chan[l]
        \/ chan'[j] = e
    BY SendInOrder
  <2>2. PICK k, l \in 1 .. Len(chan) : k < l /\ chan'[i] = chan[k] /\ chan'[j] = chan[l]
    BY <2>1
  <2>3. chan[k].type = "tick" /\ chan[l].type = "tick"
    BY <2>2
  <2>4. chan[k].seq < chan[l].seq /\ chan[k].counts <= chan[l].counts
    BY <2>2, <2>3 DEF TickInv, TicksInOrder
  <2> QED BY <2>2, <2>4
<1> QED BY <1>1, <1>2 DEF TickInv, Below, InOrder

(* The send of the tick that was composed.                                  *)
LEMMA TickSent ==
  ASSUME LiveAssumption, TypeOK, TickInv, SendTick
  PROVE  TickInv'
<1>1. /\ kpc = "composed" /\ kpc' = "idle" /\ Send(tick) /\ tick \in Events
      /\ UNCHANGED <<ticks, counts>>
  BY DEF SendTick, TypeOK, TickType, countVars
<1>2. \A i \in 1 .. Len(chan') : chan'[i] = tick \/ \E k \in 1 .. Len(chan) : chan'[i] = chan[k]
  BY <1>1, SendTyped
<1>3. tick.type = "tick" /\ tick.seq = ticks /\ tick.counts <= counts /\ ticks \in Int
  BY <1>1 DEF TickInv, TypeOK, TickType
<1>4. TicksInOrder'
  <2> SUFFICES ASSUME NEW i \in 1 .. Len(chan'), NEW j \in 1 .. Len(chan'), i < j,
                      chan'[i].type = "tick", chan'[j].type = "tick"
               PROVE  chan'[i].seq < chan'[j].seq /\ chan'[i].counts <= chan'[j].counts
    BY DEF TicksInOrder
  <2>1. CASE \E k, l \in 1 .. Len(chan) : k < l /\ chan'[i] = chan[k] /\ chan'[j] = chan[l]
    BY <2>1 DEF TickInv, TicksInOrder
  <2>2. CASE chan'[j] = tick /\ \E k \in 1 .. Len(chan) : chan'[i] = chan[k]
    BY <1>1, <2>2 DEF TickInv, InOrder
  <2> QED BY <1>1, <2>1, <2>2, SendInOrder
<1>5. \A i \in 1 .. Len(chan') : Below(chan[i], ticks, counts)'
  BY <1>1, <1>2, <1>3 DEF TickInv, Below
<1> QED BY <1>1, <1>4, <1>5 DEF TickInv

(* The channel as it is, or without its head.                               *)
LEMMA TickRest ==
  ASSUME LiveAssumption, TypeOK, TickInv, UNCHANGED <<kpc, tick, ticks>>,
         counts' \in {counts, counts + 1}, chan' = chan \/ (chan # <<>> /\ chan' = Tail(chan))
  PROVE  TickInv'
<1>1. chan \in Seq(Events) /\ counts \in Int /\ tick \in Events /\ ticks \in Int
  BY DEF TypeOK, FwdType, CountType, Counters, TickType
<1>2. PICK d \in {0, 1} : /\ \A i \in 1 .. Len(chan') : i + d \in 1 .. Len(chan)
                                                        /\ chan'[i] = chan[i + d]
  <2>1. CASE chan' = chan
    BY <1>1, <2>1
  <2>2. CASE chan # <<>> /\ chan' = Tail(chan)
    BY <1>1, <2>2
  <2> QED BY <2>1, <2>2
<1>3. TicksInOrder'
  <2> SUFFICES ASSUME NEW i \in 1 .. Len(chan'), NEW j \in 1 .. Len(chan'), i < j,
                      chan'[i].type = "tick", chan'[j].type = "tick"
               PROVE  chan'[i].seq < chan'[j].seq /\ chan'[i].counts <= chan'[j].counts
    BY DEF TicksInOrder
  <2>1. i + d < j + d
    OBVIOUS
  <2> QED BY <1>2, <2>1 DEF TickInv, TicksInOrder
<1>4. \A i \in 1 .. Len(chan') : Below(chan[i], ticks, counts)'
  <2> SUFFICES ASSUME NEW i \in 1 .. Len(chan'), chan'[i].type = "tick"
               PROVE  chan'[i].seq <= ticks /\ chan'[i].counts <= counts'
    BY DEF Below
  <2>1. chan'[i] \in Events
    BY <1>1, <1>2
  <2>2. chan'[i].seq \in Int /\ chan'[i].counts \in Int
    BY <2>1, TickNumbers
  <2>3. chan'[i].seq <= ticks /\ chan'[i].counts <= counts
    BY <1>2 DEF TickInv, Below
  <2> QED BY <1>1, <2>2, <2>3
<1>5. kpc' = "composed" => tick.counts <= counts'
  <2>1. kpc = "composed" => tick.counts \in Int
    BY <1>1, TickNumbers DEF TickInv
  <2> QED BY <1>1, <2>1 DEF TickInv
<1> QED BY <1>2, <1>3, <1>4, <1>5 DEF TickInv

LEMMA TickStep ==
  ASSUME LiveAssumption, TypeOK, TickInv, [Next]_vars
  PROVE  TickInv'
<1> USE DEF taskVars, countVars, sessVars, cancelVars, tickVars, fwdVars, pageVars
<1>1. counts \in Int /\ ticks \in Int
  BY DEF TypeOK, CountType, Counters, TickType
<1>2. CASE Starts \/ Runs \/ FinishFails \/ Announce \/ CancelTells
  <2>1. PICK e \in Events : e.type # "tick" /\ Send(e)
    <3>1. \A p \in {"starting", "running", "cancelling"} :
            PhaseChanged(p) \in Events /\ PhaseChanged(p).type # "tick"
      BY EventTypes DEF PhaseChanged
    <3>2. Warning \in Events /\ Warning.type # "tick"
      BY EventTypes DEF Warning
    <3>3. Terminal \in Events /\ Terminal.type # "tick"
      BY EventTypes DEF Terminal, Done, Aborted
    <3> QED BY <1>2, <3>1, <3>2, <3>3 DEF Starts, Runs, FinishFails, Announce, CancelTells, SetPhase
  <2>2. UNCHANGED <<kpc, tick, ticks, counts>>
    BY <1>2 DEF Starts, Runs, FinishFails, Announce, CancelTells
  <2> QED BY <2>1, <2>2, TickOther
<1>3. CASE Compose
  <2>1. /\ kpc = "idle" /\ ticks' = ticks + 1 /\ tick' = Tick(ticks + 1, counts)
        /\ UNCHANGED <<counts, chan>>
    BY <1>3 DEF Compose
  <2>2. tick'.type = "tick" /\ tick'.seq = ticks' /\ tick'.counts = counts
    BY <2>1 DEF Tick
  <2>3. ASSUME NEW i \in 1 .. Len(chan), chan[i].type = "tick"
        PROVE  chan[i].seq < ticks' /\ chan[i].seq <= ticks' /\ chan[i].counts <= counts
    <3>1. chan[i].seq \in Int
      BY <2>3, TickNumbers DEF TypeOK, FwdType
    <3>2. chan[i].seq <= ticks /\ chan[i].counts <= counts
      BY <2>3 DEF TickInv, Below
    <3> QED BY <1>1, <2>1, <3>1, <3>2
  <2>4. TicksInOrder'
    BY <2>1 DEF TickInv, TicksInOrder
  <2> QED BY <1>1, <2>1, <2>2, <2>3, <2>4 DEF TickInv, Below, InOrder
<1>4. CASE TickStops
  <2>1. /\ kpc' = "ended" /\ UNCHANGED <<counts, chan, ticks>>
    BY <1>4 DEF TickStops
  <2> QED BY <2>1 DEF TickInv, TicksInOrder, Below
<1>5. CASE Forward
  <2>1. UNCHANGED <<kpc, tick, ticks, counts>> /\ (chan' = chan \/ (chan # <<>> /\ chan' = Tail(chan)))
    BY <1>5 DEF Forward
  <2> QED BY <2>1, TickRest
<1>6. CASE RowReported
  <2>1. UNCHANGED <<kpc, tick, ticks, chan>> /\ counts' = counts + 1
    BY <1>6 DEF RowReported
  <2> QED BY <2>1, TickRest
<1>7. CASE UNCHANGED <<kpc, tick, ticks, counts, chan>>
  BY <1>7, TickRest
<1>8. CASE Mark
  BY <1>8, <1>7 DEF Mark
<1>9. CASE SendTick
  BY <1>9, TickSent
<1> QED BY <1>2, <1>3, <1>4, <1>5, <1>6, <1>7, <1>8, <1>9
        DEF Next, vars, TaskStep, PipelineReports, PipelineFails, PipelinePanics, Finish, Remove,
            RowTooLarge, RowAppended, DetachedEnd, CancelFinds, CancelStep, CancelFlags,
            CancelFires, TickLoop,
            Forwarder, Subscribe, ForwarderEnds, PageOpens, PageStep, Asks, Answered, Renders

(* TicksInOrder, for every run: the ticks in the channel are numbered       *)
(* upwards and count no fewer rows than the ones before them, though a tick *)
(* is composed under the lock and sent after it, and a full channel drops   *)
(* its oldest event.                                                        *)
THEOREM TicksAreInOrder == Spec => []TicksInOrder
<1>1. Init => TickInv
  BY DEF Init, TickInv, TicksInOrder
<1>2. TypeOK /\ TickInv /\ [Next]_vars => TickInv'
  BY LiveAssumption, TickStep
<1>3. TickInv => TicksInOrder
  BY DEF TickInv
<1> QED BY <1>1, <1>2, <1>3, LiveTypeCorrect, PTL DEF Spec

=============================================================================
