---------------------------- MODULE StallMonitor ----------------------------
(***************************************************************************)
(* stall_monitor_task (jsonl_writer.rs): poll the byte counter and cancel  *)
(* the attempt when it has not grown for the stall timeout. Time is        *)
(* abstracted: once the stall timer runs, any tick without growth may be   *)
(* the one that finds it expired.                                          *)
(***************************************************************************)
EXTENDS Pipeline

MonFrame == <<poolVars, readerVars, accVars, workerVars, handlerVars,
              written, rowQ, jobQ, dropped, delivered>>

(* The biased select!: a fired token ends the monitor.                      *)
MonCancelled ==
  /\ mpc = "poll" /\ cancel
  /\ mpc' = "ok"
  /\ UNCHANGED <<timer, grown, tokenVars>> /\ UNCHANGED MonFrame

(* A tick that sees growth resets the timer.                                *)
MonGrowth ==
  /\ mpc = "poll" /\ ~cancel
  /\ grown
  /\ grown' = FALSE /\ timer' = FALSE
  /\ UNCHANGED <<mpc, tokenVars>> /\ UNCHANGED MonFrame

(* The first tick without growth starts it.                                 *)
MonStart ==
  /\ mpc = "poll" /\ ~cancel
  /\ ~grown /\ ~timer
  /\ timer' = TRUE
  /\ UNCHANGED <<mpc, grown, tokenVars>> /\ UNCHANGED MonFrame

(* A later one finds it expired. The token is not looked at again between   *)
(* this tick and the call to cancel().                                      *)
MonExpired ==
  /\ "stall" \in Faults
  /\ mpc = "poll" /\ ~cancel
  /\ ~grown /\ timer
  /\ mpc' = "fire"
  /\ UNCHANGED <<timer, grown, tokenVars>> /\ UNCHANGED MonFrame

(* Mutant of MonFire: the stall is noted and the token not fired.           *)
MonNotes ==
  /\ mpc = "fire"
  /\ mpc' = "stalled"
  /\ UNCHANGED <<timer, grown, tokenVars>> /\ UNCHANGED MonFrame

MonFire ==
  /\ mpc = "fire"
  /\ cancel' = TRUE
  /\ mpc' = "stalled"
  /\ UNCHANGED <<timer, grown, hard, opCancel>> /\ UNCHANGED MonFrame

MonStep == MonCancelled \/ MonGrowth \/ MonStart \/ MonExpired \/ MonFire
=============================================================================
