-------------------------------- MODULE Smoke --------------------------------
(***************************************************************************)
(* The smoke test of a handler (smoke.rs): a few rows from a fixtures file  *)
(* are put to a freshly started handler, one at a time, over the pipes of    *)
(* Worker (worker.rs). The module is the conversation between the runner of  *)
(* a call and the process it started; Handlers says which binary that is     *)
(* and who may hold the conversation.                                       *)
(*                                                                         *)
(* A handler answers a row it has read once and with that row's number, but  *)
(* it may answer late or never, print what is no message, send a message     *)
(* that is out of place, or die.                                            *)
(***************************************************************************)
EXTENDS Naturals, Sequences, FiniteSets

CONSTANTS
  Calls,        (* the calls of handler_smoke_run                           *)
  Fixtures,     (* fixture folders: a function from file types to lines     *)
  RowLimit,     (* rows the page asks for                                   *)
  Clogging,     (* rows that are larger than the stdin pipe                  *)
  Brimming,     (* rows that fit, but leave no room for the shutdown message *)
  MaxChatter    (* bound: the lines a process prints that are no message    *)

(* A line holds an object, or none, or nothing at all.                       *)
LineKinds == {"object", "garbled", "blank"}

ASSUME SmokeAssumption ==
  /\ MaxChatter \in Nat /\ RowLimit \in Nat
  /\ Clogging \subseteq Nat /\ Brimming \subseteq Nat
  /\ \A f \in Fixtures : \A e \in DOMAIN f : f[e] \in Seq(LineKinds)

VARIABLES
  pc,       (* per call: where the runner is                                *)
  rows,     (* per call: the lines of the fixtures to put to the handler    *)
  outs,     (* per call: the outcomes so far                                *)
  proc,     (* per call: its process, "none" "boot" "idle" "working" "dead" *)
  work,     (* per call: the number of the row its process works on         *)
  hin,      (* per call: what is in the stdin pipe                          *)
  closed,   (* per call: whether the runner has closed that pipe            *)
  hout,     (* per call: what is in the stdout pipe                         *)
  left      (* per call: lines its process may still print                  *)

runner    == <<pc, rows, outs>>
process   == <<proc, work, hin, closed, hout, left>>
smokeVars == <<runner, process>>

Conversing == {"handshake", "row", "answer", "shutdown", "reap"}
Over       == {"done", "failed"}
Alive      == {"boot", "idle", "working"}

---------------------------------------------------------------------------
(* load_fixtures: the first file type there is, in the order of preference,  *)
(* and of its lines the first that are objects, at most clamp(limit, 1..100). *)

Precedence == <<"jsonl", "ndjson", "json", "csv">>

Clamp(limit) == IF limit < 1 THEN 1 ELSE IF limit > 100 THEN 100 ELSE limit

PickFixture(folder) ==
  LET there == {i \in DOMAIN Precedence : Precedence[i] \in DOMAIN folder}
  IN  IF there = {} THEN "none"
      ELSE Precedence[CHOOSE i \in there : \A j \in there : i <= j]

(* The numbers of the lines that are taken, of which row k is the k-th; none   *)
(* is an error. A JSON array that does not parse as a whole yields nothing.  *)
load_fixtures(folder, limit) ==
  IF PickFixture(folder) = "none" THEN {}
  ELSE LET lines == folder[PickFixture(folder)]
           objects == {i \in DOMAIN lines : lines[i] = "object"}
       IN  IF PickFixture(folder) = "json" /\ \E i \in DOMAIN lines : lines[i] = "garbled"
           THEN {}
           ELSE {i \in objects : Cardinality({j \in objects : j <= i}) <= Clamp(limit)}

---------------------------------------------------------------------------
(* The runner: run_smoke, Worker::spawn, send_row, recv and shutdown.       *)

Goto(c, where) == pc' = [pc EXCEPT ![c] = where]
Record(c, k, n) == outs' = [outs EXCEPT ![c] = Append(@, [kind |-> k, seq |-> n])]
Next1(c) == Len(outs[c]) + 1
Consume(c) == hout' = [hout EXCEPT ![c] = Tail(@)]

(* The process is started and init, which fits the pipe, written to its stdin. *)
Spawn(c) ==
  /\ Goto(c, "handshake")
  /\ proc' = [proc EXCEPT ![c] = "boot"]
  /\ UNCHANGED <<rows, outs, work, hin, closed, hout, left>>

(* The loop of spawn that waits for ready. What is no message is kept as a     *)
(* log line; another message, the end of the output, or silence for the time  *)
(* allowed to one line, ends it with an error: the Worker is dropped, its     *)
(* pipes are closed, and nobody kills the process.                          *)
Handshake(c) ==
  /\ pc[c] = "handshake"
  /\ \/ /\ hout[c] # <<>> /\ Head(hout[c]).kind = "ready"
        /\ Goto(c, "row") /\ Consume(c) /\ UNCHANGED closed
     \/ /\ hout[c] # <<>> /\ Head(hout[c]).kind = "line"
        /\ Consume(c) /\ UNCHANGED <<pc, closed>>
     \/ /\ \/ hout[c] = <<>>
           \/ hout[c] # <<>> /\ Head(hout[c]).kind \notin {"ready", "line"}
        /\ Goto(c, "failed") /\ closed' = [closed EXCEPT ![c] = TRUE] /\ UNCHANGED hout
  /\ UNCHANGED <<rows, outs, proc, work, hin, left>>

(* The next row is written to the pipe. If the process is gone that fails,    *)
(* and the row is the last. The step is the return of the write: it waits      *)
(* outside of any timeout, so that a row in Clogging may keep it for ever      *)
(* (Blocks).                                                                *)
SendRow(c) ==
  /\ pc[c] = "row"
  /\ \/ /\ Next1(c) > Cardinality(rows[c])
        /\ Goto(c, "shutdown") /\ UNCHANGED <<outs, hin>>
     \/ /\ Next1(c) <= Cardinality(rows[c]) /\ proc[c] = "dead"
        /\ Record(c, "crash", Next1(c))
        /\ Goto(c, "shutdown") /\ UNCHANGED hin
     \/ /\ Next1(c) <= Cardinality(rows[c]) /\ proc[c] # "dead"
        /\ hin' = [hin EXCEPT ![c] = Append(@, Next1(c))]
        /\ Goto(c, "answer") /\ UNCHANGED outs
  /\ UNCHANGED <<rows, proc, work, closed, hout, left>>

(* Mutant of AfterCrash: a crash is recorded, and the next row is sent.       *)
OnToTheNext == "row"

(* A crash of any kind ends the loop over the rows.                          *)
AfterCrash == "shutdown"

(* recv under the row timeout: lines that are no message are passed over; an   *)
(* answer is recorded under the number it carries; another message, the end   *)
(* of the output, or the timeout is a crash of the row.                       *)
Receive(c) ==
  /\ pc[c] = "answer"
  /\ \/ /\ hout[c] # <<>> /\ Head(hout[c]).kind = "line"
        /\ Consume(c) /\ UNCHANGED <<pc, outs>>
     \/ /\ hout[c] # <<>> /\ Head(hout[c]).kind \in {"success", "error"}
        /\ Record(c, Head(hout[c]).kind, Head(hout[c]).seq)
        /\ Goto(c, "row") /\ Consume(c)
     \/ /\ hout[c] # <<>> /\ Head(hout[c]).kind = "ready"
        /\ Record(c, "crash", Next1(c))
        /\ Goto(c, AfterCrash) /\ Consume(c)
     \/ /\ hout[c] = <<>>
        /\ Record(c, "crash", Next1(c))
        /\ Goto(c, AfterCrash) /\ UNCHANGED hout
  /\ UNCHANGED <<rows, proc, work, hin, closed, left>>

(* shutdown writes the message, whether that succeeds or not, and closes the   *)
(* pipe. This write has no timeout either: the grace period begins after it.   *)
Shutdown(c) ==
  /\ pc[c] = "shutdown"
  /\ hin' = [hin EXCEPT ![c] = Append(@, 0)]
  /\ closed' = [closed EXCEPT ![c] = TRUE]
  /\ Goto(c, "reap")
  /\ UNCHANGED <<rows, outs, proc, work, hout, left>>

(* child.kill().                                                            *)
Killed(c) == [proc EXCEPT ![c] = "dead"]

(* The process has exited, or is killed when the grace period is over.       *)
Reap(c) ==
  /\ pc[c] = "reap"
  /\ proc' = IF proc[c] = "dead" THEN proc ELSE Killed(c)
  /\ Goto(c, "done")
  /\ UNCHANGED <<rows, outs, work, hin, closed, hout, left>>

(* The runner is in a write that returns only if a live process reads: that of  *)
(* a row larger than the pipe, or of shutdown behind a row that was not read.   *)
Blocks(c) ==
  /\ proc[c] \in Alive
  /\ \/ pc[c] = "row" /\ Next1(c) <= Cardinality(rows[c]) /\ Next1(c) \in Clogging
     \/ pc[c] = "shutdown" /\ hin[c] # <<>> /\ Head(hin[c]) \in Clogging \cup Brimming

Runner(c) ==
  Handshake(c) \/ SendRow(c) \/ Receive(c) \/ Shutdown(c) \/ Reap(c)

---------------------------------------------------------------------------
(* The process.                                                             *)

Say(c, k, n) == hout' = [hout EXCEPT ![c] = Append(@, [kind |-> k, seq |-> n])]

(* It says it is ready, at its start or, out of place, later.                *)
SayReady(c) ==
  /\ proc[c] \in {"boot", "working"}
  /\ proc' = [proc EXCEPT ![c] = "idle"]
  /\ Say(c, "ready", 0)
  /\ UNCHANGED <<runner, work, hin, closed, left>>

(* It reads a row, or that there are to be no more, and ends.                 *)
Take(c) ==
  /\ proc[c] = "idle" /\ (hin[c] # <<>> \/ closed[c])
  /\ IF hin[c] = <<>> \/ (hin[c] # <<>> /\ Head(hin[c]) = 0)
     THEN proc' = [proc EXCEPT ![c] = "dead"] /\ UNCHANGED <<work, hin>>
     ELSE /\ proc' = [proc EXCEPT ![c] = "working"]
          /\ work' = [work EXCEPT ![c] = Head(hin[c])]
          /\ hin' = [hin EXCEPT ![c] = Tail(@)]
  /\ UNCHANGED <<runner, closed, hout, left>>

Answer(c) ==
  /\ proc[c] = "working"
  /\ \E k \in {"success", "error"} : Say(c, k, work[c])
  /\ proc' = [proc EXCEPT ![c] = "idle"]
  /\ UNCHANGED <<runner, work, hin, closed, left>>

(* It prints what is no message, or, before ready, a message that is no ready. *)
Chatter(c) ==
  /\ proc[c] \in Alive /\ left[c] > 0
  /\ left' = [left EXCEPT ![c] = @ - 1]
  /\ \/ Say(c, "line", 0)
     \/ proc[c] = "boot" /\ Say(c, "error", 0)
  /\ UNCHANGED <<runner, proc, work, hin, closed>>

Die(c) ==
  /\ proc[c] \in Alive
  /\ proc' = [proc EXCEPT ![c] = "dead"]
  /\ UNCHANGED <<runner, work, hin, closed, hout, left>>

Process(c) == SayReady(c) \/ Take(c) \/ Answer(c) \/ Chatter(c) \/ Die(c)

SmokeInit ==
  /\ pc = [c \in Calls |-> "idle"] /\ rows = [c \in Calls |-> {}]
  /\ outs = [c \in Calls |-> <<>>]
  /\ proc = [c \in Calls |-> "none"] /\ work = [c \in Calls |-> 0]
  /\ hin = [c \in Calls |-> <<>>] /\ closed = [c \in Calls |-> FALSE]
  /\ hout = [c \in Calls |-> <<>>] /\ left = [c \in Calls |-> MaxChatter]

---------------------------------------------------------------------------
(* Properties.                                                              *)

(* What a smoke test shows is about the rows that were put to the handler:     *)
(* the outcome in place k is of row k, whichever answers came late; a crash    *)
(* is the last; and without one every row has its outcome.                    *)
SmokeAnswersMatch ==
  \A c \in Calls :
    /\ \A k \in DOMAIN outs[c] :
         outs[c][k].seq = k /\ (outs[c][k].kind = "crash" => k = Len(outs[c]))
    /\ pc[c] \in {"shutdown", "reap", "done"} =>
         \/ Len(outs[c]) = Cardinality(rows[c])
         \/ outs[c] # <<>> /\ outs[c][Len(outs[c])].kind = "crash"
=============================================================================
