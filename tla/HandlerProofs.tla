---------------------------- MODULE HandlerProofs ----------------------------
(***************************************************************************)
(* Proofs about Smoke and Handlers, for any number of calls, attempts,      *)
(* builders, names and directories, any fixtures and any handler.           *)
(*                                                                         *)
(* The conversation of a smoke test is in lock step: TalkOk says for each    *)
(* place of the runner what can be in the two pipes; LockInv, who may be in   *)
(* one, and what becomes of a process that was given up. What is run is recent: *)
(* DirInv says what the times of files tell, GateOk what a build that was     *)
(* asked for leads to.                                                      *)
(***************************************************************************)
EXTENDS Handlers, FiniteSetTheorems, SequenceTheorems, TLAPS

---------------------------------------------------------------------------
(* The pipes                                                                *)

Outcome == [kind : {"success", "error", "crash"}, seq : Nat]
Message == [kind : {"ready", "line", "success", "error"}, seq : Nat]

(* Nothing in the pipe but lines that are no message.                        *)
Quiet(q) == \A i \in DOMAIN q : q[i].kind = "line"

(* What a process may say that was given row n: the answer, or a ready out of  *)
(* place.                                                                   *)
Reply(m, n) ==
  m.kind = "ready" \/ (m.kind \in {"success", "error"} /\ m.seq = n)

(* One reply, among lines.                                                  *)
Replied(q, n) ==
  \E i \in DOMAIN q : /\ Reply(q[i], n)
                      /\ \A j \in DOMAIN q : j # i => q[j].kind = "line"

(* What comes before the conversation: lines and errors, and after a ready       *)
(* only lines.                                                              *)
Greeting(q) ==
  \A i \in DOMAIN q :
    \/ q[i].kind \in {"line", "error"}
    \/ q[i].kind = "ready" /\ \A j \in DOMAIN q : j > i => q[j].kind = "line"

NotReady(q) == \A i \in DOMAIN q : q[i].kind # "ready"

LEMMA SaidLast ==
  ASSUME NEW q \in Seq(Message), NEW m \in Message
  PROVE  /\ Append(q, m) \in Seq(Message)
         /\ Quiet(q) /\ m.kind = "line" => Quiet(Append(q, m))
         /\ Greeting(q) /\ m.kind = "line" => Greeting(Append(q, m))
         /\ NotReady(q) /\ m.kind # "ready" => NotReady(Append(q, m))
         /\ NotReady(q) /\ Greeting(q) /\ m.kind \in {"ready", "line", "error"} =>
              Greeting(Append(q, m))
<1> DEFINE a == Append(q, m)
<1>1. /\ a \in Seq(Message) /\ Len(q) \in Nat
      /\ DOMAIN q = 1 .. Len(q) /\ DOMAIN a = 1 .. Len(q) + 1
      /\ \A i \in 1 .. Len(q) : a[i] = q[i]
      /\ a[Len(q) + 1] = m
  BY AppendProperties, LenProperties
<1> HIDE DEF a
<1>2. ASSUME NEW i \in DOMAIN a PROVE i = Len(q) + 1 \/ (i \in DOMAIN q /\ a[i] = q[i])
  BY <1>1, SMT
<1>3. \A i \in DOMAIN a : i # Len(q) + 1 => ~(i > Len(q) + 1)
  BY <1>1, SMT
<1>4. Quiet(q) /\ m.kind = "line" => Quiet(a)
  BY <1>1, <1>2 DEF Quiet
<1>5. NotReady(q) /\ m.kind # "ready" => NotReady(a)
  BY <1>1, <1>2 DEF NotReady
<1>6. Greeting(q) /\ m.kind = "line" => Greeting(a)
  BY <1>1, <1>2 DEF Greeting
<1>7. ASSUME NotReady(q), Greeting(q), m.kind \in {"ready", "line", "error"}
      PROVE  Greeting(a)
  <2> SUFFICES ASSUME NEW i \in DOMAIN a
               PROVE  \/ a[i].kind \in {"line", "error"}
                      \/ a[i].kind = "ready" /\ \A j \in DOMAIN a : j > i => a[j].kind = "line"
    BY DEF Greeting
  <2>1. CASE i = Len(q) + 1
    <3>1. a[i] = m /\ \A j \in DOMAIN a : ~(j > i)
      BY <2>1, <1>1, SMT
    <3> QED BY <3>1, <1>7
  <2>2. CASE i \in DOMAIN q /\ a[i] = q[i]
    BY <2>2, <1>7 DEF Greeting, NotReady
  <2> QED BY <2>1, <2>2, <1>2
<1> QED BY <1>1, <1>4, <1>5, <1>6, <1>7 DEF a

LEMMA RepliedLast ==
  ASSUME NEW q \in Seq(Message), NEW m \in Message, NEW n
  PROVE  /\ Quiet(q) /\ Reply(m, n) => Replied(Append(q, m), n)
         /\ Replied(q, n) /\ m.kind = "line" => Replied(Append(q, m), n)
<1> DEFINE a == Append(q, m)
<1>1. /\ a \in Seq(Message) /\ Len(q) \in Nat
      /\ DOMAIN q = 1 .. Len(q) /\ DOMAIN a = 1 .. Len(q) + 1
      /\ \A i \in 1 .. Len(q) : a[i] = q[i]
      /\ a[Len(q) + 1] = m
  BY AppendProperties, LenProperties
<1> HIDE DEF a
<1>2. ASSUME NEW i \in DOMAIN a, i # Len(q) + 1 PROVE i \in DOMAIN q /\ a[i] = q[i]
  BY <1>1, <1>2, SMT
<1>3. ASSUME Quiet(q), Reply(m, n) PROVE Replied(a, n)
  <2>1. Len(q) + 1 \in DOMAIN a
    BY <1>1, SMT
  <2> QED BY <2>1, <1>1, <1>2, <1>3 DEF Quiet, Replied
<1>4. ASSUME Replied(q, n), m.kind = "line" PROVE Replied(a, n)
  <2>1. PICK i \in DOMAIN q : /\ Reply(q[i], n)
                              /\ \A j \in DOMAIN q : j # i => q[j].kind = "line"
    BY <1>4 DEF Replied
  <2>2. i \in DOMAIN a /\ a[i] = q[i]
    BY <2>1, <1>1, SMT
  <2>3. \A j \in DOMAIN a : j # i => a[j].kind = "line"
    BY <2>1, <1>1, <1>2, <1>4
  <2> QED BY <2>1, <2>2, <2>3 DEF Replied
<1> QED BY <1>3, <1>4 DEF a

LEMMA HeardFirst ==
  ASSUME NEW q \in Seq(Message), q # <<>>, NEW n
  PROVE  /\ Head(q) \in Message /\ Tail(q) \in Seq(Message)
         /\ Quiet(q) => Head(q).kind = "line" /\ Quiet(Tail(q))
         /\ NotReady(q) => Head(q).kind # "ready" /\ NotReady(Tail(q))
         /\ Greeting(q) => /\ Greeting(Tail(q))
                           /\ Head(q).kind = "ready" => Quiet(Tail(q))
         /\ Replied(q, n) => \/ Head(q).kind = "line" /\ Replied(Tail(q), n)
                             \/ Reply(Head(q), n) /\ Quiet(Tail(q))
<1> DEFINE t == Tail(q)
           h == Head(q)
<1>1. /\ t \in Seq(Message) /\ Len(q) \in Nat \ {0} /\ DOMAIN q = 1 .. Len(q)
      /\ DOMAIN t = 1 .. Len(q) - 1 /\ h = q[1] /\ h \in Message
      /\ \A i \in 1 .. Len(q) - 1 : t[i] = q[i + 1]
  BY EmptySeq, LenProperties, HeadTailProperties
<1> HIDE DEF t, h
<1>2. ASSUME NEW i \in DOMAIN t
      PROVE  i + 1 \in DOMAIN q /\ i + 1 # 1 /\ i + 1 > 1 /\ t[i] = q[i + 1]
  BY <1>1, SMT
<1>3. 1 \in DOMAIN q
  BY <1>1, SMT
<1>4. Quiet(q) => h.kind = "line" /\ Quiet(t)
  BY <1>1, <1>2, <1>3 DEF Quiet
<1>5. NotReady(q) => h.kind # "ready" /\ NotReady(t)
  BY <1>1, <1>2, <1>3 DEF NotReady
<1>6. ASSUME Greeting(q) PROVE Greeting(t) /\ (h.kind = "ready" => Quiet(t))
  <2>1. ASSUME NEW i \in DOMAIN t
        PROVE  \/ t[i].kind \in {"line", "error"}
               \/ t[i].kind = "ready" /\ \A j \in DOMAIN t : j > i => t[j].kind = "line"
    <3>1. \A j \in DOMAIN t : j > i => j + 1 > i + 1
      BY <1>1, SMT
    <3> QED BY <3>1, <1>2, <1>6 DEF Greeting
  <2>2. h.kind = "ready" => Quiet(t)
    BY <1>1, <1>2, <1>3, <1>6 DEF Greeting, Quiet
  <2> QED BY <2>1, <2>2 DEF Greeting
<1>7. ASSUME Replied(q, n)
      PROVE  \/ h.kind = "line" /\ Replied(t, n)
             \/ Reply(h, n) /\ Quiet(t)
  <2>1. PICK i \in DOMAIN q : /\ Reply(q[i], n)
                              /\ \A j \in DOMAIN q : j # i => q[j].kind = "line"
    BY <1>7 DEF Replied
  <2>2. CASE i = 1
    BY <2>1, <2>2, <1>1, <1>2 DEF Quiet
  <2>3. CASE i # 1
    <3>1. i - 1 \in DOMAIN t /\ t[i - 1] = q[i]
      BY <2>3, <1>1, SMT
    <3>2. h.kind = "line"
      BY <2>1, <2>3, <1>1, <1>3
    <3>3. \A j \in DOMAIN t : j # i - 1 => j + 1 # i
      BY <2>3, <1>1, SMT
    <3>4. \A j \in DOMAIN t : j # i - 1 => t[j].kind = "line"
      BY <2>1, <3>3, <1>2
    <3> QED BY <2>1, <3>1, <3>2, <3>4 DEF Replied
  <2> QED BY <2>2, <2>3
<1> QED BY <1>1, <1>4, <1>5, <1>6, <1>7 DEF t, h

---------------------------------------------------------------------------
(* The conversation                                                         *)

SmokeTypes ==
  /\ pc = [c \in Calls |-> pc[c]] /\ proc = [c \in Calls |-> proc[c]]
  /\ outs \in [Calls -> Seq(Outcome)]
  /\ work \in [Calls -> Nat]
  /\ hin \in [Calls -> Seq(Nat)]
  /\ hout \in [Calls -> Seq(Message)]
  /\ rows = [c \in Calls |-> rows[c]]
  /\ \A c \in Calls : IsFiniteSet(rows[c])

Unborn  == {"idle", "gate", "build", "lock"}
NextRow(c) == Len(outs[c]) + 1

(* Every outcome so far is an answer, and of the row in its place.            *)
AllAnswered(c) ==
  /\ Len(outs[c]) <= Cardinality(rows[c])
  /\ \A k \in DOMAIN outs[c] : outs[c][k].seq = k /\ outs[c][k].kind # "crash"

(* Before the handler is ready no row is under way.                          *)
Greeted(c) ==
  /\ outs[c] = <<>> /\ hin[c] = <<>>
  /\ proc[c] \in {"boot", "idle", "dead"}
  /\ Greeting(hout[c])
  /\ proc[c] = "boot" => NotReady(hout[c])

(* Between two rows the pipes hold no row and no answer.                      *)
Between(c) ==
  /\ AllAnswered(c)
  /\ hin[c] = <<>> /\ Quiet(hout[c]) /\ proc[c] \in {"idle", "dead"}

(* A row that is sent is in the pipe, in the process, lost with it, or answered.  *)
Awaited(c) ==
  /\ AllAnswered(c)
  /\ NextRow(c) <= Cardinality(rows[c])
  /\ \/ hin[c] = <<NextRow(c)>> /\ Quiet(hout[c]) /\ proc[c] \in {"idle", "dead"}
     \/ /\ hin[c] = <<>> /\ Quiet(hout[c])
        /\ proc[c] = "working" /\ work[c] = NextRow(c)
     \/ hin[c] = <<>> /\ Quiet(hout[c]) /\ proc[c] = "dead"
     \/ hin[c] = <<>> /\ Replied(hout[c], NextRow(c)) /\ proc[c] \in {"idle", "dead"}

(* The outcomes at the end of the loop over the rows.                        *)
Settled(c) ==
  /\ \A k \in DOMAIN outs[c] :
       outs[c][k].seq = k /\ (outs[c][k].kind = "crash" => k = Len(outs[c]))
  /\ \/ Len(outs[c]) = Cardinality(rows[c])
     \/ outs[c] # <<>> /\ outs[c][Len(outs[c])].kind = "crash"

TalkOk(c) ==
  /\ pc[c] \in Unborn \cup Conversing \cup Over
  /\ pc[c] \in Unborn =>
       outs[c] = <<>> /\ proc[c] = "none" /\ hin[c] = <<>> /\ hout[c] = <<>>
  /\ pc[c] = "handshake" => Greeted(c)
  /\ pc[c] = "row" => Between(c)
  /\ pc[c] = "answer" => Awaited(c)
  /\ pc[c] \in {"shutdown", "reap", "done"} => Settled(c)
  /\ pc[c] = "failed" => outs[c] = <<>>
  /\ pc[c] = "done" => proc[c] = "dead"

TalkInv == SmokeTypes /\ \A c \in Calls : TalkOk(c)

(* What TalkOk(c) looks at.                                                  *)
SameTalk(c) ==
  /\ pc'[c] = pc[c] /\ rows'[c] = rows[c] /\ outs'[c] = outs[c]
  /\ proc'[c] = proc[c] /\ work'[c] = work[c]
  /\ hin'[c] = hin[c] /\ hout'[c] = hout[c]

LEMMA TalkKept ==
  ASSUME NEW c \in Calls, TalkOk(c), SameTalk(c)
  PROVE  TalkOk(c)'
BY Zenon
DEF TalkOk, SameTalk, Greeted, Between, Awaited, Settled, AllAnswered, NextRow

(* One more outcome.                                                        *)
LEMMA OneMore ==
  ASSUME SmokeTypes, NEW c \in Calls, AllAnswered(c), NEW k \in {"success", "error", "crash"},
         outs'[c] = Append(outs[c], [kind |-> k, seq |-> NextRow(c)]),
         rows'[c] = rows[c], NextRow(c) <= Cardinality(rows[c])
  PROVE  /\ outs'[c] \in Seq(Outcome)
         /\ k # "crash" => AllAnswered(c)'
         /\ k = "crash" => Settled(c)'
<1> DEFINE q == outs[c]
           r == outs'[c]
           o == [kind |-> k, seq |-> NextRow(c)]
<1>1. q \in Seq(Outcome) /\ Len(q) \in Nat /\ o \in Outcome
  BY LenProperties DEF SmokeTypes, Outcome, NextRow
<1>2. /\ r \in Seq(Outcome) /\ DOMAIN q = 1 .. Len(q) /\ DOMAIN r = 1 .. Len(q) + 1
      /\ Len(r) = Len(q) + 1
      /\ \A i \in 1 .. Len(q) : r[i] = q[i]
      /\ r[Len(q) + 1] = o
  BY <1>1, AppendProperties, LenProperties
<1>3. o.kind = k /\ o.seq = Len(q) + 1
  BY DEF NextRow
<1> HIDE DEF o
<1>4. \A i \in DOMAIN q : q[i].seq = i /\ q[i].kind # "crash"
  BY DEF AllAnswered
<1>5. \A i \in DOMAIN r : i = Len(q) + 1 \/ (i \in DOMAIN q /\ r[i] = q[i])
  BY <1>1, <1>2, SMT
<1>6. \A i \in DOMAIN r : r[i].seq = i /\ (r[i].kind = "crash" => i = Len(r) /\ k = "crash")
  BY <1>2, <1>3, <1>4, <1>5
<1>7. k # "crash" => AllAnswered(c)'
  BY <1>2, <1>6 DEF AllAnswered, NextRow
<1>8. r # <<>> /\ r[Len(r)].kind = k
  BY <1>1, <1>2, <1>3, EmptySeq, SMT
<1> HIDE DEF q
<1>9. k = "crash" => Settled(c)'
  BY <1>6, <1>8 DEF Settled
<1> QED BY <1>2, <1>7, <1>9

LEMMA SmokeFinite ==
  ASSUME SmokeTypes, NEW c \in Calls
  PROVE  Cardinality(rows[c]) \in Nat /\ Len(outs[c]) \in Nat
BY FS_CardinalityType, LenProperties DEF SmokeTypes

LEMMA HandshakeTalks ==
  ASSUME TalkInv, NEW c \in Calls, Handshake(c)
  PROVE  /\ SmokeTypes' /\ TalkOk(c)' /\ pc'[c] \in {"handshake", "row", "failed"}
         /\ \A d \in Calls : d # c => SameTalk(d)
<1>1. /\ Greeted(c) /\ hout[c] \in Seq(Message) /\ pc[c] = "handshake"
      /\ UNCHANGED <<rows, outs, proc, work, hin>>
  BY DEF TalkInv, TalkOk, Handshake, SmokeTypes
<1>2. PICK p, q : /\ pc' = [pc EXCEPT ![c] = p] /\ hout' = [hout EXCEPT ![c] = q]
                  /\ \/ /\ hout[c] # <<>> /\ Head(hout[c]).kind = "ready"
                        /\ p = "row" /\ q = Tail(hout[c])
                     \/ /\ hout[c] # <<>> /\ Head(hout[c]).kind = "line"
                        /\ p = "handshake" /\ q = Tail(hout[c])
                     \/ p = "failed" /\ q = hout[c]
  <2>1. CASE /\ hout[c] # <<>> /\ Head(hout[c]).kind = "ready"
             /\ Goto(c, "row") /\ Consume(c)
    BY <2>1 DEF Goto, Consume
  <2>2. CASE /\ hout[c] # <<>> /\ Head(hout[c]).kind = "line"
             /\ Consume(c) /\ UNCHANGED pc
    BY <2>2, <1>1 DEF Consume, TalkInv, SmokeTypes
  <2>3. CASE Goto(c, "failed") /\ UNCHANGED hout
    BY <2>3 DEF Goto, TalkInv, SmokeTypes
  <2> QED BY <2>1, <2>2, <2>3 DEF Handshake
<1>3. q \in Seq(Message)
  BY <1>1, <1>2, HeardFirst
<1>4. SmokeTypes'
  BY <1>1, <1>2, <1>3 DEF TalkInv, SmokeTypes
<1>5. \A d \in Calls : d # c => SameTalk(d)
  BY <1>1, <1>2 DEF TalkInv, SmokeTypes, SameTalk
<1>6. pc'[c] = p /\ hout'[c] = q
  BY <1>2 DEF TalkInv, SmokeTypes
<1>7. TalkOk(c)'
  <2>1. CASE p = "failed"
    BY <2>1, <1>1, <1>6 DEF TalkOk, Greeted, Unborn, Over
  <2>2. CASE /\ hout[c] # <<>> /\ Head(hout[c]).kind = "ready"
             /\ p = "row" /\ q = Tail(hout[c])
    <3>1. Quiet(q) /\ proc[c] \in {"idle", "dead"}
      BY <2>2, <1>1, HeardFirst DEF Greeted
    <3>2. AllAnswered(c)
      <4>1. Len(outs[c]) = 0 /\ DOMAIN outs[c] = {}
        BY <1>1, EmptySeq DEF Greeted
      <4> QED BY <4>1, SmokeFinite, SMT DEF AllAnswered, TalkInv
    <3>3. Between(c)'
      BY <3>1, <3>2, <1>1, <1>6 DEF Between, AllAnswered, Greeted
    <3> QED BY <3>3, <2>2, <1>6 DEF TalkOk, Unborn, Conversing, Over
  <2>3. CASE /\ hout[c] # <<>> /\ Head(hout[c]).kind = "line"
             /\ p = "handshake" /\ q = Tail(hout[c])
    <3>1. Greeting(q) /\ (proc[c] = "boot" => NotReady(q))
      BY <2>3, <1>1, HeardFirst DEF Greeted
    <3>2. Greeted(c)'
      BY <3>1, <1>1, <1>6 DEF Greeted
    <3> QED BY <3>2, <2>3, <1>6 DEF TalkOk, Unborn, Conversing, Over
  <2> QED BY <2>1, <2>2, <2>3, <1>2
<1> QED BY <1>2, <1>4, <1>5, <1>6, <1>7

LEMMA SendRowTalks ==
  ASSUME TalkInv, NEW c \in Calls, SendRow(c)
  PROVE  /\ SmokeTypes' /\ TalkOk(c)' /\ pc'[c] \in {"shutdown", "answer"}
         /\ \A d \in Calls : d # c => SameTalk(d)
<1>1. /\ Between(c) /\ pc[c] = "row" /\ SmokeTypes
      /\ UNCHANGED <<rows, proc, work, hout>>
  BY DEF TalkInv, TalkOk, SendRow
<1>2. /\ Cardinality(rows[c]) \in Nat /\ Len(outs[c]) \in Nat
      /\ Next1(c) = NextRow(c) /\ NextRow(c) \in Nat
  BY <1>1, SmokeFinite DEF Next1, NextRow
<1>3. CASE Next1(c) > Cardinality(rows[c]) /\ Goto(c, "shutdown") /\ UNCHANGED <<outs, hin>>
  <2>1. /\ SmokeTypes' /\ pc'[c] = "shutdown"
        /\ \A d \in Calls : d # c => SameTalk(d)
    BY <1>1, <1>3 DEF Goto, SmokeTypes, SameTalk
  <2>2. Len(outs[c]) = Cardinality(rows[c])
    BY <1>1, <1>2, <1>3, SMT DEF Between, AllAnswered, NextRow
  <2>3. Settled(c)'
    BY <2>2, <1>1, <1>3 DEF Between, AllAnswered, Settled
  <2> QED BY <2>1, <2>3 DEF TalkOk, Unborn, Conversing, Over
<1>4. CASE /\ Next1(c) <= Cardinality(rows[c]) /\ Record(c, "crash", Next1(c))
           /\ Goto(c, "shutdown") /\ UNCHANGED hin
  <2>1. /\ outs' = [outs EXCEPT ![c] = Append(@, [kind |-> "crash", seq |-> NextRow(c)])]
        /\ outs'[c] = Append(outs[c], [kind |-> "crash", seq |-> NextRow(c)])
        /\ pc' = [pc EXCEPT ![c] = "shutdown"] /\ pc'[c] = "shutdown"
    BY <1>1, <1>2, <1>4 DEF Record, Goto, SmokeTypes
  <2>2. outs'[c] \in Seq(Outcome) /\ Settled(c)'
    BY <2>1, <1>1, <1>2, <1>4, OneMore DEF Between
  <2>3. outs' \in [Calls -> Seq(Outcome)]
    BY <2>1, <2>2, <1>1 DEF SmokeTypes
  <2>4. SmokeTypes' /\ \A d \in Calls : d # c => SameTalk(d)
    BY <2>1, <2>3, <1>1, <1>4 DEF SmokeTypes, SameTalk
  <2> QED BY <2>1, <2>2, <2>4 DEF TalkOk, Unborn, Conversing, Over
<1>5. CASE /\ Next1(c) <= Cardinality(rows[c]) /\ proc[c] # "dead"
           /\ hin' = [hin EXCEPT ![c] = Append(@, Next1(c))]
           /\ Goto(c, "answer") /\ UNCHANGED outs
  <2>1. hin[c] = <<>> /\ Append(hin[c], NextRow(c)) = <<NextRow(c)>>
    BY <1>1, <1>2, SMT DEF Between
  <2>2. /\ hin'[c] = <<NextRow(c)>> /\ hin' \in [Calls -> Seq(Nat)]
        /\ pc'[c] = "answer"
    BY <2>1, <1>1, <1>2, <1>5 DEF SmokeTypes, Goto
  <2>3. SmokeTypes' /\ \A d \in Calls : d # c => SameTalk(d)
    BY <2>2, <1>1, <1>5 DEF SmokeTypes, SameTalk, Goto
  <2>4. Awaited(c)'
    BY <2>2, <1>1, <1>2, <1>5 DEF Between, Awaited, AllAnswered, NextRow
  <2> QED BY <2>2, <2>3, <2>4 DEF TalkOk, Unborn, Conversing, Over
<1> QED BY <1>3, <1>4, <1>5 DEF SendRow

LEMMA ReceiveTalks ==
  ASSUME TalkInv, NEW c \in Calls, Receive(c)
  PROVE  /\ SmokeTypes' /\ TalkOk(c)' /\ pc'[c] \in {"answer", "row", "shutdown"}
         /\ \A d \in Calls : d # c => SameTalk(d)
<1>1. /\ Awaited(c) /\ AllAnswered(c) /\ NextRow(c) <= Cardinality(rows[c])
      /\ pc[c] = "answer" /\ SmokeTypes
      /\ UNCHANGED <<rows, proc, work, hin>> /\ hout[c] \in Seq(Message)
  BY DEF TalkInv, TalkOk, Receive, Awaited, SmokeTypes
<1>2. Next1(c) = NextRow(c)
  BY DEF Next1, NextRow
<1>3. CASE /\ hout[c] # <<>> /\ Head(hout[c]).kind = "line"
           /\ Consume(c) /\ UNCHANGED <<pc, outs>>
  <2>1. hout'[c] = Tail(hout[c]) /\ hout' \in [Calls -> Seq(Message)]
    BY <1>1, <1>3, HeardFirst DEF Consume, SmokeTypes
  <2>2. /\ Quiet(hout[c]) => Quiet(hout'[c])
        /\ Replied(hout[c], NextRow(c)) => Replied(hout'[c], NextRow(c))
    BY <2>1, <1>1, <1>3, HeardFirst DEF Reply
  <2>3. SmokeTypes' /\ \A d \in Calls : d # c => SameTalk(d)
    BY <2>1, <1>1, <1>3 DEF SmokeTypes, SameTalk, Consume
  <2>4. Awaited(c)'
    BY <2>2, <1>1, <1>3 DEF Awaited, AllAnswered, NextRow
  <2> QED BY <2>3, <2>4, <1>1, <1>3 DEF TalkOk, Unborn, Conversing, Over
<1>4. CASE /\ hout[c] # <<>> /\ Head(hout[c]).kind \in {"success", "error"}
           /\ Record(c, Head(hout[c]).kind, Head(hout[c]).seq)
           /\ Goto(c, "row") /\ Consume(c)
  <2> DEFINE k == Head(hout[c]).kind
  <2>1. ~Quiet(hout[c]) /\ Head(hout[c]).kind # "line"
    BY <1>1, <1>4, HeardFirst
  <2>2. /\ hin[c] = <<>> /\ Replied(hout[c], NextRow(c)) /\ proc[c] \in {"idle", "dead"}
    BY <2>1, <1>1 DEF Awaited
  <2>3. Head(hout[c]).seq = NextRow(c) /\ Quiet(Tail(hout[c]))
    BY <2>1, <2>2, <1>1, <1>4, HeardFirst DEF Reply
  <2>4. /\ outs' = [outs EXCEPT ![c] = Append(@, [kind |-> k, seq |-> NextRow(c)])]
        /\ outs'[c] = Append(outs[c], [kind |-> k, seq |-> NextRow(c)])
        /\ pc' = [pc EXCEPT ![c] = "row"] /\ pc'[c] = "row"
        /\ hout' = [hout EXCEPT ![c] = Tail(hout[c])] /\ hout'[c] = Tail(hout[c])
    BY <2>3, <1>1, <1>4 DEF Record, Goto, Consume, SmokeTypes
  <2>5. outs'[c] \in Seq(Outcome) /\ AllAnswered(c)'
    BY <2>4, <1>1, <1>4, OneMore
  <2>6. outs' \in [Calls -> Seq(Outcome)] /\ hout' \in [Calls -> Seq(Message)]
    BY <2>4, <2>5, <1>1, <1>4, HeardFirst DEF SmokeTypes
  <2>7. SmokeTypes' /\ \A d \in Calls : d # c => SameTalk(d)
    BY <2>4, <2>6, <1>1 DEF SmokeTypes, SameTalk
  <2>8. Between(c)'
    BY <2>2, <2>3, <2>4, <2>5, <1>1 DEF Between
  <2> QED BY <2>4, <2>7, <2>8 DEF TalkOk, Unborn, Conversing, Over
<1>5. CASE /\ Record(c, "crash", Next1(c)) /\ Goto(c, AfterCrash)
           /\ \/ hout[c] # <<>> /\ Consume(c)
              \/ UNCHANGED hout
  <2>1. /\ outs' = [outs EXCEPT ![c] = Append(@, [kind |-> "crash", seq |-> NextRow(c)])]
        /\ outs'[c] = Append(outs[c], [kind |-> "crash", seq |-> NextRow(c)])
        /\ pc' = [pc EXCEPT ![c] = "shutdown"] /\ pc'[c] = "shutdown"
    BY <1>1, <1>2, <1>5 DEF Record, Goto, AfterCrash, SmokeTypes
  <2>2. outs'[c] \in Seq(Outcome) /\ Settled(c)'
    BY <2>1, <1>1, OneMore
  <2>3. outs' \in [Calls -> Seq(Outcome)]
    BY <2>1, <2>2, <1>1 DEF SmokeTypes
  <2>4. /\ hout' \in [Calls -> Seq(Message)]
        /\ \A d \in Calls : d # c => hout'[d] = hout[d]
    BY <1>1, <1>5, HeardFirst DEF Consume, SmokeTypes
  <2>5. SmokeTypes' /\ \A d \in Calls : d # c => SameTalk(d)
    BY <2>1, <2>3, <2>4, <1>1 DEF SmokeTypes, SameTalk
  <2> QED BY <2>1, <2>2, <2>5 DEF TalkOk, Unborn, Conversing, Over
<1> QED BY <1>3, <1>4, <1>5, Zenon DEF Receive

LEMMA EndTalks ==
  ASSUME TalkInv, NEW c \in Calls, Shutdown(c) \/ Reap(c)
  PROVE  /\ SmokeTypes' /\ TalkOk(c)' /\ pc'[c] \in {"reap", "done"}
         /\ \A d \in Calls : d # c => SameTalk(d)
<1>1. /\ Settled(c) /\ pc[c] \in {"shutdown", "reap"} /\ SmokeTypes
      /\ UNCHANGED <<rows, outs, work, hout>>
  BY DEF TalkInv, TalkOk, Shutdown, Reap
<1>2. Settled(c)'
  BY <1>1 DEF Settled
<1>3. CASE Shutdown(c)
  <2>1. hin' = [hin EXCEPT ![c] = Append(hin[c], 0)] /\ pc' = [pc EXCEPT ![c] = "reap"]
        /\ proc' = proc
    BY <1>3 DEF Shutdown, Goto
  <2>2. Append(hin[c], 0) \in Seq(Nat)
    BY <1>1, AppendProperties DEF SmokeTypes
  <2>3. hin' \in [Calls -> Seq(Nat)] /\ pc'[c] = "reap"
    BY <2>1, <2>2, <1>1 DEF SmokeTypes
  <2>4. SmokeTypes' /\ \A d \in Calls : d # c => SameTalk(d)
    BY <2>1, <2>3, <1>1 DEF SmokeTypes, SameTalk
  <2> QED BY <2>3, <2>4, <1>2 DEF TalkOk, Unborn, Conversing, Over
<1>4. CASE Reap(c)
  <2>1. /\ pc' = [pc EXCEPT ![c] = "done"] /\ hin' = hin
        /\ proc' = IF proc[c] = "dead" THEN proc ELSE [proc EXCEPT ![c] = "dead"]
    BY <1>4 DEF Reap, Goto, Killed
  <2>2. pc'[c] = "done" /\ proc'[c] = "dead"
    BY <2>1, <1>1 DEF SmokeTypes
  <2>3. SmokeTypes' /\ \A d \in Calls : d # c => SameTalk(d)
    BY <2>1, <1>1 DEF SmokeTypes, SameTalk
  <2> QED BY <2>2, <2>3, <1>2 DEF TalkOk, Unborn, Conversing, Over
<1> QED BY <1>3, <1>4

(* What the process does, wherever its runner is. Only an answer and a ready    *)
(* depend on the row it has; the rest leaves the conversation as it is.         *)
LEMMA SaysMore ==
  ASSUME TalkInv, NEW c \in Calls, NEW m \in Message,
         hout' = [hout EXCEPT ![c] = Append(@, m)],
         proc' = [proc EXCEPT ![c] = proc'[c]],
         UNCHANGED <<pc, rows, outs, work, hin>>,
         \/ proc'[c] = proc[c] /\ proc[c] \in Alive /\ m.kind = "line"
         \/ proc'[c] = proc[c] /\ proc[c] = "boot" /\ m.kind = "error"
         \/ proc[c] = "boot" /\ proc'[c] = "idle" /\ m.kind = "ready"
         \/ proc[c] = "working" /\ proc'[c] = "idle" /\ Reply(m, work[c])
  PROVE  TalkInv'
<1> DEFINE q == Append(hout[c], m)
<1>1. SmokeTypes /\ TalkOk(c) /\ hout[c] \in Seq(Message)
  BY DEF TalkInv, SmokeTypes
<1>2. /\ q \in Seq(Message) /\ hout'[c] = q /\ hout' \in [Calls -> Seq(Message)]
      /\ \A d \in Calls : d # c => hout'[d] = hout[d] /\ proc'[d] = proc[d]
      /\ proc' = [d \in Calls |-> proc'[d]]
  BY <1>1, SaidLast DEF SmokeTypes
<1> HIDE DEF q
<1>3. SmokeTypes'
  BY <1>1, <1>2 DEF SmokeTypes
<1>4. \A d \in Calls : d # c => TalkOk(d)'
  <2> SUFFICES ASSUME NEW d \in Calls, d # c PROVE SameTalk(d)
    BY TalkKept DEF TalkInv
  <2> QED BY <1>2 DEF SameTalk
<1>5. /\ Quiet(hout[c]) /\ m.kind = "line" => Quiet(q)
      /\ Greeting(hout[c]) /\ m.kind = "line" => Greeting(q)
      /\ NotReady(hout[c]) /\ m.kind # "ready" => NotReady(q)
      /\ NotReady(hout[c]) /\ Greeting(hout[c]) /\ m.kind \in {"ready", "line", "error"}
           => Greeting(q)
  BY <1>1, SaidLast DEF q
<1>6. ASSUME NEW n
      PROVE  /\ Quiet(hout[c]) /\ Reply(m, n) => Replied(q, n)
             /\ Replied(hout[c], n) /\ m.kind = "line" => Replied(q, n)
  BY <1>1, RepliedLast DEF q
<1>7. proc[c] \in {"boot", "idle", "working"}
  BY DEF Alive
<1>8. pc[c] = "handshake" => Greeted(c)'
  <2> SUFFICES ASSUME Greeted(c) PROVE Greeted(c)'
    BY <1>1 DEF TalkOk
  <2>1. Greeting(q) /\ (proc'[c] = "boot" => NotReady(q))
    BY <1>5, <1>7 DEF Greeted
  <2>2. proc'[c] \in {"boot", "idle", "dead"}
    BY DEF Greeted
  <2> QED BY <2>1, <2>2, <1>2 DEF Greeted
<1>9. pc[c] = "row" => Between(c)'
  <2> SUFFICES ASSUME Between(c) PROVE Between(c)'
    BY <1>1 DEF TalkOk
  <2> QED BY <1>2, <1>5, <1>7 DEF Between, AllAnswered
<1>10. pc[c] = "answer" => Awaited(c)'
  <2> SUFFICES ASSUME Awaited(c) PROVE Awaited(c)'
    BY <1>1 DEF TalkOk
  <2>1. AllAnswered(c)' /\ NextRow(c)' <= Cardinality(rows'[c]) /\ NextRow(c)' = NextRow(c)
    BY DEF Awaited, AllAnswered, NextRow
  <2>2. CASE proc[c] = "working"
    <3>1. hin[c] = <<>> /\ Quiet(hout[c]) /\ work[c] = NextRow(c)
      BY <2>2 DEF Awaited
    <3>2. CASE m.kind = "line" /\ proc'[c] = proc[c]
      BY <3>1, <3>2, <2>1, <2>2, <1>2, <1>5 DEF Awaited
    <3>3. CASE Reply(m, work[c]) /\ proc'[c] = "idle"
      <4>1. Replied(q, NextRow(c))
        BY <3>1, <3>3, <1>6
      <4> QED BY <4>1, <3>1, <3>3, <2>1, <1>2 DEF Awaited
    <3> QED BY <3>2, <3>3, <2>2
  <2>3. CASE proc[c] = "idle"
    <3>1. m.kind = "line" /\ proc'[c] = "idle"
      BY <2>3
    <3>2. \/ hin[c] = <<NextRow(c)>> /\ Quiet(hout[c])
          \/ hin[c] = <<>> /\ Replied(hout[c], NextRow(c))
      BY <2>3 DEF Awaited
    <3>3. \/ hin[c] = <<NextRow(c)>> /\ Quiet(q)
          \/ hin[c] = <<>> /\ Replied(q, NextRow(c))
      BY <3>1, <3>2, <1>5, <1>6
    <3> QED BY <3>1, <3>3, <2>1, <1>2 DEF Awaited
  <2>4. proc[c] # "boot"
    BY DEF Awaited
  <2> QED BY <2>2, <2>3, <2>4, <1>7
<1>11. TalkOk(c)'
  <2>1. pc'[c] = pc[c] /\ outs'[c] = outs[c] /\ (Settled(c) => Settled(c)')
    BY DEF Settled
  <2>2. pc[c] \notin Unborn /\ pc[c] # "done"
    BY <1>1, <1>7 DEF TalkOk
  <2> QED BY <2>1, <2>2, <1>1, <1>8, <1>9, <1>10 DEF TalkOk
<1> QED BY <1>3, <1>4, <1>11 DEF TalkInv

LEMMA ProcessTalks == TalkInv /\ (\E c \in Calls : Process(c)) => TalkInv'
<1> SUFFICES ASSUME TalkInv, NEW c \in Calls, Process(c) PROVE TalkInv'
  OBVIOUS
<1>1. SmokeTypes /\ TalkOk(c) /\ UNCHANGED <<pc, rows, outs>>
  BY DEF TalkInv, Process, SayReady, Take, Answer, Chatter, Die, runner
<1>2. ASSUME NEW k \in {"ready", "line", "success", "error"}, NEW n \in Nat
      PROVE  /\ [kind |-> k, seq |-> n] \in Message
             /\ [kind |-> k, seq |-> n].kind = k /\ [kind |-> k, seq |-> n].seq = n
  BY DEF Message
<1>3. CASE SayReady(c)
  <2> DEFINE m == [kind |-> "ready", seq |-> 0]
  <2>1. m \in Message /\ m.kind = "ready"
    BY <1>2
  <2> HIDE DEF m
  <2>2. /\ proc[c] \in {"boot", "working"} /\ proc' = [proc EXCEPT ![c] = "idle"]
        /\ hout' = [hout EXCEPT ![c] = Append(@, m)]
        /\ UNCHANGED <<work, hin>>
    BY <1>3 DEF SayReady, Say, m
  <2>3. proc'[c] = "idle" /\ proc' = [proc EXCEPT ![c] = proc'[c]]
    BY <2>2, <1>1 DEF SmokeTypes
  <2>4. Reply(m, work[c])
    BY <2>1 DEF Reply
  <2> QED BY <2>1, <2>2, <2>3, <2>4, <1>1, SaysMore
<1>4. CASE Answer(c)
  <2>1. /\ proc[c] = "working" /\ proc' = [proc EXCEPT ![c] = "idle"]
        /\ UNCHANGED <<work, hin>>
    BY <1>4 DEF Answer
  <2>2. PICK k \in {"success", "error"} : Say(c, k, work[c])
    BY <1>4 DEF Answer
  <2> DEFINE m == [kind |-> k, seq |-> work[c]]
  <2>3. m \in Message /\ Reply(m, work[c])
    BY <1>1, <1>2 DEF SmokeTypes, Reply
  <2>4. hout' = [hout EXCEPT ![c] = Append(@, m)]
    BY <2>2 DEF Say
  <2> HIDE DEF m
  <2>5. proc'[c] = "idle" /\ proc' = [proc EXCEPT ![c] = proc'[c]]
    BY <2>1, <1>1 DEF SmokeTypes
  <2> QED BY <2>1, <2>3, <2>4, <2>5, <1>1, SaysMore
<1>5. CASE Chatter(c)
  <2>1. PICK k \in {"line", "error"} :
          Say(c, k, 0) /\ (k = "error" => proc[c] = "boot")
    BY <1>5 DEF Chatter
  <2> DEFINE m == [kind |-> k, seq |-> 0]
  <2>2. m \in Message /\ m.kind = k
    BY <1>2
  <2>3. hout' = [hout EXCEPT ![c] = Append(@, m)]
    BY <2>1 DEF Say
  <2> HIDE DEF m
  <2>4. /\ proc[c] \in Alive /\ proc' = [proc EXCEPT ![c] = proc'[c]]
        /\ proc'[c] = proc[c] /\ UNCHANGED <<work, hin>>
    BY <1>1, <1>5 DEF Chatter, SmokeTypes
  <2> QED BY <2>1, <2>2, <2>3, <2>4, <1>1, SaysMore
<1>6. CASE Take(c)
  <2>1. proc[c] = "idle" /\ UNCHANGED hout
    BY <1>6 DEF Take
  <2>2. CASE proc' = [proc EXCEPT ![c] = "dead"] /\ UNCHANGED <<work, hin>>
             /\ (hin[c] = <<>> \/ (hin[c] # <<>> /\ Head(hin[c]) = 0))
    <3>1. /\ proc'[c] = "dead" /\ SmokeTypes'
          /\ \A d \in Calls : d # c => SameTalk(d)
      BY <2>1, <2>2, <1>1 DEF SmokeTypes, SameTalk
    <3>2. pc[c] = "answer" => Awaited(c)'
      <4> SUFFICES ASSUME Awaited(c) PROVE Awaited(c)'
        BY <1>1 DEF TalkOk
      <4>1. NextRow(c) # 0
        BY <1>1, SmokeFinite, SMT DEF NextRow
      <4>2. hin[c] = <<NextRow(c)>> => hin[c] # <<>> /\ Head(hin[c]) # 0
        <5>1. <<NextRow(c)>> # <<>> /\ Head(<<NextRow(c)>>) = NextRow(c)
          BY SMT
        <5> QED BY <4>1, <5>1
      <4> QED BY <4>2, <3>1, <2>1, <2>2, <1>1 DEF Awaited, AllAnswered, NextRow
    <3>3. TalkOk(c)'
      BY <3>1, <3>2, <2>1, <2>2, <1>1
      DEF TalkOk, Greeted, Between, AllAnswered, Settled, Unborn
    <3> QED BY <3>1, <3>3, TalkKept DEF TalkInv
  <2>3. CASE /\ proc' = [proc EXCEPT ![c] = "working"]
             /\ work' = [work EXCEPT ![c] = Head(hin[c])]
             /\ hin' = [hin EXCEPT ![c] = Tail(@)]
             /\ hin[c] # <<>>
    <3>1. hin[c] \in Seq(Nat) /\ Head(hin[c]) \in Nat /\ Tail(hin[c]) \in Seq(Nat)
      BY <2>3, <1>1, HeadTailProperties DEF SmokeTypes
    <3>2. /\ proc'[c] = "working" /\ work'[c] = Head(hin[c]) /\ hin'[c] = Tail(hin[c])
          /\ work' \in [Calls -> Nat] /\ hin' \in [Calls -> Seq(Nat)]
      BY <3>1, <2>3, <1>1 DEF SmokeTypes
    <3>3. SmokeTypes' /\ \A d \in Calls : d # c => SameTalk(d)
      BY <3>2, <2>1, <2>3, <1>1 DEF SmokeTypes, SameTalk
    <3>4. pc[c] = "answer" => Awaited(c)'
      <4> SUFFICES ASSUME Awaited(c) PROVE Awaited(c)'
        BY <1>1 DEF TalkOk
      <4>1. hin[c] = <<NextRow(c)>> /\ Quiet(hout[c])
        BY <2>1, <2>3 DEF Awaited
      <4>2. Head(<<NextRow(c)>>) = NextRow(c) /\ Tail(<<NextRow(c)>>) = <<>>
        BY SMT
      <4>3. work'[c] = NextRow(c) /\ hin'[c] = <<>>
        BY <4>1, <4>2, <3>2
      <4> QED BY <4>1, <4>3, <3>2, <2>1, <1>1 DEF Awaited, AllAnswered, NextRow
    <3>5. pc[c] \notin {"handshake", "row", "done"} /\ pc[c] \notin Unborn
      BY <2>1, <2>3, <1>1 DEF TalkOk, Greeted, Between
    <3>6. TalkOk(c)'
      BY <3>4, <3>5, <1>1 DEF TalkOk, Settled
    <3> QED BY <3>3, <3>6, TalkKept DEF TalkInv
  <2> QED BY <2>2, <2>3, <1>6 DEF Take
<1>7. CASE Die(c)
  <2>1. /\ proc[c] \in {"boot", "idle", "working"} /\ proc' = [proc EXCEPT ![c] = "dead"]
        /\ UNCHANGED <<work, hin, hout>>
    BY <1>7 DEF Die, Alive
  <2>2. /\ proc'[c] = "dead" /\ SmokeTypes'
        /\ \A d \in Calls : d # c => SameTalk(d)
    BY <2>1, <1>1 DEF SmokeTypes, SameTalk
  <2>3. TalkOk(c)'
    BY <2>1, <2>2, <1>1
    DEF TalkOk, Greeted, Between, Awaited, AllAnswered, NextRow, Settled, Unborn
  <2> QED BY <2>2, <2>3, TalkKept DEF TalkInv
<1> QED BY <1>3, <1>4, <1>5, <1>6, <1>7 DEF Process

---------------------------------------------------------------------------
(* The conversation among the other actions of Handlers                      *)

LEMMA FixturesFinite ==
  ASSUME NEW f \in Fixtures
  PROVE  IsFiniteSet(load_fixtures(f, RowLimit))
<1>1. CASE PickFixture(f) = "none"
  BY <1>1, FS_EmptySet DEF load_fixtures
<1>2. CASE PickFixture(f) # "none"
  <2> DEFINE there == {i \in DOMAIN Precedence : Precedence[i] \in DOMAIN f}
             lines == f[PickFixture(f)]
  <2>1. there # {} /\ PickFixture(f) = Precedence[CHOOSE i \in there : \A j \in there : i <= j]
    BY <1>2 DEF PickFixture
  <2>2. DOMAIN Precedence = 1 .. 4
    BY DEF Precedence
  <2>3. \E i \in there : \A j \in there : i <= j
    <3>1. there \subseteq 1 .. 4
      BY <2>2
    <3>2. there # {}
      BY <2>1
    <3> HIDE DEF there
    <3>3. PICK i : i \in there
      BY <3>2, Zenon
    <3>4. i \in {1, 2, 3, 4}
      BY <3>1, <3>3, SMT
    <3>5. 1 \in there \/ 2 \in there \/ 3 \in there \/ 4 \in there
      BY <3>3, <3>4, Zenon
    <3>6. \A j \in there : 1 <= j /\ (j = 1 \/ 2 <= j) /\ (j \in {1, 2} \/ 3 <= j)
                            /\ (j \in {1, 2, 3} \/ 4 <= j)
      BY <3>1, SMT
    <3> QED BY <3>5, <3>6, Zenon
  <2>4. PickFixture(f) \in DOMAIN f
    BY <2>1, <2>3
  <2>5. lines \in Seq(LineKinds)
    BY <2>4, SmokeAssumption
  <2>6. IsFiniteSet(DOMAIN lines)
    BY <2>5, LenProperties, FS_Interval
  <2>7. load_fixtures(f, RowLimit) \in SUBSET (DOMAIN lines)
    BY <1>2 DEF load_fixtures
  <2> QED BY <2>6, <2>7, FS_Subset
<1> QED BY <1>1, <1>2

LEMMA TalkBegins == Init => TalkInv
<1> SUFFICES ASSUME Init PROVE TalkInv
  OBVIOUS
<1>1. <<>> \in Seq(Outcome) /\ <<>> \in Seq(Nat) /\ <<>> \in Seq(Message)
  BY EmptySeq
<1>2. SmokeTypes
  BY <1>1, FS_EmptySet DEF Init, SmokeInit, SmokeTypes
<1>3. \A c \in Calls : TalkOk(c)
  BY DEF Init, SmokeInit, TalkOk, Unborn
<1> QED BY <1>2, <1>3 DEF TalkInv

(* A call that has no process yet goes on, or is refused.                    *)
LEMMA StillUnborn ==
  ASSUME TalkInv, NEW c \in Calls, NEW p \in Unborn \cup {"failed"},
         pc[c] \in Unborn, pc' = [pc EXCEPT ![c] = p], UNCHANGED <<outs, process>>,
         rows' = [d \in Calls |-> rows'[d]], IsFiniteSet(rows'[c]),
         \A d \in Calls : d # c => rows'[d] = rows[d]
  PROVE  TalkInv'
<1>1. UNCHANGED <<proc, work, hin, hout>>
  BY DEF process
<1>2. SmokeTypes'
  BY <1>1 DEF TalkInv, SmokeTypes
<1>3. pc'[c] = p /\ \A d \in Calls : d # c => SameTalk(d)
  BY <1>1 DEF TalkInv, SmokeTypes, SameTalk
<1>4. TalkOk(c)'
  BY <1>1, <1>3 DEF TalkInv, TalkOk, Unborn, Conversing, Over
<1> QED BY <1>2, <1>3, <1>4, TalkKept DEF TalkInv

LEMMA TalkStep == TalkInv /\ [Next]_hVars => TalkInv'
<1> SUFFICES ASSUME TalkInv, [Next]_hVars PROVE TalkInv'
  OBVIOUS
<1>1. SmokeTypes /\ \A c \in Calls : TalkOk(c)
  BY DEF TalkInv
<1>2. ASSUME UNCHANGED smokeVars PROVE TalkInv'
  <2>1. UNCHANGED <<pc, rows, outs, proc, work, hin, hout>>
    BY <1>2 DEF smokeVars, runner, process
  <2>2. SmokeTypes' /\ \A c \in Calls : SameTalk(c)
    BY <2>1, <1>1 DEF SmokeTypes, SameTalk
  <2> QED BY <2>2, <1>1, TalkKept DEF TalkInv
<1>3. ASSUME Authoring PROVE TalkInv'
  <2>1. UNCHANGED smokeVars
    BY <1>3, Zenon
    DEF Authoring, scaffold, import, fork, Make, delete, Edit, rename, PutFile,
        RemoveFile, RemoveDir, OpFails
  <2> QED BY <2>1, <1>2
<1>4. ASSUME Building \/ Running PROVE TalkInv'
  <2>1. UNCHANGED smokeVars
    BY <1>4, Zenon
    DEF Building, BuildOver, Build, Running, RunGate, RunBuilt, StartRun, EndRun
  <2> QED BY <2>1, <1>2
<1>5. ASSUME NEW c \in Calls, SmokeAsk(c) PROVE TalkInv'
  <2>1. PICK f \in Fixtures : rows' = [rows EXCEPT ![c] = load_fixtures(f, RowLimit)]
    BY <1>5 DEF SmokeAsk
  <2>2. PICK p \in {"failed", "gate"} : pc' = [pc EXCEPT ![c] = p]
    BY <1>5 DEF SmokeAsk, Goto
  <2>3. pc[c] \in Unborn /\ UNCHANGED <<outs, process>>
    BY <1>5 DEF SmokeAsk, Unborn
  <2>4. /\ rows' = [d \in Calls |-> rows'[d]]
        /\ rows'[c] = load_fixtures(f, RowLimit)
        /\ \A d \in Calls : d # c => rows'[d] = rows[d]
    BY <2>1, <1>1 DEF SmokeTypes
  <2> QED BY <2>2, <2>3, <2>4, FixturesFinite, StillUnborn DEF Unborn
<1>6. ASSUME NEW c \in Calls, SmokeGate(c) \/ SmokeBuilt(c) PROVE TalkInv'
  <2>1. pc[c] \in Unborn /\ UNCHANGED <<rows, outs, process>>
    BY <1>6 DEF SmokeGate, SmokeBuilt, Unborn
  <2>2. PICK p \in {"failed", "build", "lock"} : pc' = [pc EXCEPT ![c] = p]
    BY <1>6, Zenon DEF SmokeGate, SmokeBuilt, Goto
  <2>3. rows' = [d \in Calls |-> rows'[d]] /\ IsFiniteSet(rows'[c])
    BY <2>1, <1>1 DEF SmokeTypes
  <2> QED BY <2>1, <2>2, <2>3, StillUnborn DEF Unborn
<1>7. ASSUME NEW c \in Calls, SmokeStart(c) PROVE TalkInv'
  <2>1. pc[c] = "lock" /\ UNCHANGED <<rows, outs>>
    BY <1>7 DEF SmokeStart, Spawn
  <2>2. CASE Spawn(c)
    <3>1. /\ pc' = [pc EXCEPT ![c] = "handshake"] /\ proc' = [proc EXCEPT ![c] = "boot"]
          /\ UNCHANGED <<work, hin, hout>>
      BY <2>2 DEF Spawn, Goto
    <3>2. /\ pc'[c] = "handshake" /\ proc'[c] = "boot"
          /\ SmokeTypes' /\ \A d \in Calls : d # c => SameTalk(d)
      BY <3>1, <2>1, <1>1 DEF SmokeTypes, SameTalk
    <3>3. outs[c] = <<>> /\ hin[c] = <<>> /\ hout[c] = <<>>
      BY <2>1, <1>1 DEF TalkOk, Unborn
    <3>4. Greeting(<<>>) /\ NotReady(<<>>)
      BY DEF Greeting, NotReady
    <3>5. Greeted(c)'
      BY <3>1, <3>2, <3>3, <3>4, <2>1 DEF Greeted
    <3>6. TalkOk(c)'
      BY <3>2, <3>5 DEF TalkOk, Unborn, Conversing, Over
    <3> QED BY <3>2, <3>6, <1>1, TalkKept DEF TalkInv
  <2>3. CASE Goto(c, "failed") /\ UNCHANGED process
    <3>1. rows' = [d \in Calls |-> rows'[d]] /\ IsFiniteSet(rows'[c])
      BY <2>1, <1>1 DEF SmokeTypes
    <3> QED BY <3>1, <2>1, <2>3, StillUnborn DEF Goto, Unborn
  <2> QED BY <1>7, <2>2, <2>3 DEF SmokeStart
<1>8. ASSUME NEW c \in Calls, SmokeStep(c) PROVE TalkInv'
  <2>1. Runner(c)
    BY <1>8 DEF SmokeStep
  <2>2. SmokeTypes' /\ TalkOk(c)' /\ \A d \in Calls : d # c => SameTalk(d)
    BY <2>1, HandshakeTalks, SendRowTalks, ReceiveTalks, EndTalks, Zenon DEF Runner
  <2> QED BY <2>2, <1>1, TalkKept DEF TalkInv
<1>9. ASSUME NEW c \in Calls, SmokeProcess(c) PROVE TalkInv'
  BY <1>9, ProcessTalks DEF SmokeProcess
<1>10. CASE UNCHANGED hVars
  BY <1>2, <1>10 DEF hVars
<1> QED
  BY <1>3, <1>4, <1>5, <1>6, <1>7, <1>8, <1>9, <1>10, Zenon DEF Next, Call

(* The outcomes of a smoke test are of the rows in their places, for a handler    *)
(* that answers a row it has read at most once and under the row's own number,   *)
(* whatever else it prints, whenever it answers or dies. The number is taken    *)
(* from the answer unchecked (smoke.rs:188): a handler that lies about it is     *)
(* believed.                                                                *)
THEOREM SmokeAnswersTheirRows == Spec => []SmokeAnswersMatch
<1>1. TalkInv => SmokeAnswersMatch
  <2> SUFFICES ASSUME TalkInv, NEW c \in Calls
               PROVE  /\ \A k \in DOMAIN outs[c] :
                           /\ outs[c][k].seq = k
                           /\ outs[c][k].kind = "crash" => k = Len(outs[c])
                      /\ pc[c] \in {"shutdown", "reap", "done"} =>
                           \/ Len(outs[c]) = Cardinality(rows[c])
                           \/ outs[c] # <<>> /\ outs[c][Len(outs[c])].kind = "crash"
    BY Zenon DEF SmokeAnswersMatch
  <2>1. TalkOk(c)
    BY DEF TalkInv
  <2>2. CASE outs[c] = <<>>
    BY <2>1, <2>2 DEF TalkOk, Settled
  <2>3. CASE AllAnswered(c) /\ pc[c] \in {"row", "answer"}
    BY <2>3 DEF AllAnswered
  <2>4. CASE Settled(c)
    BY <2>4 DEF Settled
  <2> QED BY <2>1, <2>2, <2>3, <2>4
          DEF TalkOk, Unborn, Conversing, Over, Greeted, Between, Awaited
<1> QED BY TalkBegins, TalkStep, <1>1, PTL DEF Spec

---------------------------------------------------------------------------
(* One handler at work                                                      *)

(* A call that converses has the lock; one that failed has no process, or gave    *)
(* it up before any row was put to it.                                        *)
LockOk(c) ==
  /\ pc[c] \in Conversing => holder = c
  /\ pc[c] = "failed" /\ proc[c] \in Alive =>
       closed[c] /\ hin[c] = <<>> /\ proc[c] \in {"boot", "idle"}

LockInv ==
  /\ closed = [c \in Calls |-> closed[c]]
  /\ \A c \in Calls : LockOk(c)

LEMMA LockBegins == Init => LockInv
BY DEF Init, SmokeInit, LockInv, LockOk, Conversing

(* A call without a process goes on, or is refused.                           *)
LEMMA LockUnborn ==
  ASSUME TalkInv, LockInv, NEW c \in Calls, NEW p \in Unborn \cup {"failed"},
         pc[c] \in Unborn, pc' = [pc EXCEPT ![c] = p],
         UNCHANGED <<process, holder>>
  PROVE  LockInv'
<1>1. UNCHANGED <<proc, hin, closed, holder>>
  BY DEF process
<1>2. proc[c] = "none" /\ pc'[c] = p /\ \A d \in Calls : d # c => pc'[d] = pc[d]
  BY DEF TalkInv, TalkOk, SmokeTypes
<1>3. LockOk(c)'
  BY <1>1, <1>2 DEF LockOk, Unborn, Conversing, Alive
<1>4. \A d \in Calls : d # c => LockOk(d)'
  BY <1>1, <1>2, Zenon DEF LockInv, LockOk
<1> QED BY <1>1, <1>3, <1>4 DEF LockInv

(* A step of a runner: it has the lock, which it gives back at its end.           *)
LEMMA LockRunner ==
  ASSUME TalkInv, LockInv, NEW c \in Calls, SmokeStep(c)
  PROVE  LockInv'
<1>1. /\ pc[c] \in Conversing /\ Runner(c) /\ holder' = Released(c) /\ holder = c
      /\ TalkOk(c) /\ SmokeTypes
  BY DEF SmokeStep, LockInv, LockOk, TalkInv
<1>2. \A d \in Calls : d # c => SameTalk(d)
  BY <1>1, HandshakeTalks, SendRowTalks, ReceiveTalks, EndTalks, Zenon DEF Runner
<1>3. /\ closed' = [d \in Calls |-> closed'[d]]
      /\ \A d \in Calls : d # c => closed'[d] = closed[d]
  <2>1. closed' = closed \/ closed' = [closed EXCEPT ![c] = TRUE]
    BY <1>1, Zenon DEF Runner, Handshake, SendRow, Receive, Shutdown, Reap
  <2> QED BY <2>1 DEF LockInv
<1>4. ASSUME NEW d \in Calls, d # c PROVE LockOk(d)'
  <2>1. pc[d] \notin Conversing /\ SameTalk(d) /\ closed'[d] = closed[d] /\ LockOk(d)
    BY <1>1, <1>2, <1>3, <1>4 DEF LockInv, LockOk
  <2> QED BY <2>1, Zenon DEF LockOk, SameTalk
<1>5. CASE pc'[c] = "failed"
  <2>1. Handshake(c)
    <3>1. SendRow(c) => pc'[c] # "failed"
      BY <1>5, SendRowTalks
    <3>2. Receive(c) => pc'[c] # "failed"
      BY <1>5, ReceiveTalks
    <3>3. Shutdown(c) \/ Reap(c) => pc'[c] # "failed"
      BY <1>5, EndTalks
    <3> QED BY <3>1, <3>2, <3>3, <1>1, <1>5 DEF Runner
  <2>2. /\ Greeted(c) /\ UNCHANGED <<proc, hin>> /\ pc[c] = "handshake"
    BY <2>1, <1>1 DEF Handshake, TalkOk
  <2>3. closed'[c] = TRUE
    <3>1. Goto(c, "row") => pc'[c] = "row"
      BY <1>1 DEF Goto, SmokeTypes
    <3>2. closed' = [closed EXCEPT ![c] = TRUE]
      BY <2>1, <2>2, <3>1, <1>5 DEF Handshake
    <3> QED BY <3>2 DEF LockInv
  <2>4. hin'[c] = <<>> /\ proc'[c] \in {"boot", "idle", "dead"}
    BY <2>2 DEF Greeted
  <2>5. LockOk(c)'
    BY <2>3, <2>4, <1>5 DEF LockOk, Conversing, Alive
  <2> QED BY <2>5, <1>3, <1>4 DEF LockInv
<1>6. CASE pc'[c] # "failed"
  <2>1. pc'[c] \in Conversing => holder' = c
    BY <1>1 DEF Released, Over, Conversing
  <2> QED BY <2>1, <1>3, <1>4, <1>6 DEF LockInv, LockOk
<1> QED BY <1>5, <1>6

(* A process that was given up can get ready, print and end, no more.            *)
LEMMA LockProcess ==
  ASSUME TalkInv, LockInv, NEW c \in Calls, Process(c), holder' = holder
  PROVE  LockInv'
<1>1. /\ UNCHANGED <<pc, closed>> /\ SmokeTypes /\ LockOk(c)
  BY Zenon
  DEF Process, SayReady, Take, Answer, Chatter, Die, runner, TalkInv, LockInv
<1>2. \A d \in Calls : d # c => proc'[d] = proc[d] /\ hin'[d] = hin[d]
  BY <1>1 DEF Process, SayReady, Take, Answer, Chatter, Die, SmokeTypes
<1>3. \A d \in Calls : d # c => LockOk(d)'
  BY <1>1, <1>2, Zenon DEF LockInv, LockOk
<1>4. pc[c] = "failed" => \/ hin'[c] = <<>> /\ closed[c] /\ proc'[c] \in {"boot", "idle"}
                          \/ proc'[c] = "dead"
  <2> SUFFICES ASSUME pc[c] = "failed"
               PROVE  \/ hin'[c] = <<>> /\ closed[c] /\ proc'[c] \in {"boot", "idle"}
                      \/ proc'[c] = "dead"
    OBVIOUS
  <2>1. proc[c] \in Alive
    BY DEF Process, SayReady, Take, Answer, Chatter, Die, Alive
  <2>2. closed[c] /\ hin[c] = <<>> /\ proc[c] \in {"boot", "idle"}
    BY <2>1, <1>1 DEF LockOk
  <2> QED BY <2>2, <1>1 DEF Process, SayReady, Take, Answer, Chatter, Die, SmokeTypes
<1>5. LockOk(c)'
  BY <1>1, <1>4 DEF LockOk, Alive
<1> QED BY <1>1, <1>3, <1>5 DEF LockInv

LEMMA LockStep == TalkInv /\ LockInv /\ [Next]_hVars => LockInv'
<1> SUFFICES ASSUME TalkInv, LockInv, [Next]_hVars PROVE LockInv'
  OBVIOUS
<1>1. ASSUME UNCHANGED <<smokeVars, holder>> PROVE LockInv'
  <2>1. UNCHANGED <<pc, proc, hin, closed, holder>>
    BY <1>1 DEF smokeVars, runner, process
  <2> QED BY <2>1, Zenon DEF LockInv, LockOk
<1>2. ASSUME Authoring \/ Building \/ Running PROVE LockInv'
  <2>1. UNCHANGED <<smokeVars, holder>>
    BY <1>2, Zenon
    DEF Authoring, scaffold, import, fork, Make, delete, Edit, rename, PutFile,
        RemoveFile, RemoveDir, OpFails, useVars,
        Building, BuildOver, Build, Running, RunGate, RunBuilt, StartRun, EndRun
  <2> QED BY <2>1, <1>1
<1>3. ASSUME NEW c \in Calls, SmokeAsk(c) \/ SmokeGate(c) \/ SmokeBuilt(c) PROVE LockInv'
  <2>1. pc[c] \in Unborn /\ UNCHANGED <<process, holder>>
    BY <1>3, Zenon DEF SmokeAsk, SmokeGate, SmokeBuilt, Unborn, useVars
  <2>2. PICK p \in Unborn \cup {"failed"} : pc' = [pc EXCEPT ![c] = p]
    BY <1>3, Zenon DEF SmokeAsk, SmokeGate, SmokeBuilt, Goto, Unborn
  <2> QED BY <2>1, <2>2, LockUnborn
<1>4. ASSUME NEW c \in Calls, SmokeStart(c) PROVE LockInv'
  <2>1. pc[c] \in Unborn /\ holder = Nobody
    BY <1>4 DEF SmokeStart, Unborn
  <2>2. CASE holder' = c /\ Spawn(c)
    <3>1. /\ pc' = [pc EXCEPT ![c] = "handshake"] /\ proc' = [proc EXCEPT ![c] = "boot"]
          /\ UNCHANGED <<hin, closed>>
      BY <2>2 DEF Spawn, Goto
    <3>2. /\ pc'[c] = "handshake"
          /\ \A d \in Calls : d # c => pc'[d] = pc[d] /\ proc'[d] = proc[d]
      BY <3>1 DEF TalkInv, SmokeTypes
    <3>3. \A d \in Calls : pc[d] \notin Conversing
      BY <2>1, HandlersAssumption DEF LockInv, LockOk
    <3>4. \A d \in Calls : d # c => LockOk(d)'
      BY <3>1, <3>2, <3>3, Zenon DEF LockInv, LockOk
    <3>5. LockOk(c)'
      BY <2>2, <3>2 DEF LockOk, Conversing
    <3> QED BY <3>1, <3>4, <3>5 DEF LockInv
  <2>3. CASE Goto(c, "failed") /\ UNCHANGED <<process, holder>>
    BY <2>1, <2>3, LockUnborn DEF Goto
  <2> QED BY <2>2, <2>3, <1>4 DEF SmokeStart
<1>5. ASSUME NEW c \in Calls, SmokeProcess(c) PROVE LockInv'
  BY <1>5, LockProcess DEF SmokeProcess, useVars
<1> QED
  BY <1>1, <1>2, <1>3, <1>4, <1>5, LockRunner, Zenon DEF Next, Call, hVars, useVars

(* Smoke tests talk to one handler at a time: while a process lives its call has   *)
(* the lock, whichever way a conversation ends; the exception is a process that    *)
(* was given up before it was ready, which is left with its input closed and      *)
(* without a row.                                                           *)
THEOREM OneHandlerTalks == Spec => []OneHandlerAtWork
<1>1. TalkInv /\ LockInv => OneHandlerAtWork
  <2> SUFFICES ASSUME TalkInv, LockInv, NEW c \in Calls, proc[c] \in Alive, holder # c
               PROVE  pc[c] = "failed" /\ closed[c] /\ hin[c] = <<>> /\ outs[c] = <<>>
    BY DEF OneHandlerAtWork
  <2>1. TalkOk(c) /\ LockOk(c)
    BY DEF TalkInv, LockInv
  <2>2. pc[c] = "failed"
    BY <2>1 DEF TalkOk, LockOk, Over, Alive
  <2> QED BY <2>1, <2>2 DEF TalkOk, LockOk
<1> QED BY TalkBegins, TalkStep, LockBegins, LockStep, <1>1, PTL DEF Spec

---------------------------------------------------------------------------
(* What is run was saved                                                    *)

(* What the directories hold. A file that is still to be copied is not there,    *)
(* so that no edit can come before its copy.                                 *)
DirTypes ==
  /\ scene \in Scenes
  /\ at \in [Names -> 0 .. MaxDirs]
  /\ has \in [Dirs -> SUBSET Files]
  /\ src \in [Dirs -> Nat] /\ bin \in [Dirs -> Nat]
  /\ newer = [d \in Dirs |-> newer[d]]
  /\ made \in Dirs /\ edits \in Nat
  /\ op \in [kind : {"none", "scaffold", "import", "fork", "delete"},
            from : 0 .. MaxDirs, to : 0 .. MaxDirs, todo : SUBSET Files]

OpOk ==
  op.kind \in {"scaffold", "import", "fork"} =>
    /\ op.to \in 1 .. made /\ op.from \in 0 .. made
    /\ op.todo \subseteq Files
    /\ "source" \in op.todo => "source" \notin has[op.to] /\ src[op.to] = 0

DirInv ==
  /\ DirTypes
  /\ \A n \in Names : at[n] <= made
  /\ \A d \in Dirs : d > made => has[d] = {} /\ src[d] = 0
  /\ \A d \in Dirs : src[d] <= edits
  /\ OpOk
  /\ op.kind = "delete" => op.to \in Dirs
  /\ \A d \in Dirs :
       {"source", "binary"} \subseteq has[d] /\ ~newer[d] /\ d \notin misled =>
         bin[d] >= src[d]

BuildTypes ==
  /\ bpc = [p \in Parties |-> bpc[p]]
  /\ bdir = [p \in Parties |-> bdir[p]] /\ bver \in [Parties -> Nat]
  /\ \A p \in Parties : bpc[p] => bdir[p] \in Dirs

(* Sources only get newer; and so do binaries, but for those that the times lie    *)
(* about.                                                                   *)
Onward ==
  /\ misled \subseteq misled'
  /\ \A d \in Dirs : src'[d] >= src[d]
  /\ \A d \in Dirs : bin'[d] = bin[d] \/ d \in misled' \/ bin'[d] >= src'[d]

LEMMA DirsSame ==
  ASSUME DirInv, UNCHANGED <<dirVars, opVars>>
  PROVE  DirInv' /\ Onward
<1>1. UNCHANGED <<at, has, src, bin, newer, misled, made, edits, scene, op>>
  BY DEF dirVars, opVars
<1>2. DirInv'
  BY <1>1, Zenon DEF DirInv, DirTypes, OpOk
<1>3. Onward
  BY <1>1, SMT DEF Onward, DirInv, DirTypes
<1> QED BY <1>2, <1>3

LEMMA DirsBegin == Init => DirInv /\ BuildTypes
<1> SUFFICES ASSUME Init PROVE DirInv /\ BuildTypes
  OBVIOUS
<1>1. 1 \in Dirs /\ MaxDirs \in Nat
  BY HandlersAssumption, SMT DEF Dirs
<1>2. op.kind = "none"
  BY DEF Init, NoOp
<1>3. /\ at \in [Names -> 0 .. MaxDirs] /\ \A n \in Names : at[n] <= 1
  BY <1>1, SMT DEF Init, None, Dirs
<1>4. DirTypes
  <2>1. NoOp \in [kind : {"none", "scaffold", "import", "fork", "delete"},
                 from : 0 .. MaxDirs, to : 0 .. MaxDirs, todo : SUBSET Files]
    BY <1>1, SMT DEF NoOp, None
  <2> QED BY <2>1, <1>1, <1>3, SMT DEF Init, DirTypes, Files
<1>5. \A d \in Dirs : d > 1 => d # 1
  BY SMT DEF Dirs
<1>6. DirInv
  <2>1. \A d \in Dirs : src[d] = 0 /\ bin[d] = 0 /\ (d # 1 => has[d] = {})
    BY DEF Init
  <2>2. made = 1 /\ edits = 0
    BY DEF Init
  <2> QED BY <1>2, <1>3, <1>4, <1>5, <2>1, <2>2, SMT DEF DirInv, OpOk
<1>7. BuildTypes
  BY SMT DEF Init, BuildTypes
<1> QED BY <1>6, <1>7

LEMMA MakeDirs ==
  ASSUME DirInv, NEW kind, NEW from \in 0 .. made, NEW n \in Names, NEW todo,
         kind \in {"scaffold", "import", "fork"}, todo \subseteq Files,
         Make(kind, from, n, todo)
  PROVE  DirInv' /\ Onward
<1> DEFINE o == [kind |-> kind, from |-> from, to |-> made + 1, todo |-> todo]
<1>1. /\ made' = made + 1 /\ at' = [at EXCEPT ![n] = made + 1] /\ op' = o
      /\ made < MaxDirs /\ MaxDirs \in Nat
      /\ UNCHANGED <<has, src, bin, newer, misled, edits, scene>>
  BY HandlersAssumption DEF Make
<1>2. o.kind = kind /\ o.from = from /\ o.to = made + 1 /\ o.todo = todo
  OBVIOUS
<1> HIDE DEF o
<1>3. made + 1 \in Dirs /\ made \in Nat
  BY <1>1, SMT DEF DirInv, DirTypes, Dirs
<1>4. DirTypes'
  <2>1. at' \in [Names -> 0 .. MaxDirs] /\ made' \in Dirs
    BY <1>1, <1>3, SMT DEF DirInv, DirTypes, Dirs
  <2>2. from \in 0 .. MaxDirs /\ made + 1 \in 0 .. MaxDirs
    BY <1>1, <1>3, SMT
  <2>3. o \in [kind : {"none", "scaffold", "import", "fork", "delete"},
              from : 0 .. MaxDirs, to : 0 .. MaxDirs, todo : SUBSET Files]
    BY <2>2 DEF o
  <2> QED BY <1>1, <2>1, <2>3 DEF DirInv, DirTypes
<1>5. \A m \in Names : at'[m] <= made'
  BY <1>1, <1>3, SMT DEF DirInv, DirTypes
<1>6. \A d \in Dirs : d > made' => has'[d] = {} /\ src'[d] = 0
  BY <1>1, <1>3, SMT DEF DirInv, Dirs
<1>7. has[made + 1] = {} /\ src[made + 1] = 0
  BY <1>3, SMT DEF DirInv
<1>8. OpOk'
  <2>1. op'.to \in 1 .. made' /\ op'.from \in 0 .. made'
    BY <1>1, <1>2, <1>3, SMT
  <2> QED BY <1>1, <1>2, <1>7, <2>1 DEF OpOk
<1>9. op'.kind # "delete"
  BY <1>1, <1>2
<1>10. Onward
  BY <1>1, SMT DEF Onward, DirInv, DirTypes
<1> QED BY <1>1, <1>4, <1>5, <1>6, <1>8, <1>9, <1>10 DEF DirInv

(* A file is put where none was, and if it is the source nothing was saved there  *)
(* yet.                                                                     *)
LEMMA PutDirs ==
  ASSUME DirInv, PutFile
  PROVE  DirInv' /\ Onward
<1>1. PICK f \in op.todo, seen \in BOOLEAN :
        /\ op' = IF op.todo = {f} THEN NoOp ELSE [op EXCEPT !.todo = @ \ {f}]
        /\ has' = [has EXCEPT ![op.to] = @ \cup {f}]
        /\ src' = IF f = "source" /\ op.from # None
                  THEN [src EXCEPT ![op.to] = src[op.from]] ELSE src
        /\ bin' = IF f = "binary" /\ op.from # None
                  THEN [bin EXCEPT ![op.to] = bin[op.from]] ELSE bin
        /\ newer' = IF f = "manifest" THEN newer
                    ELSE [newer EXCEPT ![op.to] = (f = "source" /\ seen)]
        /\ misled' = IF /\ bin'[op.to] < src'[op.to]
                        /\ \/ f = "binary"
                           \/ f = "source" /\ ~seen /\ "binary" \in has[op.to]
                     THEN misled \cup {op.to} ELSE misled
  BY DEF PutFile
<1>2. /\ op.to \in 1 .. made /\ op.from \in 0 .. made /\ op.todo \subseteq Files
      /\ "source" \in op.todo => "source" \notin has[op.to] /\ src[op.to] = 0
      /\ op.kind \in {"scaffold", "import", "fork"}
  BY DEF PutFile, DirInv, OpOk
<1>3. UNCHANGED <<at, made, edits, scene>>
  BY DEF PutFile
<1>4. /\ DirTypes /\ made \in Nat /\ made <= MaxDirs
      /\ op.to \in Dirs /\ (op.from # None => op.from \in Dirs) /\ f \in Files
  BY <1>2, HandlersAssumption, SMT DEF DirInv, DirTypes, Dirs, None
<1>5. /\ \A d \in Dirs : has'[d] = IF d = op.to THEN has[d] \cup {f} ELSE has[d]
      /\ has' \in [Dirs -> SUBSET Files]
  BY <1>1, <1>4 DEF DirTypes
<1>6. /\ \A d \in Dirs : src'[d] = IF f = "source" /\ op.from # None /\ d = op.to
                                   THEN src[op.from] ELSE src[d]
      /\ src' \in [Dirs -> Nat]
  BY <1>1, <1>4 DEF DirTypes
<1>7. /\ \A d \in Dirs : bin'[d] = IF f = "binary" /\ op.from # None /\ d = op.to
                                   THEN bin[op.from] ELSE bin[d]
      /\ bin' \in [Dirs -> Nat]
  BY <1>1, <1>4 DEF DirTypes
<1>8. /\ \A d \in Dirs : newer'[d] = IF f # "manifest" /\ d = op.to
                                     THEN (f = "source" /\ seen) ELSE newer[d]
      /\ newer' = [d \in Dirs |-> newer'[d]]
  <2>1. CASE f = "manifest"
    BY <2>1, <1>1, <1>4 DEF DirTypes
  <2>2. CASE f # "manifest"
    <3>1. newer' = [newer EXCEPT ![op.to] = (f = "source" /\ seen)]
      BY <2>2, <1>1
    <3> QED BY <2>2, <3>1, <1>4 DEF DirTypes
  <2> QED BY <2>1, <2>2
<1>9. op' = NoOp \/ /\ op'.kind = op.kind /\ op'.from = op.from /\ op'.to = op.to
                    /\ op'.todo = op.todo \ {f}
                    /\ op' \in [kind : {"none", "scaffold", "import", "fork", "delete"},
                               from : 0 .. MaxDirs, to : 0 .. MaxDirs, todo : SUBSET Files]
  <2>1. CASE op' = [op EXCEPT !.todo = op.todo \ {f}]
    BY <2>1, <1>4 DEF DirTypes
  <2> QED BY <2>1, <1>1
<1>10. NoOp \in [kind : {"none", "scaffold", "import", "fork", "delete"},
                from : 0 .. MaxDirs, to : 0 .. MaxDirs, todo : SUBSET Files]
       /\ NoOp.kind = "none"
  BY HandlersAssumption, SMT DEF NoOp, None
<1> HIDE DEF NoOp
<1>11. DirTypes'
  BY <1>3, <1>4, <1>5, <1>6, <1>7, <1>8, <1>9, <1>10 DEF DirTypes
<1>12. \A d \in Dirs : src'[d] >= src[d] /\ src'[d] <= edits'
  BY <1>2, <1>3, <1>4, <1>6, SMT DEF DirInv, DirTypes
<1>13. \A d \in Dirs : d > made' => has'[d] = {} /\ src'[d] = 0
  <2>1. \A d \in Dirs : d > made => d # op.to
    BY <1>2, <1>4, SMT DEF Dirs
  <2> QED BY <2>1, <1>3, <1>5, <1>6 DEF DirInv
<1>14. OpOk' /\ op'.kind # "delete"
  <2>1. CASE op' = NoOp
    BY <2>1, <1>10 DEF OpOk
  <2>2. CASE op' # NoOp
    <3>1. /\ op'.to = op.to /\ op'.from = op.from /\ op'.kind = op.kind
          /\ op'.todo = op.todo \ {f}
      BY <2>2, <1>9
    <3>2. "source" \in op'.todo => "source" \in op.todo /\ f # "source"
      BY <3>1
    <3>3. "source" \in op'.todo => "source" \notin has'[op.to] /\ src'[op.to] = 0
      BY <3>2, <1>2, <1>4, <1>5, <1>6
    <3> QED BY <3>1, <3>3, <1>2, <1>3 DEF OpOk
  <2> QED BY <2>1, <2>2
<1>15. ASSUME NEW d \in Dirs, {"source", "binary"} \subseteq has'[d], ~newer'[d], d \notin misled'
       PROVE  bin'[d] >= src'[d]
  <2>1. CASE d # op.to \/ f = "manifest"
    <3>1. /\ {"source", "binary"} \subseteq has[d] /\ ~newer[d] /\ d \notin misled
          /\ bin'[d] = bin[d] /\ src'[d] = src[d]
      BY <2>1, <1>1, <1>5, <1>6, <1>7, <1>8, <1>15
    <3> QED BY <3>1 DEF DirInv
  <2>2. CASE d = op.to /\ f = "source"
    <3>1. ~seen /\ "binary" \in has[d]
      BY <2>2, <1>5, <1>8, <1>15
    <3>2. ~(bin'[d] < src'[d])
      BY <2>2, <3>1, <1>1, <1>15
    <3> QED BY <3>2, <1>6, <1>7, SMT
  <2>3. CASE d = op.to /\ f = "binary"
    <3>1. ~(bin'[d] < src'[d])
      BY <2>3, <1>1, <1>15
    <3> QED BY <3>1, <1>6, <1>7, SMT
  <2> QED BY <2>1, <2>2, <2>3, <1>4 DEF Files
<1>16. Onward
  <2>1. misled \subseteq misled'
    BY <1>1
  <2>2. ASSUME NEW d \in Dirs PROVE bin'[d] = bin[d] \/ d \in misled' \/ bin'[d] >= src'[d]
    <3>1. CASE f = "binary" /\ d = op.to
      <4>1. d \in misled' \/ ~(bin'[d] < src'[d])
        BY <3>1, <1>1
      <4>2. src'[d] \in Nat /\ bin'[d] \in Nat
        BY <1>6, <1>7
      <4> QED BY <4>1, <4>2, SMT
    <3>2. CASE ~(f = "binary" /\ d = op.to)
      BY <3>2, <1>7
    <3> QED BY <3>1, <3>2
  <2> QED BY <2>1, <2>2, <1>12 DEF Onward
<1> QED BY <1>3, <1>11, <1>12, <1>13, <1>14, <1>15, <1>16 DEF DirInv

(* Renaming, deleting, and giving up take away; a save comes after all before it.  *)
LEMMA OtherDirs ==
  ASSUME DirInv,
         \/ \E m, n \in Names : rename(m, n)
         \/ \E n \in Names : delete(n) \/ Edit(n)
         \/ RemoveFile \/ RemoveDir \/ OpFails
  PROVE  DirInv' /\ Onward
<1>1. /\ DirTypes /\ MaxDirs \in Nat /\ made \in Nat /\ made <= MaxDirs
      /\ NoOp \in [kind : {"none", "scaffold", "import", "fork", "delete"},
                   from : 0 .. MaxDirs, to : 0 .. MaxDirs, todo : SUBSET Files]
      /\ NoOp.kind = "none"
  BY HandlersAssumption, SMT DEF DirInv, DirTypes, Dirs, NoOp, None
<1> HIDE DEF NoOp
<1>2. ASSUME NEW m \in Names, NEW n \in Names, rename(m, n) PROVE DirInv' /\ Onward
  <2>1. /\ at' = [at EXCEPT ![m] = None, ![n] = at[m]]
        /\ UNCHANGED <<has, src, bin, newer, misled, made, edits, scene, op>>
    BY <1>2 DEF rename
  <2>2. /\ at' \in [Names -> 0 .. MaxDirs]
        /\ \A x \in Names : at'[x] <= made
    BY <1>1, <1>2, <2>1, SMT DEF DirInv, DirTypes, None
  <2>3. DirTypes' /\ OpOk'
    BY <2>1, <2>2, <1>1 DEF DirInv, DirTypes, OpOk
  <2>4. Onward
    BY <2>1, <1>1 DEF Onward, DirTypes
  <2> QED BY <2>1, <2>2, <2>3, <2>4 DEF DirInv
<1>3. ASSUME UNCHANGED <<has, src, bin, newer, misled, made, edits, scene, at>>,
             op'.kind \in {"none", "delete"}, op'.kind = "delete" => op'.to \in Dirs,
             op' \in [kind : {"none", "scaffold", "import", "fork", "delete"},
                     from : 0 .. MaxDirs, to : 0 .. MaxDirs, todo : SUBSET Files]
      PROVE  DirInv' /\ Onward
  <2>1. DirTypes' /\ OpOk' /\ Onward
    BY <1>1, <1>3 DEF DirTypes, OpOk, Onward
  <2> QED BY <2>1, <1>3 DEF DirInv
<1>4. ASSUME NEW n \in Names, delete(n) PROVE DirInv' /\ Onward
  <2> DEFINE o == [kind |-> "delete", from |-> None, to |-> at[n], todo |-> has[at[n]]]
  <2>1. /\ op' = o /\ at[n] # None
        /\ UNCHANGED <<has, src, bin, newer, misled, made, edits, scene, at>>
    BY <1>4 DEF delete, dirVars
  <2>2. at[n] \in Dirs /\ at[n] \in 0 .. MaxDirs /\ None \in 0 .. MaxDirs
    BY <2>1, <1>1, SMT DEF DirTypes, Dirs, None
  <2>3. o \in [kind : {"none", "scaffold", "import", "fork", "delete"},
              from : 0 .. MaxDirs, to : 0 .. MaxDirs, todo : SUBSET Files]
    BY <2>2, <1>1 DEF DirTypes
  <2>4. o.kind = "delete" /\ o.to \in Dirs
    BY <2>2
  <2> HIDE DEF o
  <2> QED BY <2>1, <2>3, <2>4, <1>3
<1>5. ASSUME NEW n \in Names, Edit(n) PROVE DirInv' /\ Onward
  <2>1. /\ at[n] # None /\ "source" \in has[at[n]] /\ edits' = edits + 1
        /\ src' = [src EXCEPT ![at[n]] = edits + 1]
        /\ \/ newer' = [newer EXCEPT ![at[n]] = TRUE] /\ misled' = misled
           \/ /\ misled' = IF "binary" \in has[at[n]] /\ ~newer[at[n]]
                           THEN misled \cup {at[n]} ELSE misled
              /\ newer' = newer
        /\ UNCHANGED <<at, has, bin, made, scene, op>>
    BY <1>5 DEF Edit, opVars
  <2>2. at[n] \in Dirs
    BY <2>1, <1>1, SMT DEF DirTypes, Dirs, None
  <2>3. /\ \A d \in Dirs : src'[d] = IF d = at[n] THEN edits + 1 ELSE src[d]
        /\ src' \in [Dirs -> Nat] /\ newer' = [d \in Dirs |-> newer'[d]]
        /\ edits' \in Nat /\ misled \subseteq misled'
    <3>1. edits + 1 \in Nat
      BY <1>1, SMT DEF DirTypes
    <3>2. newer' = [d \in Dirs |-> newer'[d]]
      BY <2>1, <2>2, <1>1, Zenon DEF DirTypes
    <3> QED BY <3>1, <3>2, <2>1, <2>2, <1>1 DEF DirTypes
  <2>4. DirTypes'
    BY <2>1, <2>3, <1>1 DEF DirTypes
  <2>5. \A d \in Dirs : src'[d] >= src[d] /\ src'[d] <= edits'
    BY <2>1, <2>3, <1>1, SMT DEF DirInv, DirTypes
  <2>6. \A d \in Dirs : d > made => d # at[n]
    BY <2>1, <1>1 DEF DirInv
  <2>7. OpOk'
    <3>1. "source" \in op.todo /\ op.kind \in {"scaffold", "import", "fork"} => op.to # at[n]
      BY <2>1 DEF DirInv, OpOk
    <3>2. op.kind \in {"scaffold", "import", "fork"} => op.to \in Dirs
      BY <1>1, SMT DEF DirInv, OpOk, Dirs
    <3> QED BY <2>1, <2>3, <3>1, <3>2 DEF DirInv, OpOk
  <2>8. Onward
    BY <2>1, <2>3, <2>5 DEF Onward
  <2>9. ASSUME NEW d \in Dirs, {"source", "binary"} \subseteq has'[d], ~newer'[d], d \notin misled'
        PROVE  bin'[d] >= src'[d]
    <3>1. d # at[n]
      BY <2>1, <2>2, <2>9, <1>1 DEF DirTypes
    <3>2. ~newer[d] /\ d \notin misled /\ src'[d] = src[d]
      BY <3>1, <2>1, <2>2, <2>3, <2>9, <1>1 DEF DirTypes
    <3> QED BY <3>2, <2>1, <2>9 DEF DirInv
  <2> QED BY <2>1, <2>3, <2>4, <2>5, <2>6, <2>7, <2>8, <2>9 DEF DirInv
<1>6. ASSUME RemoveFile PROVE DirInv' /\ Onward
  <2>1. PICK f \in op.todo : /\ has' = [has EXCEPT ![op.to] = @ \ {f}]
                             /\ op' = [op EXCEPT !.todo = @ \ {f}]
    BY <1>6 DEF RemoveFile
  <2>2. /\ op.kind = "delete" /\ op.to \in Dirs
        /\ UNCHANGED <<at, src, bin, newer, misled, made, edits, scene>>
    BY <1>6 DEF RemoveFile, DirInv
  <2>3. /\ has' \in [Dirs -> SUBSET Files]
        /\ \A d \in Dirs : has'[d] \subseteq has[d]
    BY <2>1, <2>2, <1>1 DEF DirTypes
  <2>4. /\ op' \in [kind : {"none", "scaffold", "import", "fork", "delete"},
                   from : 0 .. MaxDirs, to : 0 .. MaxDirs, todo : SUBSET Files]
        /\ op'.kind = "delete" /\ op'.to = op.to
    BY <2>1, <2>2, <1>1 DEF DirTypes
  <2>5. DirTypes' /\ OpOk' /\ Onward
    BY <2>2, <2>3, <2>4, <1>1 DEF DirTypes, OpOk, Onward
  <2>6. \A d \in Dirs : d > made => has'[d] = {} /\ src[d] = 0
    BY <2>3 DEF DirInv
  <2>7. \A d \in Dirs : {"source", "binary"} \subseteq has'[d] =>
                          {"source", "binary"} \subseteq has[d]
    BY <2>3
  <2> QED BY <2>2, <2>4, <2>5, <2>6, <2>7 DEF DirInv
<1>7. ASSUME RemoveDir PROVE DirInv' /\ Onward
  <2>1. /\ \/ at' = [n \in Names |-> IF at[n] = op.to THEN None ELSE at[n]]
           \/ at' = at
        /\ op' = NoOp
        /\ UNCHANGED <<has, src, bin, newer, misled, made, edits, scene>>
    BY <1>7 DEF RemoveDir
  <2>2. /\ at' \in [Names -> 0 .. MaxDirs]
        /\ \A x \in Names : at'[x] <= made
    BY <1>1, <2>1, SMT DEF DirInv, DirTypes, None
  <2>3. DirTypes' /\ OpOk' /\ Onward
    BY <1>1, <2>1, <2>2 DEF DirTypes, OpOk, Onward
  <2> QED BY <1>1, <2>1, <2>2, <2>3 DEF DirInv
<1>8. ASSUME OpFails PROVE DirInv' /\ Onward
  <2>1. op' = NoOp /\ UNCHANGED <<has, src, bin, newer, misled, made, edits, scene, at>>
    BY <1>8 DEF OpFails, dirVars
  <2> QED BY <2>1, <1>1, <1>3
<1> QED BY <1>2, <1>4, <1>5, <1>6, <1>7, <1>8

(* A build leaves the binary of the sources it began with; if they were saved      *)
(* again meanwhile, the times lie from then on.                               *)
LEMMA BuildDirs ==
  ASSUME DirInv, BuildTypes, NEW p \in Parties, NEW ok, BuildEnds(p, ok)
  PROVE  /\ DirInv' /\ Onward /\ BuildTypes'
         /\ bpc' = [bpc EXCEPT ![p] = FALSE] /\ UNCHANGED <<bdir, bver>>
         /\ bpc[p] /\ bdir[p] \in Dirs
         /\ ok => bin'[bdir[p]] = bver[p]
<1>1. /\ bpc[p] /\ bdir[p] \in Dirs /\ bver[p] \in Nat
      /\ bpc' = [bpc EXCEPT ![p] = FALSE]
      /\ UNCHANGED <<at, src, made, edits, scene, op, bdir, bver>>
  BY DEF BuildEnds, BuildTypes, opVars
<1>2. BuildTypes'
  BY <1>1 DEF BuildTypes
<1>3. CASE ~ok
  <2>1. UNCHANGED <<has, bin, newer, misled>>
    BY <1>3 DEF BuildEnds
  <2>2. DirInv' /\ Onward
    BY <1>1, <2>1, DirsSame DEF dirVars, opVars, BuildEnds
  <2> QED BY <1>1, <1>2, <1>3, <2>2
<1>4. CASE ok
  <2> DEFINE b == bdir[p]
  <2>1. PICK n \in Names : at[n] = b
    BY <1>4 DEF BuildEnds
  <2>2. /\ has' = [has EXCEPT ![b] = @ \cup {"binary"}]
        /\ bin' = [bin EXCEPT ![b] = bver[p]]
        /\ newer' = [newer EXCEPT ![b] = FALSE]
        /\ misled' = IF bver[p] < src[b] THEN misled \cup {b} ELSE misled
    BY <1>4 DEF BuildEnds
  <2>3. b \in Dirs /\ b <= made
    BY <1>1, <2>1 DEF DirInv
  <2> HIDE DEF b
  <2>4. /\ \A d \in Dirs : /\ has'[d] = IF d = b THEN has[d] \cup {"binary"} ELSE has[d]
                           /\ bin'[d] = IF d = b THEN bver[p] ELSE bin[d]
                           /\ newer'[d] = IF d = b THEN FALSE ELSE newer[d]
        /\ has' \in [Dirs -> SUBSET Files] /\ bin' \in [Dirs -> Nat]
        /\ newer' = [d \in Dirs |-> newer'[d]]
    BY <1>1, <2>2, <2>3 DEF DirInv, DirTypes, Files
  <2>5. DirTypes'
    BY <1>1, <2>4 DEF DirInv, DirTypes
  <2>6. \A d \in Dirs : d > made => d # b
    BY <2>3, SMT DEF Dirs, DirInv, DirTypes
  <2>7. OpOk'
    <3>1. op.kind \in {"scaffold", "import", "fork"} => op.to \in Dirs
      BY SMT DEF DirInv, DirTypes, OpOk, Dirs
    <3>2. ASSUME NEW d \in Dirs, "source" \notin has[d] PROVE "source" \notin has'[d]
      <4>1. has'[d] = has[d] \cup {"binary"} \/ has'[d] = has[d]
        BY <2>4
      <4> QED BY <3>2, <4>1
    <3> QED BY <3>1, <3>2, <1>1 DEF DirInv, OpOk
  <2>8. b \in misled' \/ bver[p] >= src[b]
    BY <1>1, <2>2, <2>3, SMT DEF DirInv, DirTypes
  <2>9. misled \subseteq misled'
    BY <2>2
  <2>10. Onward
    <3>1. \A d \in Dirs : src'[d] >= src[d]
      BY <1>1, SMT DEF DirInv, DirTypes
    <3>2. \A d \in Dirs : bin'[d] = bin[d] \/ d \in misled' \/ bin'[d] >= src'[d]
      BY <1>1, <2>4, <2>8
    <3> QED BY <2>9, <3>1, <3>2 DEF Onward
  <2>11. \A d \in Dirs : {"source", "binary"} \subseteq has'[d] /\ ~newer'[d] /\ d \notin misled'
                          => bin'[d] >= src'[d]
    BY <1>1, <2>4, <2>8, <2>9 DEF DirInv
  <2>12. DirInv'
    BY <1>1, <2>4, <2>5, <2>6, <2>7, <2>11 DEF DirInv
  <2> QED BY <1>1, <1>2, <2>3, <2>4, <2>10, <2>12 DEF b
<1> QED BY <1>3, <1>4

---------------------------------------------------------------------------
(* What a gate saw, and what comes of it                                      *)

(* A call and an attempt pass one gate, then start once, from the name they were   *)
(* given.                                                                   *)
CallOk(c) ==
  /\ pc[c] \in {"idle", "gate"} => gate[c] = NoSight
  /\ pc[c] \in Unborn => ran[c] = NoSight
  /\ pc[c] \in {"gate", "build", "lock"} => path[c] \in Names
  /\ bpc[c] => pc[c] = "build"

RunOk(r) ==
  /\ att[r] = "none" => ran[r] = NoSight
  /\ gate[r] # NoSight => path[r] \in Names
  /\ bpc[r] => gate[r] # NoSight /\ att[r] = "none"

(* It will not start any more, unless it has.                                *)
GivenUp(p) == (p \in Calls /\ pc[p] = "failed") \/ (p \in Runs /\ att[p] = "over")

(* After a gate, the binary is what the gate saw saved, or is being built, or the   *)
(* times lie.                                                               *)
GateOk(p) ==
  gate[p].dir # None =>
    /\ gate[p].dir \in Dirs /\ gate[p].ver \in Nat
    /\ gate[p].ver <= src[gate[p].dir]
    /\ \/ bpc[p] /\ bdir[p] = gate[p].dir /\ bver[p] >= gate[p].ver
       \/ GivenUp(p)
       \/ gate[p].dir \in misled
       \/ bin[gate[p].dir] >= gate[p].ver

RanOk(p) ==
  gate[p].dir # None /\ ran[p].dir = gate[p].dir /\ gate[p].dir \notin misled =>
    ran[p].ver >= gate[p].ver

UseTypes ==
  /\ path = [p \in Parties |-> path[p]] /\ ran = [p \in Parties |-> ran[p]]
  /\ gate = [p \in Parties |-> gate[p]] /\ att = [r \in Runs |-> att[r]]

Users == Calls \cup Runs

UseInv ==
  /\ UseTypes
  /\ \A c \in Calls : CallOk(c)
  /\ \A r \in Runs : RunOk(r)
  /\ \A p \in Users : GateOk(p) /\ RanOk(p)

HandlerInv == TalkInv /\ DirInv /\ BuildTypes /\ UseInv

(* What of a party the invariant looks at; its place is pc or att.             *)
SameUse(p) ==
  /\ path'[p] = path[p] /\ ran'[p] = ran[p] /\ gate'[p] = gate[p]
  /\ bpc'[p] = bpc[p] /\ bdir'[p] = bdir[p] /\ bver'[p] = bver[p]

SamePlace(p) ==
  /\ p \in Calls => pc'[p] = pc[p]
  /\ p \in Runs => att'[p] = att[p]

LEMMA NoSightDir == NoSight.dir = None /\ \A n : Sight(n).dir = at[n]
BY DEF NoSight, Sight

LEMMA UsersApart ==
  /\ \A c \in Calls : c \notin Runs /\ c \notin Builders /\ c \in Parties /\ c \in Users
  /\ \A r \in Runs : r \notin Calls /\ r \notin Builders /\ r \in Parties /\ r \in Users
  /\ \A b \in Builders : b \notin Users /\ b \in Parties
BY HandlersAssumption DEF Parties, Users

(* What was seen at a gate stays true, whatever the others build and save.       *)
LEMMA GateKept ==
  ASSUME DirInv, DirInv', Onward, NEW p \in Users, GateOk(p),
         gate'[p] = gate[p], bdir'[p] = bdir[p], bver'[p] = bver[p],
         GivenUp(p) => GivenUp(p)',
         bpc[p] => \/ bpc'[p] \/ GivenUp(p)'
                   \/ bdir[p] \in Dirs /\ bin'[bdir[p]] = bver[p]
  PROVE  GateOk(p)'
<1> SUFFICES ASSUME gate[p].dir # None PROVE GateOk(p)'
  BY DEF GateOk
<1>1. PICK d, v : d = gate[p].dir /\ v = gate[p].ver
  OBVIOUS
<1>2. /\ d \in Dirs /\ v \in Nat /\ v <= src[d]
      /\ \/ bpc[p] /\ bdir[p] = d /\ bver[p] >= v
         \/ GivenUp(p) \/ d \in misled \/ bin[d] >= v
  BY <1>1 DEF GateOk
<1>3. /\ src'[d] >= src[d] /\ (d \in misled => d \in misled')
      /\ bin'[d] = bin[d] \/ d \in misled' \/ bin'[d] >= src'[d]
  BY <1>2 DEF Onward
<1>4. src[d] \in Nat /\ src'[d] \in Nat /\ bin[d] \in Nat /\ bin'[d] \in Nat
  BY <1>2 DEF DirInv, DirTypes
<1>5. v <= src'[d] /\ (bin[d] >= v => d \in misled' \/ bin'[d] >= v)
  BY <1>2, <1>3, <1>4, SMT
<1>6. \/ bpc'[p] /\ bdir'[p] = d /\ bver'[p] >= v
      \/ GivenUp(p)' \/ d \in misled' \/ bin'[d] >= v
  BY <1>2, <1>3, <1>5
<1> QED BY <1>1, <1>2, <1>5, <1>6 DEF GateOk

LEMMA RanKept ==
  ASSUME Onward, NEW p \in Users, RanOk(p), gate'[p] = gate[p], ran'[p] = ran[p]
  PROVE  RanOk(p)'
BY DEF Onward, RanOk

(* A step of one party, or of none, is a matter of what it has itself.          *)
LEMMA OneMoves ==
  ASSUME HandlerInv, DirInv', Onward, UseTypes', NEW q,
         \A p \in Users : p # q => SameUse(p) /\ SamePlace(p),
         q \in Calls => CallOk(q)',
         q \in Runs => RunOk(q)',
         q \in Users => GateOk(q)' /\ RanOk(q)'
  PROVE  UseInv'
<1>1. ASSUME NEW c \in Calls PROVE CallOk(c)'
  <2>1. CASE c = q
    BY <2>1
  <2>2. CASE c # q
    BY <2>2, UsersApart DEF HandlerInv, UseInv, CallOk, SameUse, SamePlace
  <2> QED BY <2>1, <2>2
<1>2. ASSUME NEW r \in Runs PROVE RunOk(r)'
  <2>1. CASE r = q
    BY <2>1
  <2>2. CASE r # q
    BY <2>2, UsersApart DEF HandlerInv, UseInv, RunOk, SameUse, SamePlace
  <2> QED BY <2>1, <2>2
<1>3. ASSUME NEW p \in Users PROVE GateOk(p)' /\ RanOk(p)'
  <2>1. CASE p = q
    BY <2>1, <1>3
  <2>2. CASE p # q
    <3>1. /\ GateOk(p) /\ RanOk(p) /\ SameUse(p) /\ SamePlace(p)
          /\ DirInv
      BY <2>2 DEF HandlerInv, UseInv
    <3>2. GivenUp(p) => GivenUp(p)'
      BY <3>1 DEF GivenUp, SamePlace
    <3> QED BY <3>1, <3>2, GateKept, RanKept DEF SameUse
  <2> QED BY <2>1, <2>2
<1> QED BY <1>1, <1>2, <1>3 DEF UseInv

(* What a gate sees, and when it needs no build.                              *)
LEMMA GateSees ==
  ASSUME DirInv, NEW n \in Names, Loads(n)
  PROVE  /\ at[n] \in Dirs
         /\ Sight(n).dir = at[n] /\ Sight(n) # NoSight
         /\ Sight(n).ver \in Nat /\ Sight(n).ver <= src[at[n]]
         /\ needs_build(at[n]) \/ at[n] \in misled \/ bin[at[n]] >= Sight(n).ver
<1>1. at[n] \in Dirs /\ at[n] # None
  BY HandlersAssumption, SMT DEF Loads, DirInv, DirTypes, Dirs, None
<1>2. /\ Sight(n).dir = at[n] /\ NoSight.dir = None
      /\ Sight(n).ver = IF "source" \in has[at[n]] THEN src[at[n]] ELSE 0
  BY DEF Sight, NoSight
<1>3. src[at[n]] \in Nat /\ bin[at[n]] \in Nat
  BY <1>1 DEF DirInv, DirTypes
<1>4. Sight(n).ver \in Nat /\ Sight(n).ver <= src[at[n]]
  BY <1>2, <1>3, SMT
<1>5. ASSUME ~needs_build(at[n]), at[n] \notin misled PROVE bin[at[n]] >= Sight(n).ver
  <2>1. "binary" \in has[at[n]] /\ ("source" \in has[at[n]] => ~newer[at[n]])
    BY <1>5 DEF needs_build
  <2>2. CASE "source" \in has[at[n]]
    <3>1. bin[at[n]] >= src[at[n]]
      BY <2>1, <2>2, <1>1, <1>5 DEF DirInv
    <3> QED BY <3>1, <2>2, <1>2
  <2>3. CASE "source" \notin has[at[n]]
    BY <2>3, <1>2, <1>3, SMT
  <2> QED BY <2>2, <2>3
<1> QED BY <1>1, <1>2, <1>4, <1>5

(* A user that passes its gate.                                             *)
LEMMA GatePassed ==
  ASSUME HandlerInv, NEW p \in Users, NEW n \in Names, Loads(n), ran[p] = NoSight,
         gate' = [gate EXCEPT ![p] = Sight(n)], ran' = ran,
         IF needs_build(at[n]) THEN BeginBuild(p, at[n]) ELSE UNCHANGED buildVars,
         UNCHANGED dirVars
  PROVE  /\ GateOk(p)' /\ RanOk(p)' /\ BuildTypes'
         /\ gate'[p] = Sight(n) /\ gate'[p] # NoSight
         /\ bpc'[p] => bpc[p] \/ needs_build(at[n])
         /\ \A q \in Parties : q # p =>
              /\ gate'[q] = gate[q] /\ bpc'[q] = bpc[q]
              /\ bdir'[q] = bdir[q] /\ bver'[q] = bver[q]
         /\ gate' = [q \in Parties |-> gate'[q]]
<1>1. p \in Parties /\ gate = [q \in Parties |-> gate[q]] /\ BuildTypes
  BY DEF Parties, Users, HandlerInv, UseInv, UseTypes
<1>2. /\ gate'[p] = Sight(n) /\ gate' = [q \in Parties |-> gate'[q]]
      /\ \A q \in Parties : q # p => gate'[q] = gate[q]
  BY <1>1
<1>3. /\ at[n] \in Dirs
      /\ Sight(n).dir = at[n] /\ Sight(n) # NoSight
      /\ Sight(n).ver \in Nat /\ Sight(n).ver <= src[at[n]]
      /\ needs_build(at[n]) \/ at[n] \in misled \/ bin[at[n]] >= Sight(n).ver
      /\ src[at[n]] \in Nat /\ None \notin Dirs
  BY GateSees, SMT DEF HandlerInv, DirInv, DirTypes, None, Dirs
<1>4. UNCHANGED <<src, bin, misled>>
  BY DEF dirVars
<1>5. RanOk(p)'
  BY <1>2, <1>3, NoSightDir DEF RanOk
<1>6. CASE needs_build(at[n])
  <2>1. /\ bpc' = [bpc EXCEPT ![p] = TRUE] /\ bdir' = [bdir EXCEPT ![p] = at[n]]
        /\ bver' = [bver EXCEPT ![p] = src[at[n]]]
    BY <1>6 DEF BeginBuild
  <2>2. /\ bpc'[p] = TRUE /\ bdir'[p] = at[n] /\ bver'[p] = src[at[n]]
        /\ \A q \in Parties : q # p =>
             bpc'[q] = bpc[q] /\ bdir'[q] = bdir[q] /\ bver'[q] = bver[q]
        /\ BuildTypes'
    BY <2>1, <1>1, <1>3 DEF BuildTypes
  <2>3. GateOk(p)'
    BY <2>2, <1>2, <1>3, <1>4, SMT DEF GateOk
  <2> QED BY <2>2, <2>3, <1>2, <1>3, <1>5, <1>6
<1>7. CASE ~needs_build(at[n])
  <2>1. UNCHANGED <<bpc, bdir, bver>>
    BY <1>7 DEF buildVars
  <2>2. BuildTypes'
    BY <2>1, <1>1 DEF BuildTypes
  <2>3. GateOk(p)'
    BY <1>2, <1>3, <1>4, <1>7 DEF GateOk
  <2> QED BY <2>1, <2>2, <2>3, <1>2, <1>3, <1>5
<1> QED BY <1>6, <1>7

(* A user that starts runs what the gate saw, or something newer, or elsewhere.   *)
LEMMA Started ==
  ASSUME HandlerInv, NEW p \in Users, NEW n, ~bpc[p], ~GivenUp(p),
         ran' = [ran EXCEPT ![p] = [dir |-> at[n], ver |-> bin[at[n]]]],
         gate' = gate, UNCHANGED dirVars
  PROVE  /\ RanOk(p)' /\ ran' = [q \in Parties |-> ran'[q]]
         /\ \A q \in Parties : q # p => ran'[q] = ran[q]
<1>1. p \in Parties /\ ran = [q \in Parties |-> ran[q]]
  BY DEF Parties, Users, HandlerInv, UseInv, UseTypes
<1>2. /\ ran'[p] = [dir |-> at[n], ver |-> bin[at[n]]]
      /\ ran' = [q \in Parties |-> ran'[q]]
      /\ \A q \in Parties : q # p => ran'[q] = ran[q]
  BY <1>1
<1>3. UNCHANGED <<bin, misled>>
  BY DEF dirVars
<1>4. GateOk(p)
  BY DEF HandlerInv, UseInv
<1>5. RanOk(p)'
  <2> SUFFICES ASSUME gate[p].dir # None, ran'[p].dir = gate[p].dir, gate[p].dir \notin misled
               PROVE  ran'[p].ver >= gate[p].ver
    BY <1>3 DEF RanOk
  <2>1. bin[gate[p].dir] >= gate[p].ver
    BY <1>4 DEF GateOk
  <2> QED BY <2>1, <1>2
<1> QED BY <1>2, <1>5

LEMMA Outsider == \E q : q \notin Users
BY NoSetContainsEverything, Zenon

LEMMA AuthoringKeeps ==
  ASSUME HandlerInv, Authoring
  PROVE  DirInv' /\ BuildTypes' /\ UseInv'
<1>1. UNCHANGED <<buildVars, useVars, smokeVars>>
  BY Zenon
  DEF Authoring, scaffold, import, fork, Make, delete, Edit, rename, PutFile,
      RemoveFile, RemoveDir, OpFails
<1>2. DirInv' /\ Onward
  <2>1. DirInv /\ DirTypes /\ made \in Nat
    BY SMT DEF HandlerInv, DirInv, DirTypes, Dirs
  <2>2. ASSUME NEW n \in Names, scaffold(n) PROVE DirInv' /\ Onward
    <3>1. None \in 0 .. made /\ {"manifest", "source"} \subseteq Files
      BY <2>1, SMT DEF None, Files
    <3> QED BY <2>1, <2>2, <3>1, MakeDirs DEF scaffold
  <2>3. ASSUME NEW n \in Names, import(n) PROVE DirInv' /\ Onward
    <3>1. PICK todo \in SUBSET Files : Make("import", None, n, todo)
      <4>1. PICK b \in SUBSET {"binary"} :
              Make("import", None, n, {"manifest", "source"} \cup b)
        BY <2>3 DEF import
      <4>2. {"manifest", "source"} \cup b \in SUBSET Files
        BY DEF Files
      <4> QED BY <4>1, <4>2
    <3>2. None \in 0 .. made
      BY <2>1, SMT DEF None
    <3> QED BY <2>1, <3>1, <3>2, MakeDirs
  <2>4. ASSUME NEW m \in Names, NEW n \in Names, fork(m, n) PROVE DirInv' /\ Onward
    <3>1. at[m] \in Dirs /\ at[m] \in 0 .. made
      BY <2>1, <2>4, HandlersAssumption, SMT DEF fork, DirInv, DirTypes, Dirs, None
    <3>2. has[at[m]] \subseteq Files
      BY <2>1, <3>1 DEF DirTypes
    <3> QED BY <2>1, <2>4, <3>1, <3>2, MakeDirs DEF fork
  <2> QED BY <2>1, <2>2, <2>3, <2>4, PutDirs, OtherDirs, Zenon DEF Authoring
<1>3. UNCHANGED <<bpc, bdir, bver, path, ran, gate, att, pc>>
  BY <1>1 DEF buildVars, useVars, smokeVars, runner
<1>4. BuildTypes'
  BY <1>3 DEF HandlerInv, BuildTypes
<1>5. UseTypes' /\ \A p \in Users : SameUse(p) /\ SamePlace(p)
  BY <1>3 DEF HandlerInv, UseInv, UseTypes, SameUse, SamePlace
<1>6. PICK q : q \notin Users /\ q \notin Calls /\ q \notin Runs
  BY Outsider DEF Users
<1> QED BY <1>2, <1>4, <1>5, <1>6, OneMoves

LEMMA BuildingKeeps ==
  ASSUME HandlerInv, NEW b \in Builders,
         BuildOver(b) \/ \E n \in Names : Build(b, n)
  PROVE  DirInv' /\ BuildTypes' /\ UseInv'
<1>1. b \notin Users /\ b \notin Calls /\ b \notin Runs /\ b \in Parties
  BY UsersApart DEF Users
<1>2. HandlerInv /\ DirInv /\ BuildTypes /\ UseTypes
  BY DEF HandlerInv, UseInv
<1>3. CASE BuildOver(b)
  <2>1. PICK ok \in BOOLEAN : BuildEnds(b, ok)
    BY <1>3 DEF BuildOver
  <2>2. /\ DirInv' /\ Onward /\ BuildTypes'
        /\ bpc' = [bpc EXCEPT ![b] = FALSE] /\ UNCHANGED <<bdir, bver>>
    BY <2>1, <1>1, <1>2, BuildDirs
  <2>3. UNCHANGED <<path, ran, gate, att, pc>>
    BY <1>3 DEF BuildOver, useVars, smokeVars, runner
  <2>4. UseTypes' /\ \A p \in Users : b # p => SameUse(p) /\ SamePlace(p)
    BY <2>2, <2>3, <1>2, UsersApart DEF UseTypes, SameUse, SamePlace, Users, BuildTypes
  <2> QED BY <2>2, <2>4, <1>1, OneMoves
<1>4. ASSUME NEW n \in Names, Build(b, n) PROVE DirInv' /\ BuildTypes' /\ UseInv'
  <2>1. /\ gate' = [gate EXCEPT ![b] = Sight(n)] /\ Loads(n)
        /\ bpc' = [bpc EXCEPT ![b] = TRUE] /\ bdir' = [bdir EXCEPT ![b] = at[n]]
        /\ bver' = [bver EXCEPT ![b] = src[at[n]]]
        /\ UNCHANGED <<dirVars, opVars, path, ran, att, pc>>
    BY <1>4 DEF Build, BeginBuild, smokeVars, runner
  <2>2. DirInv' /\ Onward
    BY <2>1, <1>2, DirsSame
  <2>3. at[n] \in Dirs /\ src[at[n]] \in Nat
    BY <2>1, <1>2, GateSees DEF DirInv, DirTypes
  <2>4. BuildTypes'
    BY <2>1, <2>3, <1>1, <1>2 DEF BuildTypes
  <2>5. UseTypes' /\ \A p \in Users : b # p => SameUse(p) /\ SamePlace(p)
    BY <2>1, <1>2, UsersApart DEF UseTypes, SameUse, SamePlace, Users, BuildTypes
  <2> QED BY <2>2, <2>4, <2>5, <1>1, OneMoves
<1> QED BY <1>3, <1>4

LEMMA RunningKeeps ==
  ASSUME HandlerInv, NEW r \in Runs,
         RunGate(r) \/ RunBuilt(r) \/ StartRun(r) \/ EndRun(r)
  PROVE  DirInv' /\ BuildTypes' /\ UseInv'
<1>1. /\ r \in Users /\ r \notin Calls /\ r \in Parties
      /\ DirInv /\ BuildTypes /\ UseTypes /\ RunOk(r) /\ GateOk(r) /\ RanOk(r)
  BY UsersApart DEF HandlerInv, UseInv
<1>2. ASSUME NEW p \in Users, r # p PROVE p \in Parties /\ (p \in Runs => att[p] = att[p])
  BY DEF Users, Parties
<1>3. pc' = pc
  BY Zenon DEF RunGate, RunBuilt, StartRun, EndRun, smokeVars, runner
<1>4. CASE RunGate(r)
  <2>1. PICK n \in Names :
          /\ Loads(n) /\ path' = [path EXCEPT ![r] = n]
          /\ gate' = [gate EXCEPT ![r] = Sight(n)]
          /\ IF needs_build(at[n]) THEN BeginBuild(r, at[n]) ELSE UNCHANGED buildVars
    BY <1>4 DEF RunGate
  <2>2. /\ att[r] = "none" /\ gate[r] = NoSight
        /\ UNCHANGED <<dirVars, opVars, ran, att>> /\ ran' = ran
    BY <1>4 DEF RunGate
  <2>3. ran[r] = NoSight /\ ~bpc[r]
    BY <2>2, <1>1 DEF RunOk
  <2>4. /\ GateOk(r)' /\ RanOk(r)' /\ BuildTypes'
        /\ gate'[r] # NoSight
        /\ \A q \in Parties : q # r =>
             /\ gate'[q] = gate[q] /\ bpc'[q] = bpc[q]
             /\ bdir'[q] = bdir[q] /\ bver'[q] = bver[q]
        /\ gate' = [q \in Parties |-> gate'[q]]
    BY <2>1, <2>2, <2>3, <1>1, GatePassed
  <2>5. DirInv' /\ Onward
    BY <2>2, <1>1, DirsSame
  <2>6. path'[r] = n /\ path' = [q \in Parties |-> path'[q]]
        /\ \A q \in Parties : q # r => path'[q] = path[q]
    BY <2>1, <1>1 DEF UseTypes
  <2>7. UseTypes' /\ \A p \in Users : r # p => SameUse(p) /\ SamePlace(p)
    BY <2>2, <2>4, <2>6, <1>1, <1>2, <1>3 DEF UseTypes, SameUse, SamePlace
  <2>8. RunOk(r)'
    BY <2>2, <2>3, <2>4, <2>6 DEF RunOk
  <2> QED BY <2>4, <2>5, <2>7, <2>8, <1>1, OneMoves
<1>5. CASE RunBuilt(r)
  <2>1. PICK ok \in BOOLEAN :
          /\ BuildEnds(r, ok)
          /\ att' = IF ok THEN att ELSE [att EXCEPT ![r] = "over"]
    BY <1>5 DEF RunBuilt
  <2>2. /\ DirInv' /\ Onward /\ BuildTypes'
        /\ bpc' = [bpc EXCEPT ![r] = FALSE] /\ UNCHANGED <<bdir, bver>>
        /\ bpc[r] /\ bdir[r] \in Dirs
        /\ ok => bin'[bdir[r]] = bver[r]
    BY <2>1, <1>1, BuildDirs
  <2>3. UNCHANGED <<path, ran, gate>>
    BY <1>5 DEF RunBuilt
  <2>4. /\ att' = [q \in Runs |-> att'[q]]
        /\ \A q \in Runs : q # r => att'[q] = att[q]
        /\ ~ok => att'[r] = "over"
        /\ ok => att'[r] = att[r]
    BY <2>1, <1>1 DEF UseTypes
  <2>5. /\ bpc'[r] = FALSE
        /\ \A q \in Parties : q # r => bpc'[q] = bpc[q]
    BY <2>2, <1>1 DEF BuildTypes
  <2>6. UseTypes' /\ \A p \in Users : r # p => SameUse(p) /\ SamePlace(p)
    BY <2>2, <2>3, <2>4, <2>5, <1>1, <1>2, <1>3 DEF UseTypes, SameUse, SamePlace
  <2>7. /\ GivenUp(r) => GivenUp(r)'
        /\ ok \/ GivenUp(r)'
    BY <2>4, <1>1 DEF GivenUp
  <2>8. GateOk(r)' /\ RanOk(r)'
    BY <2>2, <2>3, <2>7, <1>1, GateKept, RanKept
  <2>9. RunOk(r)'
    BY <2>3, <2>4, <2>5, <1>1 DEF RunOk
  <2> QED BY <2>2, <2>6, <2>8, <2>9, <1>1, OneMoves
<1>6. CASE StartRun(r)
  <2>1. PICK n \in Names :
          /\ path' = [path EXCEPT ![r] = n]
          /\ ran' = [ran EXCEPT ![r] = [dir |-> at[n], ver |-> bin[at[n]]]]
    BY <1>6 DEF StartRun
  <2>2. /\ att[r] = "none" /\ ~bpc[r] /\ att' = [att EXCEPT ![r] = "active"]
        /\ UNCHANGED <<dirVars, opVars, bpc, bdir, bver>> /\ gate' = gate
    BY <1>6 DEF StartRun, buildVars
  <2>3. ~GivenUp(r)
    BY <2>2, <1>1 DEF GivenUp
  <2>4. /\ RanOk(r)' /\ ran' = [q \in Parties |-> ran'[q]]
        /\ \A q \in Parties : q # r => ran'[q] = ran[q]
    BY <2>1, <2>2, <2>3, <1>1, Started
  <2>5. /\ DirInv' /\ Onward /\ BuildTypes'
    BY <2>2, <1>1, DirsSame DEF BuildTypes
  <2>6. /\ path'[r] = n /\ path' = [q \in Parties |-> path'[q]]
        /\ \A q \in Parties : q # r => path'[q] = path[q]
        /\ att'[r] = "active" /\ att' = [q \in Runs |-> att'[q]]
        /\ \A q \in Runs : q # r => att'[q] = att[q]
    BY <2>1, <2>2, <1>1 DEF UseTypes
  <2>7. UseTypes' /\ \A p \in Users : r # p => SameUse(p) /\ SamePlace(p)
    BY <2>2, <2>4, <2>6, <1>1, <1>2, <1>3 DEF UseTypes, SameUse, SamePlace
  <2>8. GateOk(r)'
    BY <2>2, <2>3, <2>5, <1>1, GateKept
  <2>9. RunOk(r)'
    BY <2>2, <2>6 DEF RunOk
  <2> QED BY <2>4, <2>5, <2>7, <2>8, <2>9, <1>1, OneMoves
<1>7. CASE EndRun(r)
  <2>1. /\ att[r] = "active" /\ att' = [att EXCEPT ![r] = "over"]
        /\ UNCHANGED <<dirVars, opVars, bpc, bdir, bver, path, ran, gate>>
    BY <1>7 DEF EndRun, buildVars
  <2>2. /\ DirInv' /\ Onward /\ BuildTypes'
    BY <2>1, <1>1, DirsSame DEF BuildTypes
  <2>3. /\ att'[r] = "over" /\ att' = [q \in Runs |-> att'[q]]
        /\ \A q \in Runs : q # r => att'[q] = att[q]
    BY <2>1, <1>1 DEF UseTypes
  <2>4. UseTypes' /\ \A p \in Users : r # p => SameUse(p) /\ SamePlace(p)
    BY <2>1, <2>3, <1>1, <1>3 DEF UseTypes, SameUse, SamePlace
  <2>5. GivenUp(r)'
    BY <2>3 DEF GivenUp
  <2>6. GateOk(r)' /\ RanOk(r)'
    BY <2>1, <2>2, <2>5, <1>1, GateKept, RanKept
  <2>7. RunOk(r)'
    BY <2>1, <2>3, <1>1 DEF RunOk
  <2> QED BY <2>2, <2>4, <2>6, <2>7, <1>1, OneMoves
<1> QED BY <1>4, <1>5, <1>6, <1>7

(* The runner never goes back to a stage before it had a process.             *)
LEMMA RunnerPlaces ==
  ASSUME TalkInv, NEW c \in Calls, Runner(c)
  PROVE  /\ pc'[c] \in Conversing \cup Over
         /\ \A d \in Calls : d # c => pc'[d] = pc[d]
<1>1. /\ pc'[c] \in {"handshake", "row", "failed", "shutdown", "answer", "reap", "done"}
      /\ \A d \in Calls : d # c => SameTalk(d)
  BY HandshakeTalks, SendRowTalks, ReceiveTalks, EndTalks, Zenon DEF Runner
<1> QED BY <1>1 DEF Conversing, Over, SameTalk

LEMMA CallKeeps ==
  ASSUME HandlerInv, NEW c \in Calls, Call(c)
  PROVE  DirInv' /\ BuildTypes' /\ UseInv'
<1>1. /\ c \in Users /\ c \notin Runs /\ c \in Parties /\ TalkInv
      /\ DirInv /\ BuildTypes /\ UseTypes /\ CallOk(c) /\ GateOk(c) /\ RanOk(c)
      /\ pc = [d \in Calls |-> pc[d]]
  BY UsersApart DEF HandlerInv, UseInv, TalkInv, SmokeTypes
<1>2. \A p \in Users : p \in Parties
  BY DEF Users, Parties
<1>3. att' = att
  BY Zenon DEF Call, SmokeAsk, SmokeGate, SmokeBuilt, SmokeStart, SmokeStep, useVars
<1>4. ASSUME NEW w, pc' = [pc EXCEPT ![c] = w]
      PROVE  pc'[c] = w /\ \A d \in Calls : d # c => pc'[d] = pc[d]
  BY <1>1, <1>4
<1>5. CASE SmokeAsk(c)
  <2>1. PICK n \in Names : path' = [path EXCEPT ![c] = n]
    BY <1>5 DEF SmokeAsk
  <2>2. PICK w \in {"failed", "gate"} : pc' = [pc EXCEPT ![c] = w]
    BY <1>5 DEF SmokeAsk, Goto
  <2>3. /\ pc[c] = "idle"
        /\ UNCHANGED <<dirVars, opVars, bpc, bdir, bver, ran, gate>>
    BY <1>5 DEF SmokeAsk, buildVars
  <2>4. /\ DirInv' /\ Onward /\ BuildTypes'
    BY <2>3, <1>1, DirsSame DEF BuildTypes
  <2>5. path'[c] = n /\ path' = [q \in Parties |-> path'[q]]
        /\ \A q \in Parties : q # c => path'[q] = path[q]
    BY <2>1, <1>1 DEF UseTypes
  <2>6. pc'[c] = w /\ \A d \in Calls : d # c => pc'[d] = pc[d]
    BY <2>2, <1>4
  <2>7. UseTypes' /\ \A p \in Users : c # p => SameUse(p) /\ SamePlace(p)
    BY <2>3, <2>5, <2>6, <1>1, <1>2, <1>3 DEF UseTypes, SameUse, SamePlace
  <2>8. gate[c] = NoSight /\ ran[c] = NoSight /\ ~bpc[c]
    BY <2>3, <1>1 DEF CallOk, Unborn
  <2>9. CallOk(c)' /\ GateOk(c)' /\ RanOk(c)'
    BY <2>3, <2>5, <2>6, <2>8, NoSightDir DEF CallOk, GateOk, RanOk, Unborn
  <2> QED BY <2>4, <2>7, <2>9, <1>1, OneMoves
<1>6. CASE SmokeGate(c)
  <2>1. /\ pc[c] = "gate" /\ UNCHANGED <<dirVars, opVars, path, ran>> /\ ran' = ran
    BY <1>6 DEF SmokeGate
  <2>2. /\ DirInv' /\ Onward
    BY <2>1, <1>1, DirsSame
  <2>3. gate[c] = NoSight /\ ran[c] = NoSight /\ ~bpc[c] /\ path[c] \in Names
    BY <2>1, <1>1 DEF CallOk, Unborn
  <2>4. CASE ~Loads(path[c])
    <3>1. pc' = [pc EXCEPT ![c] = "failed"] /\ UNCHANGED <<gate, bpc, bdir, bver>>
      BY <2>4, <1>6 DEF SmokeGate, Goto, buildVars
    <3>2. pc'[c] = "failed" /\ \A d \in Calls : d # c => pc'[d] = pc[d]
      BY <3>1, <1>4
    <3>3. BuildTypes' /\ UseTypes'
          /\ \A p \in Users : c # p => SameUse(p) /\ SamePlace(p)
      BY <3>1, <3>2, <2>1, <1>1, <1>2, <1>3 DEF BuildTypes, UseTypes, SameUse, SamePlace
    <3>4. CallOk(c)' /\ GateOk(c)' /\ RanOk(c)'
      BY <3>1, <3>2, <2>1, <2>3, NoSightDir DEF CallOk, GateOk, RanOk, Unborn
    <3> QED BY <3>3, <3>4, <2>2, <1>1, OneMoves
  <2>5. CASE Loads(path[c])
    <3>1. /\ gate' = [gate EXCEPT ![c] = Sight(path[c])]
          /\ IF needs_build(at[path[c]]) THEN BeginBuild(c, at[path[c]])
             ELSE UNCHANGED buildVars
          /\ pc' = [pc EXCEPT ![c] = IF needs_build(at[path[c]]) THEN "build" ELSE "lock"]
      BY <2>5, <1>6 DEF SmokeGate, Goto
    <3>2. /\ GateOk(c)' /\ RanOk(c)' /\ BuildTypes'
          /\ bpc'[c] => bpc[c] \/ needs_build(at[path[c]])
          /\ \A q \in Parties : q # c =>
               /\ gate'[q] = gate[q] /\ bpc'[q] = bpc[q]
               /\ bdir'[q] = bdir[q] /\ bver'[q] = bver[q]
          /\ gate' = [q \in Parties |-> gate'[q]]
      BY <3>1, <2>1, <2>3, <2>5, <1>1, GatePassed
    <3>3. /\ pc'[c] = IF needs_build(at[path[c]]) THEN "build" ELSE "lock"
          /\ \A d \in Calls : d # c => pc'[d] = pc[d]
      BY <3>1, <1>4
    <3>4. UseTypes' /\ \A p \in Users : c # p => SameUse(p) /\ SamePlace(p)
      BY <3>2, <3>3, <2>1, <1>1, <1>2, <1>3 DEF UseTypes, SameUse, SamePlace
    <3>5. CallOk(c)'
      BY <3>2, <3>3, <2>1, <2>3 DEF CallOk
    <3> QED BY <3>2, <3>4, <3>5, <2>2, <1>1, OneMoves
  <2> QED BY <2>4, <2>5
<1>7. CASE SmokeBuilt(c)
  <2>1. PICK ok \in BOOLEAN :
          BuildEnds(c, ok) /\ pc' = [pc EXCEPT ![c] = IF ok THEN "lock" ELSE "failed"]
    BY <1>7 DEF SmokeBuilt, Goto
  <2>2. /\ DirInv' /\ Onward /\ BuildTypes'
        /\ bpc' = [bpc EXCEPT ![c] = FALSE] /\ UNCHANGED <<bdir, bver>>
        /\ bpc[c] /\ bdir[c] \in Dirs
        /\ ok => bin'[bdir[c]] = bver[c]
    BY <2>1, <1>1, BuildDirs
  <2>3. pc[c] = "build" /\ UNCHANGED <<path, ran, gate>>
    BY <1>7 DEF SmokeBuilt, useVars
  <2>4. /\ pc'[c] = IF ok THEN "lock" ELSE "failed"
        /\ \A d \in Calls : d # c => pc'[d] = pc[d]
    BY <2>1, <1>4
  <2>5. /\ bpc'[c] = FALSE
        /\ \A q \in Parties : q # c => bpc'[q] = bpc[q]
    BY <2>2, <1>1 DEF BuildTypes
  <2>6. UseTypes' /\ \A p \in Users : c # p => SameUse(p) /\ SamePlace(p)
    BY <2>2, <2>3, <2>4, <2>5, <1>1, <1>2, <1>3 DEF UseTypes, SameUse, SamePlace
  <2>7. /\ GivenUp(c) => GivenUp(c)'
        /\ ok \/ GivenUp(c)'
    BY <2>3, <2>4, <1>1 DEF GivenUp
  <2>8. GateOk(c)' /\ RanOk(c)'
    BY <2>2, <2>3, <2>7, <1>1, GateKept, RanKept
  <2>9. CallOk(c)'
    BY <2>3, <2>4, <2>5, <1>1 DEF CallOk, Unborn
  <2> QED BY <2>2, <2>6, <2>8, <2>9, <1>1, OneMoves
<1>8. CASE SmokeStart(c)
  <2>1. /\ pc[c] = "lock" /\ gate' = gate
        /\ UNCHANGED <<dirVars, opVars, bpc, bdir, bver, path>>
    BY <1>8 DEF SmokeStart, buildVars
  <2>2. /\ DirInv' /\ Onward /\ BuildTypes'
    BY <2>1, <1>1, DirsSame DEF BuildTypes
  <2>3. ~bpc[c] /\ ~GivenUp(c) /\ ran[c] = NoSight
    BY <2>1, <1>1 DEF CallOk, GivenUp, Unborn
  <2>4. CASE /\ ran' = [ran EXCEPT ![c] = [dir |-> at[path[c]], ver |-> bin[at[path[c]]]]]
             /\ pc' = [pc EXCEPT ![c] = "handshake"]
    <3>1. /\ RanOk(c)' /\ ran' = [q \in Parties |-> ran'[q]]
          /\ \A q \in Parties : q # c => ran'[q] = ran[q]
      BY <2>1, <2>3, <2>4, <1>1, Started
    <3>2. pc'[c] = "handshake" /\ \A d \in Calls : d # c => pc'[d] = pc[d]
      BY <2>4, <1>4
    <3>3. UseTypes' /\ \A p \in Users : c # p => SameUse(p) /\ SamePlace(p)
      BY <3>1, <3>2, <2>1, <1>1, <1>2, <1>3 DEF UseTypes, SameUse, SamePlace
    <3>4. GateOk(c)'
      BY <2>1, <2>2, <2>3, <1>1, GateKept
    <3>5. CallOk(c)'
      BY <3>2, <2>1, <2>3 DEF CallOk, Unborn
    <3> QED BY <3>1, <3>3, <3>4, <3>5, <2>2, <1>1, OneMoves
  <2>5. CASE pc' = [pc EXCEPT ![c] = "failed"] /\ ran' = ran
    <3>1. pc'[c] = "failed" /\ \A d \in Calls : d # c => pc'[d] = pc[d]
      BY <2>5, <1>4
    <3>2. UseTypes' /\ \A p \in Users : c # p => SameUse(p) /\ SamePlace(p)
      BY <3>1, <2>1, <2>5, <1>1, <1>2, <1>3 DEF UseTypes, SameUse, SamePlace
    <3>3. GateOk(c)' /\ RanOk(c)'
      BY <2>1, <2>2, <2>3, <2>5, <1>1, GateKept, RanKept
    <3>4. CallOk(c)'
      BY <3>1, <2>1, <2>3 DEF CallOk, Unborn
    <3> QED BY <3>2, <3>3, <3>4, <2>2, <1>1, OneMoves
  <2> QED BY <2>4, <2>5, <1>8, Zenon DEF SmokeStart, Spawn, Goto
<1>9. CASE SmokeStep(c)
  <2>1. /\ pc[c] \in Conversing /\ Runner(c)
        /\ UNCHANGED <<dirVars, opVars, bpc, bdir, bver, path, ran, gate>>
    BY <1>9 DEF SmokeStep, buildVars
  <2>2. /\ DirInv' /\ Onward /\ BuildTypes'
    BY <2>1, <1>1, DirsSame DEF BuildTypes
  <2>3. /\ pc'[c] \in Conversing \cup Over
        /\ \A d \in Calls : d # c => pc'[d] = pc[d]
    BY <2>1, <1>1, RunnerPlaces
  <2>4. UseTypes' /\ \A p \in Users : c # p => SameUse(p) /\ SamePlace(p)
    BY <2>1, <2>3, <1>1, <1>2, <1>3 DEF UseTypes, SameUse, SamePlace
  <2>5. ~bpc[c] /\ ~GivenUp(c)
    BY <2>1, <1>1 DEF CallOk, GivenUp, Conversing
  <2>6. GateOk(c)' /\ RanOk(c)'
    BY <2>1, <2>2, <2>5, <1>1, GateKept, RanKept
  <2>7. CallOk(c)'
    BY <2>1, <2>3, <2>5 DEF CallOk, Unborn, Conversing, Over
  <2> QED BY <2>2, <2>4, <2>6, <2>7, <1>1, OneMoves
<1> QED BY <1>5, <1>6, <1>7, <1>8, <1>9 DEF Call

LEMMA HandlerBegins == Init => HandlerInv
<1> SUFFICES ASSUME Init PROVE HandlerInv
  OBVIOUS
<1>1. UseTypes
  BY DEF Init, UseTypes
<1>2. \A p \in Users : gate[p] = NoSight /\ ran[p] = NoSight /\ bpc[p] = FALSE
  BY DEF Init, Users, Parties
<1>3. \A c \in Calls : pc[c] = "idle"
  BY DEF Init, SmokeInit
<1>4. \A r \in Runs : att[r] = "none"
  BY DEF Init
<1>5. UseInv
  BY <1>1, <1>2, <1>3, <1>4, UsersApart, NoSightDir
  DEF UseInv, CallOk, RunOk, GateOk, RanOk, Unborn
<1> QED BY <1>5, TalkBegins, DirsBegin DEF HandlerInv

LEMMA HandlerStep == HandlerInv /\ [Next]_hVars => HandlerInv'
<1> SUFFICES ASSUME HandlerInv, [Next]_hVars PROVE HandlerInv'
  OBVIOUS
<1>1. TalkInv'
  BY TalkStep DEF HandlerInv
<1>2. ASSUME UNCHANGED <<dirVars, opVars, buildVars, useVars, pc>>
      PROVE  DirInv' /\ BuildTypes' /\ UseInv'
  <2>1. DirInv' /\ Onward
    BY <1>2, DirsSame DEF HandlerInv
  <2>2. UNCHANGED <<bpc, bdir, bver, path, ran, gate, att, pc>>
    BY <1>2 DEF buildVars, useVars
  <2>3. BuildTypes' /\ UseTypes' /\ \A p \in Users : SameUse(p) /\ SamePlace(p)
    BY <2>2 DEF HandlerInv, BuildTypes, UseInv, UseTypes, SameUse, SamePlace
  <2>4. PICK q : q \notin Users /\ q \notin Calls /\ q \notin Runs
    BY Outsider DEF Users
  <2> QED BY <2>1, <2>3, <2>4, OneMoves
<1>3. ASSUME NEW c \in Calls, SmokeProcess(c) PROVE DirInv' /\ BuildTypes' /\ UseInv'
  <2>1. UNCHANGED <<dirVars, opVars, buildVars, useVars>> /\ UNCHANGED runner
    BY <1>3, Zenon DEF SmokeProcess, Process, SayReady, Take, Answer, Chatter, Die
  <2> QED BY <2>1, <1>2 DEF runner
<1>4. ASSUME UNCHANGED hVars PROVE DirInv' /\ BuildTypes' /\ UseInv'
  BY <1>2, <1>4 DEF hVars, smokeVars, runner
<1>5. DirInv' /\ BuildTypes' /\ UseInv'
  BY <1>3, <1>4, AuthoringKeeps, BuildingKeeps, RunningKeeps, CallKeeps, Zenon
  DEF Next, Building, Running
<1> QED BY <1>1, <1>5 DEF HandlerInv

(* A smoke test and an attempt of the command line run at least what was saved      *)
(* when they passed their gate, however many build, save, copy and rename,      *)
(* but for directories where a source has changed that the gate cannot see: one   *)
(* it does not look at, one saved during a build, one newer than a copied binary.  *)
THEOREM SavedIsRun == Spec => []RunsWhatWasSaved
<1>1. HandlerInv => RunsWhatWasSaved
  BY DEF HandlerInv, UseInv, RanOk, Users, RunsWhatWasSaved
<1> QED BY HandlerBegins, HandlerStep, <1>1, PTL DEF Spec
=============================================================================
