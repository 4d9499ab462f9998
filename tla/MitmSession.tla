---------------------------- MODULE MitmSession ----------------------------
(***************************************************************************)
(* One intercepted TCP connection: the session of the optional module      *)
(* (Session in session.rs), the worker that verifies the upstream server   *)
(* (HandshakeJob), and the bridge that moves bytes between the session and *)
(* the two sockets of a forwarding task (CMitmBridge).                     *)
(*                                                                         *)
(* Side 0 is the application, side 1 the upstream server.  Bytes are       *)
(* tokens: "bit", "part" and "hello" make up a ClientHello, "ccs" is a     *)
(* record without content, "flight" and "finish" end a handshake, "close"  *)
(* is an authenticated close_notify, "ech" the alert that asks for a retry *)
(* without ECH, the rest is application data.  Cryptography, certificates, *)
(* status texts and the observer callback are left out.  The handlers are  *)
(* functions on records, since the code calls them from one another.       *)
(***************************************************************************)
EXTENDS Integers, Sequences, SequencesExt

CONSTANTS High,    \* HIGH_WATER, in tokens
          Budget,  \* socket reads and writes of one event, 64 KiB in the code
          Slots,   \* events the recording queue takes
          Plans    \* the situations

VARIABLES plan,    \* what the two ends say, which faults happen
          s,       \* the session
          p,       \* the two sockets and the peers behind them
          host     \* the bridge and its task

mvars == <<plan, s, p, host>>

-----------------------------------------------------------------------------
Side    == {0, 1}
Data    == {"a1", "a2", "u1", "u2"}
DataOf(q) == SelectSeq(q, LAMBDA t : t \in Data)
Both(v) == [i \in Side |-> v]
None    == <<>>

NoConn == [live |-> FALSE, hs |-> TRUE, reader |-> <<>>, closed |-> FALSE, wants |-> <<>>]
Fresh(wants) == [NoConn EXCEPT !.live = TRUE, !.wants = wants]
NoJob  == [st |-> "none", conn |-> NoConn, data |-> <<>>]

Init ==
  /\ plan \in Plans
  /\ s = [st |-> 0, sniff |-> <<>>, deferred |-> <<>>, conn |-> Both(NoConn), job |-> NoJob,
          output |-> Both(<<>>), plain |-> Both(<<>>), pending |-> None, enc |-> Both(<<>>),
          eof |-> Both(FALSE), closeSent |-> Both(FALSE), err |-> "", drain |-> FALSE, late |-> FALSE,
          tap |-> "source", slots |-> Slots, rec |-> Both(<<>>), recEof |-> Both("none")]
  /\ p = [i \in Side |-> [open |-> TRUE, in |-> <<>>, fin |-> FALSE, armed |-> TRUE, mask |-> FALSE,
                          ev |-> {}, sbuf |-> <<>>, blocked |-> FALSE, readClosed |-> FALSE,
                          writeShutdown |-> FALSE, paused |-> FALSE, said |-> 0, hung |-> FALSE,
                          got |-> <<>>, read |-> <<>>]]
  /\ host = [fwd |-> FALSE, failed |-> FALSE, freed |-> FALSE, at |-> "idle", back |-> "idle",
             side |-> 0, left |-> 0, reader |-> 0, budget |-> 0]

-----------------------------------------------------------------------------
(* The recorder behind the session (Tap).  try_data refuses while the      *)
(* queue of a recording is full; data never refuses.                       *)
Refuses(x) == x.tap = "live" /\ plan.recording /\ x.slots = 0
Record(x, i, toks) ==
  IF x.tap # "live" THEN x
  ELSE [x EXCEPT !.rec[i] = @ \o DataOf(toks), !.slots = IF plan.recording /\ @ > 0 THEN @ - 1 ELSE @]
TapEof(x, i, how) == IF x.tap = "live" /\ x.recEof[i] = "none" THEN [x EXCEPT !.recEof[i] = how] ELSE x
OpenTap(x) == IF x.tap = "source" THEN [x EXCEPT !.tap = "live"] ELSE x

(* finish_pending_capture: the fragment that waits, and what is still in   *)
(* the TLS readers.                                                        *)
Kept(x) ==
  LET y == IF x.pending = None THEN x ELSE Record([x EXCEPT !.pending = None], x.pending[1], <<x.pending[2]>>)
      z == Record(Record(y, 0, y.conn[0].reader), 1, y.conn[1].reader)
  IN  IF x.tap # "live" THEN y ELSE [z EXCEPT !.conn[0].reader = <<>>, !.conn[1].reader = <<>>]

(* call and Session::fail: an operation that ended in an error. *)
Called(x) == IF x.err = "" THEN x ELSE [Kept(x) EXCEPT !.tap = "gone"]

Bad(x, why) == [x EXCEPT !.err = why]

(* What is too much in this behaviour: plan.over is empty, or one of        *)
(* "hello" and "deferred" (HELLO_LIMIT bytes of ClientHello, or of what     *)
(* comes before the downstream endpoint) and "queue" (no room for the job). *)
Over(what) == plan.over = what

Ready(x) == x.st = 1 \/ (x.st = 4 /\ \A i \in Side : x.conn[i].live /\ ~x.conn[i].hs)
RecordingPending(x) == x.pending # None \/ \E i \in Side : x.enc[i] # <<>>
CanRead(x, i) ==
  /\ x.err = "" /\ ~x.drain /\ ~x.eof[i] /\ ~RecordingPending(x)
  /\ ~(i = 1 /\ x.job.st # "none")
  /\ Len(x.output[1 - i]) < High /\ Len(x.plain[1 - i]) < High

(* Everything that waits has been written out. *)
Flushed(x) == \A i \in Side : x.output[i] = <<>> /\ x.plain[i] = <<>> /\ x.conn[i].wants = <<>>

(* Session::tick: after an unclean EOF the error waits for the output;     *)
(* only a handshake that began has a deadline.                             *)
Tick(x) ==
  IF x.err # "" THEN x
  ELSE IF x.drain /\ Flushed(x) THEN Bad(x, "drain")
  ELSE IF ~Ready(x) /\ (x.st # 0 \/ x.sniff # <<>>) /\ x.late THEN Bad(x, "timeout")
  ELSE x

(* A fragment the recorder took goes to the other side. *)
Forward(x, i, tok) == [Record(x, i, <<tok>>) EXCEPT !.plain[1 - i] = Append(@, tok)]

(* process_new_packets on one record. *)
Process(x, i, tok) ==
  CASE ~x.conn[i].live  -> Bad(x, "missing endpoint")
    [] tok = "ccs"      -> x
    [] tok = "flight"   -> [x EXCEPT !.conn[i].hs = FALSE, !.conn[i].wants = Append(@, "ufinish")]
    [] tok = "finish"   -> [x EXCEPT !.conn[i].hs = FALSE]
    [] tok = "close"    -> [x EXCEPT !.conn[i].closed = TRUE, !.eof[i] = TRUE]
    [] tok = "ech"      -> Bad(x, "ech")
    [] tok \in Data     -> [x EXCEPT !.conn[i].reader = Append(@, tok)]

(* The plaintext of one side, as far as the recorder takes it. *)
RECURSIVE DrainSide(_, _)
DrainSide(x, i) ==
  IF x.pending # None \/ ~x.conn[i].live THEN x
  ELSE IF x.conn[i].reader = <<>> THEN IF x.conn[i].closed THEN TapEof(x, i, "clean") ELSE x
  ELSE LET tok == Head(x.conn[i].reader)
           y == [x EXCEPT !.conn[i].reader = Tail(@)]
       IN  IF Refuses(x) THEN [y EXCEPT !.pending = <<i, tok>>] ELSE DrainSide(Forward(y, i, tok), i)

(* Encrypt what waits for one side, close_notify after all of it, and move *)
(* records to the output up to the high-water mark.                        *)
Smaller(a, b) == IF a < b THEN a ELSE b
MayClose(x, i) ==
  x.eof[1 - i] /\ ~x.drain /\ ~RecordingPending(x) /\ x.plain[i] = <<>> /\ ~x.closeSent[i]
WriteSide(x, i) ==
  LET c == x.conn[i]
      n == IF c.hs THEN 0 ELSE Smaller(Len(x.plain[i]), High - Len(c.wants))
      y == [x EXCEPT !.conn[i].wants = @ \o SubSeq(x.plain[i], 1, n),
                     !.plain[i] = SubSeq(@, n + 1, Len(@))]
      z == IF ~c.hs /\ MayClose(y, i)
             THEN [y EXCEPT !.conn[i].wants = Append(@, "close"), !.closeSent[i] = TRUE] ELSE y
      m == Smaller(Len(z.conn[i].wants), IF High > Len(z.output[i]) THEN High - Len(z.output[i]) ELSE 0)
  IN  IF ~c.live THEN x
      ELSE [z EXCEPT !.output[i] = @ \o SubSeq(z.conn[i].wants, 1, m),
                     !.conn[i].wants = SubSeq(@, m + 1, Len(@))]

(* feed_tls, pump and finish_upstream call each other.  While a fragment   *)
(* waits for the recorder, further TLS input waits too, encrypted.         *)
RECURSIVE Pump(_)
RECURSIVE FeedTls(_, _, _)

Resumed(x, i, rest) ==
  IF x.pending # None THEN [x EXCEPT !.enc[i] = @ \o rest] ELSE FeedTls(x, i, rest)

FeedTls(x, i, data) ==
  IF x.err # "" \/ data = <<>> THEN x
  ELSE IF x.pending # None
    THEN IF Len(x.enc[i]) + Len(data) > 2 * High THEN Bad(x, "input while paused")
         ELSE [x EXCEPT !.enc[i] = @ \o data]
  ELSE IF i = 1 /\ x.st = 3
    THEN IF ~x.conn[1].live THEN Bad(x, "missing endpoint")
         ELSE IF Over("queue") THEN Bad([x EXCEPT !.conn[1] = NoConn], "queue full")
         ELSE [x EXCEPT !.job = [st |-> "running", conn |-> x.conn[1], data |-> data], !.conn[1] = NoConn]
  ELSE LET y == Process(x, i, Head(data))
           z == IF y.err # "" THEN y ELSE Pump(y)
       IN  IF z.err # "" THEN z ELSE Resumed(z, i, Tail(data))

(* finish_upstream: the downstream endpoint and the recorder exist before  *)
(* any plaintext is drained.                                               *)
FinishUpstream(x) ==
  FeedTls(OpenTap([x EXCEPT !.conn[0] = Fresh(<<"sflight">>), !.st = 4, !.deferred = <<>>]), 0, x.deferred)

FeedKept(x, i) ==
  IF x.err # "" \/ x.pending # None \/ x.enc[i] = <<>> THEN x
  ELSE FeedTls([x EXCEPT !.enc[i] = <<>>], i, x.enc[i])

SettleDrainFirst(x) ==
  LET d == DrainSide(x, 1)
      y == IF x.st = 3 /\ ~x.conn[1].hs THEN FinishUpstream(d) ELSE d
  IN  IF y.err # "" THEN y ELSE WriteSide(WriteSide(DrainSide(DrainSide(y, 0), 1), 0), 1)
Settle(x) ==
  LET y == IF x.st = 3 /\ ~x.conn[1].hs THEN FinishUpstream(x) ELSE x
  IN  IF y.err # "" THEN y ELSE WriteSide(WriteSide(DrainSide(DrainSide(y, 0), 1), 0), 1)

(* A finished flight of the worker, and what it left unread. *)
TakeFlight(x) ==
  LET y == Pump([x EXCEPT !.job = NoJob, !.conn[1] = x.job.conn, !.eof[1] = @ \/ x.job.conn.closed])
  IN  IF y.err # "" THEN y ELSE FeedTls(y, 1, x.job.data)

Pump(x) ==
  LET y == IF x.pending = None \/ Refuses(x) THEN x
           ELSE Forward([x EXCEPT !.pending = None], x.pending[1], x.pending[2])
      z == FeedKept(FeedKept(y, 0), 1)
  IN  IF z.err # "" \/ z.pending # None THEN z
      ELSE CASE z.job.st = "running" -> z
             [] z.job.st = "bad"  -> Bad(z, "upstream")
             [] z.job.st = "done" -> TakeFlight(z)
             [] z.job.st = "none" -> IF z.st < 3 THEN z ELSE Settle(z)

-----------------------------------------------------------------------------
(* Session::hello: the ClientHello is complete, or more of it is awaited. *)
Hello(x, data) ==
  IF Over("hello") THEN Bad(x, "hello limit")
  ELSE IF ~Contains(data, "hello") THEN x
  ELSE Pump([x EXCEPT !.conn[1] = Fresh(<<"chello">>), !.st = 3])

Passthrough(x, i, data) ==
  LET y == Record(OpenTap(x), i, data) IN [y EXCEPT !.output[1 - i] = @ \o data]

Plausible(q) == q[1] \in {"part", "hello"} \/ (q[1] = "bit" /\ (Len(q) = 1 \/ q[2] \in {"part", "hello"}))

(* Session::feed. *)
Sniff(x, data) ==
  LET all == x.sniff \o data
  IN  IF ~Plausible(all) THEN Passthrough([x EXCEPT !.st = 1, !.sniff = <<>>], 0, all)
      ELSE IF all = <<"bit">> THEN [x EXCEPT !.sniff = all]
      ELSE Hello([x EXCEPT !.st = 2, !.sniff = <<>>], all)

Feed(x0, i, data) ==
  LET x == Tick(x0)
  IN  CASE x.err # "" -> x
        [] x.eof[i] -> Bad(x, "data after EOF")
        [] ~CanRead(x, i) -> Bad(x, "capacity")
        [] x.st = 0 /\ i = 0 -> Sniff(x, data)
        [] x.st = 0 /\ i = 1 /\ x.sniff # <<>> -> Bad(x, "upstream spoke")
        [] x.st = 0 /\ i = 1 /\ x.sniff = <<>> -> Passthrough([x EXCEPT !.st = 1], 1, data)
        [] x.st = 1 -> Passthrough(x, i, data)
        [] x.st = 2 -> IF i = 1 THEN Bad(x, "upstream spoke") ELSE Hello(x, data)
        [] x.st > 2 /\ i = 0 /\ ~x.conn[0].live ->
             IF Over("deferred") THEN Bad(x, "deferred limit") ELSE [x EXCEPT !.deferred = @ \o data]
        [] OTHER -> LET y == FeedTls(x, i, data) IN IF y.err # "" THEN y ELSE Pump(y)

(* Session::input_eof: a TCP end without close_notify is a truncation. *)
InputEof(x, i) ==
  LET y == IF x.st = 0 THEN [x EXCEPT !.st = 1] ELSE x
      z == Pump(TapEof(y, i, "cut"))
  IN  IF x.st = 0 /\ x.sniff # <<>> THEN Bad(x, "prefix")
      ELSE IF y.st # 1 /\ ~y.eof[i]
        THEN IF ~Ready(y) THEN Bad(TapEof(y, i, "cut"), "truncated")
             ELSE IF z.err # "" THEN z
             ELSE [z EXCEPT !.drain = TRUE, !.eof[i] = TRUE, !.tap = "gone"]
      ELSE LET w == IF y.st = 1 THEN TapEof(y, i, "clean") ELSE y
           IN  Pump([w EXCEPT !.eof[i] = TRUE])

ShutdownOutput(x, i) ==
  /\ ~x.drain /\ x.eof[1 - i] /\ ~RecordingPending(x) /\ x.output[i] = <<>> /\ x.plain[i] = <<>>
  /\ x.st = 1 \/ (x.closeSent[i] /\ x.conn[i].live /\ x.conn[i].wants = <<>>)

-----------------------------------------------------------------------------
(* A socket reports input again after a read, or when it is selected. *)
Post(q) == IF q.armed /\ q.mask /\ q.in # <<>> THEN [q EXCEPT !.ev = @ \cup {"read"}, !.armed = FALSE] ELSE q
Select(q, read) == Post([q EXCEPT !.mask = read, !.armed = TRUE, !.ev = @ \cup {"write"}])
Trigger(q, e) == [q EXCEPT !.ev = @ \cup {e}]

(* The window thread is in one of the bridge's loops (host.at); each call  *)
(* into the session is a step, so the workers and the two ends run in      *)
(* between.  host.back says where Pump returns to.                         *)
Idle == host.at = "idle"
Home(h) == [h EXCEPT !.at = "idle", !.back = "idle", !.side = 0, !.left = 0, !.reader = 0, !.budget = 0]
Return == host' = Home(host)
Goto(at) == host' = [host EXCEPT !.at = at, !.side = 0, !.left = 0]
GoPump(back) == host' = [(IF back = "idle" THEN Home(host) ELSE host) EXCEPT !.at = "send", !.left = Budget, !.back = back]
Closed(pp) == [i \in Side |-> [pp[i] EXCEPT !.open = FALSE, !.in = <<>>, !.ev = {}]]

(* CMitmBridge::Fail, and CPRCTcpPeer::OnClose with the error: both        *)
(* sockets are closed; the task is released later.                         *)
Fail(x) == s' = x /\ p' = Closed(p) /\ host' = [Home(host) EXCEPT !.failed = TRUE]

(* The guards of Pump and of OnRead, and the start of their loops. *)
StartPump(q) ==
  IF host.failed \/ ~host.fwd THEN p' = q /\ UNCHANGED host ELSE p' = q /\ GoPump("idle")
StartRead(q, i) ==
  /\ p' = q
  /\ IF host.failed \/ ~host.fwd \/ q[i].readClosed THEN UNCHANGED host
     ELSE host' = [host EXCEPT !.at = "read", !.reader = i, !.budget = Budget]

(* OnRead, one turn of its loop: the status, a read, and Feed or InputEof. *)
Status(x) == LET t == Tick(x) IN Called(IF t.err # "" THEN t ELSE Pump(t))
ReadMore ==
  /\ host.at = "read"
  /\ LET i == host.reader
         q == p[i]
     IN \E x \in {Status(s)} :
       \/ x.err # "" /\ Fail(x)
       \/ /\ x.err = "" /\ (~CanRead(x, i) \/ (q.in = <<>> /\ ~q.fin))
          /\ s' = x /\ GoPump("idle")
          /\ p' = IF CanRead(x, i) THEN [p EXCEPT ![i].armed = TRUE] ELSE p
       \/ /\ x.err = "" /\ CanRead(x, i) /\ q.in # <<>>
          /\ \E y \in {Called(Feed(x, i, q.in[1]))} :
               \/ y.err # "" /\ Fail(y)
               \/ /\ y.err = "" /\ s' = y
                  /\ p' = [p EXCEPT ![i] = Post([q EXCEPT !.in = Tail(@), !.armed = TRUE, !.read = @ \o q.in[1]])]
                  /\ host' = [host EXCEPT !.at = "send", !.side = 0, !.left = Budget, !.back = "read",
                                          !.budget = @ - 1]
       \/ /\ x.err = "" /\ CanRead(x, i) /\ q.in = <<>> /\ q.fin
          /\ \E y \in {Called(InputEof(x, i))} :
               \/ y.err # "" /\ Fail(y)
               \/ y.err = "" /\ s' = y /\ p' = [p EXCEPT ![i].readClosed = TRUE] /\ GoPump("idle")
  /\ UNCHANGED plan

(* Pump, one turn of a send loop: peek, send, consume. *)
NextSide == host' = IF host.side = 0 THEN [host EXCEPT !.side = 1, !.left = Budget] ELSE [host EXCEPT !.at = "follow", !.side = 0, !.left = 0]
SendSome ==
  /\ host.at = "send"
  /\ LET i == host.side
     IN \/ /\ p[i].writeShutdown /\ NextSide /\ UNCHANGED <<s, p>>
        \/ /\ ~p[i].writeShutdown /\ host.left = 0
           /\ p' = [p EXCEPT ![i] = Trigger(@, "write")] /\ NextSide /\ UNCHANGED s
        \/ /\ ~p[i].writeShutdown /\ host.left > 0
           /\ \E x \in {Called(Pump(s))} :
               LET n == Smaller(plan.window - Len(p[i].sbuf), Len(x.output[i]))
               IN \/ x.err # "" /\ Fail(x)
                  \/ /\ x.err = "" /\ n = 0 /\ s' = x /\ NextSide
                     /\ p' = [p EXCEPT ![i].blocked = x.output[i] # <<>>]
                  \/ /\ x.err = "" /\ n > 0
                     /\ \E y \in {Called(Pump([x EXCEPT !.output[i] = SubSeq(@, n + 1, Len(@))]))} :
                          \/ y.err # "" /\ Fail(y)
                          \/ /\ y.err = "" /\ s' = y /\ host' = [host EXCEPT !.left = @ - 1]
                             /\ p' = [p EXCEPT ![i].sbuf = @ \o SubSeq(x.output[i], 1, n)]
  /\ UNCHANGED plan

(* The rest of Pump: what the status says about each side, and the end.    *)
Wake(q, paused) == IF q.paused /\ ~paused /\ ~q.readClosed THEN Trigger(q, "read") ELSE q
Follow(x, q0, i) ==
  LET paused == ~CanRead(x, i)
      q == [q0 EXCEPT !.readClosed = @ \/ x.eof[i], !.writeShutdown = @ \/ ShutdownOutput(x, i)]
      read == ~paused /\ ~q.readClosed
      r == IF q.mask # read THEN Select(q, read) ELSE q
  IN  [Wake(r, paused) EXCEPT !.paused = paused]

AllEnded(pp) == \A i \in Side : pp[i].readClosed /\ pp[i].writeShutdown

(* Back in OnRead: another turn, or its budget is spent. *)
GoOn(pp) ==
  LET i == host.reader
  IN  IF host.back = "idle" THEN p' = pp /\ Return
      ELSE IF host.back = "spent"
        THEN /\ p' = IF pp[i].paused \/ pp[i].readClosed THEN pp ELSE [pp EXCEPT ![i] = Trigger(@, "read")]
             /\ Return
      ELSE IF pp[i].readClosed THEN p' = pp /\ Return
      ELSE IF host.budget > 0 THEN p' = pp /\ Goto("read")
      ELSE p' = pp /\ GoPump("spent")

FollowStatus ==
  /\ host.at = "follow"
  /\ \E x \in {Status(s)} :
       \/ x.err # "" /\ Fail(x)
       \/ /\ x.err = "" /\ s' = x
          /\ \E pp \in {[i \in Side |-> Follow(x, p[i], i)]} :
               IF AllEnded(pp) THEN p' = Closed(pp) /\ Return ELSE GoOn(pp)
  /\ UNCHANGED plan

-----------------------------------------------------------------------------
(* Messages of the event window. *)
Receive(i, e) ==
  /\ Idle /\ e \in p[i].ev /\ p[i].open
  /\ LET q == [p EXCEPT ![i].ev = @ \ {e}]
     IN  IF e = "write" THEN StartPump(q)
         ELSE IF e = "read" /\ ~q[i].mask THEN p' = q /\ UNCHANGED host
         ELSE StartRead(q, i)
  /\ UNCHANGED <<plan, s>>

(* OnConnect of the upstream peer. *)
Connected ==
  /\ Idle /\ ~host.fwd /\ p[0].open
  /\ p' = [i \in Side |-> Trigger(Select(p[i], TRUE), "read")]
  /\ host' = [host EXCEPT !.fwd = TRUE, !.at = "send", !.side = 0, !.left = Budget, !.back = "idle"]
  /\ UNCHANGED <<plan, s>>

(* The poll of a pending handshake or recording, and the timer of the      *)
(* task, when they have something to do.                                   *)
Polls == Status(s) # s \/ \E i \in Side : p[i].paused = CanRead(s, i)
OnTimer == Idle /\ host.fwd /\ p[0].open /\ Polls /\ StartPump(p) /\ UNCHANGED <<plan, s>>

(* A connection that is reset: TransportClosed, and both sockets go. *)
Reset == Idle /\ plan.resets /\ p[0].open /\ p' = Closed(p) /\ UNCHANGED <<plan, s, host>>

(* EndTask: the session is dropped. *)
EndTask ==
  /\ Idle /\ ~p[0].open /\ ~host.freed
  /\ host' = [host EXCEPT !.freed = TRUE] /\ s' = [Kept(s) EXCEPT !.tap = "gone"]
  /\ UNCHANGED <<plan, p>>

(* The worker reads one piece of the flight; the certificate is good or    *)
(* not.                                                                    *)
RECURSIVE Flown(_, _)
Flown(c, toks) ==
  IF toks = <<>> THEN c
  ELSE Flown(CASE toks[1] = "flight" -> [c EXCEPT !.hs = FALSE, !.wants = Append(@, "ufinish")]
               [] toks[1] = "close"  -> [c EXCEPT !.closed = TRUE]
               [] toks[1] \in Data   -> [c EXCEPT !.reader = Append(@, toks[1])]
               [] OTHER -> c, Tail(toks))
HandshakeJob(n, good) ==
  /\ s.job.st = "running" /\ n <= Len(s.job.data)
  /\ s' = IF ~good THEN [s EXCEPT !.job.st = "bad"]
          ELSE [s EXCEPT !.job = [st |-> "done", conn |-> Flown(s.job.conn, SubSeq(s.job.data, 1, n)),
                                  data |-> SubSeq(s.job.data, n + 1, Len(s.job.data))]]
  /\ UNCHANGED <<plan, p, host>>

(* The recorder's worker takes an event; the handshake's time is over. *)
Recorded ==
  /\ plan.recording /\ s.slots < Slots /\ s.tap = "live"
  /\ s' = [s EXCEPT !.slots = @ + 1] /\ UNCHANGED <<plan, p, host>>
Late ==
  /\ Idle /\ plan.lates /\ ~s.late /\ s.st # 4 /\ s' = [s EXCEPT !.late = TRUE] /\ UNCHANGED <<plan, p, host>>

(* The ends of the connection.  The application finishes its handshake     *)
(* after it has seen ours, the upstream answers our ClientHello.  They act *)
(* between two messages of the window: an event loop that is running sees  *)
(* what comes meanwhile as if it had come before or after it.              *)
Script(i) == IF i = 0 THEN plan.app ELSE plan.up
Waits(i, tok) ==
  \/ tok = "finish" /\ ~Contains(p[i].got, "sflight")
  \/ tok = "flight" /\ ~Contains(p[i].got, "chello")
Says(i, n) ==
  /\ Idle /\ p[i].open /\ ~p[i].hung /\ p[i].said + n <= Len(Script(i))
  /\ i = 0 \/ host.fwd
  /\ \A k \in 1..n : ~Waits(i, Script(i)[p[i].said + k])
  /\ LET q == [p[i] EXCEPT !.said = @ + n, !.in = Append(@, SubSeq(Script(i), p[i].said + 1, p[i].said + n))]
     IN  p' = [p EXCEPT ![i] = Post(q)]
  /\ UNCHANGED <<plan, s, host>>
Hangs(i) ==
  /\ Idle /\ p[i].open /\ ~p[i].hung /\ (plan.cuts \/ p[i].said = Len(Script(i))) /\ (i = 0 \/ host.fwd)
  /\ p' = [p EXCEPT ![i].hung = TRUE, ![i].fin = TRUE, ![i].ev = @ \cup {"close"}]
  /\ UNCHANGED <<plan, s, host>>
Takes(i) ==
  /\ Idle /\ p[i].sbuf # <<>>
  /\ p' = [p EXCEPT ![i].got = @ \o p[i].sbuf, ![i].sbuf = <<>>, ![i].blocked = FALSE,
                    ![i].ev = IF p[i].blocked /\ p[i].open THEN @ \cup {"write"} ELSE @]
  /\ UNCHANGED <<plan, s, host>>

Next ==
  \/ \E i \in Side, e \in {"read", "write", "close"} : Receive(i, e)
  \/ ReadMore \/ SendSome \/ FollowStatus
  \/ Connected \/ OnTimer \/ Reset \/ EndTask \/ Recorded \/ Late
  \/ \E n \in 1..2, good \in plan.verdicts : HandshakeJob(n, good)
  \/ \E i \in Side : Hangs(i) \/ Takes(i) \/ \E n \in 1..plan.burst : Says(i, n)

Spec == Init /\ [][Next]_mvars

-----------------------------------------------------------------------------
(* Where the data of one side may be: in the hands of the other end, and   *)
(* then backwards through the bridge and the session to the socket.        *)
Sent(i)  == p[1 - i].got \o p[1 - i].sbuf
Ahead(i) == Sent(i) \o s.output[1 - i] \o s.conn[1 - i].wants \o s.plain[1 - i]
Held(i)  == IF s.pending = None \/ s.pending[1] # i THEN <<>> ELSE <<s.pending[2]>>
Behind(i) ==
  s.conn[i].reader \o
  (IF i = 0 THEN s.enc[0] \o s.deferred \o s.sniff
   ELSE s.job.conn.reader \o s.job.data \o s.enc[1])

(* Types, and buffers within their limits: one flight over the mark. *)
MitmTypeOK ==
  /\ s.st \in 0..4 /\ s.slots \in 0..Slots
  /\ \A i \in Side : /\ Len(s.conn[i].wants) <= High + 2
                     /\ Len(p[i].sbuf) <= plan.window
                     /\ Len(s.output[i]) <= High + plan.burst - 1

(* While the session lives, the data read from one end is, in order and    *)
(* once, what the other end has plus what waits on the way, whichever of   *)
(* the buffers a full recorder, a slow handshake or a full socket stopped  *)
(* it in.                                                                  *)
NothingLost ==
  s.err = "" /\ ~host.freed =>
    \A i \in Side : DataOf(p[i].read) = DataOf(Ahead(i) \o Held(i) \o Behind(i))

(* An orderly end is never made up: an end gets close_notify only when the *)
(* other one has sent it, or a FIN only when the other has ended in an     *)
(* orderly way, and both only after all of its data.                       *)
NoForgedEnd ==
  \A i \in Side :
    /\ Contains(Ahead(1 - i), "close") =>
         /\ Contains(p[1 - i].read, "close")
         /\ DataOf(Ahead(1 - i)) = DataOf(p[1 - i].read)
    /\ p[i].writeShutdown =>
         /\ DataOf(Sent(1 - i)) = DataOf(p[1 - i].read)
         /\ s.st = 1 \/ Contains(p[1 - i].read, "close")

(* What is forwarded has been recorded, in order and once. *)
RecordedFirst ==
  s.tap = "live" =>
    \A i \in Side : /\ IsPrefix(s.rec[i], DataOf(p[i].read))
                    /\ IsPrefix(DataOf(Ahead(i)), s.rec[i])

(* A record that says its direction ended cleanly has all of it. *)
CleanIsWhole ==
  \A i \in Side : s.recEof[i] = "clean" =>
    /\ s.rec[i] = DataOf(p[i].read)
    /\ s.st # 1 => Contains(p[i].read, "close")

(* Ending the task does not lose plaintext that was decoded and waited for *)
(* the recorder.                                                           *)
EndKeepsDecoded ==
  host.freed =>
    \A i \in Side : s.pending = None /\ s.conn[i].reader = <<>> /\
                    (s.rec[i] # <<>> => IsPrefix(DataOf(Sent(i)), s.rec[i]))

(* A truncated connection is failed only when both ends have been sent all *)
(* the data that came for them.                                            *)
TruncationDrains ==
  s.err = "drain" => \A i \in Side : DataOf(Sent(i)) = DataOf(p[i].read)

(* Input the session would take does not wait without a message for it;    *)
(* before the handshake is over its deadline ends the wait.                *)
InputHeard ==
  \A i \in Side :
    /\ Idle /\ host.fwd /\ p[i].open /\ ~p[i].readClosed /\ (p[i].in # <<>> \/ p[i].fin)
    /\ CanRead(s, i) /\ ~p[i].paused
    => p[i].ev \cap {"read", "close"} # {} \/ ~Ready(s)

(* The bridge between two TLS connections: every byte is passed on, recorded
   before it leaves, and read again after a pause (NothingLost, RecordedFirst,
   InputHeard); an end is passed on only where one was received, behind what was
   in front of it (NoForgedEnd, CleanIsWhole, TruncationDrains); and what was
   decoded before an error is kept (EndKeepsDecoded). *)
SessionSound ==
  /\ MitmTypeOK /\ NothingLost /\ RecordedFirst /\ InputHeard
  /\ NoForgedEnd /\ CleanIsWhole /\ TruncationDrains /\ EndKeepsDecoded

=============================================================================
