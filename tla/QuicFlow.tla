------------------------------ MODULE QuicFlow ------------------------------
(***************************************************************************)
(* A UDP route that may carry QUIC: the candidate that is held until its   *)
(* ClientHello is complete (CQuicBridge), the connection that terminates   *)
(* it (Live in quic_live.rs) with the task that serves it, and the way a   *)
(* datagram takes through the task (PumpQuic, ForwardClientDatagram,       *)
(* ForwardServerDatagram).                                                 *)
(*                                                                         *)
(* Datagrams of the application are records: "i" is an Initial with part   *)
(* of a ClientHello, "h" one that completes it, "x" an Initial of a kind   *)
(* that is not admitted, "n" no QUIC at all, "d" a datagram under the keys *)
(* of whoever answered the connection.  A datagram counts as one byte.     *)
(* The limit of 512 KiB per candidate is out of reach and left out, and so *)
(* is the capture of what passes.                                          *)
(***************************************************************************)
EXTENDS Integers, Sequences, FiniteSets, SequencesExt

CONSTANTS Flows,
          HeldMax,    \* datagrams (64) and bytes (65536) a candidate may hold
          ByteMax,    \* initialByteLimit
          SlotMax,    \* candidates, 128
          BridgeMax,  \* candidates and connections, 256
          LiveMax,    \* options.connections
          QueueMax,   \* QUEUE_BYTES
          PumpMax,    \* datagrams of one side per PumpQuic, 64
          SendMax,    \* bound: datagrams the task sends on one side
          QuicPlans

VARIABLES qplan,   \* scripts of the applications, what changes meanwhile
          fl,      \* the flows
          slots,   \* admissions
          held,    \* initialBytes
          active,  \* ACTIVE
          enabled, \* ProxyQuicEnabled
          compat   \* what BrowserQuicPolicy says about the process of a flow

qvars == <<qplan, fl, slots, held, active, enabled, compat>>

-----------------------------------------------------------------------------
QSide == {0, 1}

NoBridge == [on |-> FALSE, initial |-> <<>>, inspected |-> 0, rejected |-> FALSE, slot |-> FALSE,
             pending |-> FALSE, age |-> 0, timer |-> FALSE]

(* The connection behind the handle, and its task: it serves, closes, has  *)
(* closed pipe 0, pipe 1, has published finished, has ended.               *)
NoLive == [on |-> FALSE, st |-> "none", in |-> [i \in QSide |-> <<>>], out |-> [i \in QSide |-> <<>>],
           closed |-> [i \in QSide |-> FALSE], detached |-> FALSE, aborted |-> FALSE, finished |-> FALSE,
           sent |-> [i \in QSide |-> 0], bye |-> [i \in QSide |-> FALSE], cut |-> FALSE,
           ended |-> FALSE, ends |-> 0, conn |-> 0]

QInit ==
  /\ qplan \in QuicPlans
  /\ fl = [f \in Flows |-> [b |-> NoBridge, live |-> NoLive, retired |-> FALSE, logged |-> FALSE,
                            open |-> TRUE, wake |-> FALSE, late |-> FALSE, write |-> FALSE, said |-> 0,
                            raw |-> <<>>, fed |-> <<>>, shed |-> <<>>, app |-> <<>>, leg |-> <<>>, replies |-> 0]]
  /\ slots = 0 /\ held = 0 /\ active = 0 /\ enabled = TRUE
  /\ compat = [f \in Flows |-> qplan.compat]

(* The handlers work on a record of one flow and the counters. *)
QWorld(f) == [r |-> fl[f], b |-> fl[f].b, l |-> fl[f].live, slots |-> slots, held |-> held, active |-> active]
QWrite(f, w) ==
  /\ fl' = [fl EXCEPT ![f] = [w.r EXCEPT !.b = w.b, !.live = w.l]]
  /\ slots' = w.slots /\ held' = w.held /\ active' = w.active
  /\ UNCHANGED <<qplan, enabled, compat>>

-----------------------------------------------------------------------------
(* Live::feed. *)
LiveFeed(w, side, d) ==
  LET y == IF side = 0 THEN [w EXCEPT !.r.fed = Append(@, d)] ELSE w
  IN  IF ~w.l.closed[side] /\ Len(w.l.in[side]) < QueueMax THEN [y EXCEPT !.l.in[side] = Append(@, d)] ELSE y

(* Live::drop: notifications are off before it returns; the task stops at  *)
(* its next await.                                                         *)
LiveDrop(w) ==
  [w EXCEPT !.active = @ - 1, !.l.on = FALSE, !.l.detached = TRUE, !.l.closed = [i \in QSide |-> TRUE],
            !.l.aborted = TRUE]

(* ~CQuicBridge: the window goes with it. *)
Release(w) ==
  LET x == [w EXCEPT !.held = @ - Len(w.b.initial), !.slots = IF w.b.slot THEN @ - 1 ELSE @, !.b = NoBridge,
                     !.r.wake = FALSE]
  IN  IF w.l.on THEN LiveDrop(x) ELSE x

ReturnSlot(w) == [w EXCEPT !.slots = IF w.b.slot THEN @ - 1 ELSE @, !.b.slot = FALSE, !.b.timer = FALSE]

(* Live::open: the first datagram with it, the others after it. *)
OpenForgets(w) ==
  LiveFeed([w EXCEPT !.active = @ + 1, !.held = @ - Len(w.b.initial), !.b.initial = <<>>,
                     !.l = [NoLive EXCEPT !.on = TRUE, !.st = "serve", !.conn = w.b.initial[1].conn]],
           0, w.b.initial[1])
LiveOpen(w) ==
  FoldLeft(LAMBDA y, d : LiveFeed(y, 0, d),
           [w EXCEPT !.active = @ + 1, !.held = @ - Len(w.b.initial), !.b.initial = <<>>,
                     !.l = [NoLive EXCEPT !.on = TRUE, !.st = "serve", !.conn = w.b.initial[1].conn]],
           w.b.initial)

(* CQuicBridge::TryOpen.  A candidate that waits for word of the browser's *)
(* compatibility has 2 seconds, any candidate has 5.                       *)
Judged(w, f) ==
  IF ~enabled \/ w.b.age = 5 \/ w.b.inspected < 0 THEN [w EXCEPT !.b.rejected = TRUE]
  ELSE IF ~w.b.pending THEN w
  ELSE IF w.b.age >= 2 \/ compat[f] = "Unavailable" THEN [w EXCEPT !.b.rejected = TRUE]
  ELSE IF compat[f] = "Ready" THEN [w EXCEPT !.b.pending = FALSE] ELSE w
HasRoom(w) == w.active < LiveMax
Decided(w) == w.l.on \/ w.b.rejected
TryOpen(w, f) ==
  LET j == Judged(w, f)
      k == IF j.b.rejected \/ j.b.pending \/ j.b.inspected # 1 THEN j
           ELSE IF HasRoom(j) THEN LiveOpen(j) ELSE [j EXCEPT !.b.rejected = TRUE]
  IN  IF w.l.on THEN w
      ELSE IF w.b.rejected THEN ReturnSlot(w)
      ELSE IF Decided(k) THEN ReturnSlot(k) ELSE k

(* plm_quic_inspect, with what it has seen before. *)
Inspected(before, d) ==
  IF d.kind \in {"x", "n"} THEN -1 ELSE IF d.kind = "h" THEN 1 ELSE before

(* CQuicBridge::Feed: the world, and whether the datagram was kept.  A     *)
(* candidate that overflows is rejected and keeps what it has.             *)
Feed(w, f, side, d) ==
  LET full == Len(w.b.initial) >= HeldMax
      y == [w EXCEPT !.held = @ + 1, !.b.initial = Append(@, d), !.b.rejected = @ \/ full]
      z == IF y.b.rejected THEN y ELSE [y EXCEPT !.b.inspected = Inspected(@, d)]
  IN  IF w.l.on THEN [w |-> LiveFeed(w, side, d), kept |-> TRUE]
      ELSE IF side = 1 THEN [w |-> w, kept |-> FALSE]
      ELSE IF w.held >= ByteMax THEN [w |-> TryOpen([w EXCEPT !.b.rejected = TRUE], f), kept |-> FALSE]
      ELSE [w |-> TryOpen(z, f), kept |-> TRUE]

(* CQuicBridge::Drained. *)
Drained(w) ==
  IF w.l.on THEN w.l.finished /\ \A i \in QSide : w.l.out[i] = <<>> ELSE w.b.rejected /\ w.b.initial = <<>>

(* CQuicBridge::Open. *)
Bridges == Cardinality({g \in Flows : fl[g].b.on})
Open(w, f, d) ==
  IF ~enabled \/ d.kind \in {"n", "d"} \/ compat[f] = "Unavailable" \/ Bridges >= BridgeMax \/ w.slots >= SlotMax
    THEN w
  ELSE LET x == [w EXCEPT !.slots = @ + 1,
                          !.b = [NoBridge EXCEPT !.on = TRUE, !.slot = TRUE, !.timer = TRUE, !.pending = compat[f] = "Pending"]]
           y == Feed(x, f, 0, d).w
       IN  IF y.b.rejected THEN Release(y) ELSE y

(* CUdpProxyTask::PumpQuic: what the connection sends, or what a rejected  *)
(* candidate held, goes out; both queues behind it always accept.          *)
Burst(q) == SubSeq(q, 1, IF Len(q) < PumpMax THEN Len(q) ELSE PumpMax)
Rest(q)  == SubSeq(q, Len(Burst(q)) + 1, Len(q))
Sent(w) ==
  IF w.l.on
    THEN [w EXCEPT !.r.app = @ \o Burst(w.l.out[0]), !.r.leg = @ \o Burst(w.l.out[1]),
                   !.r.write = @ \/ \E i \in QSide : Len(w.l.out[i]) >= PumpMax,
                   !.l.out = [i \in QSide |-> Rest(w.l.out[i])]]
  ELSE IF w.b.rejected
    THEN [w EXCEPT !.r.raw = @ \o Burst(w.b.initial), !.b.initial = Rest(@),
                   !.held = @ - Len(Burst(w.b.initial)), !.r.write = @ \/ Len(w.b.initial) >= PumpMax]
  ELSE w
PumpQuic(w) ==
  LET x == Sent(w)
  IN  IF ~w.b.on THEN w ELSE IF Drained(x) THEN Release([x EXCEPT !.r.retired = x.l.on]) ELSE x

-----------------------------------------------------------------------------
(* ForwardClientDatagram.  Datagrams under the keys of a connection that   *)
(* was terminated and is over are shed, until an Initial begins anew.      *)
Raw(w, d) == [w EXCEPT !.r.raw = Append(@, d)]
Sheds(w, d) == w.r.retired /\ d.kind \in {"n", "d"}
ForwardClientDatagram(w0, f, d) ==
  LET p == PumpQuic(w0)
      w == IF p.r.retired THEN [p EXCEPT !.r.retired = FALSE, !.r.logged = FALSE] ELSE p
      fed == Feed(w, f, 0, d)
      out == PumpQuic(fed.w)
      new == Open([w EXCEPT !.r.logged = TRUE], f, d)
  IN  CASE Sheds(p, d) -> [p EXCEPT !.r.shed = Append(@, d)]
        [] ~Sheds(p, d) /\ w.b.on -> IF fed.kept THEN out ELSE Raw(out, d)
        [] ~Sheds(p, d) /\ ~w.b.on /\ w.r.logged -> Raw(w, d)
        [] OTHER -> IF new.b.on THEN PumpQuic(new) ELSE Raw(new, d)

(* The application's next datagram.  One under keys comes after an answer. *)
Answers(f, c) == {who \in {"mitm", "origin"} : Contains(fl[f].app, [who |-> who, conn |-> c])}
ClientDatagram(f) ==
  /\ fl[f].open /\ fl[f].said < Len(qplan.script[f])
  /\ LET n == fl[f].said + 1
         t == qplan.script[f][n]
         d == [n |-> n, kind |-> t[1], conn |-> t[2], key |-> IF t[1] = "d" THEN CHOOSE who \in Answers(f, t[2]) : TRUE ELSE "none"]
         w == QWorld(f)
     IN  /\ t[1] = "d" => Answers(f, t[2]) # {}
         /\ QWrite(f, ForwardClientDatagram([w EXCEPT !.r.said = n], f, d))

(* ForwardServerDatagram, on an answer of the origin to the application or *)
(* to the connection that terminates it.                                   *)
ServerDatagram(f, who, c) ==
  /\ fl[f].open /\ fl[f].replies < SendMax
  /\ \/ who = "origin" /\ \E k \in DOMAIN fl[f].raw : fl[f].raw[k].kind = "h" /\ fl[f].raw[k].conn = c
     \/ who = "leg" /\ \E k \in DOMAIN fl[f].leg : fl[f].leg[k].conn = c
  /\ LET w == [QWorld(f) EXCEPT !.r.replies = @ + 1]
         d == [who |-> who, conn |-> c]
     IN  QWrite(f, IF w.b.on THEN PumpQuic(Feed(w, f, 1, d).w)
                   ELSE IF w.r.retired THEN w ELSE [w EXCEPT !.r.app = Append(@, d)])

(* WindowProc, for a posted notification or the timer of the candidate,    *)
(* and FD_WRITE of the route.                                              *)
Wake(f) ==
  /\ fl[f].b.on /\ (fl[f].wake \/ fl[f].b.timer)
  /\ QWrite(f, PumpQuic(TryOpen([QWorld(f) EXCEPT !.r.wake = FALSE], f)))
RouteWritable(f) ==
  /\ fl[f].write /\ fl[f].open
  /\ QWrite(f, PumpQuic([QWorld(f) EXCEPT !.r.write = FALSE]))

(* The route goes, with its bridge. *)
RouteClosed(f) ==
  /\ qplan.closes /\ fl[f].open
  /\ LET w == [QWorld(f) EXCEPT !.r.open = FALSE, !.r.write = FALSE]
     IN  QWrite(f, IF w.b.on THEN Release(w) ELSE w)

Clock(f) ==
  /\ fl[f].b.on /\ ~fl[f].live.on /\ fl[f].b.age < 5
  /\ fl' = [fl EXCEPT ![f].b.age = IF @ = 0 THEN 2 ELSE 5]
  /\ UNCHANGED <<qplan, slots, held, active, enabled, compat>>
Disable ==
  /\ qplan.disables /\ enabled /\ enabled' = FALSE
  /\ UNCHANGED <<qplan, fl, slots, held, active, compat>>
Report(f, state) ==
  /\ compat[f] = "Pending" /\ state \in qplan.reports /\ compat' = [compat EXCEPT ![f] = state]
  /\ UNCHANGED <<qplan, fl, slots, held, active, enabled>>

-----------------------------------------------------------------------------
(* The task of the connection, on other threads. *)
TaskStep(f, x) == fl' = [fl EXCEPT ![f] = x] /\ UNCHANGED <<qplan, slots, held, active, enabled, compat>>

(* A notification reaches the window, which must still be there. *)
Notified(x) == IF x.b.on THEN [x EXCEPT !.wake = TRUE] ELSE [x EXCEPT !.late = TRUE]

(* Pipe::poll_recv. *)
TaskReads(f, i) ==
  /\ fl[f].live.st \in {"serve", "closing"} /\ ~fl[f].live.closed[i] /\ fl[f].live.in[i] # <<>>
  /\ TaskStep(f, [fl[f] EXCEPT !.live.in[i] = Tail(@)])

(* Pipe::try_send: the host is told when the queue was empty. *)
MaySend(l, i) == ~l.closed[i]
Pushed(x, i, d) ==
  LET y == [x EXCEPT !.live.out[i] = Append(@, d)] IN IF x.live.out[i] = <<>> THEN Notified(y) ELSE y
TaskSends(f, i) ==
  LET l == fl[f].live
  IN  /\ l.st = "serve" /\ MaySend(l, i) /\ Len(l.out[i]) < QueueMax /\ l.sent[i] < SendMax
      /\ TaskStep(f, Pushed([fl[f] EXCEPT !.live.sent[i] = @ + 1], i,
                            [who |-> IF i = 0 THEN "mitm" ELSE "leg", conn |-> l.conn]))

(* serve has returned; the endpoints send CONNECTION_CLOSE and have two    *)
(* seconds for it.                                                         *)
TaskServed(f) ==
  fl[f].live.st = "serve" /\ TaskStep(f, [fl[f] EXCEPT !.live.st = "closing"])
TaskSaysBye(f, i) ==
  LET l == fl[f].live
  IN  /\ l.st = "closing" /\ ~l.bye[i] /\ MaySend(l, i) /\ Len(l.out[i]) < QueueMax
      /\ TaskStep(f, Pushed([fl[f] EXCEPT !.live.bye[i] = TRUE], i, [who |-> "bye", conn |-> l.conn]))
TaskIdle(f) ==
  LET l == fl[f].live
  IN  /\ l.st = "closing" /\ ~l.aborted
      /\ TaskStep(f, [fl[f] EXCEPT !.live.st = "idle", !.live.cut = \E i \in QSide : ~l.bye[i]])

(* No await from here on: the pipes are closed, the connection is retired, *)
(* and finished is published; then the host is told.                       *)
Finish(l) == IF l.ended THEN l ELSE [l EXCEPT !.ended = TRUE, !.ends = @ + 1]
Closing(l) ==
  CASE l.st = "idle"    -> [l EXCEPT !.st = "closed0", !.closed[0] = TRUE, !.in[0] = <<>>]
    [] l.st = "closed0" -> [l EXCEPT !.st = "closed1", !.closed[1] = TRUE, !.in[1] = <<>>]
    [] l.st = "closed1" -> [Finish(l) EXCEPT !.st = "finished", !.finished = TRUE]
TaskCloses(f) ==
  /\ fl[f].live.st \in {"idle", "closed0", "closed1"}
  /\ TaskStep(f, [fl[f] EXCEPT !.live = Closing(@)])
TellsAlways(l) == TRUE
Tells(l) == ~l.detached
TaskEnds(f) ==
  /\ fl[f].live.st = "finished"
  /\ LET x == [fl[f] EXCEPT !.live = Finish([@ EXCEPT !.st = "end"])]
     IN  TaskStep(f, IF Tells(fl[f].live) THEN Notified(x) ELSE x)
TaskAborted(f) ==
  /\ fl[f].live.aborted /\ fl[f].live.st \in {"serve", "closing"}
  /\ TaskStep(f, [fl[f] EXCEPT !.live = Finish([@ EXCEPT !.st = "end"])])

QNext ==
  \/ \E f \in Flows :
       \/ ClientDatagram(f) \/ Wake(f) \/ RouteWritable(f) \/ RouteClosed(f) \/ Clock(f)
       \/ \E who \in {"origin", "leg"}, c \in 1..2 : ServerDatagram(f, who, c)
       \/ \E state \in {"Ready", "Unavailable"} : Report(f, state)
       \/ TaskServed(f) \/ TaskIdle(f) \/ TaskCloses(f) \/ TaskEnds(f) \/ TaskAborted(f)
       \/ \E i \in QSide : TaskReads(f, i) \/ TaskSends(f, i) \/ TaskSaysBye(f, i)
  \/ Disable

QSpec == QInit /\ [][QNext]_qvars

-----------------------------------------------------------------------------
Numbers(q) == {q[k].n : k \in DOMAIN q}
Ascending(q) == \A j, k \in DOMAIN q : j < k => q[j].n < q[k].n

(* Types, and the limits hold together. *)
QuicTypeOK ==
  /\ slots \in 0..SlotMax /\ held \in 0..ByteMax /\ active \in 0..LiveMax
  /\ \A f \in Flows : /\ fl[f].b.age \in {0, 2, 5} /\ Len(fl[f].b.initial) <= HeldMax + 1
                       /\ \A i \in QSide : Len(fl[f].live.out[i]) <= QueueMax

(* The process-wide counters are what the flows hold, whichever way a      *)
(* candidate ended: admitted, rejected, overflown, timed out or destroyed. *)
CountersBalance ==
  /\ slots = Cardinality({f \in Flows : fl[f].b.slot})
  /\ active = Cardinality({f \in Flows : fl[f].live.on})
  /\ held = FoldLeft(LAMBDA n, f : n + Len(fl[f].b.initial), 0, SetToSeq(Flows))

(* Every datagram of the application has gone one way, once and in order:  *)
(* to the origin as it was, into the connection that terminates it, shed,  *)
(* or it is held.                                                          *)
OnceInOrder ==
  \A f \in Flows :
    LET r == fl[f]
    IN  /\ Ascending(r.raw) /\ Ascending(r.fed) /\ Ascending(r.b.initial)
        /\ r.open => Numbers(r.raw) \cup Numbers(r.fed) \cup Numbers(r.shed) \cup Numbers(r.b.initial) = 1..r.said
        /\ Len(r.raw) + Len(r.fed) + Len(r.shed) + Len(r.b.initial) <= r.said

(* A datagram is late when the application has begun another connection on *)
(* the flow before it sends it.                                            *)
Late(f, d) ==
  \E n \in 1..(d.n - 1) : qplan.script[f][n][1] \in {"i", "h", "x"} /\ qplan.script[f][n][2] > d.conn

(* What the application encrypts for the connection that terminates its    *)
(* traffic does not reach the origin, except late: the Initial of the next *)
(* connection makes the route forget that it was retired, and what comes   *)
(* after it under the old keys goes the way of the new connection.  What   *)
(* it encrypts for the origin never enters a terminated connection.        *)
KeysMatch ==
  \A f \in Flows :
    /\ \A k \in DOMAIN fl[f].raw : fl[f].raw[k].key = "mitm" => Late(f, fl[f].raw[k])
    /\ \A k \in DOMAIN fl[f].fed : fl[f].fed[k].key # "origin"

(* No thread posts to the window of a bridge that is gone. *)
NoLateWake == \A f \in Flows : ~fl[f].late

(* A connection that is over is taken away only after the application and  *)
(* the origin have been sent all of it, the farewell included.             *)
FarewellSent ==
  \A f \in Flows :
    LET r == fl[f]
    IN  r.retired /\ ~r.live.cut =>
          \A i \in QSide : Contains(IF i = 0 THEN r.app ELSE r.leg, [who |-> "bye", conn |-> r.live.conn])

(* The connection the monitor shows ends exactly once, whether its task    *)
(* returned or was aborted, and whoever was first.                         *)
EndsOnce == \A f \in Flows : fl[f].live.ends <= 1 /\ (fl[f].live.st = "end" => fl[f].live.ends = 1)

(* Nothing is held without a timer or a message that will release it, and  *)
(* output of a live connection always has a notification under way.        *)
HeldIsWatched ==
  \A f \in Flows :
    LET r == fl[f]
    IN  r.b.on =>
          IF r.live.on
            THEN (\E i \in QSide : r.live.out[i] # <<>>) \/ r.live.st = "end" => r.wake \/ r.write
            ELSE IF r.b.rejected THEN r.write ELSE r.b.timer

=============================================================================
