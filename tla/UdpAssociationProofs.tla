------------------------ MODULE UdpAssociationProofs ------------------------
(* Proofs about UdpAssociation, for every set of tasks and profiles and every
   limit, delay and cooldown.  What they say does not depend on the contents of
   the queues, only on whether one is empty. *)
EXTENDS UdpAssociation, SequenceTheorems, TLAPS

-----------------------------------------------------------------------------
(* A task is a record of its fields, of which these are read by the handlers to
   decide (the others are data that they carry). *)
Fields == {"up", "server", "route", "wait", "delay", "idle", "pending", "bytes",
           "replies", "replyBytes", "sent", "delivered", "got", "heard"}
IsTask(k) == k = [f \in Fields |-> k[f]]

Control == {"up", "server", "route", "wait", "delay"}

(* x differs from k in its data only. *)
SameControl(x, k) ==
    /\ IsTask(x) /\ \A f \in Control : x[f] = k[f]
    /\ k.pending = <<>> => x.pending = <<>>

(* The circuit likewise. *)
CircuitOK(c) ==
    /\ c = [f \in {"state", "failures", "blocked", "key"} |-> c[f]]
    /\ c.state \in {"unknown", "supported", "unsupported", "unavailable"}
    /\ c.failures \in 0..Threshold /\ c.blocked \in 0..Cooldown
Keys == {"direct", "http", "socks5"}

(* What a task satisfies: its socket and its route are as its state says, and it
   neither sleeps nor waits for its first datagram with one in its queue. *)
Good(k) ==
    /\ IsTask(k) /\ k.up \in States /\ k.server \in {"none", "open", "closed"}
    /\ k.route \in BOOLEAN /\ k.wait \in Nat /\ k.delay \in Nat
    /\ k.up \in {"associating", "ready"} => k.server = "open"
    /\ k.up \in {"reserved", "dormant", "absent"} => k.server = "none" /\ k.pending = <<>>
    /\ k.up \in {"reconnectWait", "closing"} => k.server # "open"
    /\ k.route <=> k.up \notin {"closing", "absent"}

(* What the circuit c satisfies for the only task, when it is k: an association
   that works has made it "supported", and a scheduled retry is not earlier than
   the end of a block. *)
Patient(k, c) ==
    /\ k.up = "ready" => c.state = "supported"
    /\ k.up = "reconnectWait" /\ c.state = "unavailable" => k.wait >= c.blocked

(* What a handler makes of a task k and the circuit c. *)
After(k, c, key, r) ==
    /\ Good(r.k) /\ r.k.up # "absent" /\ CircuitOK(r.c)
    /\ k.route /\ ~r.k.route => r.c.state = "unsupported"
    /\ key # "direct" /\ Patient(k, c) => Patient(r.k, r.c)

LEMMA Limits ==
    /\ Threshold \in Nat /\ Threshold > 0 /\ Cooldown \in Nat /\ BaseDelay \in Nat /\ MaxDelay \in Nat
BY AssociationAssumption

-----------------------------------------------------------------------------
(* The circuit. *)

LEMMA ClosedType ==
    ASSUME NEW key
    PROVE  CircuitOK(ClosedCircuit(key)) /\ ClosedCircuit(key).state = "unknown"
BY Limits DEF ClosedCircuit, CircuitOK

LEMMA EnsureType ==
    ASSUME NEW c, CircuitOK(c), NEW key
    PROVE  CircuitOK(EnsureUdpCapabilityProfile(c, key))
BY ClosedType DEF EnsureUdpCapabilityProfile

LEMMA FailureType ==
    ASSUME NEW c, CircuitOK(c), NEW permanent \in BOOLEAN
    PROVE  /\ CircuitOK(ReportFailure(c, permanent))
           /\ permanent => ReportFailure(c, permanent).state = "unsupported"
           /\ ReportFailure(c, permanent).state # "supported"
<1>1. PICK n : n = Smaller(c.failures + 1, Threshold)
  OBVIOUS
<1>2. n \in 0..Threshold
  BY <1>1, Limits DEF Smaller, CircuitOK
<1>3. 0 \in 0..Cooldown /\ Cooldown \in 0..Cooldown
  BY Limits
<1> QED BY <1>1, <1>2, <1>3 DEF ReportFailure, CircuitOK

LEMMA ReportType ==
    ASSUME NEW c, CircuitOK(c), NEW key, NEW permanent \in BOOLEAN
    PROVE  /\ CircuitOK(ReportUdpAssociationFailure(c, key, permanent))
           /\ CircuitOK(ReportUdpAssociationReady(c, key))
           /\ ReportUdpAssociationReady(c, key).state = "supported"
<1>1. PICK e : e = EnsureUdpCapabilityProfile(c, key)
  OBVIOUS
<1>2. CircuitOK(e)
  BY <1>1, EnsureType
<1>3. CircuitOK(ReportFailure(e, permanent))
  BY <1>2, FailureType
<1>4. 0 \in 0..Threshold /\ 0 \in 0..Cooldown
  BY Limits
<1>5. /\ CircuitOK([e EXCEPT !.state = "supported", !.failures = 0, !.blocked = 0])
      /\ [e EXCEPT !.state = "supported", !.failures = 0, !.blocked = 0].state = "supported"
  BY <1>2, <1>4 DEF CircuitOK
<1> QED BY <1>1, <1>3, <1>5 DEF ReportUdpAssociationFailure, ReportUdpAssociationReady

-----------------------------------------------------------------------------
(* The queues. *)

LEMMA DropSame ==
    ASSUME NEW k, IsTask(k), NEW n
    PROVE  IsTask(Drop(k, n)) /\ \A f \in Fields \ {"pending", "bytes"} : Drop(k, n)[f] = k[f]
BY DEF Drop, IsTask, Fields

LEMMA QueueSame ==
    ASSUME NEW k, IsTask(k), NEW d
    PROVE  /\ IsTask(QueueDatagram(k, d))
           /\ \A f \in Fields \ {"pending", "bytes"} : QueueDatagram(k, d)[f] = k[f]
<1>1. PICK n : n = Evicted(k.pending, k.bytes, d.size)
  OBVIOUS
<1>2. PICK x : x = Drop(k, n)
  OBVIOUS
<1>3. IsTask(x) /\ \A f \in Fields \ {"pending", "bytes"} : x[f] = k[f]
  BY <1>2, DropSame
<1>4. QueueDatagram(k, d) = [x EXCEPT !.pending = Append(@, d), !.bytes = @ + d.size]
  BY <1>1, <1>2 DEF QueueDatagram
<1> QED BY <1>3, <1>4 DEF IsTask, Fields

LEMMA ReplySame ==
    ASSUME NEW k, IsTask(k), NEW d
    PROVE  SameControl(QueueReply(k, d), k)
<1>1. PICK n : n = Evicted(k.replies, k.replyBytes, d.size)
  OBVIOUS
<1>2. QueueReply(k, d) =
        [k EXCEPT !.replies = Append(SubSeq(@, n + 1, Len(@)), d),
                  !.replyBytes = @ - Bytes(SubSeq(k.replies, 1, n)) + d.size]
  BY <1>1 DEF QueueReply
<1> QED BY <1>2 DEF SameControl, IsTask, Fields, Control

LEMMA FlushSame ==
    ASSUME NEW k, IsTask(k), NEW ids
    PROVE  SameControl(FlushPendingReplies(k, ids), k)
BY DEF FlushPendingReplies, SameControl, IsTask, Fields, Control

LEMMA ExpireSame ==
    ASSUME NEW k, IsTask(k)
    PROVE  SameControl(ExpirePendingDatagrams(k), k)
<1>1. PICK n : n = Fewest(k.pending, LAMBDA i : i = Len(k.pending) \/ ~Expired(k.pending[i + 1]))
  OBVIOUS
<1>2. ExpirePendingDatagrams(k) = Drop(k, n)
  BY <1>1 DEF ExpirePendingDatagrams
<1>3. ASSUME k.pending = <<>> PROVE Drop(k, n).pending = <<>>
  <2>1. Len(k.pending) = 0 /\ 0..Len(k.pending) = {0}
    BY <1>3
  <2>2. n = 0
    BY <1>1, <2>1 DEF Fewest
  <2>3. SubSeq(<<>>, 1, 0) = <<>>
    OBVIOUS
  <2>4. SubSeq(k.pending, n + 1, Len(k.pending)) = <<>>
    BY <1>3, <2>1, <2>2, <2>3
  <2> QED BY <2>4 DEF Drop, IsTask, Fields
<1> QED BY <1>2, <1>3, DropSame DEF SameControl, Control, Fields

LEMMA TidySame ==
    ASSUME NEW k, IsTask(k), NEW ids
    PROVE  SameControl(FlushPendingReplies(ExpirePendingDatagrams(k), ids), k)
<1>1. PICK x : x = ExpirePendingDatagrams(k)
  OBVIOUS
<1>2. SameControl(x, k)
  BY <1>1, ExpireSame
<1>3. SameControl(FlushPendingReplies(x, ids), x)
  BY <1>2, FlushSame DEF SameControl
<1> QED BY <1>1, <1>2, <1>3 DEF SameControl

LEMMA SameGood ==
    ASSUME NEW k, NEW x, Good(k), SameControl(x, k)
    PROVE  Good(x) /\ \A c : Patient(k, c) => Patient(x, c)
BY DEF Good, SameControl, Control, Patient

-----------------------------------------------------------------------------
(* The association. *)

(* A task of which a handler has changed the state or the socket only. *)
Plain(k) ==
    /\ IsTask(k) /\ k.up \in States \ {"absent"} /\ k.server \in {"none", "open", "closed"}
    /\ k.route \in BOOLEAN /\ k.wait \in Nat /\ k.delay \in Nat
    /\ k.route <=> k.up # "closing"

LEMMA GoodIsPlain ==
    ASSUME NEW k, Good(k), k.up # "absent"
    PROVE  Plain(k) /\ (k.up = "closing" => k.server # "open")
BY DEF Good, Plain

LEMMA CloseGood ==
    ASSUME NEW k, Plain(k)
    PROVE  /\ Good(CloseTask(k)) /\ CloseTask(k).up = "closing" /\ ~CloseTask(k).route
           /\ \A c : Patient(CloseTask(k), c)
BY DEF CloseTask, CloseSocket, Good, Plain, Patient, IsTask, Fields, States

LEMMA ScheduleGood ==
    ASSUME NEW k, Plain(k), k.up = "closing" => k.server # "open"
    PROVE  LET x == ScheduleServerReconnect(k) IN
           /\ Good(x) /\ x.up \in {"closing", "reconnectWait"} /\ x.route = k.route
           /\ x.up = "closing" <=> k.up = "closing"
<1>1. CASE k.up = "closing"
  BY <1>1 DEF ScheduleServerReconnect, Good, Plain, States
<1>2. CASE k.up # "closing"
  <2>1. PICK w : w = (IF k.up = "reconnectWait" THEN k.wait ELSE k.delay)
    OBVIOUS
  <2>2. w \in Nat
    BY <2>1 DEF Plain
  <2>3. ScheduleServerReconnect(k) =
          [k EXCEPT !.up = "reconnectWait", !.wait = w, !.server = CloseSocket(@)]
    BY <1>2, <2>1 DEF ScheduleServerReconnect
  <2> QED BY <1>2, <2>2, <2>3 DEF CloseSocket, Good, Plain, IsTask, Fields, States
<1> QED BY <1>1, <1>2

LEMMA FailedGood ==
    ASSUME NEW k, Plain(k), k.up # "closing", NEW c, CircuitOK(c)
    PROVE  LET x == UpstreamFailed(k, c) IN
           /\ Good(x) /\ x.up # "absent" /\ Patient(x, c)
           /\ ~x.route => c.state = "unsupported"
<1>1. CASE c.state = "unsupported"
  BY <1>1, CloseGood DEF UpstreamFailed, Good, States
<1>2. CASE c.state # "unsupported"
  <2>1. PICK x : x = ScheduleServerReconnect(k)
    OBVIOUS
  <2>2. Good(x) /\ x.up = "reconnectWait" /\ x.route
    BY <2>1, ScheduleGood DEF Plain
  <2>3. CASE Blocks(c)
    <3>1. UpstreamFailed(k, c) = [x EXCEPT !.wait = Cooldown]
      BY <1>2, <2>1, <2>3 DEF UpstreamFailed
    <3>2. PICK y : y = [x EXCEPT !.wait = Cooldown]
      OBVIOUS
    <3>3. Good(y) /\ y.up = "reconnectWait" /\ y.route /\ y.wait = Cooldown
      BY <2>2, <3>2, Limits DEF Good, IsTask, Fields
    <3>4. c.blocked <= Cooldown
      BY Limits DEF CircuitOK
    <3> QED BY <3>1, <3>2, <3>3, <3>4, Limits DEF Patient, CircuitOK
  <2>4. CASE ~Blocks(c)
    <3>1. UpstreamFailed(k, c) = x
      BY <1>2, <2>1, <2>4 DEF UpstreamFailed
    <3> QED BY <2>2, <2>4, <3>1 DEF Patient, Blocks
  <2> QED BY <2>3, <2>4
<1> QED BY <1>1, <1>2

LEMMA CreateGood ==
    ASSUME NEW k, Plain(k), k.up # "closing", NEW key
    PROVE  LET x == CreateServerPeer(k, key) IN
           /\ Good(x) /\ x.up = (IF key = "direct" THEN "ready" ELSE "associating")
           /\ x.route /\ x.server = "open"
<1>1. CASE key = "direct"
  BY <1>1, Limits DEF CreateServerPeer, Good, Plain, IsTask, Fields, States
<1>2. CASE key # "direct"
  BY <1>2 DEF CreateServerPeer, Good, Plain, IsTask, Fields, States
<1> QED BY <1>1, <1>2

(* Sending from the queue keeps the association or schedules a new one. *)
LEMMA SendGood ==
    ASSUME NEW k, Good(k), k.up # "absent", NEW o
    PROVE  LET x == SendIfReady(k, o) IN
           /\ Good(x) /\ x.up # "absent" /\ x.route = k.route
           /\ \A c : Patient(k, c) => Patient(x, c)
<1>1. CASE ~(k.up = "ready" /\ k.server = "open")
  BY <1>1 DEF SendIfReady
<1>2. CASE k.up = "ready" /\ k.server = "open"
  <2>1. PICK n : n = Smaller(o.takes, Len(k.pending))
    OBVIOUS
  <2>2. PICK y : y = Drop(k, n)
    OBVIOUS
  <2>3. IsTask(y) /\ \A f \in Fields \ {"pending", "bytes"} : y[f] = k[f]
    BY <2>2, DropSame DEF Good
  <2>4. PICK z : z = [y EXCEPT !.sent = @ \o SubSeq(k.pending, 1, n)]
    OBVIOUS
  <2>5. IsTask(z) /\ \A f \in Control : z[f] = k[f]
    BY <2>3, <2>4 DEF IsTask, Fields, Control
  <2>6. Good(z) /\ z.up = "ready"
    BY <1>2, <2>5 DEF Good, Control, States
  <2>7. SendIfReady(k, o) = z \/ SendIfReady(k, o) = ScheduleServerReconnect(z)
    BY <1>2, <2>1, <2>2, <2>4 DEF SendIfReady, SendPending
  <2>8. LET x == ScheduleServerReconnect(z) IN Good(x) /\ x.up = "reconnectWait" /\ x.route = z.route
    BY <2>6, GoodIsPlain, ScheduleGood
  <2> QED BY <1>2, <2>5, <2>6, <2>7, <2>8 DEF Patient, Control
<1> QED BY <1>1, <1>2

LEMMA ReconnectAfter ==
    ASSUME NEW k, Good(k), k.up = "reconnectWait", NEW c, CircuitOK(c), NEW key, NEW o
    PROVE  After(k, c, key, Reconnect(k, c, key, o))
<1>1. PICK k1 : k1 = [k EXCEPT !.server = "none"]
  OBVIOUS
<1>2. Good(k1) /\ k1.up = "reconnectWait" /\ k1.route /\ Plain(k1)
  BY <1>1 DEF Good, Plain, IsTask, Fields, States
<1>3. CASE o.create = "ok"
  <2>1. PICK k2 : k2 = CreateServerPeer(k1, key)
    OBVIOUS
  <2>2. /\ Good(k2) /\ k2.up = (IF key = "direct" THEN "ready" ELSE "associating") /\ k2.route
    BY <1>2, <2>1, CreateGood
  <2>3. PICK k3 : k3 = SendIfReady(k2, o)
    OBVIOUS
  <2>4. Good(k3) /\ k3.up # "absent" /\ k3.route /\ (Patient(k2, c) => Patient(k3, c))
    BY <2>2, <2>3, SendGood
  <2>5. Reconnect(k, c, key, o) = [k |-> k3, c |-> c]
    BY <1>1, <1>3, <2>1, <2>3 DEF Reconnect
  <2>6. key # "direct" => Patient(k2, c)
    BY <2>2 DEF Patient
  <2> QED BY <2>4, <2>5, <2>6 DEF After
<1>4. CASE o.create # "ok"
  <2>1. PICK c1 : c1 = ReportUdpAssociationFailure(c, key, o.create = "unsupported")
    OBVIOUS
  <2>2. CircuitOK(c1)
    <3>1. (o.create = "unsupported") \in BOOLEAN
      OBVIOUS
    <3> QED BY <2>1, <3>1, ReportType
  <2>3. PICK d : d = Smaller(k.delay * 2, MaxDelay)
    OBVIOUS
  <2>4. d \in Nat
    BY <2>3, Limits DEF Smaller, Good
  <2>5. PICK x : x = IF c1.state = "unsupported" THEN CloseTask(k1)
                     ELSE IF Blocks(c1) THEN [k1 EXCEPT !.wait = Cooldown]
                     ELSE [k1 EXCEPT !.delay = d, !.wait = d]
    OBVIOUS
  <2>6. Reconnect(k, c, key, o) = [k |-> x, c |-> c1]
    BY <1>1, <1>4, <2>1, <2>3, <2>5 DEF Reconnect
  <2>7. Good(x) /\ x.up # "absent" /\ Patient(x, c1) /\ (~x.route => c1.state = "unsupported")
    <3>1. CASE c1.state = "unsupported"
      BY <1>2, <2>5, <3>1, CloseGood
    <3>2. CASE c1.state # "unsupported" /\ Blocks(c1)
      <4>1. Good(x) /\ x.up = "reconnectWait" /\ x.route /\ x.wait = Cooldown
        BY <1>2, <2>5, <3>2, Limits DEF Good, IsTask, Fields
      <4>2. x.wait >= c1.blocked
        BY <2>2, <4>1, Limits DEF CircuitOK
      <4> QED BY <4>1, <4>2 DEF Patient
    <3>3. CASE c1.state # "unsupported" /\ ~Blocks(c1)
      <4>1. Good(x) /\ x.up = "reconnectWait" /\ x.route
        BY <1>2, <2>4, <2>5, <3>3 DEF Good, IsTask, Fields
      <4> QED BY <3>3, <4>1 DEF Patient, Blocks
    <3> QED BY <3>1, <3>2, <3>3
  <2> QED BY <2>2, <2>6, <2>7 DEF After
<1> QED BY <1>3, <1>4

LEMMA WritableAfter ==
    ASSUME NEW k, Good(k), k.up # "absent", NEW c, CircuitOK(c), NEW key, NEW o
    PROVE  After(k, c, key, OnServerWritable(k, c, key, o))
<1>1. PICK k1 : k1 = FlushPendingReplies(ExpirePendingDatagrams(k), o.ids)
  OBVIOUS
<1>2. /\ Good(k1) /\ k1.up = k.up /\ k1.route = k.route
      /\ \A e : Patient(k, e) => Patient(k1, e)
  BY <1>1, TidySame, SameGood DEF Good, SameControl, Control
<1>3. CASE k.up = "closing"
  BY <1>3 DEF OnServerWritable, After
<1>4. CASE k.up = "reconnectWait" /\ k.wait > 0
  <2>1. OnServerWritable(k, c, key, o) = [k |-> k1, c |-> c]
    BY <1>1, <1>4 DEF OnServerWritable
  <2> QED BY <1>2, <1>4, <2>1 DEF After
<1>5. CASE k.up = "reconnectWait" /\ ~(k.wait > 0)
  <2>1. OnServerWritable(k, c, key, o) = Reconnect(k1, c, key, o)
    BY <1>1, <1>5 DEF OnServerWritable
  <2>2. After(k1, c, key, Reconnect(k1, c, key, o))
    BY <1>2, <1>5, ReconnectAfter
  <2> QED BY <1>2, <2>1, <2>2 DEF After
<1>6. CASE k.up \notin {"closing", "reconnectWait"}
  <2>1. OnServerWritable(k, c, key, o) = [k |-> SendIfReady(k1, o), c |-> c]
    BY <1>1, <1>6 DEF OnServerWritable
  <2>2. LET x == SendIfReady(k1, o) IN
        /\ Good(x) /\ x.up # "absent" /\ x.route = k1.route
        /\ \A e : Patient(k1, e) => Patient(x, e)
    BY <1>2, SendGood
  <2> QED BY <1>2, <2>1, <2>2 DEF After
<1> QED BY <1>3, <1>4, <1>5, <1>6

LEMMA WakeAfter ==
    ASSUME NEW k, Plain(k), k.up \in {"reserved", "dormant"}, NEW c, CircuitOK(c), NEW key, NEW o
    PROVE  After(k, c, key, WakeServerAssociation(k, c, key, o))
<1>1. PICK k1 : k1 = [k EXCEPT !.up = "associating", !.delay = BaseDelay]
  OBVIOUS
<1>2. Plain(k1) /\ k1.up = "associating" /\ k1.route
  BY <1>1, Limits DEF Plain, IsTask, Fields, States
<1>3. CASE o.create # "ok"
  <2>1. PICK c1 : c1 = ReportUdpAssociationFailure(c, key, o.create = "unsupported")
    OBVIOUS
  <2>2. CircuitOK(c1)
    <3>1. (o.create = "unsupported") \in BOOLEAN
      OBVIOUS
    <3> QED BY <2>1, <3>1, ReportType
  <2>3. WakeServerAssociation(k, c, key, o) = [k |-> UpstreamFailed(k1, c1), c |-> c1]
    BY <1>1, <1>3, <2>1 DEF WakeServerAssociation
  <2> QED BY <1>2, <2>2, <2>3, FailedGood DEF After
<1>4. CASE o.create = "ok"
  <2>1. PICK k2 : k2 = CreateServerPeer(k1, key)
    OBVIOUS
  <2>2. Good(k2) /\ k2.up = (IF key = "direct" THEN "ready" ELSE "associating") /\ k2.route
    BY <1>2, <2>1, CreateGood
  <2>3. key # "direct" => Patient(k2, c)
    BY <2>2 DEF Patient
  <2>4. CASE k2.up = "ready"
    <3>1. WakeServerAssociation(k, c, key, o) = OnServerWritable(k2, c, key, o)
      BY <1>1, <1>4, <2>1, <2>4 DEF WakeServerAssociation
    <3>2. After(k2, c, key, OnServerWritable(k2, c, key, o))
      BY <2>2, <2>4, WritableAfter
    <3> QED BY <2>2, <2>3, <3>1, <3>2 DEF After
  <2>5. CASE k2.up # "ready"
    <3>1. WakeServerAssociation(k, c, key, o) = [k |-> k2, c |-> c]
      BY <1>1, <1>4, <2>1, <2>5 DEF WakeServerAssociation
    <3> QED BY <2>2, <2>3, <3>1 DEF After
  <2> QED BY <2>4, <2>5
<1> QED BY <1>3, <1>4

(* Queueing for an association that is being made, works or waits. *)
LEMMA QueueGood ==
    ASSUME NEW k, Good(k), k.up \notin {"reserved", "dormant", "absent"}, NEW d
    PROVE  LET x == QueueDatagram(k, d) IN
           /\ Good(x) /\ x.up = k.up /\ x.route = k.route
           /\ \A c : Patient(k, c) => Patient(x, c)
<1>1. PICK x : x = QueueDatagram(k, d)
  OBVIOUS
<1>2. IsTask(x) /\ \A f \in Control : x[f] = k[f]
  BY <1>1, QueueSame DEF Good, Control, Fields
<1> QED BY <1>1, <1>2 DEF Good, Control, Patient

(* A handler that leaves the circuit alone and keeps the route. *)
LEMMA KeepsAfter ==
    ASSUME NEW k, NEW c, CircuitOK(c), NEW key, NEW x, Good(x), x.up # "absent",
           x.route = k.route, Patient(k, c) => Patient(x, c)
    PROVE  After(k, c, key, [k |-> x, c |-> c])
<1>1. [k |-> x, c |-> c].k = x /\ [k |-> x, c |-> c].c = c
  OBVIOUS
<1> QED BY <1>1 DEF After

LEMMA ForwardAfter ==
    ASSUME NEW k, Good(k), k.route, NEW c, CircuitOK(c), NEW key, NEW d, NEW o
    PROVE  After(k, c, key, ForwardUpstreamDatagram(k, c, key, d, o))
<1>0. k.up \notin {"closing", "absent"}
  BY DEF Good
<1>1. CASE ShouldActivateUpstream(k.up)
  <2>1. PICK x : x = QueueDatagram(k, d)
    OBVIOUS
  <2>2. IsTask(x) /\ \A f \in Control : x[f] = k[f]
    BY <2>1, QueueSame DEF Good, Control, Fields
  <2>3. Plain(x) /\ x.up \in {"reserved", "dormant"}
    BY <1>1, <2>2 DEF Good, Plain, Control, ShouldActivateUpstream, States
  <2>4. After(x, c, key, WakeServerAssociation(x, c, key, o))
    BY <2>3, WakeAfter
  <2>5. x.route = k.route /\ (Patient(k, c) => Patient(x, c))
    BY <2>2 DEF Control, Patient
  <2>6. ForwardUpstreamDatagram(k, c, key, d, o) = WakeServerAssociation(x, c, key, o)
    BY <1>1, <2>1 DEF ForwardUpstreamDatagram
  <2> QED BY <2>4, <2>5, <2>6 DEF After
<1>2. CASE ~ShouldActivateUpstream(k.up) /\ SendsAtOnce(k) /\ o.takes > 0
  <2>1. PICK x : x = [k EXCEPT !.sent = Append(@, d)]
    OBVIOUS
  <2>2. SameControl(x, k)
    BY <2>1 DEF Good, SameControl, IsTask, Fields, Control
  <2>3. ForwardUpstreamDatagram(k, c, key, d, o) = [k |-> x, c |-> c]
    BY <1>2, <2>1 DEF ForwardUpstreamDatagram
  <2>4. Good(x) /\ x.up = k.up /\ x.route = k.route /\ (Patient(k, c) => Patient(x, c))
    BY <2>2, SameGood DEF SameControl, Control
  <2> QED BY <1>0, <2>3, <2>4, KeepsAfter
<1>3. CASE ~ShouldActivateUpstream(k.up) /\ SendsAtOnce(k) /\ ~(o.takes > 0)
  <2>1. PICK y : y = IF o.refuses = "error" THEN ScheduleServerReconnect(k) ELSE k
    OBVIOUS
  <2>2. /\ Good(y) /\ y.up \in {"reconnectWait", "ready"} /\ y.route = k.route
        /\ Patient(k, c) => Patient(y, c)
    <3>1. k.up = "ready"
      BY <1>3 DEF SendsAtOnce
    <3>2. LET x == ScheduleServerReconnect(k) IN
          Good(x) /\ x.up = "reconnectWait" /\ x.route = k.route
      BY <1>0, <3>1, GoodIsPlain, ScheduleGood
    <3> QED BY <2>1, <3>1, <3>2 DEF Patient
  <2>3. ForwardUpstreamDatagram(k, c, key, d, o) = [k |-> QueueDatagram(y, d), c |-> c]
    BY <1>3, <2>1 DEF ForwardUpstreamDatagram
  <2>4. PICK x : x = QueueDatagram(y, d)
    OBVIOUS
  <2>5. Good(x) /\ x.up = y.up /\ x.route = y.route /\ (Patient(y, c) => Patient(x, c))
    BY <2>2, <2>4, QueueGood
  <2> QED BY <2>2, <2>3, <2>4, <2>5, KeepsAfter
<1>4. CASE ~ShouldActivateUpstream(k.up) /\ ~SendsAtOnce(k)
  <2>1. ForwardUpstreamDatagram(k, c, key, d, o) = [k |-> QueueDatagram(k, d), c |-> c]
    BY <1>4 DEF ForwardUpstreamDatagram
  <2>2. k.up \notin {"reserved", "dormant", "absent"}
    BY <1>0, <1>4 DEF ShouldActivateUpstream
  <2>3. PICK x : x = QueueDatagram(k, d)
    OBVIOUS
  <2>4. Good(x) /\ x.up = k.up /\ x.route = k.route /\ (Patient(k, c) => Patient(x, c))
    BY <2>2, <2>3, QueueGood
  <2> QED BY <2>1, <2>2, <2>3, <2>4, KeepsAfter
<1> QED BY <1>1, <1>2, <1>3, <1>4

LEMMA MaintenanceAfter ==
    ASSUME NEW k, Good(k), k.up # "absent", NEW c, CircuitOK(c), NEW key, NEW o
    PROVE  After(k, c, key, OnMaintenanceTimer(k, c, key, o))
<1>1. PICK k1 : k1 = FlushPendingReplies(ExpirePendingDatagrams(k), o.ids)
  OBVIOUS
<1>2. /\ Good(k1) /\ k1.up = k.up /\ k1.route = k.route
      /\ \A e : Patient(k, e) => Patient(k1, e)
  BY <1>1, TidySame, SameGood DEF Good, SameControl, Control
<1>3. CASE k.up = "closing"
  BY <1>3 DEF OnMaintenanceTimer, After
<1>4. CASE k.up # "closing" /\ ShouldActivateUpstream(k.up)
  <2>1. OnMaintenanceTimer(k, c, key, o) = [k |-> k1, c |-> c]
    BY <1>1, <1>4 DEF OnMaintenanceTimer
  <2> QED BY <1>2, <2>1 DEF After
<1>5. CASE k.up # "closing" /\ ~ShouldActivateUpstream(k.up) /\ ShouldEnterDormant(k1)
  <2>1. PICK x : x = EnterServerDormant(k1)
    OBVIOUS
  <2>2. Good(x) /\ x.up = "dormant" /\ x.route
    BY <1>2, <1>5, <2>1, Limits DEF EnterServerDormant, ShouldEnterDormant, Good, IsTask,
       Fields, States
  <2>3. OnMaintenanceTimer(k, c, key, o) = [k |-> x, c |-> c]
    BY <1>1, <1>5, <2>1 DEF OnMaintenanceTimer
  <2> QED BY <2>2, <2>3 DEF After, Patient
<1>6. CASE k.up # "closing" /\ ~ShouldActivateUpstream(k.up) /\ ~ShouldEnterDormant(k1)
  <2>1. OnMaintenanceTimer(k, c, key, o) = OnServerWritable(k, c, key, o)
    BY <1>1, <1>6 DEF OnMaintenanceTimer
  <2> QED BY <2>1, WritableAfter
<1> QED BY <1>3, <1>4, <1>5, <1>6

-----------------------------------------------------------------------------
(* The actions. *)

(* The circuit is the only task's own: nobody outside the scope is ever made. *)
Alone(t) == scope.tasks = {t} /\ t \notin Direct

IInv ==
    /\ task = [t \in Tasks |-> task[t]] /\ scope \in Scopes
    /\ CircuitOK(circuit)
    /\ \A t \in Tasks : Good(task[t])
    /\ \A t \in Tasks : t \notin scope.tasks => task[t].up = "absent"
    /\ \A t \in Tasks : Alone(t) => Patient(task[t], circuit)

LEMMA KeyOf ==
    ASSUME NEW t
    PROVE  Key(t) = "direct" <=> t \in Direct
BY DEF Key

(* A handler's step for one task. *)
LEMMA BecomesStep ==
    ASSUME IInv, NEW t \in Tasks, t \in scope.tasks, NEW r, Becomes(t, r),
           Good(r.k), CircuitOK(r.c), Alone(t) => Patient(r.k, r.c)
    PROVE  IInv'
<1>1. task' = [task EXCEPT ![t] = r.k] /\ circuit' = r.c /\ scope' = scope
  BY DEF Becomes
<1>2. /\ task' = [u \in Tasks |-> task'[u]] /\ task'[t] = r.k
      /\ \A u \in Tasks : u # t => task'[u] = task[u]
  BY <1>1 DEF IInv
<1>3. \A u \in Tasks : Good(task'[u])
  BY <1>2 DEF IInv
<1>4. \A u \in Tasks : u \notin scope'.tasks => task'[u].up = "absent"
  BY <1>1, <1>2 DEF IInv
<1>5. \A u \in Tasks : Alone(u)' => Patient(task'[u], circuit')
  <2> SUFFICES ASSUME NEW u \in Tasks, Alone(u)' PROVE Patient(task'[u], circuit')
    OBVIOUS
  <2>1. u = t /\ Alone(t)
    BY <1>1 DEF Alone
  <2> QED BY <1>1, <1>2, <2>1
<1> QED BY <1>1, <1>2, <1>3, <1>4, <1>5 DEF IInv

(* A handler that a task in use has run. *)
LEMMA AfterStep ==
    ASSUME IInv, NEW t \in Tasks, t \in scope.tasks, NEW k, NEW c,
           NEW r, Becomes(t, r), After(k, c, Key(t), r),
           Alone(t) => Patient(k, c)
    PROVE  IInv'
BY BecomesStep, KeyOf DEF After, Alone

LEMMA InUse ==
    ASSUME IInv, NEW t \in Tasks, task[t].up # "absent"
    PROVE  t \in scope.tasks
BY DEF IInv

LEMMA OpenInUse ==
    ASSUME IInv, NEW t \in Tasks, task[t].server = "open" \/ task[t].route
    PROVE  task[t].up # "absent" /\ t \in scope.tasks
           /\ (task[t].server = "open" => task[t].up \in {"associating", "ready"})
BY DEF IInv, Good, States

(* Each handler, with what it does to the route of its task. *)
Kept(t) == task[t].route /\ ~task'[t].route => circuit'.state = "unsupported"

LEMMA BecomesKept ==
    ASSUME IInv, NEW t \in Tasks, NEW r, Becomes(t, r),
           task[t].route /\ ~r.k.route => r.c.state = "unsupported"
    PROVE  \A u \in Tasks : Kept(u)
<1>1. task' = [task EXCEPT ![t] = r.k] /\ circuit' = r.c
  BY DEF Becomes
<1>2. task'[t] = r.k /\ \A u \in Tasks : u # t => task'[u] = task[u]
  BY <1>1 DEF IInv
<1> QED BY <1>1, <1>2 DEF Kept

LEMMA NewTaskStep ==
    ASSUME IInv, NEW t \in Tasks, t \in scope.tasks, NewTask(t)
    PROVE  IInv' /\ \A u \in Tasks : Kept(u)
<1>1. PICK c : c = CanStartUdpAssociation(t)
  OBVIOUS
<1>2. CircuitOK(c)
  <2>1. PICK e : e = EnsureUdpCapabilityProfile(circuit, Key(t))
    OBVIOUS
  <2>2. CircuitOK(e)
    BY <2>1, EnsureType DEF IInv
  <2>3. CircuitOK(ReportFailure(e, TRUE)) /\ CircuitOK(Attempted(e))
    BY <2>2, FailureType, ClosedType DEF Attempted
  <2>4. c = e \/ c = ReportFailure(e, TRUE) \/ c = Attempted(e)
    BY <1>1, <2>1 DEF CanStartUdpAssociation
  <2> QED BY <2>2, <2>3, <2>4
<1>3. PICK x : x = IF t \notin Direct /\ Blocks(c) THEN task[t]
                   ELSE [task[t] EXCEPT !.up = "reserved", !.route = TRUE]
  OBVIOUS
<1>4. task[t].up = "absent" /\ Becomes(t, [c |-> c, k |-> x])
  BY <1>1, <1>3 DEF NewTask
<1>5. Good(task[t]) /\ ~task[t].route
  BY <1>4 DEF IInv, Good
<1>6. Good(x) /\ x.up \in {"absent", "reserved"}
  BY <1>3, <1>4, <1>5 DEF Good, IsTask, Fields, States
<1>7. Patient(x, c)
  BY <1>6 DEF Patient
<1>8. [c |-> c, k |-> x].k = x /\ [c |-> c, k |-> x].c = c
  OBVIOUS
<1>9. IInv'
  BY <1>2, <1>4, <1>6, <1>7, <1>8, BecomesStep
<1>10. \A u \in Tasks : Kept(u)
  BY <1>4, <1>5, BecomesKept
<1> QED BY <1>9, <1>10

LEMMA ClientDatagramStep ==
    ASSUME IInv, NEW t \in Tasks, NEW size, ClientDatagram(t, size)
    PROVE  IInv' /\ \A u \in Tasks : Kept(u)
<1>1. PICK k : k = [task[t] EXCEPT !.idle = 0, !.got = @ + 1]
  OBVIOUS
<1>2. PICK o : Becomes(t, ForwardUpstreamDatagram(k, circuit, Key(t),
                            [id |-> task[t].got + 1, size |-> size, age |-> 0], o))
  BY <1>1 DEF ClientDatagram
<1>3. Good(task[t]) /\ task[t].route /\ t \in scope.tasks /\ CircuitOK(circuit)
  BY OpenInUse DEF ClientDatagram, IInv
<1>4. SameControl(k, task[t])
  BY <1>1, <1>3 DEF Good, SameControl, IsTask, Fields, Control
<1>5. Good(k) /\ k.route /\ (Patient(task[t], circuit) => Patient(k, circuit))
  BY <1>3, <1>4, SameGood DEF SameControl, Control
<1>6. PICK r : r = ForwardUpstreamDatagram(k, circuit, Key(t),
                            [id |-> task[t].got + 1, size |-> size, age |-> 0], o)
  OBVIOUS
<1>7. After(k, circuit, Key(t), r)
  BY <1>3, <1>5, <1>6, ForwardAfter
<1>8. Alone(t) => Patient(k, circuit)
  BY <1>5 DEF IInv
<1>9. IInv'
  BY <1>2, <1>3, <1>6, <1>7, <1>8, AfterStep
<1>10. \A u \in Tasks : Kept(u)
  BY <1>2, <1>5, <1>6, <1>7, BecomesKept DEF After
<1> QED BY <1>9, <1>10

LEMMA ServerReadyStep ==
    ASSUME IInv, NEW t \in Tasks, ServerReady(t)
    PROVE  IInv' /\ \A u \in Tasks : Kept(u)
<1>1. PICK k : k = [task[t] EXCEPT !.up = "ready", !.delay = BaseDelay]
  OBVIOUS
<1>2. PICK c : c = ReportUdpAssociationReady(circuit, Key(t))
  OBVIOUS
<1>3. PICK o : Becomes(t, OnServerWritable(k, c, Key(t), o))
  BY <1>1, <1>2 DEF ServerReady
<1>4. /\ Good(task[t]) /\ task[t].server = "open" /\ task[t].up = "associating"
      /\ t \in scope.tasks /\ CircuitOK(circuit)
  BY OpenInUse DEF ServerReady, IInv
<1>5. Good(k) /\ k.up = "ready" /\ k.route
  BY <1>1, <1>4, Limits DEF Good, IsTask, Fields, States
<1>6. CircuitOK(c) /\ c.state = "supported"
  BY <1>2, <1>4, ReportType
<1>7. Patient(k, c)
  BY <1>5, <1>6 DEF Patient
<1>8. PICK r : r = OnServerWritable(k, c, Key(t), o)
  OBVIOUS
<1>9. After(k, c, Key(t), r)
  BY <1>5, <1>6, <1>8, WritableAfter
<1>10. IInv'
  BY <1>3, <1>4, <1>7, <1>8, <1>9, AfterStep
<1>11. \A u \in Tasks : Kept(u)
  BY <1>3, <1>5, <1>8, <1>9, BecomesKept DEF After
<1> QED BY <1>10, <1>11

LEMMA ServerClosedStep ==
    ASSUME IInv, NEW t \in Tasks, NEW permanent \in BOOLEAN, ServerClosed(t, permanent)
    PROVE  IInv' /\ \A u \in Tasks : Kept(u)
<1>1. PICK c : c = ReportUdpAssociationFailure(circuit, Key(t), permanent)
  OBVIOUS
<1>2. PICK k : k = [task[t] EXCEPT !.server = "closed"]
  OBVIOUS
<1>3. PICK x : x = UpstreamFailed(k, c)
  OBVIOUS
<1>4. Becomes(t, [c |-> c, k |-> x]) /\ task[t].server = "open"
  BY <1>1, <1>2, <1>3 DEF ServerClosed
<1>5. /\ Good(task[t]) /\ task[t].up \in {"associating", "ready"}
      /\ t \in scope.tasks /\ CircuitOK(circuit)
  BY <1>4, OpenInUse DEF IInv
<1>6. Plain(k) /\ k.up # "closing"
  BY <1>2, <1>5 DEF Good, Plain, IsTask, Fields, States
<1>7. CircuitOK(c)
  BY <1>1, <1>5, ReportType
<1>8. Good(x) /\ Patient(x, c) /\ (~x.route => c.state = "unsupported")
  BY <1>3, <1>6, <1>7, FailedGood
<1>9. [c |-> c, k |-> x].k = x /\ [c |-> c, k |-> x].c = c
  OBVIOUS
<1>10. IInv'
  BY <1>4, <1>5, <1>7, <1>8, <1>9, BecomesStep
<1>11. \A u \in Tasks : Kept(u)
  BY <1>4, <1>8, <1>9, BecomesKept
<1> QED BY <1>10, <1>11

LEMMA ServerWritableStep ==
    ASSUME IInv, NEW t \in Tasks, ServerWritable(t)
    PROVE  IInv' /\ \A u \in Tasks : Kept(u)
<1>1. PICK o : Becomes(t, OnServerWritable(task[t], circuit, Key(t), o))
  BY DEF ServerWritable
<1>2. Good(task[t]) /\ task[t].up # "absent" /\ t \in scope.tasks /\ CircuitOK(circuit)
  BY OpenInUse DEF ServerWritable, IInv
<1>3. PICK r : r = OnServerWritable(task[t], circuit, Key(t), o)
  OBVIOUS
<1>4. After(task[t], circuit, Key(t), r)
  BY <1>2, <1>3, WritableAfter
<1>5. IInv'
  BY <1>1, <1>2, <1>3, <1>4, AfterStep DEF IInv
<1>6. \A u \in Tasks : Kept(u)
  BY <1>1, <1>3, <1>4, BecomesKept DEF After
<1> QED BY <1>5, <1>6

(* A handler that changes the data of a task only. *)
LEMMA SameStep ==
    ASSUME IInv, NEW t \in Tasks, t \in scope.tasks, NEW x, SameControl(x, task[t]),
           Becomes(t, [k |-> x, c |-> circuit])
    PROVE  IInv' /\ \A u \in Tasks : Kept(u)
<1>1. Good(x) /\ x.route = task[t].route /\ (Patient(task[t], circuit) => Patient(x, circuit))
  BY SameGood DEF IInv, SameControl, Control
<1>2. [k |-> x, c |-> circuit].k = x /\ [k |-> x, c |-> circuit].c = circuit
  OBVIOUS
<1>3. PICK r : r = [k |-> x, c |-> circuit]
  OBVIOUS
<1>4. IInv'
  BY <1>1, <1>2, <1>3, BecomesStep DEF IInv
<1>5. \A u \in Tasks : Kept(u)
  BY <1>1, <1>2, <1>3, BecomesKept
<1> QED BY <1>4, <1>5

LEMMA RouteWritableStep ==
    ASSUME IInv, NEW t \in Tasks, RouteWritable(t)
    PROVE  IInv' /\ \A u \in Tasks : Kept(u)
<1>1. PICK ids : Becomes(t, [k |-> FlushPendingReplies(task[t], ids), c |-> circuit])
  BY DEF RouteWritable
<1>2. t \in scope.tasks /\ IsTask(task[t])
  BY OpenInUse DEF RouteWritable, IInv, Good
<1>3. SameControl(FlushPendingReplies(task[t], ids), task[t])
  BY <1>2, FlushSame
<1> QED BY <1>1, <1>2, <1>3, SameStep

LEMMA ServerDatagramStep ==
    ASSUME IInv, NEW t \in Tasks, NEW size, NEW taken, ServerDatagram(t, size, taken)
    PROVE  IInv' /\ \A u \in Tasks : Kept(u)
<1>1. PICK k : k = [task[t] EXCEPT !.idle = 0, !.heard = @ + 1]
  OBVIOUS
<1>2. PICK d : d = [id |-> k.heard, size |-> size, age |-> 0]
  OBVIOUS
<1>3. PICK x : x = IF taken THEN [k EXCEPT !.delivered = Append(@, d)] ELSE QueueReply(k, d)
  OBVIOUS
<1>4. Becomes(t, [c |-> circuit, k |-> x])
  BY <1>1, <1>2, <1>3 DEF ServerDatagram
<1>5. t \in scope.tasks /\ IsTask(task[t])
  BY OpenInUse DEF ServerDatagram, IInv, Good
<1>6. SameControl(k, task[t])
  BY <1>1, <1>5 DEF SameControl, IsTask, Fields, Control
<1>7. SameControl([k EXCEPT !.delivered = Append(@, d)], k)
  BY <1>6 DEF SameControl, IsTask, Fields, Control
<1>8. SameControl(QueueReply(k, d), k)
  BY <1>6, ReplySame DEF SameControl
<1>9. SameControl(x, task[t])
  BY <1>3, <1>6, <1>7, <1>8 DEF SameControl
<1>10. [c |-> circuit, k |-> x] = [k |-> x, c |-> circuit]
  OBVIOUS
<1> QED BY <1>4, <1>5, <1>9, <1>10, SameStep

LEMMA DeletedGood ==
    ASSUME NEW k
    PROVE  Good(Deleted(k)) /\ Deleted(k).up = "absent" /\ \A c : Patient(Deleted(k), c)
BY Limits DEF Deleted, Absent, Good, IsTask, Fields, States, Patient

LEMMA MaintenanceStep ==
    ASSUME IInv, NEW t \in Tasks, Maintenance(t)
    PROVE  IInv' /\ \A u \in Tasks : Kept(u)
<1>1. PICK o : LET r == OnMaintenanceTimer(task[t], circuit, Key(t), o) IN
               Becomes(t, IF IsClosed(r.k) THEN [r EXCEPT !.k = Deleted(@)] ELSE r)
  BY DEF Maintenance
<1>2. Good(task[t]) /\ task[t].up # "absent" /\ t \in scope.tasks /\ CircuitOK(circuit)
  BY InUse DEF Maintenance, IInv
<1>3. PICK r : r = OnMaintenanceTimer(task[t], circuit, Key(t), o)
  OBVIOUS
<1>4. After(task[t], circuit, Key(t), r)
  BY <1>2, <1>3, MaintenanceAfter
<1>5. CASE ~IsClosed(r.k)
  <2>1. Becomes(t, r)
    BY <1>1, <1>3, <1>5
  <2>2. IInv'
    BY <1>2, <1>4, <2>1, AfterStep DEF IInv
  <2>3. \A u \in Tasks : Kept(u)
    BY <1>4, <2>1, BecomesKept DEF After
  <2> QED BY <2>2, <2>3
<1>6. CASE IsClosed(r.k)
  <2>1. PICK q : q = [r EXCEPT !.k = Deleted(@)]
    OBVIOUS
  <2>2. Becomes(t, q)
    BY <1>1, <1>3, <1>6, <2>1
  <2>3. \E x, c : r = [k |-> x, c |-> c]
    BY <1>3 DEF OnMaintenanceTimer, OnServerWritable, Reconnect
  <2>4. q.k = Deleted(r.k) /\ q.c = r.c
    BY <2>1, <2>3
  <2>5. Good(q.k) /\ CircuitOK(q.c) /\ Patient(q.k, q.c)
    BY <1>4, <2>4, DeletedGood DEF After
  <2>6. IInv'
    BY <1>2, <2>2, <2>5, BecomesStep
  <2>7. task[t].route => q.c.state = "unsupported"
    BY <1>4, <1>6, <2>4 DEF After, IsClosed
  <2>8. \A u \in Tasks : Kept(u)
    BY <2>2, <2>7, BecomesKept
  <2> QED BY <2>6, <2>8
<1> QED BY <1>5, <1>6

LEMMA KillTaskStep ==
    ASSUME IInv, NEW t \in Tasks, KillTask(t)
    PROVE  IInv' /\ \A u \in Tasks : u # t => Kept(u)
<1>1. PICK x : x = CloseTask(task[t])
  OBVIOUS
<1>2. PICK r : r = [k |-> x, c |-> circuit]
  OBVIOUS
<1>3. r.k = x /\ r.c = circuit /\ Becomes(t, r) /\ task[t].up # "absent"
  BY <1>1, <1>2 DEF KillTask
<1>4. Good(x) /\ Patient(x, circuit) /\ CircuitOK(circuit) /\ t \in scope.tasks
  BY <1>1, <1>3, InUse, GoodIsPlain, CloseGood DEF IInv
<1>5. IInv'
  BY <1>3, <1>4, BecomesStep
<1>6. \A u \in Tasks : u # t => task'[u] = task[u]
  BY <1>3 DEF Becomes, IInv
<1> QED BY <1>5, <1>6 DEF Kept

LEMMA ProcessExitedStep ==
    ASSUME IInv, NEW t \in Tasks, ProcessExited(t)
    PROVE  IInv' /\ \A u \in Tasks : u # t => Kept(u)
<1>1. PICK x : x = Deleted(task[t])
  OBVIOUS
<1>2. PICK r : r = [k |-> x, c |-> circuit]
  OBVIOUS
<1>3. r.k = x /\ r.c = circuit /\ Becomes(t, r) /\ task[t].up # "absent"
  BY <1>1, <1>2 DEF ProcessExited
<1>4. Good(x) /\ Patient(x, circuit) /\ CircuitOK(circuit) /\ t \in scope.tasks
  BY <1>1, <1>3, InUse, DeletedGood DEF IInv
<1>5. IInv'
  BY <1>3, <1>4, BecomesStep
<1>6. \A u \in Tasks : u # t => task'[u] = task[u]
  BY <1>3 DEF Becomes, IInv
<1> QED BY <1>5, <1>6 DEF Kept

LEMMA RemoveAllStep ==
    ASSUME IInv, RemoveAllTasks
    PROVE  IInv'
<1>1. /\ task' = [t \in Tasks |-> task'[t]] /\ \A t \in Tasks : task'[t] = Deleted(task[t])
      /\ scope' = scope /\ circuit' = ClosedCircuit("none")
  BY DEF RemoveAllTasks
<1>2. \A t \in Tasks : Good(task'[t]) /\ task'[t].up = "absent" /\ Patient(task'[t], circuit')
  BY <1>1, DeletedGood
<1> QED BY <1>1, <1>2, ClosedType DEF IInv

LEMMA TickStep ==
    ASSUME IInv, Tick
    PROVE  IInv' /\ \A u \in Tasks : Kept(u)
<1>1. /\ task' = [t \in Tasks |-> task'[t]] /\ scope' = scope
      /\ circuit' = [circuit EXCEPT !.blocked = Less(@)]
  BY DEF Tick
<1>2. /\ CircuitOK(circuit') /\ circuit'.state = circuit.state
      /\ circuit.blocked \in Nat /\ circuit'.blocked = Less(circuit.blocked)
  BY <1>1, Limits DEF IInv, CircuitOK, Less
<1>3. ASSUME NEW t \in Tasks
      PROVE  /\ Good(task'[t]) /\ task'[t].up = task[t].up /\ task'[t].route = task[t].route
             /\ Patient(task[t], circuit) => Patient(task'[t], circuit')
  <2>1. PICK i : i = IF task[t].up = "absent" THEN task[t].idle ELSE Smaller(task[t].idle + 1, Idle)
    OBVIOUS
  <2>2. task'[t] = [task[t] EXCEPT !.wait = Less(@), !.idle = i,
                                   !.pending = Older(@), !.replies = Older(@)]
    BY <2>1 DEF Tick
  <2>3. /\ IsTask(task'[t]) /\ task'[t].wait = Less(task[t].wait)
        /\ task'[t].pending = Older(task[t].pending)
        /\ \A f \in Control \ {"wait"} : task'[t][f] = task[t][f]
    BY <2>2 DEF IInv, Good, IsTask, Fields, Control
  <2>4. task[t].pending = <<>> => Older(task[t].pending) = <<>>
    BY DEF Older
  <2>5. Good(task'[t])
    BY <2>3, <2>4 DEF IInv, Good, Control, Less
  <2>6. Patient(task[t], circuit) => Patient(task'[t], circuit')
    <3>1. task[t].wait \in Nat
      BY DEF IInv, Good
    <3>2. task[t].wait >= circuit.blocked => Less(task[t].wait) >= Less(circuit.blocked)
      BY <1>2, <3>1 DEF Less
    <3> QED BY <1>2, <2>3, <3>2 DEF Patient, Control
  <2> QED BY <2>3, <2>5, <2>6 DEF Control
<1>4. \A t \in Tasks : Alone(t)' => Patient(task'[t], circuit')
  BY <1>1, <1>3 DEF IInv, Alone
<1>5. IInv'
  BY <1>1, <1>2, <1>3, <1>4 DEF IInv
<1> QED BY <1>3, <1>5 DEF Kept

LEMMA InitHolds == Init => IInv
<1> SUFFICES ASSUME Init PROVE IInv
  OBVIOUS
<1>1. task = [t \in Tasks |-> task[t]] /\ scope \in Scopes /\ CircuitOK(circuit)
  BY ClosedType DEF Init
<1>2. Good(Absent) /\ Absent.up = "absent"
  BY Limits DEF Absent, Good, IsTask, Fields, States
<1>3. \A t \in Tasks : Good(task[t]) /\ task[t].up = "absent"
  BY <1>2 DEF Init
<1> QED BY <1>1, <1>3 DEF IInv, Patient

(* What a step may do to a route. *)
Cut(t) == KillTask(t) \/ ProcessExited(t) \/ RemoveAllTasks

LEMMA StepHolds ==
    ASSUME IInv, [Next]_vars
    PROVE  IInv' /\ \A u \in Tasks : Kept(u) \/ Cut(u)
<1>1. CASE \E t \in scope.tasks : NewTask(t)
  <2>1. scope.tasks \subseteq Tasks
    BY AssociationAssumption DEF IInv
  <2> QED BY <1>1, <2>1, NewTaskStep
<1>2. CASE \E t \in Tasks, size \in Sizes : ClientDatagram(t, size)
  BY <1>2, ClientDatagramStep
<1>3. CASE \E t \in Tasks : ServerReady(t)
  BY <1>3, ServerReadyStep
<1>4. CASE \E t \in Tasks, permanent \in BOOLEAN : ServerClosed(t, permanent)
  BY <1>4, ServerClosedStep
<1>5. CASE \E t \in Tasks : ServerWritable(t)
  BY <1>5, ServerWritableStep
<1>6. CASE \E t \in Tasks : RouteWritable(t)
  BY <1>6, RouteWritableStep
<1>7. CASE \E t \in Tasks, size \in Sizes, taken \in BOOLEAN : ServerDatagram(t, size, taken)
  BY <1>7, ServerDatagramStep
<1>8. CASE \E t \in Tasks : Maintenance(t)
  BY <1>8, MaintenanceStep
<1>9. CASE \E t \in Tasks : KillTask(t)
  BY <1>9, KillTaskStep DEF Cut
<1>10. CASE \E t \in Tasks : ProcessExited(t)
  BY <1>10, ProcessExitedStep DEF Cut
<1>11. CASE RemoveAllTasks
  BY <1>11, RemoveAllStep DEF Cut
<1>12. CASE Tick
  BY <1>12, TickStep
<1>13. CASE UNCHANGED vars
  <2>1. task' = task /\ circuit' = circuit /\ scope' = scope
    BY <1>13 DEF vars
  <2> QED BY <2>1 DEF IInv, Kept, Alone
<1> QED BY <1>1, <1>2, <1>3, <1>4, <1>5, <1>6, <1>7, <1>8, <1>9, <1>10, <1>11, <1>12, <1>13
        DEF Next

LEMMA Invariance == Spec => []IInv
<1>1. IInv /\ [Next]_vars => IInv'
  BY StepHolds
<1> QED BY InitHolds, <1>1, PTL DEF Spec

(* The association behind the queues of a task is sound: its state and its
   socket agree, a queued datagram never waits on an association that nobody is
   making, and the retry of the only task of a proxied profile keeps out of the
   block its own failure caused. *)
THEOREM AssociationHolds == Spec => []AssociationSound
<1>1. IInv => AssociationSound
  <2> SUFFICES ASSUME IInv PROVE AssociationSound
    OBVIOUS
  <2>1. ServerMatchesState
    BY DEF IInv, Good, ServerMatchesState
  <2>2. NeverStranded
    BY DEF IInv, Good, NeverStranded
  <2>3. RetryAfterBlock
    BY DEF IInv, Alone, Patient, RetryAfterBlock
  <2> QED BY <2>1, <2>2, <2>3 DEF AssociationSound
<1> QED BY <1>1, Invariance, PTL

(* A failing association never takes the application's local route with it,
   unless the proxy has been found not to support UDP: only KillTasks, the exit
   of the process and RemoveAllTasks do. *)
THEOREM RouteStays == Spec => RouteKept
<1>1. IInv /\ [Next]_vars =>
        [\A t \in Tasks :
            task[t].route /\ ~task'[t].route =>
                KillTask(t) \/ ProcessExited(t) \/ RemoveAllTasks
                \/ circuit'.state = "unsupported"]_vars
  BY StepHolds DEF Kept, Cut
<1> QED BY <1>1, Invariance, PTL DEF Spec, RouteKept
=============================================================================
