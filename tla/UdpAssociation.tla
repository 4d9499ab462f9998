--------------------------- MODULE UdpAssociation ---------------------------
(***************************************************************************)
(* The upstream half of the UDP forwarding tasks: CUdpProxyTask objects,   *)
(* each with a local route, a SOCKS5 UDP association that comes and goes   *)
(* (m_upstreamState, m_pServer) and two queues, which share the capability *)
(* circuit of CProxyUDPTaskMgr.                                            *)
(*                                                                         *)
(* One window thread runs every handler, so a handler is one action.  The  *)
(* code compares tick counts only by their difference; the model keeps the *)
(* differences: the age of a datagram, the time without traffic, the time  *)
(* left until the next reconnect and until the circuit opens.              *)
(*                                                                         *)
(* A task has one route here (module UdpRoutes has several) and no QUIC    *)
(* bridge (route.quic is empty).                                           *)
(***************************************************************************)
EXTENDS Naturals, Sequences, SequencesExt

CONSTANTS
    Tasks,          \* task slots
    Direct,         \* the tasks whose profile is PROXYTYPE_NOPROXY
    Http,           \* the tasks whose profile is an HTTP proxy
    MaxPackets,     \* maxPackets of QueueDatagram and QueueReply
    MaxBytes,       \* maxBytes of both (a single datagram always fits)
    Sizes,          \* datagram lengths
    Expiry,         \* a queued datagram older than this is dropped
    BaseDelay,      \* first value of m_serverReconnectDelay
    MaxDelay,       \* largest value of m_serverReconnectDelay
    Cooldown,       \* how long the circuit blocks
    Idle,           \* UDP_ASSOCIATION_IDLE_TIMEOUT
    Threshold,      \* consecutive failures that block the circuit
    Scopes          \* bound: [tasks, datagrams, replies, traffic]: the slots in
                    \* use, the datagrams sent and the replies received through
                    \* a slot, both together

ASSUME AssociationAssumption ==
    /\ Direct \subseteq Tasks /\ Http \subseteq Tasks
    /\ Sizes \subseteq 1..MaxBytes
    /\ {MaxPackets, BaseDelay, MaxDelay, Cooldown, Idle, Threshold} \subseteq Nat \ {0}
    /\ {MaxBytes, Expiry} \subseteq Nat
    /\ \A s \in Scopes : s.tasks \subseteq Tasks /\ {s.datagrams, s.replies, s.traffic} \subseteq Nat

VARIABLES
    task,       \* task[t]: the CUdpProxyTask in slot t
    circuit,    \* m_udpCapability and m_udpCapabilityKey
    scope

vars == <<task, circuit, scope>>

States == {"reserved", "associating", "ready", "reconnectWait", "dormant",
           "closing", "absent"}
Datagrams == [id : Nat \ {0}, size : Sizes, age : 0..(Expiry + 1)]

TypeOK ==
    /\ scope \in Scopes
    /\ circuit \in [state : {"unknown", "supported", "unsupported", "unavailable"},
                    failures : 0..Threshold, blocked : 0..Cooldown,
                    key : {"none", "direct", "http", "socks5"}]
    /\ \A t \in Tasks :
        /\ task[t].up \in States
        /\ task[t].server \in {"none", "open", "closed"}
        /\ task[t].route \in BOOLEAN
        /\ task[t].wait \in 0..(Cooldown + MaxDelay + BaseDelay)
        /\ task[t].delay \in 1..(MaxDelay + BaseDelay)
        /\ task[t].idle \in 0..Idle
        /\ task[t].pending \in Seq(Datagrams)
        /\ task[t].replies \in Seq(Datagrams)
        /\ task[t].bytes \in 0..MaxBytes /\ task[t].replyBytes \in 0..MaxBytes
        /\ task[t].sent \in Seq(Datagrams)
        /\ task[t].delivered \in Seq(Datagrams)
        /\ task[t].got \in 0..scope.datagrams
        /\ task[t].heard \in 0..scope.replies

(* The fields got, heard, sent and delivered record what happened: datagrams
   and replies received by the task, datagrams sent upstream, replies handed
   to the application. *)
Absent ==
    [up |-> "absent", server |-> "none", route |-> FALSE, wait |-> 0,
     delay |-> BaseDelay, idle |-> 0, pending |-> <<>>, bytes |-> 0,
     replies |-> <<>>, replyBytes |-> 0,
     sent |-> <<>>, delivered |-> <<>>, got |-> 0, heard |-> 0]

(* A task deleted from its slot (the bounds are those of the slot). *)
Deleted(k) == [Absent EXCEPT !.got = k.got, !.heard = k.heard]

ClosedCircuit(key) ==
    [state |-> "unknown", failures |-> 0, blocked |-> 0, key |-> key]

Init ==
    /\ task = [t \in Tasks |-> Absent]
    /\ circuit = ClosedCircuit("none")
    /\ scope \in Scopes

-----------------------------------------------------------------------------
(* CapabilityCircuit, behind EnsureUdpCapabilityProfile. *)

Smaller(a, b) == IF a <= b THEN a ELSE b
Key(t) ==
    IF t \in Direct THEN "direct" ELSE IF t \in Http THEN "http" ELSE "socks5"

EnsureUdpCapabilityProfile(c, key) == IF c.key = key THEN c ELSE ClosedCircuit(key)

(* CanAttempt: the circuit opens again when the block has run out. *)
Attempted(c) ==
    IF c.state = "unavailable" /\ c.blocked = 0 THEN ClosedCircuit(c.key) ELSE c
Blocks(c) == c.state \in {"unsupported", "unavailable"}

(* ReportFailure; the counter is capped where it is no longer compared. *)
ReportFailure(c, permanent) ==
    LET n == Smaller(c.failures + 1, Threshold) IN
    IF permanent THEN [c EXCEPT !.state = "unsupported", !.blocked = 0]
    ELSE IF c.state = "unsupported" THEN c
    ELSE IF n < Threshold THEN [c EXCEPT !.state = "unknown", !.failures = n]
    ELSE [c EXCEPT !.state = "unavailable", !.failures = n, !.blocked = Cooldown]

ReportUdpAssociationFailure(c, key, permanent) ==
    ReportFailure(EnsureUdpCapabilityProfile(c, key), permanent)

ReportUdpAssociationReady(c, key) ==
    [EnsureUdpCapabilityProfile(c, key) EXCEPT
        !.state = "supported", !.failures = 0, !.blocked = 0]

-----------------------------------------------------------------------------
(* The queues of one task k: m_pending with m_pendingBytes, m_pendingReplies
   with m_pendingReplyBytes. *)

Bytes(s) == FoldLeft(LAMBDA b, d : b + d.size, 0, s)
ExpiredLate(d) == d.age > Expiry + 1   \* mutant: off by one
Expired(d) == d.age > Expiry

(* The fewest of the oldest datagrams of s whose removal satisfies P. *)
Fewest(s, P(_)) ==
    CHOOSE n \in 0..Len(s) : P(n) /\ \A m \in 0..(n - 1) : ~P(m)

Drop(k, n) ==
    [k EXCEPT !.pending = SubSeq(@, n + 1, Len(@)),
              !.bytes = @ - Bytes(SubSeq(k.pending, 1, n))]

ExpirePendingDatagrams(k) ==
    Drop(k, Fewest(k.pending,
                   LAMBDA n : n = Len(k.pending) \/ ~Expired(k.pending[n + 1])))

(* How many make room for one more of this size, in a queue of b bytes. *)
Evicted(s, b, size) ==
    Fewest(s, LAMBDA n :
        n = Len(s) \/ (/\ Len(s) - n < MaxPackets
                       /\ b - Bytes(SubSeq(s, 1, n)) + size <= MaxBytes))

QueueDatagram(k, d) ==
    [Drop(k, Evicted(k.pending, k.bytes, d.size)) EXCEPT
        !.pending = Append(@, d), !.bytes = @ + d.size]

QueueReply(k, d) ==
    LET n == Evicted(k.replies, k.replyBytes, d.size) IN
    [k EXCEPT !.replies = Append(SubSeq(@, n + 1, Len(@)), d),
              !.replyBytes = @ - Bytes(SubSeq(k.replies, 1, n)) + d.size]

(* FlushPendingReplies when the route's socket takes the replies ids: it tries
   every one, so a later reply may overtake an earlier one. *)
FlushPendingReplies(k, ids) ==
    LET took(r) == ~Expired(r) /\ r.id \in ids
        stays(r) == ~Expired(r) /\ r.id \notin ids
    IN [k EXCEPT !.replies = SelectSeq(@, stays),
                 !.replyBytes = @ - Bytes(SelectSeq(k.replies, LAMBDA r : ~stays(r))),
                 !.delivered = @ \o SelectSeq(k.replies, took)]

-----------------------------------------------------------------------------
(* The association of task k.  What the network answers while a handler runs
   is the record o: whether ConnectProxy succeeds, how many datagrams SendTo
   takes and how it refuses the next, which replies the local socket takes. *)
ReplyIds(k) == {r.id : r \in ToSet(k.replies)}

Outcomes(k) ==
    [create : IF k.up \in {"reserved", "dormant", "reconnectWait"}
              THEN {"ok", "refused", "unsupported"} ELSE {"ok"},
     takes : 0..(Len(k.pending) + 1),
     refuses : {"wouldBlock", "error"},
     ids : SUBSET ReplyIds(k)]

CloseSocket(server) == IF server = "open" THEN "closed" ELSE server

CloseTaskKeepsServer(k) ==   \* mutant: m_pServer is not closed
    [k EXCEPT !.up = "closing", !.replies = <<>>, !.replyBytes = 0, !.route = FALSE]
CloseTask(k) ==
    [k EXCEPT !.up = "closing", !.replies = <<>>, !.replyBytes = 0,
              !.route = FALSE, !.server = CloseSocket(@)]

ScheduleServerReconnect(k) ==
    IF k.up = "closing" THEN k
    ELSE [k EXCEPT !.up = "reconnectWait",
                   !.wait = IF k.up = "reconnectWait" THEN @ ELSE k.delay,
                   !.server = CloseSocket(@)]

(* OnPeerClosed, WakeServerAssociation: the failure has made the circuit c. *)
UpstreamFailedCloses(k, c) ==   \* mutant: a blocked circuit closes the task
    IF Blocks(c) THEN CloseTask(k) ELSE ScheduleServerReconnect(k)
UpstreamFailed(k, c) ==
    IF c.state = "unsupported" THEN CloseTask(k)
    ELSE IF Blocks(c) THEN [ScheduleServerReconnect(k) EXCEPT !.wait = Cooldown]
    ELSE ScheduleServerReconnect(k)

(* CreateServerPeer when ConnectProxy succeeds. *)
CreateServerPeer(k, key) ==
    IF key = "direct"
    THEN [k EXCEPT !.server = "open", !.up = "ready", !.delay = BaseDelay]
    ELSE [k EXCEPT !.server = "open", !.up = "associating"]

(* The loop of OnServerWritable over m_pending, in state READY. *)
SendPending(k, o) ==
    LET n  == Smaller(o.takes, Len(k.pending))
        k1 == [Drop(k, n) EXCEPT !.sent = @ \o SubSeq(k.pending, 1, n)]
    IN IF n < Len(k.pending) /\ o.refuses = "error"
       THEN ScheduleServerReconnect(k1) ELSE k1

SendIfReady(k, o) ==
    IF k.up = "ready" /\ k.server = "open" THEN SendPending(k, o) ELSE k

(* The reconnect of OnServerWritable once its time has come. *)
Reconnect(k, c, key, o) ==
    LET k1 == [k EXCEPT !.server = "none"]
        c1 == ReportUdpAssociationFailure(c, key, o.create = "unsupported")
        d  == Smaller(k.delay * 2, MaxDelay)
    IN IF o.create = "ok"
       THEN [k |-> SendIfReady(CreateServerPeer(k1, key), o), c |-> c]
       ELSE [k |-> IF c1.state = "unsupported" THEN CloseTask(k1)
                   ELSE IF Blocks(c1) THEN [k1 EXCEPT !.wait = Cooldown]
                   ELSE [k1 EXCEPT !.delay = d, !.wait = d],
             c |-> c1]

OnServerWritable(k, c, key, o) ==
    LET k1 == FlushPendingReplies(ExpirePendingDatagrams(k), o.ids) IN
    IF k.up = "closing" THEN [k |-> k, c |-> c]
    ELSE IF k.up = "reconnectWait"
    THEN IF k.wait > 0 THEN [k |-> k1, c |-> c] ELSE Reconnect(k1, c, key, o)
    ELSE [k |-> SendIfReady(k1, o), c |-> c]

WakeServerAssociation(k, c, key, o) ==
    LET k1 == [k EXCEPT !.up = "associating", !.delay = BaseDelay]
        c1 == ReportUdpAssociationFailure(c, key, o.create = "unsupported")
        k2 == CreateServerPeer(k1, key)
    IN IF o.create # "ok" THEN [k |-> UpstreamFailed(k1, c1), c |-> c1]
       ELSE IF k2.up = "ready" THEN OnServerWritable(k2, c, key, o)
       ELSE [k |-> k2, c |-> c]

ActivateOnlyReserved(up) == up = "reserved"   \* mutant: a sleeper is not woken
ShouldActivateUpstream(up) == up \in {"reserved", "dormant"}

SendsWhenReady(k) == k.up = "ready" /\ k.server = "open"   \* mutant: queue or not
SendsAtOnce(k) == k.up = "ready" /\ k.server = "open" /\ k.pending = <<>>

(* ForwardUpstreamDatagram: wake the association, or send at once when nothing
   is queued, or queue. *)
ForwardUpstreamDatagram(k, c, key, d, o) ==
    IF ShouldActivateUpstream(k.up)
    THEN WakeServerAssociation(QueueDatagram(k, d), c, key, o)
    ELSE IF SendsAtOnce(k)
    THEN [k |-> IF o.takes > 0 THEN [k EXCEPT !.sent = Append(@, d)]
                ELSE QueueDatagram(IF o.refuses = "error"
                                   THEN ScheduleServerReconnect(k) ELSE k, d),
          c |-> c]
    ELSE [k |-> QueueDatagram(k, d), c |-> c]

DormantOnlyReady(k) ==   \* mutant: an association being made never sleeps
    k.up = "ready" /\ k.pending = <<>> /\ k.replies = <<>> /\ k.idle >= Idle
ShouldEnterDormant(k) == k.pending = <<>> /\ k.replies = <<>> /\ k.idle >= Idle

EnterServerDormant(k) ==
    [k EXCEPT !.up = "dormant", !.delay = BaseDelay, !.server = "none"]

OnMaintenanceTimer(k, c, key, o) ==
    LET k1 == FlushPendingReplies(ExpirePendingDatagrams(k), o.ids) IN
    IF k.up = "closing" THEN [k |-> k, c |-> c]
    ELSE IF ShouldActivateUpstream(k.up) THEN [k |-> k1, c |-> c]
    ELSE IF ShouldEnterDormant(k1) THEN [k |-> EnterServerDormant(k1), c |-> c]
    ELSE OnServerWritable(k, c, key, o)

-----------------------------------------------------------------------------
(* Actions.  Becomes applies what a handler made of task t and the circuit. *)

Becomes(t, r) == task' = [task EXCEPT ![t] = r.k] /\ circuit' = r.c /\ UNCHANGED scope

(* CProxyUDPTaskMgr::OnNewTask, SetTaskInfo.  CanStartUdpAssociation resets the
   circuit for another profile, never blocks a direct one, always blocks an
   HTTP one. *)
CanStartUdpAssociation(t) ==
    LET c == EnsureUdpCapabilityProfile(circuit, Key(t)) IN
    IF t \in Direct THEN c ELSE IF t \in Http THEN ReportFailure(c, TRUE) ELSE Attempted(c)

NewTask(t) ==
    LET c == CanStartUdpAssociation(t) IN
    /\ task[t].up = "absent"
    /\ Becomes(t, [c |-> c,
                   k |-> IF t \notin Direct /\ Blocks(c) THEN task[t]
                         ELSE [task[t] EXCEPT !.up = "reserved", !.route = TRUE]])

(* CPRCUdpPeer::OnReceive on the route: ForwardClientDatagram. *)
ClientDatagram(t, size) ==
    /\ task[t].route /\ task[t].got < scope.datagrams
    /\ task[t].got + task[t].heard < scope.traffic
    /\ \E o \in Outcomes(task[t]) :
        Becomes(t, ForwardUpstreamDatagram(
            [task[t] EXCEPT !.idle = 0, !.got = @ + 1], circuit, Key(t),
            [id |-> task[t].got + 1, size |-> size, age |-> 0], o))

(* CPRCUdpPeer::OnConnect without an error, OnServerReady. *)
ServerReady(t) ==
    /\ task[t].server = "open" /\ task[t].up = "associating"
    /\ \E o \in Outcomes(task[t]) :
        Becomes(t, OnServerWritable(
            [task[t] EXCEPT !.up = "ready", !.delay = BaseDelay],
            ReportUdpAssociationReady(circuit, Key(t)), Key(t), o))

(* CPRCUdpPeer::OnConnect or OnClose with an error: the socket is closed, then
   OnPeerClosed.  "Command not supported" is an answer to the request only. *)
ServerClosed(t, permanent) ==
    LET c == ReportUdpAssociationFailure(circuit, Key(t), permanent) IN
    /\ task[t].server = "open" /\ t \notin Direct
    /\ permanent => task[t].up = "associating"
    /\ Becomes(t, [c |-> c, k |-> UpstreamFailed([task[t] EXCEPT !.server = "closed"], c)])

(* CPRCUdpPeer::OnSend of the server peer, of the route. *)
ServerWritable(t) ==
    /\ task[t].server = "open"
    /\ \E o \in Outcomes(task[t]) : Becomes(t, OnServerWritable(task[t], circuit, Key(t), o))

RouteWritable(t) ==
    /\ task[t].route
    /\ \E ids \in SUBSET ReplyIds(task[t]) :
        Becomes(t, [k |-> FlushPendingReplies(task[t], ids), c |-> circuit])

(* CPRCUdpPeer::OnReceive on the server peer: ForwardServerDatagram,
   DeliverServerDatagram. *)
ServerDatagram(t, size, taken) ==
    LET k == [task[t] EXCEPT !.idle = 0, !.heard = @ + 1]
        d == [id |-> k.heard, size |-> size, age |-> 0]
    IN /\ task[t].server = "open" /\ task[t].up = "ready"
       /\ task[t].heard < scope.replies /\ task[t].got + task[t].heard < scope.traffic
       /\ Becomes(t, [c |-> circuit,
                      k |-> IF taken THEN [k EXCEPT !.delivered = Append(@, d)]
                            ELSE QueueReply(k, d)])

(* One visit of OnTimer(TIMER_TCPPERTASK), then the sweep: RemoveTask, EndTask.
   The handler visits the tasks one after the other; a visit touches its own
   task and the circuit, so single visits only add interleavings. *)
IsClosed(k) == ~k.route /\ k.server # "open"

Maintenance(t) ==
    /\ task[t].up # "absent"
    /\ \E o \in Outcomes(task[t]) :
        LET r == OnMaintenanceTimer(task[t], circuit, Key(t), o) IN
        Becomes(t, IF IsClosed(r.k) THEN [r EXCEPT !.k = Deleted(@)] ELSE r)

(* KillTasks: the application closed its socket. *)
KillTask(t) ==
    /\ task[t].up # "absent"
    /\ Becomes(t, [k |-> CloseTask(task[t]), c |-> circuit])

(* OnTimer(TIMER_IS_TASK_ALIVE): the application's process has exited. *)
ProcessExited(t) ==
    /\ task[t].up # "absent"
    /\ Becomes(t, [k |-> Deleted(task[t]), c |-> circuit])

(* RemoveAllTasks: the proxy is stopped. *)
RemoveAllTasks ==
    /\ task' = [t \in Tasks |-> Deleted(task[t])]
    /\ circuit' = ClosedCircuit("none")
    /\ UNCHANGED scope

(* The tick count grows. *)
Older(s) == [i \in DOMAIN s |-> [s[i] EXCEPT !.age = Smaller(@ + 1, Expiry + 1)]]
Less(n) == IF n > 0 THEN n - 1 ELSE 0

Tick ==
    /\ task' = [t \in Tasks |->
        [task[t] EXCEPT !.wait = Less(@),
                        !.idle = IF task[t].up = "absent" THEN @ ELSE Smaller(@ + 1, Idle),
                        !.pending = Older(@), !.replies = Older(@)]]
    /\ circuit' = [circuit EXCEPT !.blocked = Less(@)]
    /\ UNCHANGED scope

Next ==
    \/ \E t \in scope.tasks : NewTask(t)
    \/ \E t \in Tasks, size \in Sizes : ClientDatagram(t, size)
    \/ \E t \in Tasks : ServerReady(t)
    \/ \E t \in Tasks, permanent \in BOOLEAN : ServerClosed(t, permanent)
    \/ \E t \in Tasks : ServerWritable(t)
    \/ \E t \in Tasks : RouteWritable(t)
    \/ \E t \in Tasks, size \in Sizes, taken \in BOOLEAN : ServerDatagram(t, size, taken)
    \/ \E t \in Tasks : Maintenance(t)
    \/ \E t \in Tasks : KillTask(t)
    \/ \E t \in Tasks : ProcessExited(t)
    \/ RemoveAllTasks
    \/ Tick

Spec == Init /\ [][Next]_vars

(* Time passes and the manager's timer fires again and again (it is set
   whenever the task list is not empty). *)
FairSpec ==
    Spec /\ WF_vars(Tick) /\ \A t \in Tasks : WF_vars(Maintenance(t))

-----------------------------------------------------------------------------
Rising(s) == \A i \in 2..Len(s) : s[i - 1].id < s[i].id

(* A datagram of the application goes upstream at most once and in order: the
   ones sent directly, the ones queued while the association was being made,
   lost or asleep, and the one that woke it (ForwardUpstreamDatagram,
   OnServerWritable). *)
InOrderOnce == \A t \in Tasks : Rising(task[t].sent \o task[t].pending)

(* Whatever delays an association, nothing older than the expiry is sent to
   either side (ExpirePendingDatagrams, FlushPendingReplies). *)
NothingStale ==
    \A t \in Tasks :
        \A d \in ToSet(task[t].sent) \cup ToSet(task[t].delivered) : d.age <= Expiry

(* A reply reaches the application at most once, however often its socket
   refused it (DeliverServerDatagram, FlushPendingReplies). *)
RepliesOnce ==
    \A t \in Tasks :
        LET ids == task[t].delivered \o task[t].replies IN
        \A i, j \in DOMAIN ids : ids[i].id = ids[j].id => i = j

(* m_pendingBytes and m_pendingReplyBytes are exact through every queueing,
   eviction, expiry and flush, so the limits hold and the counters cannot
   underflow. *)
BytesExact ==
    \A t \in Tasks :
        /\ task[t].bytes = Bytes(task[t].pending)
        /\ task[t].replyBytes = Bytes(task[t].replies)
        /\ Len(task[t].pending) <= MaxPackets /\ Len(task[t].replies) <= MaxPackets

(* A queued datagram never waits on an association that nobody is making: the
   task is connected, connecting or about to reconnect (WakeServerAssociation,
   EnterServerDormant). *)
NeverStranded ==
    \A t \in Tasks : task[t].pending # <<>> => task[t].up \notin {"reserved", "dormant"}

(* m_upstreamState and m_pServer agree: no socket is leaked by a task that
   sleeps, waits or closes, and none is missing from one that may send. *)
ServerMatchesState ==
    \A t \in Tasks :
        /\ task[t].up \in {"associating", "ready"} => task[t].server = "open"
        /\ task[t].up \in {"reserved", "dormant", "absent"} => task[t].server = "none"
        /\ task[t].up \in {"reconnectWait", "closing"} => task[t].server # "open"
        /\ task[t].route <=> task[t].up \notin {"closing", "absent"}

(* With a single association at work, the retry after the failure that blocked
   the circuit comes only when the block is over (OnPeerClosed,
   OnServerWritable and WakeServerAssociation set the same 60 seconds).  A
   direct profile is left out: CanStartUdpAssociation never asks the circuit
   about it, and its retries follow m_serverReconnectDelay alone. *)
RetryAfterBlock ==
    \A t \in Tasks \ Direct :
        scope.tasks = {t} /\ task[t].up = "reconnectWait" /\ circuit.state = "unavailable"
            => task[t].wait >= circuit.blocked

(* The failure of an association never closes the application's local route
   (CPRCUdpPeer::OnClose: "keeping the stable local route alive"), unless the
   proxy was found not to support UDP at all. *)
RouteKept ==
    [][\A t \in Tasks :
        task[t].route /\ ~task'[t].route =>
            KillTask(t) \/ ProcessExited(t) \/ RemoveAllTasks
            \/ circuit'.state = "unsupported"]_vars

Most == CHOOSE n \in {s.datagrams : s \in Scopes} : \A s \in Scopes : s.datagrams <= n

(* Every queued datagram leaves the queue: sent, expired or evicted. *)
QueueMoves ==
    \A t \in Tasks, i \in 1..Most :
        (\E d \in ToSet(task[t].pending) : d.id = i)
            ~> (\A d \in ToSet(task[t].pending) : d.id # i)

(* When the traffic has stopped, the association is released, a reconnecting
   or silent one too (OnMaintenanceTimer, EnterServerDormant). *)
IdleReleased == <>[](\A t \in Tasks : task[t].server # "open")

(* A closed task is swept out of the list. *)
ClosedRemoved == \A t \in Tasks : task[t].up = "closing" ~> task[t].up = "absent"

(* The two queues of a task, m_pending and m_pendingReplies: datagrams leave in
   order and once (InOrderOnce), replies once (RepliesOnce), nothing older than
   its limit (NothingStale), and the byte counters that four functions reduce are
   the bytes that wait (BytesExact). *)
QueuesExact == TypeOK /\ InOrderOnce /\ NothingStale /\ RepliesOnce /\ BytesExact

(* The association behind the queues: state and server socket agree
   (ServerMatchesState), whatever waits has somebody who will send it
   (NeverStranded), and a scheduled retry keeps out of the block its own failure
   caused (RetryAfterBlock). *)
AssociationSound == ServerMatchesState /\ NeverStranded /\ RetryAfterBlock

(* Unused associations are released, closed tasks are removed. *)
AssociationsEnd == IdleReleased /\ ClosedRemoved

=============================================================================
