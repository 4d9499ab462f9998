# ProxyLane: TLA+ models, checks and proofs

ProxyLane is a Windows program that sends the network traffic of chosen
processes through a SOCKS4, SOCKS5 or HTTP proxy.  A DLL injected into the
process hooks Winsock; the *proxy reception centre* (PRC), inside the ProxyLane
process, accepts the redirected connections on a loopback port and forwards
them; a Rust library optionally decrypts, records and analyses the traffic; an
MFC program is the user interface.

Contents: the system's parts; the modules; what each module models; the runs,
their bounds and the fairness assumed; the proofs; what was seen while
modelling; what is not modelled.

## The system's parts

| part | state it keeps | operations | what is hard | what makes it correct |
|---|---|---|---|---|
| TCP forwarding task (`PRCTcpPeer`, `TcpProxyTask`) | two sockets, one buffer and one read-closed flag per direction, task flag | the four socket events, connect timeout, end of task | events of two sockets in any order, half-close, early data, back-pressure | bytes in order and complete, end of stream last, nobody waits for ever |
| event window, socket layers (`AsyncSocketEx*`) | socket table, message queue, layer state, event mask, critical error | window procedure, TriggerEvent, CallEvent, ShutDown, name lookup | stale messages, events for closed layers, slots and handles used again | an event reaches the socket and the layer that may handle it, once |
| proxy handshake (`AsyncProxySocketLayer`) | pending operation, dialogue state, reply, request and surplus buffers | OnConnect, OnReceive, OnSend, OnClose, Receive, Send | replies in pieces, payload right behind the reply | exact framing, one outcome |
| secure transport (`AsyncSecureSocketLayer`, `ProxyLaneSecureTransport`) | TLS session, cipher and plaintext queues, water marks | pump, flush, drain, shutdown | back-pressure between two buffers, close | nothing is dropped, reading resumes |
| task managers (`ProxyTaskMgr`) | tables of TCP and UDP tasks, pending registrations, UDP capability record | new task, delete, sweep, reconnect | a task ends while it is looked up; expiry | a registration is used once, no task leaks |
| UDP association (`UdpProxyTask`, `PRCUdpPeer`, `UdpAssociationPolicy`) | upstream state, server peer, routes, datagram and reply queues, idle and retry clocks | register, forward both ways, ready, closed, writable, maintenance, close | association lost while datagrams wait, replies that name no route, tasks sharing a circuit | in order, once and not stale; replies back over their route; no stranded queue, no leaked socket |
| reception centre (`ProxyReceptionCentre`, `PRCTcpServer`, `ProcessRegistry`) | announcements, tasks, suspended and released children, process registry | announce, accept, sweep, restart, child watchdog | process exit, ids and ports used again, restart | a connection is paired with its own announcement; only orphans are terminated |
| control pipe (`PRCPipeServer`, `PRCPipeClient`) | listening instance, workers, launch history, package grants, QUIC table | start, stop, accept, answer | stop against workers, repeated requests | a stopped service leaves nothing, a request is carried out once |
| Winsock hooks (`HookWinsock`, policies) | dummy names, redirected sockets, request pipe, log budget | connect, sendto, lookups, getpeername, closesocket | threads, reuse, changing services | a call goes where the settings say, the application sees the destination it asked for |
| launch and injection (`ElevatedLauncher`, `DeferredMitigationPolicy`, `InjectDll`) | launch request, created process, helper | launch, inject, resume, elevate, roll back | one step of several failing | one start, no frozen process left behind, success means hooked |
| MITM bridge (`MitmBridge`, `ProxyLaneMitm/session.rs`) | two TLS sessions, verification worker, queues, recorder | OnRead, Pump, OnClose, deadlines; start, stop, watchdog | truncation, resets, a full recorder, switching while sessions run | nothing lost, forged or sent unrecorded |
| QUIC bridge (`QuicBridge`, `quic_live.rs`, `quic_raw.rs`) | candidates, live connections, requests, counters | hold, admit, forward, retire, GOAWAY | limits, late datagrams, resets of either leg | a datagram goes on once and under its own keys, refusals are true |
| protocol analysis (`protocol.rs`, `ProxyLaneProtocol`) | event queue, streams, result ring, cache, recording | tap, poll, start, stop, evict, seal, rebuild | slow consumers, a full disk, a crash halfway | losses are reported, "complete" is whole, limits are kept |
| user interface, settings (`ProxyLane`) | draft, profiles, testers, settings file, launch lists | edit, test, launch, import, broker commands | modal boxes, worker threads, other instances | no edit lost, no command run twice, the view shows what it says |

The parts interact by window messages (socket events), by direct calls (a peer
calls its partner, the task and the task manager), by named pipes (hook and
centre, instances of the program), by queues between the centre and the Rust
library, and by the shared settings file.

## Modules

| module | models | checked by run | proved in |
|---|---|---|---|
| `TcpRelay` | one TCP forwarding task: both peers, the helper window's queue, the layer state below the server peer, Winsock and the two remote programs | `tcp_relay_safety`, `tcp_relay_live` | `TcpRelayProofs` |
| `TcpPipe`, `TcpRelayRefinement` | abstract: two byte pipes with an end mark, what a task promises; the mapping to it | `tcp_relay_safety` | `TcpRelayProofs` |
| `SocketWindow` | the helper window: table of sockets, waiting messages, lookups | `tcp_relay_safety` | |
| `ProxyHandshake` | the proxy layer: three proxy protocols, CONNECT and UDP ASSOCIATE, requests and replies in pieces, the surplus behind an HTTP reply | `proxy_handshake` | `HandshakeProofs` |
| `SecureLayer` | the TLS layer to a secure proxy | `host` | |
| `Reception` | how an intercepted TCP connection finds its destination | `reception` | `ReceptionProofs` |
| `UdpAssociation` | UDP tasks seen from the proxy side | `udp_association_safety`, `udp_association_live` | `UdpAssociationProofs` |
| `UdpRoutes` | UDP tasks seen from the application side | `udp_routes` | `UdpRoutesProofs` |
| `ChildGuard` | child processes from creation to release, and their watchdog | `control_plane` | `ControlPlaneProofs` |
| `ControlPipe` | the control pipe's threads, service start and stop, grants, launch history, QUIC table | `control_plane` | `ControlPlaneProofs` |
| `WinsockHooks` | the detoured calls inside a program | `engine` | `EngineProofs` |
| `Launcher` | one launch of an application over all its paths | `engine` | `EngineProofs` |
| `BrowserWatch` | the watch on launched browsers | `engine` | |
| `ProfileBroker` | instances that share a profile | `engine` | |
| `MitmSession` | one intercepted TLS connection | `interception` | |
| `QuicFlow`, `QuicForward` | a UDP flow that may be QUIC; what a terminated QUIC connection forwards | `interception` | |
| `MonitorControl` | the switch of the monitor and its watchdog | `interception` | `EngineProofs` |
| `Capture`, `Recording` | the analysis runtime; the payload cache and the recording on disk | `analysis` | |
| `ProxyTest` | the proxy test | `host` | `ControlPlaneProofs` |
| `SettingsFile` | the shared settings file | `host` | `ControlPlaneProofs` |
| `ProfilePage` | the profile page | `host` | `ControlPlaneProofs` |
| `RecentCache` | the caches of the launch lists | `host` | |
| `Lists` | erasing from a list, the first of a set of positions | with its users | `ListProofs` |

`MCTcpRelay`, `MCReception`, `MCUdpAssociation`, `MCUdpRoutes`, `MCAnalysis`,
`MCControlPlane`, `MCEngine`, `MCInterception` and `MCHost` hold what TLC needs:
destinations, scopes, symmetry, and for the last five the composition.  In a
composition the components share no state that the properties depend on, so one
of them moves in a behaviour (`moves`) and the others stay at their start.
Most modules have *scopes* (or plans, setups, budgets): a record, chosen in
`Init` and never changed, of what a behaviour may do (which faults, how many
requests, which settings).  They are the bounds of the runs; a theorem holds for
every set of scopes its hypotheses allow.

### TcpRelay

One thread runs all sockets of the centre, so a handler is one action:
`LayerMessage` and `OwnerMessage` take the oldest message and run `CallEvent`
with the proxy layer's handlers, or `OnReceive`, `OnSend`, `OnConnect`,
`OnClose` of the peer.  `buf[p]` is `m_recvbuf` between the two positions,
`readClosed` and `writeShut` are the half-close flags, `armed` and `lEvent` the
notifications Winsock owes and the mask.  Between two handlers the kernel
(`Notify`, `NotifyConnect`), the timers (`ConnTimeout`, `TimerSweep`,
`TaskAborted`) and the two remote programs (`Remote...`) act.  A byte is the
number of its position in its stream, so a lost, repeated or misplaced byte is
visible.  The handshake is reduced to its outcome; `ProxyHandshake` has its
detail.  Notifications are posted the moment their condition holds (`Quiet`),
and a notification waits while its like is still queued: the one bound on the
queue.

### SocketWindow

`CAsyncSocketExHelperWindow`: `Attach`, `Detach`, window messages that name a
socket by its slot and by a socket handle, an object address or a lookup
handle.  All four are used again while messages of the former owner wait.

### ProxyHandshake

The layer between the proxy and the server peer.  `inq` is what recv() has not
returned, `wire` what has not arrived, so `Arrive` cuts the replies anywhere.
`recvBuf`, `strBuf` and `appBuf` are the buffers of SOCKS replies, of the HTTP
reply and of the payload found behind it.  An HTTP header is its status, plain
bytes, and one byte for the end CR LF CR LF; a payload byte is its position.
The owner reads everything or stops after one buffer (`Drained`, `Receive`),
and is resumed as `CPRCTcpPeer::OnSend` does, by what select() reports.  `GiveUp`
is the one error path that tells nobody (see "Seen while modelling").

### SecureLayer

The raw stream is records: handshake, one unit of data each, close_notify.
Records may arrive between two recv() calls, so `PumpTls` and the drain of
`OnClose` take a step per recv (`pc`).  The rustls session is external: it
decrypts what it is fed, in one go or a part first, and encrypts what it is
given.

### Reception

The application and the centre do not share memory.  `HackConnect` binds the
socket and writes the request (`pipe`); `RegisterClient`, in the pipe's thread,
adds the announcement to `registered` (`m_RegisteredClient`) and answers;
`Connect` puts the connection into the `backlog` of the loopback listener;
`OnAccept` pairs it with the first announcement of its port and makes a task.
`CloseSocket` may come in between from another thread, `Exit` at any time.
`AliveTimer` and `CheckTimer` are the two 30-second timers, `Restart` is
DisableProxy and EnableProxy.  An id is the process id, the creation time, the
handle and the generation, as in `PRCClient`; one counter gives creation times
and generations.  A restart, or a rejection by the settings (no route for IPv6),
appears to the application like a pipe that is down.  A process that has ended
is taken to be gone for `OpenProcess`; one whose id went to a process that
cannot be opened, or which somebody still holds a handle of, keeps its tasks
(`TestTaskByPid`) and is left out.

### UdpAssociation

`task[t]` is a `CUdpProxyTask`: `up` is `m_upstreamState`, `server` the peer
`m_pServer` (none, open, or closed and not yet deleted), `wait`, `delay` and
`idle` the clocks, `pending` and `replies` the queues with their byte counters.
`circuit` is `m_udpCapability` with its key.  A handler is a function from a
task and the circuit to both (`OnServerWritable`, `WakeServerAssociation`,
`OnMaintenanceTimer`...), so the code's calls between handlers are nested
applications, and an action applies one of them with what the network answers
meanwhile (`Outcomes`).  The code compares tick counts by their difference; the
model keeps the differences and `Tick` ages them all.

### UdpRoutes

The application's threads and the proxy process.  A `sendto` looks into the
table (`SendTo`), again under the pipe lock (`FoundUnderLock`), and otherwise
registers (`Register`, which runs `OnNewTask` in the manager's thread), stores
the answer (`Push`) and sends (`Deliver`).  `connect` always registers.
`CloseSocket` forgets the socket and unregisters it, if the pipe works.  A
socket is a handle and a generation.  A scope names the destinations (`dests`),
how the DNS redirection may stand at first (`first`), whether the two things
happen that the hook's table is not told of, tasks closed by the proxy process
(`lose`) and a redirection changed at run time (`apply`), and whether the pipe
fails (`fail`), so that registrations, their answers or unregistrations are lost.

### ChildGuard and ControlPipe

`ChildGuard`: a hooked process creates a child suspended, asks the centre
whether to inject it, injects, resumes it and reports the release; it may die at
any step, and PIDs are used again.  `wire` holds messages without an answer,
whose senders may be gone when they are read.  `CheckSuspendedChildren` takes a
snapshot, looks again and terminates orphans; the process registry outlives the
service and is pruned by a timer of the GUI.  The registry has three writers:
identities, hook results, and `ResolveProcPath`, which looks up the client of an
accepted connection that has no record (`HackConnect`, `OnAccept`).

`ControlPipe`: the accepting thread (`main`), the instance it listens on, the
workers and their count, the events that a stop waits for; the package grants
in the DACL of the next instance; launch requests that a helper repeats until
it knows the outcome, against the history of `HandleAppLaunch`; and the table of
`BrowserQuicPolicy`.

### WinsockHooks, Launcher, BrowserWatch, ProfileBroker

`WinsockHooks` has one step per locked section of a detoured call: name lookups
answered from `CDummyDNS`, the decision of `CanHackIt`, registration, push to
`CHackedSocket`, payload limits, the request pipe that is opened again after a
restart of the service, and the budget of `CUdpBlockLogLimiter`.  The two lists
of `CHackedSocket` keep the code's order, newest first, because lookups take the
first match; the port of a UDP route is any port no other route has, since the
service chooses it.  A connect can end
behind `CanHackIt` when the proxy's settings cannot be fetched, and does not
disconnect then.  `Launcher`
follows one request through creation, injection and resuming, through package
activation with freeze and attach, and through the elevated helper; each step
may fail, and the paths fall back on each other.  `BrowserWatch` is the timer
of the launch watch with its snapshots, notices and modal dialogs.
`ProfileBroker` is the election of the serving instance (mutexes), the command
pipe and the UI thread that runs a command.

### MitmSession, QuicFlow, QuicForward, MonitorControl

`MitmSession` treats the bytes of the two connections as tokens and the handlers
as functions on records, since the code calls them from one another: accept,
verification by a worker, pump, recording before sending, deadlines, truncation
and both closes.  The field `over` of a plan says which limit is exceeded: that of
the ClientHello, of the data deferred before the downstream endpoint, or of the
queue of verification jobs; each ends the session with an error.  `QuicFlow` is a candidate from the first Initial to admission,
pass-through or retirement, with the counters of held datagrams and live
connections; `QuicForward` the requests, GOAWAYs, stops and resets of a
terminated connection.  `MonitorControl` is the lock, the flags and the watchdog
around start, stop and shutdown of the monitor.

### Capture, Recording

`Capture`: taps under the capture gate, one bounded queue, the worker with a
stream per tap, the result ring a consumer polls, and the control requests.  A
preview drops what does not fit and marks the tap lost; a recording waits.
`Recording`: the cache's command queue and disk worker, eviction and paging, and
the recording's detail files, list index, event lines and manifest, all charged
to one capacity; decoding, the reader and the rebuild after a crash.

### ProxyTest, ProfilePage, SettingsFile, RecentCache

The user interface's thread with message boxes that go on dispatching, so that
testers, timers and the tray menu act while a box is open; saving without a name takes the text of the field
(`SaveName`); other instances that
change the settings file under its named mutex and may die between writing a
copy and replacing the file; worker threads that load the launch lists while
they are edited.  A profile keeps its name there, and the stamp of the file, its
time and size in the code, is an exact version.

## Runs

Every run is expected to pass.  A property that is a conjunction is explained,
part by part, in the module that defines it.

| run | checks | shows |
|---|---|---|
| `tcp_relay_safety` | `TypeOK`, `NoPayloadInHandshake`, `DeliveryInv`, `WindowSound`, `ImplementsPipe`, `OnlyErrorsCut` | with a proxy, resets, aborted tasks and either side ending first: order, completeness, end mark last, no payload in the handshake, only errors cut, and `TcpRelay` implements `TcpPipe`; in other behaviours the helper window, whose messages never reach another socket than their own |
| `tcp_relay_live` | `HalfCloseForwarded`, `TaskReleased` | with a proxy and without, when the application ends first: half-closes are passed on and the task is released |
| `proxy_handshake` | `DialogueExact`, `OutcomeOnce`, `DialogueEnds` | every cut of every reply, failures at any time: exact framing, grant only when granted, one outcome, no surplus left behind; the operation ends and the payload is read |
| `udp_association_safety` | `QueuesExact`, `AssociationSound`, `RouteKept` | one task with datagrams of two sizes and replies the local socket may refuse: order, no repetition, nothing stale, exact counters, nothing stranded, state and socket agree, the local route survives; and a SOCKS5, a direct and an HTTP task over one circuit |
| `udp_association_live` | `QueueMoves`, `AssociationsEnd` | queues empty, unused associations are released, closed tasks are removed |
| `udp_routes` | `RoutesSound`, `RepliesRight` | two handles, two threads, reuse of handles and ports, resolvers, names and addresses on one port and on another: stable and unique routes, replies over the right route to the right socket, also when calls or answers of the pipe are lost; with lost tasks and a switched redirection still one route per destination |
| `reception` | `PairingSound`, `OnlyDeadSwept`, `LeftoversGo` | two processes, whose ids and ports are used again, with every fault: a connection is paired with its own announcement, running processes keep their tasks, stale announcements and dead tasks go |
| `analysis` | `CaptureSound`, `RecordingSound` | full queues, stop, start and shutdown at any moment, a panic and a disk that gives up: counts are exact, stop is a barrier, what is called complete is whole; the quota reached at every point of an event, failed writes, a crash halfway, rebuild |
| `control_plane` | `GuardJust`, `ChildrenSettled`, `PipeSound` | children under dying creators, PID reuse, late notices and a second GUI: only watched orphans are terminated, none stays suspended; a service that stops leaves nothing, a launch request is carried out once |
| `engine` | `CallsRouted`, `RequestsTrue`, `LaunchSound`, `WatchSound`, `BrokerSound` | the hooks under every setting; every path of a launch with every step failing; the browser watch against PID reuse; the broker with clients, servers and windows that end at any moment |
| `interception` | `SessionSound`, `QuicSound`, `SwitchSound` | nothing of an intercepted connection is lost, repeated, made up or sent unrecorded; limits, keys and sessions stay with their owners |
| `host` | `StreamSound`, `TestSound`, `PageSound`, `FileSound`, `RecentSound`, `OneOutcome` | the secure layer, the proxy test, the profile page, the settings file, the launch lists |

### Bounds

`TcpRelay`: two bytes in each direction with buffers of one or two and a kernel
buffer of one give partial sends, full buffers, several events per direction and
a byte behind every end; a third byte repeats these cases.  `BufSize`,
`EventCap`, `SendRoom` stand for 4096 bytes, the read limit of an event and the
kernel's buffer.  `SocketWindow`: a table of 4 for the first 512 slots with a
`Margin` of 2 for 10, three objects, two handles and two lookups, one waiting
message of a kind; every one of them is used again.

`ProxyHandshake`: the header lengths, `HttpBuf` and the payload are chosen so
that a header can be cut, filled up and followed by payload; `RequestLen` is
above `Room`, so every request goes out in pieces.  `SecureLayer`: chunks of 1,
water marks 0 and 1, a limit of 3 and a receive buffer of 1, so that reading stops
and resumes, and the scope with an early FIN sends three units: a layer that does
not pause at the high-water mark meets the limit, in the pump or in the drain of
`OnClose`.  With the pause the drain adds at most what the kernel holds, since FIN
is behind it (`RecvRoom`; SO_RCVBUF is 16K, `TcpProxyTask.cpp:80`, and the room
between the marks and the limit is larger).

`UdpAssociation`: the queues hold 2 datagrams and 3 bytes, so both limits evict;
a scope allows three datagrams and two replies, four together; the clocks run to
1 or 2 ticks, enough for an expiry before, at and after a retry; `Threshold`
failures (2, for the code's 3) block the circuit.  `UdpRoutes`: three ports, so
that they run out, and `MaxGen` (2) sockets, so that ports and handles are used
again; handles, threads and ports are symmetric.  `Reception`: two ports and
`MaxGen` (3) processes and sockets suffice for a port, a handle and an id to be
used a second time; a tick stands for more than the 60 seconds (`Expiry` is 0).

`Capture` and `Recording`: two streams, a queue of 2, one live connection
(`Limit`), two results kept, three entries; the capacity takes every value at
which one event can be cut.  `ChildGuard`: two PIDs and up to three births;
in the scope `Dials` the
processes also connect, so that a PID is used again between a connection and its
accept.  `ControlPipe`: two clients and three pipe instances.  `WinsockHooks`: two
threads, two sockets, two dummy addresses for 65,534, sizes on both sides of
each limit; in the setup `Twice` a name looked up by both threads at once has two
dummy addresses and both are sent to.  `Launcher`: 3 attempts for 15, every request kind.  `BrowserWatch`:
three PIDs, four births; `ProfileBroker`: three instances.  Interception: two
tokens of back-pressure, one handshake worker, two flows that compete for one
live connection, a datagram under old keys before and after a fresh Initial, two
requests at a time.  `ProxyTest`: three testers;
`ProfilePage`: two profiles; `SettingsFile`: two instances, a history of 1 for 20
with a hard limit of 2 for 128; `RecentCache`: two profiles, one cache entry for
4, five loads.

Deadlock is checked in `analysis` and in the two UDP association runs.  It is not
where a task, a dialogue or a budget of requests simply ends.

### Fairness

Four runs state fairness.  TCP and handshake: the window procedure keeps running
(the thread blocks only in GetMessage), Winsock delivers a notification it owes,
remote programs keep reading, connect() ends, and a proxy that keeps answering
comes to an end (strong fairness of the last reply).  No fairness is assumed of
remote programs that write, end or reset.  `udp_association_live` assumes that
time passes and that the manager's timer, set while there are tasks, fires again
and again; nothing is assumed of the proxy or of the application.  `reception`
assumes that the hook goes on after the answer, that pipe threads, the centre's
thread and its timers keep running, and that a minute passes now and then without
anybody between announcement and accept (strong fairness of `Tick`).  The other
runs check safety only.

## Proofs

TLAPS checks the theorems below for every value of the constants that the named
assumptions admit.  Each safety theorem rests on an inductive invariant that TLC
has checked first; the proofs have one lemma per action.

| theorem | states |
|---|---|
| `TcpRelayProofs!TypeCorrect` | `Spec => []TypeOK` |
| `TcpRelayProofs!ByteAccounting` | with a proxy, `Spec => []DeliveryInv` |
| `TcpRelayProofs!Delivery` | with a proxy, `PrefixDelivered` and `EofAfterAll`, the two consequences of `DeliveryInv` an application sees |
| `TcpRelayProofs!HandshakeClean` | `Spec => []NoPayloadInHandshake` |
| `TcpRelayProofs!CutOnlyByErrors` | with a proxy, the action property `OnlyErrorsCut` |
| `TcpRelayProofs!PipeRefined` | with a proxy, `TcpRelay` implements `TcpPipe` |
| `HandshakeProofs!DialogueHolds`, `OutcomeTold` | `DialogueExact` and the action property `OutcomeOnce`, which name the one exception (`Unsent`, `GivesUp`) |
| `ReceptionProofs!Pairing`, `SweepOnlyDead` | `PairingSound` and the action property `OnlyDeadSwept`, for `SoundScopes` |
| `UdpAssociationProofs!AssociationHolds`, `RouteStays` | `AssociationSound` and the action property `RouteKept` |
| `UdpRoutesProofs!RoutesHold`, `RepliesFind` | `RoutesSound` and `RepliesRight` |
| `EngineProofs!RequestsHold`, `CallsHold` | `RequestsTrue` and the action property `CallsRouted` of `WinsockHooks`; of connects only that a dead pipe they find is not left behind (`ConnectReopens`) |
| `EngineProofs!LaunchHolds` | `LaunchSpec => []LaunchSound` |
| `EngineProofs!SwitchHolds` | `MonSpec => SwitchSound`, an invariant and the action property `OwnSessionOnly` |
| `ControlPlaneProofs!WatchdogJust`, `NothingMissed` | `GuardJust` and `ChildrenSettled` of `ChildGuard`; the registry is true except of processes in `mistaken` |
| `ControlPlaneProofs!PipeHolds` | `PipeSpec => []PipeSound` |
| `ControlPlaneProofs!TestHolds` | `TestSpec => []TestSound` |
| `ControlPlaneProofs!FileHolds` | `FileSpec => []FileSound`; no committed change is lost unless a restore overwrote it (`undone`) |
| `ControlPlaneProofs!PageHolds` | `PageSpec => []PageSound` |

**TcpRelay.**  `PrefixDelivered` is not inductive: nothing in it says where the
bytes are that have not been sent.  `DeliveryInv` adds it: unless a side is dead
(reset, or its layer has met a critical error), the bytes sent, the ones in
`m_recvbuf` and the ones unread are the stream, in this order (`Conserved`); once
a side has read end of stream nothing of it is left anywhere (`ClosedDrained`);
and a finished handshake has left state connecting, so a Send that fails means a
dead side (`LayerUp`).  The last point is what fails without a proxy, which is
why `FALSE \notin Proxied` (every task has a proxy) is assumed; see "Seen while
modelling".  The proof uses lemmas on `Take`, `Skip` and `Follows`.

**TcpPipe.**  `HandshakeInv` says that while the layer negotiates, nothing and no
end has been sent to the server, the peer is not ready, and no queued message can
announce the tunnel.  `CutOnlyByErrors` needs `DeliveryInv` and `Stopped`: a task
that is not active has closed both peers.  The refinement is shown step by step: a handler moves one
direction of `TcpPipe` or none, `LayerMessage` with an error and `RemoteReset`
are `PipeBreak`, and the rest stutters.

**ProxyHandshake.**  `ExactFraming` speaks only of the open tunnel; the invariant
`HInv` says where every byte is before that.  While the operation runs either a
request is on its way and the stream is empty (`Asking`), or the proxy has
answered with some reply `r` and what the layer holds, what is readable and what
is on its way are together `r` followed by the payload (`AnsweredWith`), with less
than `r` held.  `Framed` says what tells the end of `r`: for SOCKS a length that
the first bytes determine, for HTTP the end mark, which no earlier byte and no
payload byte is.  From it follow the two facts the handlers need: the length
computed from the bytes read so far never exceeds that of the reply and is reached
only with all of it (`SocksFraming`), and the end of a header is found exactly
when all of it has been read (`HttpFraming`).  The replies the proxy may send are
shown to be framed this way (`ReplyFramed`).  `OutcomeTold` uses the same
invariant: while the operation runs no message for the owner is queued, and once
it is over a connected layer has no request left to send.  A UDP association that could not send its first request is
connected with nothing asked and nothing in the stream, which the invariant keeps
(`Unsent`).  Assumed of the sizes:
they are positive, and the owner's buffer is at least as large as the layer's
HTTP buffer (both are 4096), without which one read could leave surplus behind.

**Reception.**  Pairing takes the first announcement of a port, so it is right
because every port has one holder: `PortsOwned` follows each port to the
socket that holds it, through the pipe, the list of announcements and the
backlog, with generations that are fresh.  Two cases are told apart by the scope: in an
`Orderly` one a port may be bound again while it is announced, and then the
announcement was withdrawn first; in the others `Free` keeps an announced port
from being bound again.  The hypothesis `SoundScopes` excludes scopes with both
faults and immediate reuse, where the property is false (see "Seen while
modelling").

**Lists.**  `erase` in a loop is a recursion over the list, about which nothing
can be proved here.  `Only` gives its result by positions: the n-th element left
is the one whose position has rank n among the kept ones.  `OnlyKept` shows that
this is the ordered list of what passes the test, by the theorems on finite sets
and a least-counterexample argument; `First` is the first match of a search loop.

**UdpAssociation.**  The invariant speaks of the control fields and of whether
the queue is empty: the server socket exists exactly in the states that use it; a
queue that is not empty has an association that is being made, or a clock that
will make one; and for the only task on a circuit its wait is at least the block
(`Patient`).  A direct task is left out of the last point (see
"Seen while modelling").

**UdpRoutes.**  `RInv` says of the list of tasks: a task's routes are open or
closed together; an open route has its port for itself; a socket has one open
route to a destination; routes that share an association differ for a reply, and
a redirected route shares with none; and a route is what its destination demands.
It says it of any list (`TasksInv(ts)`), since `OnNewTask` first drops closed
tasks and then works on the rest: after the drop the task that owns a destination
is the one with the live route, so a registration reuses it or makes one where
there is none (`NewTask`).  While the proxy process closes no task by itself, a
port in the hook's table, in a thread or in `m_PortState` is such an open route,
and replies are bound to the task's own socket.  `RoutesAssumption` says of the
destinations that an address is private or not by itself and that a name is not a
private address; both are functions of the address in the code.  That no thread
closes a socket another one is using in a call is assumed of the application, in
the guard of `CloseSocket`.

**WinsockHooks.**  `RequestsTrue` speaks of answers, requests and accepted
datagrams, and none of the three says what the tables between them hold.
`HooksInv` does.  The entries of `CDummyDNS` are numbered by the counter, the
newest first, so an address leads to the entry that has its number as long as the
range has not wrapped (`NamesInv`); a call between two locked sections holds what
its first section read (`Pending`); every request names the host of its
destination (`AskedInv`); every redirected pair of socket and destination was
asked for, is there once, and its route port leads back to it (`HackedInv`);
datagram requests and limits correspond, in the same order (`LimitsInv`); the
peer of a connected datagram socket is the route of a request whose limit is the
first connected one of the socket, and the first entry of a redirected stream is
of the destination it wanted (`SocketsInv`); what was handed to Winsock was not to
be blocked and fits (`PassedInv`); and a line younger than an interval still holds
its slot of the log (`LogInv`).  `CallsRouted` follows from the same
invariant, one lemma per action.  Assumed (`HooksAssumption`): a name fits
`szDomainName`, the dummy counter starts within its range, and the destinations an
application has by itself are none of the addresses that only the hooks or the
service hand out.

**Launcher.**  The invariant says what is known of the one process at each stage
of the launch: not there, created and suspended, injected, running, or given up.
Assumed: at least one attempt and the four kinds of request (`Launches`).

**ChildGuard.**  PIDs are used again, so the invariant speaks of lifetimes: a
lifetime has one home PID for good, and every record, message, snapshot and
registry entry that names one names it truthfully (`Messages`, `Ledger`,
`Centre`); the marker a hook watches over is the newest of its process
(`People`); and a child suspended by ProxyLane is in the hands of its creator or
has lost it (`Creations`).  The lemma `Evolution` says what
one step does to a lifetime: it goes on, ends or begins; every action's proof
starts from it.

**ControlPipe.**  `PipeSound` has no part for what makes its parts true; the
invariant `PipeInvar` adds it.  An instance listens or is linked exactly while the
accepting thread holds it and is served exactly while a worker is at it
(`InstancesInv`), and the private pair is open exactly while an instance is
(`PairInv`), so the pipe object has every grant.  `m_dwThreadCount` is the number
of workers that have not decremented it (`WorkersInv`): unless a signal was
overtaken (`late`), a set event means that none is left, which is what each stage
of the stop relies on (`ServiceInv`).  For launches, a helper that still waits has
at most one instance that carries its request (`OneCarrier`); a helper asks for a
minute at most, a request is valid for two, and the purge forgets a record only
after five, so an activation that is no longer recorded can never be repeated
(`AttemptsInv`); from the record to its outcome the worker holds the request, and
the lock while it activates (`CarriedInv`).  A browser leaves `working` for good,
so a report is still true when it is served late (`QuicInv`).  Assumed
(`PipeAssumption`): finitely many instances, numbered from 1, and times that are
natural numbers.

**MonitorControl.**  A watchdog looks at the session without the lock, so what it
does once it has the lock must be right whatever happened in between.  `MonInv`
says why it is: each generation has at most one watchdog (`Pack`), a start that
has raised the generation has no watchdog of it before the thread is there
(`MiddleInv`), and while a session is on, a watchdog of the present generation
is that session's unless the start has yet to store its flags, which it does
under the lock (`SessionInv`).  A stop past its first step and a watchdog that
acts have already switched the session off, so the module never stops under a
session that is on.  Assumed (`MonAssumption`): the values that stand for a free
lock and for the watchdog name no thread.

**ProxyTest.**  A report, a time-out or a click releases the page's tester while
its deletion is still a message in the queue, and the next phase starts in the
same step; so the invariant speaks of every tester, not only of the page's.
`TesterOf` says what each of them is: the page's, listed, with its timer until it
reports; or out of the list, silent and without a timer, and then either gone or
to be deleted by the one message that names it.  `TestInv` adds when the page is
between two phases: a box is open exactly while a result waits for its answer, and
no tester works then.  One lemma says this of the start of a phase, which may end
at once (`StartOutcomes`); the handlers use it.  Assumed (`TestAssumption`): 0 is
no tester's address and a setting is on or off.

**SettingsFile.**  Between two replacements of one change the file is in nobody's
final state, so `HistoryBounded` says nothing while the mutex is held and is not
inductive.  `FileInv` follows the holder: it is in the middle of a change that
fits the file (`Underway`), its first edit fits it and the rest drops unpinned
launches, each once and each in the file (`Pending`).  Hence the limits hold when
the last edit is written, and a change that is cut short leaves at most one entry
more, which the ghost `deaths` counts.  The length of a history and the number of
its unpinned entries are cardinalities of sets of launches, since no launch is
in it twice; the lemmas on `Only` carry this over to `Without`, `Fronted` and
`Pinned`.  An absent file is `Absent`, so an import that found none has still
backed up exactly what is there.  Assumed (`FileAssumption`): the importer is an
instance and the limits are natural numbers.

**ProfilePage.**  A start and an apply publish one thing after the other while the
tray, whose menu works in every message loop, may act; so the invariant
(`PageInv`) says of each step how much of what is being applied is already
published (`RunOK`).  A start under way does not imply that nothing runs: its
question may be answered after the tray has started the proxy, and then the
published settings change one by one under a running engine.  The field names a
profile other than the draft only while the user is asked whether to leave the
draft, and the box remembers the draft's name for a cancel (`TitleOK`; not once
the tray has crossed the box, which the ghost `crossed` records).  An edit has set
the mark and a page without it shows what was last loaded or saved (`DraftOK`); a
start under way has a name that is in the list (`StartOK`), which deleting cannot
change as its box and a start exclude each other.  Assumed (`PageAssumption`): the
empty field and the absence of a name are no names, and the name offered for the
first profile is one.

Where one step writes several fields of one entry, the modules with theorems update
the entry as a whole (`![p] = [@ EXCEPT !.a = x, !.b = y]`): the prover's
translation of two updates under one index is not sound.

**Only model-checked.**  Liveness and fairness (outside TLAPS' reach here).
`QueuesExact` of `UdpAssociation`: the byte counters are a fold over the queue,
whose properties need induction over data.  `SessionSound`, `WatchSound` and the
compositions over them: `MitmSession` and `BrowserWatch` use recursive operators.
`WindowSound`: the slots of `SocketWindow` are searched modulo the size of the
table, a constant, and the prover has no arithmetic for a modulus that is not a
numeral.  `Capture`, `Recording`, `SecureLayer`, `QuicFlow`, `QuicForward`,
`ProfileBroker` and `RecentCache`: no theorem yet; the next one in line is the stream of `SecureLayer`.

## Seen while modelling

What the code does where one might expect something else.  The models follow the
code; a property that would be false for one of these reasons says so in its
comment, or the case is marked by a variable that only records it (named in
brackets) and excluded by name.

*Forwarding.*
- After a server has closed without error its layer is closed, and `CallEvent`
  hands FD_WRITE to a connected layer only (`AsyncSocketExLayer.cpp:405`): what
  the application still sends stays in the buffer and its half-close is not passed
  on, although `PRCTcpPeer.cpp:277` logs "preserving opposite direction."
  `tcp_relay_live` therefore lets the application end first.
- Without a proxy, a FIN of the application that arrives while connect() is
  pending makes `OnReceive` read a chunk whose Send fails with WSAENOTCONN; the
  chunk is dropped and the FIN passed on later (`PRCTcpPeer.cpp:504`, whose
  comment says the payload is flushed first).
- Only `TM_CONN` bounds a connect (`PRCTcpPeer.cpp:618`); the limit on an HTTP
  reply's header also counts payload received with it
  (`AsyncProxySocketLayer.cpp:847`).
- `SocketWindow`: the round robin guarantees only that `Margin` other sockets are
  made before a slot is used again when the position stands behind it; a
  long-lived socket's slot can be reused at once.  `Close` deletes the lookup's
  buffer before it cancels the lookup.  At MAX_SOCKETS a failed `AddSocket` leaves
  index -1, whose message number is that of a lookup.
- `ProxyHandshake`: an UDP association that cannot send its first request signals
  FD_ACCEPT (`AsyncProxySocketLayer.cpp:1194`), which ends in an empty
  `CAsyncSocketEx::OnAccept` and does not abort the layer, while the comment at
  line 1053 says a failing UDPASSOCIATE sends FD_CONNECT, as its other error paths
  do.  The owner is not told; the association stays associating until its idle
  timer (`GivesUp`).
- `SecureLayer`: a clean FIN that arrives early is not always an end of stream for
  the owner: a reset during the drain of `OnClose`
  (`AsyncSecureSocketLayer.cpp:430`) ends the stream without an error.  When data
  and close_notify come in one batch at the high-water mark, `DrainPlaintext`
  returns at PLST_EOF without pausing (line 238), the pump goes on to recv, and a
  FIN already there fails the connection (line 295).  `Send` buffers ciphertext without a limit (`lib.rs:310` of the secure
  transport).

*UDP.*
- Closing a socket while another thread is in a call on it can leave a route of the
  closed socket in the hook's table for a later socket with the same handle:
  `inhook_closesocket` does not test it (`HookWinsock.cpp:1549`), and `RoutesSound`
  needs the guard.
- `m_HackedSocket` is not told when the proxy process closes a task
  (`HookWinsock.h:522`): the application keeps sending to a port that may have
  become another destination's route (`lose`).
- `AddRoute` overwrites a live route's redirect flag without `CanAcceptRoute`
  (`UdpProxyTask.cpp:148`), so after a switch a redirected route shares a task,
  against the comment at line 235 (`apply`).
- Only a registration asks the capability circuit, so an existing task retries by
  its own clock while the circuit is blocked (`ProxyTaskMgr.cpp`, the message at
  line 359 says new attempts are blocked); the circuit is reset when a task of
  another profile registers or reports, so "for this runtime" (line 356) ends
  earlier.
- A direct task on a blocked circuit that slept and woke may wait less than the
  block after a send error; `CanStartUdpAssociation` never asks the circuit for a
  direct profile, so `RetryAfterBlock` leaves direct tasks out.
- A silent proxy keeps a task associating (`UdpProxyTask.cpp:118`); tick
  differences are signed and turn after 24.8 days (`UdpAssociationPolicy.h:45`);
  `GetUdpProxyAddr` deletes `m_pS5UC` without clearing it when a layer cannot be
  added.

*Reception and children.*
- `GetClientInfo` takes the first announcement with the port, also that of a dead
  process (`ProxyReceptionCentre.cpp:1004`): a process that ends between
  announcing and connecting, and a port bound again at once, pair a connection
  with the wrong destination.  The proof shows that this is the only way.
- A release notice handled between a sweep's snapshot and its pruning of
  `m_ReleasedChildren` is erased; such a child, frozen later with its parent gone,
  is terminated (`overtaken`).  A creator that dies between resume and notice, or
  a service restart, loses the exclusion too.
- `ResolveProcPath` (`PRCTcpServer.cpp:77`) looks up the PID of a client that has no
  record and registers whatever process has it by then as one whose hooks work; the
  registry then calls a process hooked that is not, and a suspended one is taken
  for no orphan (`mistaken`).
- Children of an unhooked child that inherited the environment carry the marker,
  and so do children whose block could not be built (`HookWinsock.cpp:2436` says
  never).  A deferred policy is not restored when the child is not injected, its
  block cannot be built or pinning fails.  `InjectDll`'s cleanup is never reached
  (`bOK` is -1).  A process thawed between the second look and TerminateProcess
  is still terminated.
- `ControlPipe`: a worker that starts while the last one ends can leave
  `m_hNoThreadEvent` set, so a stop passes with a live worker (`late`,
  `PRCPipeServer.cpp:831`); `ShutdownServer` cannot wake the accepting thread when
  no instance listens (`poked` tells the stops that could); both cases happen, and
  `PipeSound` says nothing of them; the launch history is purged by wall clock; an evicted
  QUIC entry lets a stale Pending in again.

*Programs and launching.*
- `WinsockHooks`: after 65,535 names the dummy range wraps and an old address
  means a new host; `MaxPayload` takes 22 bytes for IPv6 also when a domain
  header is sent, and send() checks no limit; the limit of a connected UDP socket
  is stale after connects to A, B, A; a datagram socket's redirection is found by
  name (`IsUDPReqHacked`, `HookWinsock.h:507`) but its limit by the exact address
  (`GetUDPMaxPayload`, `HookWinsock.h:392`), so a name that has a second dummy
  address, from two lookups at once or from both families, is sent to there
  without a limit (the proof found this case; `PayloadFits` leaves such names
  out); sendto to ::1 is redirected; a dummy address
  is handed out although the protocol that uses it is not hooked.  A pipe that dies
  while `CanHackIt` asks for the proxy's settings is not disconnected
  (`HookWinsock.cpp:1433`), so one more connect fails; `HackSendTo` never
  disconnects it.
- `Launcher`: a helper killed between CreateProcess and ResumeThread leaves its
  target suspended (`stuck`, `ElevatedLauncher.cpp:458`); launches that need not
  be hooked run unproxied when injection fails and report success.
- `BrowserWatch`: an observation {A, B} merging into notice {A} while {B} exists
  leaves two notices about B.
- `ProfileBroker`: a client that dies before the first ConnectNamedPipe ends the
  server thread; a command may have been run although its client is told it
  failed; an instance that lost its zero-wait election does not try again until
  its next change of status; a request posted to a window that is being destroyed
  keeps its last reference.

*Interception and analysis.*
- `MitmSession`: a reset during the handshake is reported "Failed" and then
  "Closed"; `OnRead` may leave its loop without Receive, and the pump of the same
  call frees the room without triggering FD_READ, so before Ready input waits for
  the handshake deadline.
- `QuicFlow`: late packets of retired keys are forwarded raw after a fresh Initial was
  passed through (`UdpProxyTask.cpp:575`, whose comment says never): `KeysMatch`
  excludes them by name (`Late`), and a plan of the run sends one; datagrams of
  the server for a pending candidate are dropped.
- `MonitorControl`: the watchdog is started before the session is marked, so a
  starter delayed by more than 100 ms leaves the session without one (`hasty`);
  when the thread cannot be created over a running session the host's flags stay
  on (`torn`).
- `Capture`: a failed stop after a panic still seals the recording as completed
  without gaps (`protocol.rs:242`).  `Recording`: a restored copy is evicted first,
  so live records may exceed `max_entries` (`cache.rs:745`); a read can write
  metadata; a checkpoint between finish() and the last queued chunks calls a
  stream complete.

*User interface.*
- `ProxyTest`: when connect() fails at once the callback releases the tester inside
  `Start`, and the page releases it again through NULL (`Page1.cpp:1426`,
  `crashed`).
- `ProfilePage`: an unnamed draft that is saved on "Yes" while another profile is
  being selected takes the text of the field, the name of that profile, and
  overwrites it (`Page1.cpp:1026`).  The tray menu works while a box is open; a cancel then puts the
  old draft's name over the profile the tray loaded (`crossed`).  Filters and
  upstream are published in two steps.
- `SettingsFile`: a profile is read key by key without the lock; a restore
  (`ConfigImport.cpp:238`, called at 284 and 309) overwrites what other instances
  changed since, although the comment at line 267 says never, and `NoUpdateLost`
  excludes that one case (`undone`); two
  crashes at the limit make a history unreadable.
- `RecentCache`: a cancelled load reports success with a truncated list, and only
  the order in which the views take loads keeps it from being shown; a change
  notice during a launch is dropped until the page's timer.

## Not modelled

The Windows API behind injection, tokens and access lists; cryptography and
certificates; the protocol parsers, which are functions of data; the byte layout
of messages and headers; drawing, lists and texts of the user interface; moving
entries of the launch history by hand and switching the storage folder; stream
IDs and DATAGRAM frames of QUIC; the tests and the vendored code (Detours, JSON,
quinn, h3, rustls).
