------------------------------ MODULE UdpRoutes ------------------------------
(***************************************************************************)
(* How the UDP datagrams of a hooked application find their destination    *)
(* and the replies their way back.  In the application, CHackedSocket      *)
(* remembers for every socket and destination the loopback port of a       *)
(* route; in the proxy process CProxyUDPTaskMgr keeps the tasks, each a    *)
(* list of routes that share one SOCKS5 association.                       *)
(*                                                                         *)
(* Several threads of the application send at the same time.  The table    *)
(* has its own lock, a registration holds m_RequestPipeLock, and the proxy *)
(* process handles a registration in one step of its window thread.        *)
(*                                                                         *)
(* Every destination is redirected (CanHackIt) over one proxy profile; the *)
(* state of the association and the circuit are in UdpAssociation.         *)
(***************************************************************************)
EXTENDS Naturals, Sequences, FiniteSets, SequencesExt, Lists

CONSTANTS
    Handles,        \* SOCKET values; a closed one is given out again
    Threads,        \* threads of the application
    Dests,          \* destinations: [host, port, dom, private]
    Resolver,       \* redirectDNSAddr
    Home(_),        \* the address behind a domain name
    Ports,          \* loopback ports
    MaxGen,         \* bound: socket generations
    Scopes          \* bound: what a behaviour may do, [dests, first, apply,
                    \* lose, fail]: the destinations the application uses,
                    \* how the DNS redirection may stand at first, whether it
                    \* is switched while tasks run, the proxy process closes
                    \* tasks, the pipe fails

NoPort == "none"

ASSUME RoutesAssumption ==
    /\ ~Resolver.dom /\ ~Resolver.private
    /\ \A d \in Dests : d.dom => ~d.private
    /\ \A c, d \in Dests :     \* an address is private or not by itself
          c.host = d.host /\ c.port = d.port /\ (c.dom <=> d.dom) => c = d
    /\ MaxGen \in Nat
    /\ Scopes \subseteq [dests : SUBSET Dests, first : SUBSET BOOLEAN, apply : BOOLEAN,
                        lose : BOOLEAN, fail : BOOLEAN]
    /\ NoPort \notin Ports

NoThread == "none"

VARIABLES
    \* the application
    table,      \* table[h][d]: route port in m_HackedSocket, or NoPort
    gen,        \* gen[h]: generation of the socket in h, 0 before its first use
    lastGen,    \* m_nextSocketGeneration
    thread,     \* thread[x]: where HackSendTo or HackConnect stands in thread x
    lock,       \* the owner of m_RequestPipeLock
    \* the proxy process
    tasks,      \* m_tasklist
    portState,  \* m_PortState: the client socket of a route port, or {}
    redirect,   \* bRedirectPrivateDNS of the runtime settings
    scope       \* the scope of this behaviour

appVars == <<table, gen, lastGen, thread, lock>>
proxyVars == <<tasks, portState, redirect, scope>>
vars == <<appVars, proxyVars>>

Idle == [at |-> "idle"]
Steps == [at : {"want", "registered", "send"}, h : Handles, d : Dests,
          port : Ports \cup {NoPort}, connect : BOOLEAN]

(* A route: the destination it was registered for, whether its PRCClient says
   that it is redirected, its port, the destination that its peer puts into the
   SOCKS5 header (m_CSAddrInfo), and the socket its replies are sent to. *)
Route == [dest : Dests, redir : BOOLEAN, port : Ports, target : Dests \cup {Resolver},
          app : Handles \X Nat, open : BOOLEAN]

TypeOK ==
    /\ table \in [Handles -> [Dests -> Ports \cup {NoPort}]]
    /\ gen \in [Handles -> 0..MaxGen] /\ lastGen \in 0..MaxGen
    /\ thread \in [Threads -> {Idle} \cup Steps]
    /\ lock \in Threads \cup {NoThread}
    /\ tasks \in Seq([h : Handles, gen : 1..MaxGen, routes : Seq(Route)])
    /\ portState \in [Ports -> {{}} \cup {{c} : c \in Handles \X (1..MaxGen)}]
    /\ redirect \in BOOLEAN /\ scope \in Scopes

Init ==
    /\ table = [h \in Handles |-> [d \in Dests |-> NoPort]]
    /\ gen = [h \in Handles |-> 0] /\ lastGen = 0
    /\ thread = [x \in Threads |-> Idle]
    /\ lock = NoThread
    /\ tasks = <<>>
    /\ portState = [p \in Ports |-> {}]
    /\ scope \in Scopes /\ redirect \in scope.first

-----------------------------------------------------------------------------
(* Destinations. *)

Address(d) == [host |-> IF d.dom THEN Home(d.host) ELSE d.host, port |-> d.port]

(* DnsRedirectPolicy::ShouldRedirect, Apply *)
ShouldRedirect(d) == redirect /\ d.port = 53 /\ ~d.dom /\ d.private
ProxyDestination(d, redir) == IF redir THEN Resolver ELSE d

(* UdpAssociationPolicy::CanShareAssociation *)
CanShareAssociation(c, d) == c = d \/ c.port # d.port \/ (~c.dom /\ ~d.dom)

-----------------------------------------------------------------------------
(* CUdpProxyTask *)

IsClosed(k) == \A i \in DOMAIN k.routes : ~k.routes[i].open
CloseTask(k) ==
    [k EXCEPT !.routes = [i \in DOMAIN @ |-> [@[i] EXCEPT !.open = FALSE]]]

MatchesHandle(k, h, g) == k.h = h   \* mutant: the generation is not compared
MatchesAssociation(k, h, g) == k.h = h /\ k.gen = g

HasRoute(k, d) == \E i \in DOMAIN k.routes : k.routes[i].dest = d

CanAcceptRoute(k, d, redir) ==
    \A i \in DOMAIN k.routes :
        /\ ~k.routes[i].redir /\ ~redir
        /\ CanShareAssociation(k.routes[i].dest, d)

BoundPorts ==
    {r.port : r \in {r \in UNION {ToSet(tasks[j].routes) : j \in DOMAIN tasks} : r.open}}

NewRoute(h, g, d, redir, p) ==
    [dest |-> d, redir |-> redir, port |-> p, app |-> <<h, g>>, open |-> TRUE,
     target |-> ProxyDestination(d, redir)]

(* AddRoute, for the task's list of routes: a live route of the destination is
   used again with the new PRCClient; a dead one is replaced. *)
Reusable(routes, d) == {i \in DOMAIN routes : routes[i].dest = d /\ routes[i].open}
AddRoute(routes, h, g, d, redir, p) ==
    IF Reusable(routes, d) # {}
    THEN [i \in DOMAIN routes |->
            IF i \in Reusable(routes, d) THEN [routes[i] EXCEPT !.redir = redir]
            ELSE routes[i]]
    ELSE Append(Only(routes, {i \in DOMAIN routes : routes[i].dest # d}),
                NewRoute(h, g, d, redir, p))

(* The route ForwardServerDatagram selects for a reply from the address src:
   the one to that address, else the only one to a name on that port, else the
   only route of the task. *)
Selected(k, src) ==
    LET E(i)  == ProxyDestination(k.routes[i].dest, k.routes[i].redir)
        onPort == {i \in DOMAIN k.routes : k.routes[i].open /\ E(i).port = src.port}
        exact == {i \in onPort : ~k.routes[i].dest.dom /\ E(i).host = src.host}
        named == {i \in onPort : k.routes[i].dest.dom}
    IN IF exact # {} THEN First(exact)
       ELSE IF Cardinality(named) = 1 THEN First(named)
       ELSE IF named = {} /\ Len(k.routes) = 1 /\ k.routes[1].open THEN 1 ELSE 0

-----------------------------------------------------------------------------
(* CProxyUDPTaskMgr *)

(* ClearTaskPortStates for a set of tasks. *)
RoutePorts(K) == UNION {{r.port : r \in ToSet(k.routes)} : k \in K}
ClearTaskPortStates(ps, K) ==
    [p \in Ports |-> IF p \in RoutePorts(K) THEN {} ELSE ps[p]]

(* OnNewTask drops closed tasks of the socket, then looks for the task that has
   the destination, then for one that may take it. *)
Dropped(h, g) == {k \in ToSet(tasks) : MatchesAssociation(k, h, g) /\ IsClosed(k)}
Kept(h, g) == Only(tasks, {j \in DOMAIN tasks : tasks[j] \notin Dropped(h, g)})

ChosenTask(ts, h, g, d, redir) ==
    LET mine  == {j \in DOMAIN ts : MatchesAssociation(ts[j], h, g)}
        owner == First({j \in mine : HasRoute(ts[j], d)})
    IN IF owner # 0 THEN owner ELSE First({j \in mine : CanAcceptRoute(ts[j], d, redir)})

PortOf(routes, d) == (CHOOSE r \in ToSet(routes) : r.dest = d /\ r.open).port

(* PRCRegisterClient in thread x: the answer is a port, or it is a refusal or
   lost in the pipe (HOOK_FAILED), whatever the manager has done. *)
Registered(x, p) ==
    \/ /\ p # NoPort
       /\ thread' = [thread EXCEPT ![x] = [@ EXCEPT !.at = "registered", !.port = p]]
       /\ lock' = x
    \/ /\ p = NoPort \/ scope.fail
       /\ thread' = [thread EXCEPT ![x] = Idle]
       /\ lock' = lock

OnNewTask(x, h, d) ==
    LET g     == gen[h]
        redir == ShouldRedirect(d)
        ts    == Kept(h, g)
        j     == ChosenTask(ts, h, g, d, redir)
        live  == j # 0 /\ Reusable(ts[j].routes, d) # {}
        ps    == ClearTaskPortStates(portState, Dropped(h, g))
    IN
    \/ /\ live
       /\ LET rs == AddRoute(ts[j].routes, h, g, d, redir, NoPort) IN
          /\ tasks' = [ts EXCEPT ![j].routes = rs]
          /\ portState' = [ps EXCEPT ![PortOf(rs, d)] = {<<h, g>>}]
          /\ Registered(x, PortOf(rs, d))
    \/ \E p \in Ports \ BoundPorts :    \* CreateUDPSocket
       /\ ~live
       /\ tasks' = IF j # 0
                   THEN [ts EXCEPT ![j].routes = AddRoute(@, h, g, d, redir, p)]
                   ELSE Append(ts, [h |-> h, gen |-> g,
                                    routes |-> AddRoute(<<>>, h, g, d, redir, p)])
       /\ portState' = [ps EXCEPT ![p] = {<<h, g>>}]
       /\ Registered(x, p)
    \/ /\ ~live /\ Ports \subseteq BoundPorts   \* no socket: the call fails
       /\ tasks' = ts /\ portState' = ps
       /\ Registered(x, NoPort)

(* OnTimer(TIMER_TCPPERTASK): closed tasks are removed. *)
MaintenanceTimer ==
    LET closed == {k \in ToSet(tasks) : IsClosed(k)} IN
    /\ closed # {}
    /\ tasks' = Only(tasks, {j \in DOMAIN tasks : ~IsClosed(tasks[j])})
    /\ portState' = ClearTaskPortStates(portState, closed)
    /\ UNCHANGED <<appVars, redirect, scope>>

(* KillTasks *)
Killed(h, g) == {k \in ToSet(tasks) : MatchesAssociation(k, h, g)}

(* CUdpProxyTask::OnPeerClosed for a proxy without UDP: CloseTask. *)
TaskLost(j) ==
    /\ scope.lose /\ ~IsClosed(tasks[j])
    /\ tasks' = [tasks EXCEPT ![j] = CloseTask(@)]
    /\ UNCHANGED <<appVars, portState, redirect, scope>>

(* RemoveAllTasks: the proxy is stopped and started again; the application and
   its hook keep running. *)
RemoveAllTasks ==
    /\ scope.lose /\ tasks # <<>>
    /\ tasks' = <<>>
    /\ portState' = ClearTaskPortStates(portState, ToSet(tasks))
    /\ UNCHANGED <<appVars, redirect, scope>>

(* CPage1::ApplyRuntimeSettings *)
ApplyRuntimeSettings ==
    /\ scope.apply
    /\ redirect' = ~redirect
    /\ UNCHANGED <<appVars, tasks, portState, scope>>

-----------------------------------------------------------------------------
(* The hook. *)

At(x, step) == thread[x].at = step
Goes(x, step) == thread' = [thread EXCEPT ![x] = step]

(* GetSocketGeneration *)
Generation(h) ==
    IF gen[h] # 0 THEN UNCHANGED <<gen, lastGen>>
    ELSE /\ lastGen < MaxGen
         /\ lastGen' = lastGen + 1 /\ gen' = [gen EXCEPT ![h] = lastGen + 1]

(* HackSendTo up to the lock: IsUDPReqHacked.  HackConnect does not look. *)
SendTo(x, h, d) ==
    /\ At(x, "idle") /\ Generation(h)
    /\ Goes(x, [at |-> IF table[h][d] # NoPort THEN "send" ELSE "want",
                h |-> h, d |-> d, port |-> table[h][d], connect |-> FALSE])
    /\ UNCHANGED <<table, lock, proxyVars>>

Connect(x, h, d) ==
    /\ At(x, "idle") /\ Generation(h)
    /\ Goes(x, [at |-> "want", h |-> h, d |-> d, port |-> NoPort, connect |-> TRUE])
    /\ UNCHANGED <<table, lock, proxyVars>>

(* Under the lock HackSendTo looks again, then PRCRegisterClient. *)
FoundUnderLock(x) ==
    LET w == thread[x] IN
    /\ At(x, "want") /\ lock = NoThread /\ ~w.connect
    /\ table[w.h][w.d] # NoPort
    /\ Goes(x, [w EXCEPT !.at = "send", !.port = table[w.h][w.d]])
    /\ UNCHANGED <<table, gen, lastGen, lock, proxyVars>>

Register(x) ==
    LET w == thread[x] IN
    /\ At(x, "want") /\ lock = NoThread
    /\ w.connect \/ table[w.h][w.d] = NoPort
    /\ OnNewTask(x, w.h, w.d)
    /\ UNCHANGED <<table, gen, lastGen, redirect, scope>>

(* EnsureRequestPipe or the request fails: HOOK_FAILED. *)
RegisterFails(x) ==
    /\ scope.fail /\ At(x, "want") /\ lock = NoThread
    /\ Goes(x, Idle)
    /\ UNCHANGED <<table, gen, lastGen, lock, proxyVars>>

(* A connected socket keeps the port in the kernel; what it sends later goes
   where SendTo to that destination would go. *)
Push(x) ==
    LET w == thread[x] IN
    /\ At(x, "registered")
    /\ table' = [table EXCEPT ![w.h][w.d] = w.port]
    /\ lock' = NoThread
    /\ Goes(x, IF w.connect THEN Idle ELSE [w EXCEPT !.at = "send"])
    /\ UNCHANGED <<gen, lastGen, proxyVars>>

(* The datagram arrives at the loopback port: ForwardClientDatagram of the
   route bound to it, or nothing. *)
Deliver(x) ==
    LET w == thread[x] IN
    /\ At(x, "send")
    /\ Goes(x, Idle)
    /\ tasks' = [j \in DOMAIN tasks |-> [tasks[j] EXCEPT !.routes =
          [i \in DOMAIN @ |-> IF @[i].open /\ @[i].port = w.port
                              THEN [@[i] EXCEPT !.app = <<w.h, gen[w.h]>>] ELSE @[i]]]]
    /\ UNCHANGED <<table, gen, lastGen, lock, portState, redirect, scope>>

(* inhook_closesocket: forget the socket, then PRCUnregisterClient, whose pipe
   may fail; KillTasks.  That no thread is in a call on the socket is assumed of
   the application; the hook does not test it. *)
CloseForgetsNothing(h) == table   \* mutant: remove() is not called
Forgotten(h) == [table EXCEPT ![h] = [d \in Dests |-> NoPort]]

CloseSocket(h, reached) ==
    LET used == \E d \in Dests : table[h][d] # NoPort
        K    == IF used /\ reached THEN Killed(h, gen[h]) ELSE {}
    IN
    /\ gen[h] # 0 /\ \A x \in Threads : ~At(x, "idle") => thread[x].h # h
    /\ table' = Forgotten(h)
    /\ gen' = [gen EXCEPT ![h] = 0]
    /\ portState' = ClearTaskPortStates(portState, K)
    /\ tasks' = [j \in DOMAIN tasks |->
                    IF tasks[j] \in K THEN CloseTask(tasks[j]) ELSE tasks[j]]
    /\ UNCHANGED <<lastGen, thread, lock, redirect, scope>>

Next ==
    \/ \E x \in Threads, h \in Handles, d \in scope.dests : SendTo(x, h, d)
    \/ \E x \in Threads, h \in Handles, d \in scope.dests : Connect(x, h, d)
    \/ \E x \in Threads : FoundUnderLock(x)
    \/ \E x \in Threads : Register(x)
    \/ \E x \in Threads : RegisterFails(x)
    \/ \E x \in Threads : Push(x)
    \/ \E x \in Threads : Deliver(x)
    \/ \E h \in Handles, reached \in {TRUE, ~scope.fail} : CloseSocket(h, reached)
    \/ \E j \in DOMAIN tasks : TaskLost(j)
    \/ MaintenanceTimer
    \/ RemoveAllTasks
    \/ ApplyRuntimeSettings

Spec == Init /\ [][Next]_vars

-----------------------------------------------------------------------------
Open(k) == {i \in DOMAIN k.routes : k.routes[i].open}

(* A port that the hook remembers, or is about to use, for a destination of a
   socket is a bound route of that socket to that destination: the datagram
   gets the right SOCKS5 header (IsUDPReqHacked: "Each destination has a stable
   local PRC route"), as long as the proxy process closes no task by itself. *)
RouteFor(h, d, p) ==
    \E j \in DOMAIN tasks : \E i \in Open(tasks[j]) :
        /\ MatchesAssociation(tasks[j], h, gen[h])
        /\ tasks[j].routes[i].dest = d /\ tasks[j].routes[i].port = p
StableRoute == ~scope.lose =>
    /\ \A h \in Handles, d \in Dests : table[h][d] # NoPort => RouteFor(h, d, table[h][d])
    /\ \A x \in Threads : thread[x].at \in {"registered", "send"} =>
            RouteFor(thread[x].h, thread[x].d, thread[x].port)

(* A socket has one route to a destination, whatever its threads register at
   the same time (OnNewTask prefers the task that owns the destination). *)
OneRoutePerDestination ==
    \A j, m \in DOMAIN tasks : \A a \in Open(tasks[j]), b \in Open(tasks[m]) :
        /\ MatchesAssociation(tasks[j], tasks[m].h, tasks[m].gen)
        /\ tasks[j].routes[a].dest = tasks[m].routes[b].dest
        => j = m /\ a = b

(* The answer to what a route sends comes back over that route, although a
   reply names an address only and several routes share the association
   (CanShareAssociation, CanAcceptRoute, ForwardServerDatagram), as long as the
   redirection is not switched. *)
ReplyToSender == ~scope.apply =>
    \A j \in DOMAIN tasks : \A i \in Open(tasks[j]) :
        Selected(tasks[j], Address(tasks[j].routes[i].target)) = i

(* Replies of a task go to the socket it was made for, never to a later socket
   with the same handle (socketGeneration). *)
ReplyReachesOwner == ~scope.lose =>
    \A j \in DOMAIN tasks : \A i \in Open(tasks[j]) :
        tasks[j].routes[i].app = <<tasks[j].h, tasks[j].gen>>

(* m_PortState never names a socket that has no route at the port, through
   closing, reuse of the port and the late removal of closed tasks. *)
PortStateHonest == ~scope.lose =>
    \A p \in Ports : \A o \in portState[p] :
        \E k \in ToSet(tasks) : <<k.h, k.gen>> = o /\ \E i \in Open(k) : k.routes[i].port = p

(* The hook's table and the manager's routes agree: a socket's destination keeps
   its port (StableRoute), has one route (OneRoutePerDestination), and m_PortState
   names no socket without a route at the port (PortStateHonest). *)
RoutesSound == TypeOK /\ StableRoute /\ OneRoutePerDestination /\ PortStateHonest

(* A reply takes the route of the destination it comes from (ReplyToSender), to
   the socket that sent there (ReplyReachesOwner). *)
RepliesRight == ReplyToSender /\ ReplyReachesOwner

=============================================================================
