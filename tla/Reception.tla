----------------------------- MODULE Reception -----------------------------
(* How the reception centre learns where a redirected TCP connection wanted to
   go.  HackConnect, in the application, binds the socket, announces its port
   and destination over the control pipe and connects to the loopback
   listener; OnAccept finds the announcement by the port of the peer.  Between
   the two the application may end, the pipe may fail, another thread may
   close the socket, and the port may be bound by another socket.

   A socket is named as in PRCClient: process id, creation time, handle and
   generation.  The centre's thread runs OnAccept and the timers; each pipe
   connection has a thread of its own, which runs RegisterClient. *)
EXTENDS Naturals, Sequences, FiniteSets, SequencesExt, Lists

CONSTANTS
    Procs,      \* process ids
    Handles,    \* socket handles of a process
    Ports,      \* local ports
    Dests,      \* destinations
    Expiry,     \* the 60 seconds of an announcement, in ticks (0: a tick is longer)
    MaxGen,     \* bound: socket generations and process creations
    Scopes      \* bound: what may happen, [dests, exit, fail, cancel, reuse]: the
                \* destinations asked for, whether processes end, the pipe and
                \* connect() fail, a thread closes the socket another one
                \* connects, a port that is still announced is bound again

NoPort == "none"
NoDest == "none"

ASSUME ReceptionAssumption ==
    /\ Expiry \in Nat /\ MaxGen \in Nat \ {0} /\ NoPort \notin Ports
    /\ Scopes \subseteq [dests : SUBSET Dests, exit : BOOLEAN, fail : BOOLEAN,
                        cancel : BOOLEAN, reuse : BOOLEAN]

VARIABLES
    born,       \* born[p]: creation time of the process with this id, 0: none
    clock,      \* the last creation time or generation: a later one is larger
    sock,       \* sock[p][h]: the socket
    table,      \* table[p][h]: generations in m_HackedSocket, newest first
    pipe,       \* requests that were written and not yet handled
    registered, \* m_RegisteredClient
    backlog,    \* connections to the listener not accepted yet
    tasks,      \* m_tasklist
    scope

app == <<born, clock, sock, table>>
centre == <<registered, backlog, tasks>>
vars == <<app, pipe, centre, scope>>

(* at: closed; idle, bound without a connection; asking the centre; announced;
   connected to the listener; cut by the centre. *)
Closed == [at |-> "closed", port |-> NoPort, gen |-> 0, dest |-> NoDest]
Sockets == [at : {"closed", "idle", "asking", "announced", "connected", "cut"},
            port : Ports \cup {NoPort}, gen : 0..MaxGen, dest : Dests \cup {NoDest}]
Ids == Procs \X (1..MaxGen) \X Handles \X (1..MaxGen)
Clients == [id : Ids, port : Ports, dest : Dests]

TypeOK ==
    /\ born \in [Procs -> 0..MaxGen] /\ clock \in 0..MaxGen
    /\ sock \in [Procs -> [Handles -> Sockets]]
    /\ table \in [Procs -> [Handles -> Seq(Clients)]]
    /\ pipe \subseteq Clients
    /\ registered \in Seq([client : Clients, age : 0..(Expiry + 1)])
    /\ backlog \in Seq(Clients)
    /\ tasks \subseteq [client : Clients, conn : Clients]
    /\ scope \in Scopes

Init ==
    /\ born = [p \in Procs |-> 1] /\ clock = 1
    /\ sock = [p \in Procs |-> [h \in Handles |-> Closed]]
    /\ table = [p \in Procs |-> [h \in Handles |-> <<>>]]
    /\ pipe = {} /\ registered = <<>> /\ backlog = <<>> /\ tasks = {}
    /\ scope \in Scopes

-----------------------------------------------------------------------------
(* The PRCClient of a socket, and the socket an id names. *)
Client(p, h) ==
    [id |-> <<p, born[p], h, sock[p][h].gen>>, port |-> sock[p][h].port,
     dest |-> sock[p][h].dest]
IsOpen(id) ==
    /\ born[id[1]] = id[2]
    /\ sock[id[1]][id[3]].gen = id[4] /\ sock[id[1]][id[3]].at # "closed"
Runs(id) == born[id[1]] = id[2]

(* sock once the connections conns have been closed by the centre. *)
Cut(conns) ==
    [p \in Procs |-> [h \in Handles |->
        IF sock[p][h].at = "connected" /\ Client(p, h) \in conns
        THEN [sock[p][h] EXCEPT !.at = "cut"] ELSE sock[p][h]]]

(* A local port the kernel can give to a socket: no socket is bound to it and
   no connection to the listener has it. *)
Free(q) ==
    /\ \A p \in Procs, h \in Handles : sock[p][h].port # q
    /\ \A i \in DOMAIN backlog : backlog[i].port # q
    /\ \A t \in tasks : t.conn.port # q
    /\ scope.reuse \/ (/\ \A i \in DOMAIN registered : registered[i].client.port # q
                       /\ \A r \in pipe : r.port # q)

-----------------------------------------------------------------------------
(* The application. *)

(* The id is given to a new process. *)
Start(p) ==
    /\ born[p] = 0 /\ clock < MaxGen
    /\ clock' = clock + 1
    /\ born' = [born EXCEPT ![p] = clock + 1]
    /\ UNCHANGED <<sock, table, pipe, centre, scope>>

(* The kernel closes the sockets; nothing is unregistered. *)
Exit(p) ==
    /\ scope.exit /\ born[p] # 0
    /\ born' = [born EXCEPT ![p] = 0]
    /\ sock' = [sock EXCEPT ![p] = [h \in Handles |-> Closed]]
    /\ table' = [table EXCEPT ![p] = [h \in Handles |-> <<>>]]
    /\ UNCHANGED <<clock, pipe, centre, scope>>

(* HackConnect up to the request of PRCRegisterClient; the pipe may be down.  A
   socket that could not connect keeps its port and its generation. *)
Ask(p, h, d, q, g) ==
    LET c == [id |-> <<p, born[p], h, g>>, port |-> q, dest |-> d]
        Goes(at) == sock' = [sock EXCEPT ![p][h] =
                               [at |-> at, port |-> q, gen |-> g, dest |-> d]]
    IN \/ Goes("asking") /\ pipe' = pipe \cup {c}
       \/ scope.fail /\ Goes("idle") /\ pipe' = pipe
HackConnect(p, h, d) ==
    /\ born[p] # 0
    /\ \/ /\ sock[p][h].at = "closed" /\ clock < MaxGen
          /\ clock' = clock + 1
          /\ \E q \in {q \in Ports : Free(q)} : Ask(p, h, d, q, clock + 1)
       \/ /\ sock[p][h].at = "idle"
          /\ clock' = clock
          /\ Ask(p, h, d, sock[p][h].port, sock[p][h].gen)
    /\ UNCHANGED <<born, table, centre, scope>>

(* CHackedSocket::push *)
Push(list, c) ==
    LET same == {i \in DOMAIN list : list[i].port = c.port /\ list[i].dest = c.dest} IN
    IF same = {} THEN <<c>> \o list
    ELSE [list EXCEPT ![CHOOSE i \in same : \A j \in same : i <= j] = c]

(* connect() to the listener. *)
Connect(p, h) ==
    /\ sock[p][h].at = "announced"
    /\ \/ /\ sock' = [sock EXCEPT ![p][h].at = "connected"]
          /\ backlog' = Append(backlog, Client(p, h))
       \/ /\ scope.fail
          /\ sock' = [sock EXCEPT ![p][h].at = "idle"]
          /\ backlog' = backlog
    /\ UNCHANGED <<born, clock, table, pipe, registered, tasks, scope>>

(* inhook_closesocket: what remove() took from the table is unregistered, if
   the pipe can be opened; then the kernel closes the socket. *)
Unregistered(list, id) == Only(list, {i \in DOMAIN list : list[i].client.id # id})
CloseSocket(p, h, reached) ==
    /\ sock[p][h].at \notin {"closed"} \cup
          (IF scope.cancel THEN {} ELSE {"asking", "announced"})
    /\ registered' = IF table[p][h] # <<>> /\ reached
                     THEN Unregistered(registered, Head(table[p][h]).id)
                     ELSE registered
    /\ table' = [table EXCEPT ![p][h] = <<>>]
    /\ sock' = [sock EXCEPT ![p][h] = Closed]
    /\ UNCHANGED <<born, clock, pipe, backlog, tasks, scope>>

-----------------------------------------------------------------------------
(* The centre. *)

(* RegisterClient in the thread of the pipe, which may find the process gone or
   its id used again; RegisterTCPClient replaces what the socket announced
   before.  Then the application reads the answer, unless it is lost.  (A refusal
   for want of an IPv6 route is for the application like a pipe that is down.) *)
Refused(c) == born[c.id[1]] # 0 /\ ~Runs(c.id)
AnnouncedAgain(list, c) ==   \* mutant: the socket's older announcement stays
    Append(list, [client |-> c, age |-> 0])
Announced(list, c) ==
    LET a == [client |-> c, age |-> 0]
        old == {i \in DOMAIN list : list[i].client.id = c.id}
    IN IF old = {} THEN Append(list, a)
       ELSE [list EXCEPT ![CHOOSE i \in old : \A j \in old : i <= j] = a]
Answered(c, ok) ==
    LET p == c.id[1] h == c.id[3] IN
    /\ sock' = IF ~IsOpen(c.id) THEN sock
               ELSE [sock EXCEPT ![p][h].at = IF ok THEN "announced" ELSE "idle"]
    /\ table' = IF Runs(c.id) /\ ok THEN [table EXCEPT ![p][h] = Push(@, c)] ELSE table
RegisterClient(c) ==
    /\ c \in pipe
    /\ pipe' = pipe \ {c}
    /\ registered' = IF Refused(c) THEN registered ELSE Announced(registered, c)
    /\ \E ok \in {TRUE, ~scope.fail} : Answered(c, ok /\ ~Refused(c))
    /\ UNCHANGED <<born, clock, backlog, tasks, scope>>

(* GetClientInfo: the first announcement of the peer's port. *)
MatchesAny(c) == DOMAIN registered   \* mutant: bound to any address matches
Matches(c) == {i \in DOMAIN registered : registered[i].client.port = c.port}
FirstMatch(c) == CHOOSE i \in Matches(c) : \A j \in Matches(c) : i <= j

(* OnAccept.  known: GetClientInfo finds the announcement, unless getpeername
   fails because the peer is gone.  served: the settings allow the connection
   and the task starts. *)
OnAccept(known, served) ==
    LET c == Head(backlog) IN
    /\ backlog # <<>>
    /\ known => Matches(c) # {}
    /\ ~known => Matches(c) = {} \/ ~IsOpen(c.id)
    /\ served => known
    /\ backlog' = Tail(backlog)
    /\ registered' = IF known THEN RemoveAt(registered, FirstMatch(c)) ELSE registered
    /\ tasks' = IF ~served THEN tasks
                ELSE tasks \cup {[client |-> registered[FirstMatch(c)].client, conn |-> c]}
    /\ sock' = IF served THEN sock ELSE Cut({c})
    /\ UNCHANGED <<born, clock, table, pipe, scope>>

(* TIMER_TCPPERTASK: a task that has ended or is to reconnect is deleted. *)
DeleteTask(t) ==
    /\ t \in tasks
    /\ tasks' = tasks \ {t}
    /\ sock' = Cut({t.conn})
    /\ UNCHANGED <<born, clock, table, pipe, registered, backlog, scope>>

(* TIMER_IS_TASK_ALIVE *)
Orphans == {t \in tasks : ~Runs(t.client.id)}
AliveTimer ==
    /\ Orphans # {}
    /\ tasks' = tasks \ Orphans
    /\ sock' = Cut({t.conn : t \in Orphans})
    /\ UNCHANGED <<born, clock, table, pipe, registered, backlog, scope>>

(* Time, while nobody is between the announcement and the accept: that takes
   less than the 60 seconds an announcement lives. *)
Tick ==
    /\ backlog = <<>>
    /\ \A p \in Procs, h \in Handles : sock[p][h].at # "announced"
    /\ \E i \in DOMAIN registered : registered[i].age <= Expiry
    /\ registered' = [i \in DOMAIN registered |->
          [registered[i] EXCEPT !.age = IF @ <= Expiry THEN @ + 1 ELSE @]]
    /\ UNCHANGED <<app, pipe, backlog, tasks, scope>>

(* TIMER_CHECK_REGISTERED_CLIENT *)
Old(a) == a.age > Expiry
CheckFront ==   \* mutant: stops at the first announcement that is not old
    /\ registered # <<>> /\ Old(Head(registered))
    /\ registered' = Tail(registered)
    /\ UNCHANGED <<app, pipe, backlog, tasks, scope>>
CheckTimer ==
    /\ \E i \in DOMAIN registered : Old(registered[i])
    /\ registered' = Only(registered, {i \in DOMAIN registered : ~Old(registered[i])})
    /\ UNCHANGED <<app, pipe, backlog, tasks, scope>>

(* DisableProxy and EnableProxy: the centre is deleted and made anew; an answer
   that is awaited does not come and connect() finds no listener. *)
Restart ==
    /\ registered \o backlog # <<>> \/ tasks # {} \/ pipe # {}
    /\ registered' = <<>> /\ backlog' = <<>> /\ tasks' = {} /\ pipe' = {}
    /\ sock' = [p \in Procs |-> [h \in Handles |->
          CASE sock[p][h].at = "connected" -> [sock[p][h] EXCEPT !.at = "cut"]
            [] sock[p][h].at \in {"asking", "announced"} -> [sock[p][h] EXCEPT !.at = "idle"]
            [] OTHER -> sock[p][h]]]
    /\ UNCHANGED <<born, clock, table, scope>>

Next ==
    \/ \E p \in Procs : Start(p)
    \/ \E p \in Procs : Exit(p)
    \/ \E p \in Procs, h \in Handles, d \in scope.dests : HackConnect(p, h, d)
    \/ \E p \in Procs, h \in Handles : Connect(p, h)
    \/ \E p \in Procs, h \in Handles, reached \in {TRUE, ~scope.fail} :
          CloseSocket(p, h, reached)
    \/ \E c \in pipe : RegisterClient(c)
    \/ \E known, served \in BOOLEAN : OnAccept(known, served)
    \/ \E t \in tasks : DeleteTask(t)
    \/ AliveTimer
    \/ Tick
    \/ CheckTimer
    \/ Restart

Spec == Init /\ [][Next]_vars

(* The hook goes on after the answer; pipe threads, the centre's thread and its
   timers keep running; time passes between any two connects. *)
Fairness ==
    /\ \A p \in Procs, h \in Handles : WF_vars(Connect(p, h))
    /\ WF_vars(\E c \in pipe : RegisterClient(c))
    /\ WF_vars(\E known, served \in BOOLEAN : OnAccept(known, served))
    /\ WF_vars(AliveTimer) /\ WF_vars(CheckTimer) /\ SF_vars(Tick)
FairSpec == Spec /\ Fairness

-----------------------------------------------------------------------------
(* A task has the announcement of its own connection, and so goes where that
   asked to go (OnAccept: "GetClientInfo retrieves that original destination
   through the PRC interface"), as long as no port is bound again while a
   socket that is gone is announced with it. *)
PairedRight == \A t \in tasks : t.client = t.conn

(* An open connection that waits to be accepted has its announcement, so it is
   not refused as a task that cannot be proxied, although its port may have
   been announced before. *)
NeverForeign ==
    \A i \in DOMAIN backlog :
        IsOpen(backlog[i].id) =>
            /\ Matches(backlog[i]) # {}
            /\ registered[FirstMatch(backlog[i])].client = backlog[i]

(* The 30-second check ends no task whose application still runs, although ids
   of processes are used again. *)
OnlyDeadSwept ==
    [][\A t \in tasks \ tasks' : AliveTimer => ~IsOpen(t.conn.id)]_vars

(* What a closed socket or a process that has ended left announced is dropped:
   m_RegisteredClient does not grow for ever. *)
AnnouncedBy(g) == {i \in DOMAIN registered : registered[i].client.id[4] = g}
StaleDropped ==
    \A g \in 1..MaxGen :
        (\E i \in AnnouncedBy(g) : ~IsOpen(registered[i].client.id)) ~> AnnouncedBy(g) = {}

(* The task of a process that has ended is deleted. *)
DeadTasksEnd ==
    \A p \in Procs, n \in 1..MaxGen :
        (\E t \in tasks : t.client.id[1] = p /\ t.client.id[2] = n /\ born[p] # n)
        ~> ~\E t \in tasks : t.client.id[1] = p /\ t.client.id[2] = n

(* A connection the centre accepts goes to the destination its own socket
   announced (PairedRight), and while it waits to be accepted it is neither
   refused nor taken for another one on its port (NeverForeign). *)
PairingSound == TypeOK /\ PairedRight /\ NeverForeign

(* What ended processes leave in m_RegisteredClient and in the list of tasks goes. *)
LeftoversGo == StaleDropped /\ DeadTasksEnd

=============================================================================
