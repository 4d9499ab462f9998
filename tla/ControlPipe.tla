----------------------------- MODULE ControlPipe -----------------------------
(***************************************************************************)
(* The control pipe of the reception centre: the accepting thread and its  *)
(* workers (CPRCPipeServer), start and stop of the service around them     *)
(* (CProxyReceptionCentre), the grants that let packaged applications      *)
(* connect (CAppContainerPipeAccess), the launch requests that helpers     *)
(* repeat until they know the outcome (HandleAppLaunch, Execute) and the   *)
(* table of browser QUIC states (BrowserQuicPolicy).                       *)
(*                                                                         *)
(* The pipe keeps its name from one service to the next within a GUI       *)
(* process; so do the launch history, the package grants and the table.    *)
(***************************************************************************)
EXTENDS Integers, FiniteSets, FiniteSetsExt

CONSTANTS Clients,   \* processes that talk to the pipe
          Packages,  \* packages whose applications need a grant
          Slots,     \* pipe instances, positive integers
          Plans      \* the situations to explore, see MCControlPlane

(* Time is counted in minutes from the start; a program makes one of five  *)
(* kinds of requests.                                                      *)
Kinds == {"plain", "drop", "inject", "launch", "quic"}
ASSUME PipeAssumption ==
  /\ IsFiniteSet(Slots) /\ Slots \subseteq Nat \ {0} /\ 0 \notin Clients
  /\ \A p \in Plans : p.times \subseteq Nat /\ p.kinds \subseteq Kinds

VARIABLES plan,      \* the chosen situation
          service,   \* stage of EnableProxy or DisableProxy
          servers,   \* the server objects that exist
          stopped,   \* services stopped so far (bound)
          main,      \* [stage, slot] of the accepting thread
          inst,      \* slot -> pipe instance and its worker
          count,     \* m_dwThreadCount
          idle,      \* m_hNoThreadEvent is signalled
          exiting,   \* m_bExitThread
          lock,      \* slot holding m_launchExecutionLock, 0 if free
          sids,      \* m_packageSids
          pair,      \* m_securityServer and m_securityClient are open
          dacl,      \* the DACL of the pipe object, shared by its instances
          history,   \* request -> launch record
          clock,     \* minutes
          client,    \* client -> what the process is doing
          runs,      \* history: client -> activations for its request
          browser,   \* client -> state of BrowserQuicPolicy in that process
          reports,   \* client -> reported status, "none" if absent
          final,     \* history: clients with a final report in the table
          late,      \* history: a SetEvent came after a new worker was counted
          poked      \* the connection that wakes the accepting thread was made

pvars == <<plan, service, servers, stopped, main, inst, count, idle, exiting, lock, sids, pair,
           dacl, history, clock, client, runs, browser, reports, final, late, poked>>
threads == <<main, inst, count, idle, exiting, lock, late, poked>>
access  == <<sids, pair, dacl>>
launch  == <<history, clock, runs>>
quic    == <<browser, reports, final>>
services  == <<service, servers, stopped>>

-----------------------------------------------------------------------------
Free      == [st |-> "free", who |-> 0, req |-> "none", arg |-> "none", reply |-> "none", gone |-> FALSE,
              worker |-> "none"]
NoRecord  == [result |-> "none", at |-> 0]
Open(s)   == inst[s].st # "free"
Workers   == {s \in Slots : inst[s].worker # "none"}
Exists    == pair \/ \E s \in Slots : Open(s)
FreeSlots == {s \in Slots : ~Open(s) /\ inst[s].worker = "none"}

PipeInit ==
  /\ plan \in Plans
  /\ service = "off" /\ servers = {} /\ stopped = 0
  /\ main = [stage |-> "none", slot |-> 0]
  /\ inst = [s \in Slots |-> Free]
  /\ count = 0 /\ idle = FALSE /\ exiting = FALSE /\ lock = 0
  /\ sids = {} /\ pair = FALSE /\ dacl = {}
  /\ history = [c \in Clients |-> NoRecord] /\ clock = 0
  /\ client = [c \in Clients |-> [stage |-> "idle", slot |-> 0, since |-> -1, exit |-> "none"]]
  /\ runs = [c \in Clients |-> 0]
  /\ browser = [c \in Clients |-> "waiting"]
  /\ reports = [c \in Clients |-> "none"] /\ final = {}
  /\ late = FALSE /\ poked = FALSE

-----------------------------------------------------------------------------
(* Service start: EnableProxy, CreatePRC and the centre's own thread.      *)

(* A worker that outlived its server uses freed memory; what follows from  *)
(* that is not modelled.                                                   *)
EnableProxy ==
  /\ service = "off" /\ stopped < plan.stops /\ Workers = {}
  /\ service' = "tcp"
  /\ UNCHANGED <<plan, servers, stopped, threads, access, launch, client, quic>>

After == [tcp |-> "tcp6", tcp6 |-> "udp", udp |-> "pipe", pipe |-> "running"]

(* ShutdownPRCServer after a failed start: what was started is stopped. *)
GiveUp == service' = "off" /\ servers' = {} /\ stopped' = stopped + 1

(* StartupPRCServer, one server at a time.  An IPv6 listener the machine   *)
(* does not support is left out; any other failure undoes the start.       *)
StartupPRCServer(outcome) ==
  /\ service \in {"tcp", "tcp6", "udp"}
  /\ outcome \in {"started"} \cup plan.faults
  /\ CASE outcome = "started" ->
            /\ servers' = servers \cup {service}
            /\ service' = After[service]
            /\ UNCHANGED stopped
       [] outcome = "unsupported" /\ service = "tcp6" ->
            /\ service' = After[service]
            /\ UNCHANGED <<servers, stopped>>
       [] outcome = "failed" \/ (outcome = "unsupported" /\ service # "tcp6") -> GiveUp
  /\ UNCHANGED <<plan, threads, access, launch, client, quic>>

(* CPRCPipeServer::StartupServer: events and the accepting thread; the     *)
(* event is signalled as long as there is no worker.                       *)
StartupServer ==
  /\ service = "pipe" /\ main.stage = "none"
  /\ servers' = servers \cup {"pipe"}
  /\ exiting' = FALSE /\ idle' = TRUE /\ late' = FALSE /\ poked' = FALSE
  /\ main' = [stage |-> "create", slot |-> 0]
  /\ UNCHANGED <<plan, service, stopped, inst, count, lock, access, launch, client, quic>>

-----------------------------------------------------------------------------
(* CAppContainerPipeAccess.                                                *)

(* A new object gets the baseline with every grant; an instance of an      *)
(* existing object has the object's DACL.                                  *)
NewDacl == IF ~Exists THEN sids ELSE dacl

(* CreateServerPipe for the accepting thread, the private pair first. *)
CreateServerPipe(s) ==
  /\ inst' = [inst EXCEPT ![s] = [Free EXCEPT !.st = "listen"]]
  /\ pair' = TRUE
  /\ dacl' = NewDacl
  /\ UNCHANGED sids

(* CloseServerPipe: the pair goes with the last server pipe. *)
CloseServerPipe(s, keep) ==
  /\ inst' = [inst EXCEPT ![s] = [Free EXCEPT !.worker = keep]]
  /\ pair' = (pair /\ \E t \in Slots \ {s} : Open(t))
  /\ UNCHANGED <<sids, dacl>>

(* AuthorizePackageSid for a child of the asking process. *)
Grantable(p) == p \in sids \/ pair
AuthorizePackageSid(p) ==
  /\ sids' = IF Grantable(p) THEN sids \cup {p} ELSE sids
  /\ dacl' = IF Grantable(p) /\ p \notin sids THEN dacl \cup {p} ELSE dacl
  /\ UNCHANGED pair

-----------------------------------------------------------------------------
(* CPRCPipeServer::_mainThread.                                            *)

MainCreate(ok) ==
  /\ main.stage = "create"
  /\ ~ok => "nopipe" \in plan.faults
  /\ FreeSlots # {}
  /\ IF ok
     THEN LET s == Min(FreeSlots) IN
          /\ CreateServerPipe(s)
          /\ main' = [stage |-> "listen", slot |-> s]
          /\ service' = IF service = "pipe" THEN "running" ELSE service
          /\ UNCHANGED <<servers, stopped>>
     ELSE /\ pair' = (pair /\ \E t \in Slots : Open(t))
          /\ UNCHANGED <<inst, sids, dacl>>
          /\ main' = [stage |-> IF service = "pipe" THEN "none" ELSE "ended", slot |-> 0]
          /\ IF service = "pipe" THEN GiveUp ELSE UNCHANGED services
  /\ UNCHANGED <<plan, count, idle, exiting, lock, late, poked, launch, client, quic>>

(* ConnectNamedPipe returns; the exit flag is looked at before anything.   *)
MainAccept(spawned) ==
  LET s == main.slot IN
  /\ main.stage = "listen" /\ inst[s].st = "linked"
  /\ ~spawned => "nothread" \in plan.faults
  /\ IF exiting \/ ~spawned
     THEN /\ CloseServerPipe(s, "none")
          /\ main' = [stage |-> IF exiting THEN "ended" ELSE "create", slot |-> 0]
     ELSE /\ main' = [main EXCEPT !.stage = "count"]
          /\ UNCHANGED <<inst, access>>
  /\ UNCHANGED <<plan, services, count, idle, exiting, lock, late, poked, launch, client, quic>>

Counted == count + 1

(* InterlockedIncrement, ResetEvent, ResumeThread: the instance belongs to *)
(* its worker from here.  A thread that cannot be resumed is ended, and    *)
(* the count given back.                                                   *)
MainHandOver(resumed) ==
  LET s == main.slot IN
  /\ main.stage = "count"
  /\ ~resumed => "nothread" \in plan.faults
  /\ main' = [stage |-> "create", slot |-> 0]
  /\ IF resumed
     THEN /\ count' = Counted /\ idle' = FALSE
          /\ late' = (late \/ \E t \in Slots : inst[t].worker = "signal")
          /\ inst' = [inst EXCEPT ![s] = [@ EXCEPT !.st = "served", !.worker = "loop"]]
          /\ UNCHANGED access
     ELSE /\ idle' = (count = 0)
          /\ CloseServerPipe(s, "none")
          /\ UNCHANGED <<count, late>>
  /\ UNCHANGED <<plan, services, exiting, lock, poked, launch, client, quic>>

-----------------------------------------------------------------------------
(* CPRCPipeServer::_InstanceThread.                                        *)

Loop(s) == inst[s].worker = "loop"
Reply(s, r) == [inst EXCEPT ![s] = [@ EXCEPT !.req = "none", !.reply = r]]

(* Out of the loop: the exit flag is set, the client is gone, or a request *)
(* is refused (wrong size, another process named, UnregisterClient).       *)
WorkerLeave(s) ==
  /\ Loop(s)
  /\ exiting \/ inst[s].gone \/ inst[s].req = "drop"
  /\ CloseServerPipe(s, "closed")
  /\ UNCHANGED <<plan, services, main, count, idle, exiting, lock, late, poked, launch, client, quic>>

(* The decrement, and the signal of the last one. *)
WorkerUncount(s) ==
  /\ inst[s].worker = "closed"
  /\ count' = count - 1
  /\ inst' = [inst EXCEPT ![s].worker = IF count = 1 THEN "signal" ELSE "none"]
  /\ UNCHANGED <<plan, services, main, idle, exiting, lock, late, poked, access, launch, client, quic>>

WorkerSignal(s) ==
  /\ inst[s].worker = "signal"
  /\ idle' = TRUE
  /\ inst' = [inst EXCEPT ![s].worker = "none"]
  /\ UNCHANGED <<plan, services, main, count, exiting, lock, late, poked, access, launch, client, quic>>

(* A request whose answer changes nothing (settings, startup information,  *)
(* filter, port state), or a notice without an answer.                     *)
ServePlain(s) ==
  /\ Loop(s) /\ inst[s].req = "plain"
  /\ inst' = Reply(s, "yes")
  /\ UNCHANGED <<plan, services, main, count, idle, exiting, lock, late, poked, access, launch, client, quic>>

(* PRCPD_SHOULD_INJECT_NEW_PROCESS of an AppContainer child: the child is  *)
(* checked to be the asking process's own before its package is granted.   *)
ServeInject(s, own) ==
  /\ Loop(s) /\ inst[s].req = "inject"
  /\ LET p == inst[s].arg IN
     IF own /\ Grantable(p)
     THEN AuthorizePackageSid(p) /\ inst' = Reply(s, "yes")
     ELSE UNCHANGED access /\ inst' = Reply(s, "no")
  /\ UNCHANGED <<plan, services, main, count, idle, exiting, lock, late, poked, launch, client, quic>>

-----------------------------------------------------------------------------
(* HandleAppLaunch.                                                        *)

Validity == 2   \* 120 s, in minutes
Keep     == 5   \* 300 s

Purged == [c \in Clients |->
             IF history[c].result \notin {"none", "pending"} /\ clock - history[c].at > Keep
             THEN NoRecord ELSE history[c]]

Unrecorded(s, h) ==
  /\ history' = h
  /\ inst' = [inst EXCEPT ![s].worker = "wait"]

Recorded(s, h) ==
  /\ history' = [h EXCEPT ![inst[s].who] = [result |-> "pending", at |-> client[inst[s].who].since]]
  /\ inst' = [inst EXCEPT ![s].worker = "wait"]

(* Up to the record of the pending request: validity, purge, lookup, room. *)
LaunchBegin(s) ==
  LET c == inst[s].who
      h == Purged
      held == Cardinality({d \in Clients : h[d].result # "none"})
  IN
  /\ Loop(s) /\ inst[s].req = "launch"
  /\ IF clock - client[c].since > Validity
     THEN inst' = Reply(s, "invalid") /\ UNCHANGED history
     ELSE IF h[c].result # "none"
     THEN inst' = Reply(s, h[c].result) /\ history' = h
     ELSE IF held >= plan.room
     THEN inst' = Reply(s, "busy") /\ history' = h
     ELSE Recorded(s, h)
  /\ UNCHANGED <<plan, services, main, count, idle, exiting, lock, late, poked, access, clock, runs,
                 client, quic>>

(* One activation at a time in a server. *)
MayEnter(s) == lock = 0

(* LaunchAppFromShell under m_launchExecutionLock, unless the server is    *)
(* being stopped; `happened' is FALSE where the activation is refused.     *)
LaunchEnter(s, happened) ==
  /\ inst[s].worker = "wait" /\ MayEnter(s)
  /\ lock' = s
  /\ exiting => ~happened
  /\ inst' = [inst EXCEPT ![s].worker = CASE exiting -> "abort"
                                          [] ~exiting /\ happened -> "active"
                                          [] OTHER -> "refused"]
  /\ runs' = IF happened THEN [runs EXCEPT ![inst[s].who] = @ + 1] ELSE runs
  /\ UNCHANGED <<plan, services, main, count, idle, exiting, late, poked, access, history, clock,
                 client, quic>>

Outcomes == [abort |-> {"aborted"}, refused |-> {"fault"}, active |-> {"ok", "fault"}]

(* The outcome is recorded and answered; an exception may follow the       *)
(* activation.                                                             *)
LaunchStore(s, outcome) ==
  /\ inst[s].worker \in DOMAIN Outcomes
  /\ outcome \in Outcomes[inst[s].worker]
  /\ lock' = IF lock = s THEN 0 ELSE lock
  /\ history' = [history EXCEPT ![inst[s].who].result = outcome]
  /\ inst' = [inst EXCEPT ![s] = [@ EXCEPT !.worker = "loop", !.req = "none", !.reply = outcome]]
  /\ UNCHANGED <<plan, services, main, count, idle, exiting, late, poked, access, clock, runs, client,
                 quic>>

-----------------------------------------------------------------------------
(* BrowserQuicPolicy.                                                      *)

Status == [waiting |-> "none", working |-> "pending", installed |-> "ready", failed |-> "unavailable"]

(* Observe: a final state is not taken back; a full table gives up its     *)
(* oldest entry (any, here).                                               *)
Observe(c, st) ==
  LET known == {d \in Clients : reports[d] # "none"}
      fresh == reports[c] = "none"
  IN IF st = "none" \/ (~fresh /\ reports[c] # "pending" /\ st = "pending")
     THEN UNCHANGED <<reports, final>>
     ELSE \E out \in IF fresh /\ Cardinality(known) >= plan.table THEN known ELSE {c} :
            /\ reports' = [d \in Clients |-> IF d = c THEN st
                                             ELSE IF d = out THEN "none" ELSE reports[d]]
            /\ final' = (final \ {out}) \cup
                        (IF st # "pending" \/ (c = out /\ c \in final) THEN {c} ELSE {})

(* PRCPD_QUIC_STATUS, and the status a UDP registration carries.  It was   *)
(* read in the process when the request was made.                          *)
ServeQuic(s) ==
  /\ Loop(s) /\ inst[s].req = "quic"
  /\ Observe(inst[s].who, inst[s].arg)
  /\ inst' = [inst EXCEPT ![s] = [@ EXCEPT !.req = "none", !.reply = "yes", !.gone = TRUE]]
  /\ UNCHANGED <<plan, services, main, count, idle, exiting, lock, late, poked, access, launch, client,
                 browser>>

(* OnUdp finds the browser's module; Worker installs the hook or fails.    *)
OnUdp(c) ==
  /\ "quic" \in plan.kinds /\ c \in plan.who /\ browser[c] = "waiting"
  /\ browser' = [browser EXCEPT ![c] = "working"]
  /\ UNCHANGED <<plan, services, threads, access, launch, client, reports, final>>

Worker(c, ok) ==
  /\ browser[c] = "working"
  /\ browser' = [browser EXCEPT ![c] = IF ok THEN "installed" ELSE "failed"]
  /\ UNCHANGED <<plan, services, threads, access, launch, client, reports, final>>

-----------------------------------------------------------------------------
(* The other ends.                                                         *)

Listening == {s \in Slots : inst[s].st = "listen"}
Room == FreeSlots # {}   \* bound on the connections at a time

(* Connect, then one request.  The helper's request (Execute) has one id   *)
(* and one submission time for all its attempts.  QUIC states are reported *)
(* by several threads of a browser, each on a pipe of its own.             *)
Connect(c, kind, arg) ==
  /\ client[c].stage = "idle" /\ Listening # {} /\ Room
  /\ c \in plan.who /\ kind \in plan.kinds
  /\ kind = "launch" => client[c].exit = "none"
  /\ kind = "quic" => arg = Status[browser[c]] /\ arg # "none"
  /\ kind = "inject" => arg \in Packages
  /\ kind \in {"plain", "drop", "launch"} => arg = "none"
  /\ LET s == Min(Listening) IN
     /\ inst' = [inst EXCEPT ![s] = [@ EXCEPT !.st = "linked", !.who = c, !.req = kind, !.arg = arg]]
     /\ client' = [client EXCEPT ![c] =
          [@ EXCEPT !.stage = IF kind = "quic" THEN "idle" ELSE kind,
                    !.slot  = IF kind = "quic" THEN client[c].slot ELSE s,
                    !.since = IF kind = "launch" /\ client[c].since < 0 THEN clock ELSE client[c].since]]
  /\ UNCHANGED <<plan, services, main, count, idle, exiting, lock, late, poked, access, launch, quic>>

Waiting(c) == client[c].stage \notin {"idle", "gone"}
Helping(c) == client[c].since >= 0 /\ client[c].exit = "none" /\ client[c].stage # "gone"
Mine(c)    == inst[client[c].slot].who = c

(* The client's end is closed: the worker sees a broken pipe. *)
Hang(c) == inst' = [inst EXCEPT ![client[c].slot].gone = TRUE]

Done(c, exit) == client' = [client EXCEPT ![c] = [@ EXCEPT !.stage = "idle", !.exit = exit]]

(* The answer is read.  A helper repeats a request that is still pending. *)
Receive(c) ==
  /\ Waiting(c) /\ Mine(c) /\ inst[client[c].slot].reply # "none"
  /\ Hang(c)
  /\ LET r == inst[client[c].slot].reply IN
     Done(c, IF client[c].stage = "launch" /\ r # "pending" THEN r ELSE client[c].exit)
  /\ UNCHANGED <<plan, services, main, count, idle, exiting, lock, late, poked, access, launch, quic>>

(* The pipe broke before the answer; a helper tries again. *)
Broken(c) ==
  /\ Waiting(c) /\ ~Mine(c)
  /\ Done(c, client[c].exit)
  /\ UNCHANGED <<plan, services, threads, access, launch, quic>>

(* The helper's 45 seconds are over, or the pipe is not there at all. *)
ExecuteEnds(c) ==
  /\ Helping(c)
  /\ clock > client[c].since \/ (client[c].stage = "idle" /\ ~Exists)
  /\ Done(c, "unknown")
  /\ IF Waiting(c) /\ Mine(c) THEN Hang(c) ELSE UNCHANGED inst
  /\ UNCHANGED <<plan, services, main, count, idle, exiting, lock, late, poked, access, launch, quic>>

(* A client ends at any time. *)
ClientDies(c) ==
  /\ "drop" \in plan.kinds /\ Waiting(c)
  /\ client' = [client EXCEPT ![c].stage = "gone"]
  /\ IF Mine(c) THEN Hang(c) ELSE UNCHANGED inst
  /\ UNCHANGED <<plan, services, main, count, idle, exiting, lock, late, poked, access, launch, quic>>

(* Time passes; a helper is gone 45 seconds after its submission. *)
Tick ==
  /\ \E t \in plan.times : t > clock
  /\ clock' = Min({t \in plan.times : t > clock})
  /\ \A c \in Clients : Helping(c) => clock' <= client[c].since + 1
  /\ UNCHANGED <<plan, services, threads, access, history, runs, client, quic>>

-----------------------------------------------------------------------------
(* Service stop: DisableProxy and DestroyPRC, then ShutdownServer.         *)

(* DestroyPRC ends the centre's thread; ShutdownServer sets the exit flag. *)
StopCentre ==
  /\ service = "running"
  /\ service' = "poke"
  /\ exiting' = TRUE
  /\ UNCHANGED <<plan, servers, stopped, main, inst, count, idle, lock, late, poked, access, launch,
                 client, quic>>

(* ShutdownServer connects to its own pipe to wake the accepting thread;   *)
(* without a listening instance the connection fails.                      *)
Poke ==
  /\ service = "poke"
  /\ service' = "main"
  /\ IF Listening # {}
     THEN /\ inst' = [inst EXCEPT ![Min(Listening)] = [@ EXCEPT !.st = "linked", !.gone = TRUE]]
          /\ poked' = TRUE
     ELSE UNCHANGED <<inst, poked>>
  /\ UNCHANGED <<plan, servers, stopped, main, count, idle, exiting, lock, late, access, launch, client,
                 quic>>

JoinMain ==
  /\ service = "main" /\ main.stage = "ended"
  /\ service' = "workers"
  /\ main' = [stage |-> "none", slot |-> 0]
  /\ UNCHANGED <<plan, servers, stopped, inst, count, idle, exiting, lock, late, poked, access, launch,
                 client, quic>>

NoJoin ==
  /\ service = "workers"
  /\ service' = "delete"
  /\ idle' = FALSE
  /\ UNCHANGED <<plan, servers, stopped, main, inst, count, exiting, lock, late, poked, access, launch,
                 client, quic>>

(* The wait for m_hNoThreadEvent, which resets it. *)
JoinWorkers ==
  /\ service = "workers" /\ idle
  /\ service' = "delete"
  /\ idle' = FALSE
  /\ UNCHANGED <<plan, servers, stopped, main, inst, count, exiting, lock, late, poked, access, launch,
                 client, quic>>

(* ~CPRCPipeServer: this owner's entries leave the table. *)
Forget == reports' = [c \in Clients |-> "none"] /\ final' = {}

(* The servers and the centre are deleted. *)
ShutdownPRCServer ==
  /\ service = "delete"
  /\ service' = "off" /\ servers' = {} /\ stopped' = stopped + 1
  /\ Forget
  /\ UNCHANGED <<plan, threads, access, launch, client, browser>>

-----------------------------------------------------------------------------
Serve(s) ==
  \/ WorkerLeave(s) \/ WorkerUncount(s) \/ WorkerSignal(s) \/ ServePlain(s) \/ ServeQuic(s)
  \/ LaunchBegin(s)
  \/ \E b \in BOOLEAN : ServeInject(s, b) \/ LaunchEnter(s, b)
  \/ \E o \in {"ok", "fault", "aborted"} : LaunchStore(s, o)
ClientStep(c) ==
  \/ Receive(c) \/ Broken(c) \/ ExecuteEnds(c) \/ ClientDies(c) \/ OnUdp(c)
  \/ \E b \in BOOLEAN : Worker(c, b)
  \/ \E k \in plan.kinds, a \in Packages \cup {"none", "pending", "ready", "unavailable"} : Connect(c, k, a)
ServiceStep ==
  \/ EnableProxy \/ StartupServer \/ StopCentre \/ Poke \/ JoinMain \/ JoinWorkers \/ ShutdownPRCServer
  \/ \E o \in {"started", "unsupported", "failed"} : StartupPRCServer(o)
MainStep == \E b \in BOOLEAN : MainCreate(b) \/ MainAccept(b) \/ MainHandOver(b)

PipeNext == (\E s \in Slots : Serve(s)) \/ (\E c \in Clients : ClientStep(c)) \/ ServiceStep \/ MainStep \/ Tick

PipeSpec == PipeInit /\ [][PipeNext]_pvars

-----------------------------------------------------------------------------
(* Types: stages, counts and the shape of the instances. *)
PipeTypeOK ==
  /\ service \in {"off", "tcp", "tcp6", "udp", "pipe", "running", "poke", "main", "workers", "delete"}
  /\ servers \subseteq {"tcp", "tcp6", "udp", "pipe"}
  /\ main.stage \in {"none", "create", "listen", "count", "ended"}
  /\ count \in 0 .. Cardinality(Slots)
  /\ sids \subseteq Packages /\ dacl \subseteq Packages
  /\ lock \in Slots \cup {0}
  /\ \A s \in Slots : /\ inst[s].st \in {"free", "listen", "linked", "served"}
                       /\ inst[s].worker \in {"none", "loop", "wait", "active", "refused", "abort",
                                              "closed", "signal"}
  /\ \A c \in Clients : history[c].result \in {"none", "pending", "ok", "fault", "aborted"}

(* No worker is left when the servers it uses are deleted (ShutdownServer  *)
(* joins the workers first), unless the signal of an earlier worker was    *)
(* late: sent after a new worker had been counted.                         *)
NoWorkerOutlives ==
  late \/ \A s \in Slots : inst[s].worker \in {"none", "signal"} \/ {"tcp", "udp", "pipe"} \subseteq servers

(* The accepting thread cannot wait for a client that never comes once the *)
(* stopping thread has made its connection.                                *)
MainWoken ==
  service = "main" /\ poked /\ main.stage = "listen" => inst[main.slot].st = "linked"

(* When the service is off, after a stop or a failed start, nothing of it  *)
(* is left: no server object, no pipe instance, no private pair.           *)
OffLeavesNothing == service = "off" /\ ~late => servers = {} /\ ~Exists /\ count = 0

(* Every grant is in the DACL of the pipe as long as the pipe exists, from *)
(* one service to the next; a granted package is not asked for again.      *)
GrantHolds == Exists => sids \subseteq dacl

(* A launch request is activated at most once, whatever its helper repeats *)
(* and however often the service is stopped and started; activations do    *)
(* not overlap.                                                            *)
LaunchOnce ==
  /\ \A c \in Clients : runs[c] <= 1
  /\ Cardinality({s \in Slots : inst[s].worker = "active"}) <= 1

(* What a helper reports is true: success means the application was        *)
(* activated, a refusal that it was not and never will be.                 *)
ResultTrue ==
  \A c \in Clients :
    /\ client[c].exit = "ok" => runs[c] = 1
    /\ client[c].exit \in {"aborted", "invalid", "busy"} => runs[c] = 0

(* The table never calls a browser ready or unavailable that is not, and   *)
(* does not go back to pending, in whatever order the reports arrive.      *)
QuicTrue ==
  \A c \in Clients :
    /\ reports[c] = "ready" => browser[c] = "installed"
    /\ reports[c] = "unavailable" => browser[c] = "failed"
    /\ c \in final => reports[c] \in {"ready", "unavailable"}

(* All of it: a service that stops, or fails to start, stops wholly (its   *)
(* workers are joined, the accepting thread is woken, no server is left,   *)
(* the grants of packages are in the DACL of the next one); requests are   *)
(* carried out once, whatever a helper repeats, and answered truly; so is  *)
(* the table of BrowserQuicPolicy.                                         *)
PipeSound ==
  /\ PipeTypeOK /\ NoWorkerOutlives /\ MainWoken /\ OffLeavesNothing /\ GrantHolds
  /\ LaunchOnce /\ ResultTrue /\ QuicTrue
==============================================================================
