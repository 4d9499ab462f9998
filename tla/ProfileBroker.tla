--------------------------- MODULE ProfileBroker ---------------------------
(***************************************************************************)
(* Instances of ProxyLane that share a profile.  An instance started with  *)
(* --auto hands its command to the instance that runs the profile, or      *)
(* becomes that instance (CProfileCommandBroker, CProxyLaneApp); the one   *)
(* that serves runs the command on its UI thread (CProxyLaneDlg).  The     *)
(* 32-bit program forwards once without the gate, then leaves the rest to  *)
(* the 64-bit program it starts: "wow" below stands for both.              *)
(*                                                                         *)
(* Every automation command names profile "A"; a user may run another. A   *)
(* pipe instance, a mutex and a message queue are those of Windows: a      *)
(* mutex is recursive and is given up when its owner dies, a disconnected  *)
(* pipe discards what was not read.  How a command is serialised is left   *)
(* out, and with it what a server answers to one it cannot parse.          *)
(***************************************************************************)
EXTENDS Integers, Sequences, FiniteSets

CONSTANTS Instances, BrokerPlans

VARIABLES bplan,     \* kinds of the instances, what users do, crashes
          gate,      \* the mutex of a profile: its owner and how often it is held
          inst,      \* the instances
          srv,       \* their server threads
          reqs,      \* CProfileCommandRequest, by client
          launched   \* how often the command of an instance was run

bvars == <<bplan, gate, inst, srv, reqs, launched>>

-----------------------------------------------------------------------------
Profiles == {"A", "B"}
Nobody == 0

(* client and msg: who is connected, and its message; data: an answer that *)
(* was not read.                                                           *)
NoServer == [st |-> "none", profile |-> "none", client |-> Nobody, msg |-> FALSE, stop |-> FALSE, ready |-> FALSE]
NoRequest == [refs |-> 0, cancelled |-> FALSE, done |-> FALSE, code |-> "none"]

BInit ==
  /\ bplan \in BrokerPlans
  /\ gate = [p \in Profiles |-> [by |-> Nobody, n |-> 0]]
  /\ inst = [i \in Instances |->
               [ui |-> CASE bplan.kind[i] = "auto" -> "acquire" [] bplan.kind[i] = "wow" -> "pre"
                          [] bplan.kind[i] = "manual" -> "idle" [] OTHER -> "exit",
                why |-> "none", proxy |-> "off", queue |-> <<>>, owner |-> FALSE, told |-> "no", data |-> FALSE,
                code |-> "none"]]
  /\ srv = [i \in Instances |-> NoServer]
  /\ reqs = [i \in Instances |-> NoRequest]
  /\ launched = [i \in Instances |-> 0]

Ui(i, x) == inst' = [inst EXCEPT ![i] = x]
Holds(g, i) == g.by = i
Freed(g) == IF g.n = 1 THEN [by |-> Nobody, n |-> 0] ELSE [g EXCEPT !.n = @ - 1]
Dropped(g, i) == IF g.by = i THEN [by |-> Nobody, n |-> 0] ELSE g

(* The server whose pipe carries the name of the profile. *)
HasPipe(j) == srv[j].st \notin {"none", "create"}
Serving(p) == {j \in Instances : HasPipe(j) /\ srv[j].profile = p}

-----------------------------------------------------------------------------
(* AcquireLaunchGate; an abandoned mutex is a free one. *)
AcquireLaunchGate(i) ==
  /\ inst[i].ui = "acquire" /\ gate["A"].by = Nobody
  /\ gate' = [gate EXCEPT !["A"] = [by |-> i, n |-> 1]]
  /\ Ui(i, [inst[i] EXCEPT !.ui = "forward"])
  /\ UNCHANGED <<bplan, srv, reqs, launched>>

(* Forward has its result: PrepareAutomationCommandReceiver, or the 32-bit *)
(* program before it.  Only a pipe that does not exist makes an instance   *)
(* run its command itself.                                                 *)
AfterForward(result, gated) ==
  CASE result # "not found" -> "exit"
    [] result = "not found" /\ gated -> "begin"
    [] OTHER -> "acquire"
Forwarded(i, result, code) ==
  LET gated == Holds(gate["A"], i)
      next  == AfterForward(result, gated)
  IN  /\ Ui(i, [inst[i] EXCEPT !.ui = next, !.owner = next = "begin", !.told = "no", !.data = FALSE,
                               !.code = IF next = "exit" THEN code ELSE @])
      /\ gate' = IF gated /\ next = "exit" THEN [gate EXCEPT !["A"] = Freed(@)] ELSE gate

Forward(i) ==
  /\ inst[i].ui \in {"pre", "forward"}
  /\ \/ Serving("A") = {} /\ Forwarded(i, "not found", "none") /\ UNCHANGED <<bplan, srv, reqs, launched>>
     \/ \E j \in Serving("A") :
          \/ /\ srv[j].st \in {"fresh", "listen"} /\ srv[j].client = Nobody
             /\ srv' = [srv EXCEPT ![j].client = i]
             /\ Ui(i, [inst[i] EXCEPT !.ui = "write", !.told = "open"])
             /\ UNCHANGED <<bplan, gate, reqs, launched>>
          \/ /\ ~(srv[j].st \in {"fresh", "listen"} /\ srv[j].client = Nobody)
             /\ Forwarded(i, "transport", "failed") /\ UNCHANGED <<bplan, srv, reqs, launched>>

(* WriteFile, then ReadFile; the pipe may have been disconnected. *)
ForwardWrites(i) ==
  /\ inst[i].ui = "write"
  /\ IF inst[i].told = "open"
       THEN /\ srv' = [j \in Instances |-> IF srv[j].client = i THEN [srv[j] EXCEPT !.msg = TRUE] ELSE srv[j]]
            /\ Ui(i, [inst[i] EXCEPT !.ui = "sent"]) /\ UNCHANGED <<bplan, gate, reqs, launched>>
     ELSE Forwarded(i, "transport", "failed") /\ UNCHANGED <<bplan, srv, reqs, launched>>
ForwardReads(i) ==
  /\ inst[i].ui = "sent" /\ inst[i].told = "open" /\ ~inst[i].data
  /\ Ui(i, [inst[i] EXCEPT !.ui = "reading"]) /\ UNCHANGED <<bplan, gate, srv, reqs, launched>>
ForwardReadsData(i) ==
  /\ inst[i].ui = "sent" /\ inst[i].told = "open" /\ inst[i].data
  /\ Ui(i, [inst[i] EXCEPT !.ui = "reading", !.told = reqs[i].code, !.data = FALSE])
  /\ UNCHANGED <<bplan, gate, srv, reqs, launched>>
ForwardEnds(i) ==
  /\ inst[i].ui \in {"sent", "reading"} /\ inst[i].told # "open"
  /\ IF inst[i].told = "broken" THEN Forwarded(i, "transport", "failed") ELSE Forwarded(i, "handled", inst[i].told)
  /\ UNCHANGED <<bplan, srv, reqs, launched>>

-----------------------------------------------------------------------------
(* OnAutomationStart. *)
FailAutomation(x, why) == [x EXCEPT !.ui = "closing", !.code = why, !.proxy = "off"]
StartProxy(i, ok) ==
  /\ inst[i].ui = "begin"
  /\ Ui(i, IF ok THEN [inst[i] EXCEPT !.ui = "refresh", !.why = "auto", !.proxy = "A", !.queue = Append(@, Nobody)]
           ELSE FailAutomation(inst[i], "failed"))
  /\ UNCHANGED <<bplan, gate, srv, reqs, launched>>
Launch(i, ok) ==
  /\ inst[i].ui = "launch"
  /\ Ui(i, IF ok THEN [inst[i] EXCEPT !.ui = "ready"] ELSE FailAutomation(inst[i], "failed"))
  /\ launched' = [launched EXCEPT ![i] = IF ok THEN @ + 1 ELSE @]
  /\ UNCHANGED <<bplan, gate, srv, reqs>>
SignalAutomationReady(i) ==
  /\ inst[i].ui = "ready"
  /\ Ui(i, [inst[i] EXCEPT !.ui = "idle", !.code = "success", !.why = "none"])
  /\ gate' = [gate EXCEPT !["A"] = IF Holds(@, i) THEN Freed(@) ELSE @]
  /\ UNCHANGED <<bplan, srv, reqs, launched>>

(* RefreshProfileCommandServer. *)
IsServerActive(i, p) == srv[i].ready /\ srv[i].profile = p
Refreshed(x, ok) ==
  IF x.why # "auto" THEN [x EXCEPT !.ui = "idle", !.why = "none"]
  ELSE IF ok \/ ~x.owner THEN [x EXCEPT !.ui = "launch"] ELSE FailAutomation(x, "unowned")
StopServer(i) == srv' = [srv EXCEPT ![i].stop = srv[i].st # "none"]
Refresh(i) ==
  /\ inst[i].ui = "refresh"
  /\ IF inst[i].proxy # "off" /\ IsServerActive(i, inst[i].proxy)
       THEN Ui(i, Refreshed(inst[i], TRUE)) /\ srv' = srv
     ELSE Ui(i, [inst[i] EXCEPT !.ui = IF inst[i].proxy = "off" THEN "stop" ELSE "restart"]) /\ StopServer(i)
  /\ UNCHANGED <<bplan, gate, reqs, launched>>
Joined(i) ==
  /\ inst[i].ui \in {"stop", "restart", "closing"} /\ (inst[i].ui = "closing" => srv[i].stop \/ srv[i].st = "none")
  /\ srv[i].st = "none"
  /\ srv' = [srv EXCEPT ![i] = NoServer]
  /\ Ui(i, CASE inst[i].ui = "stop"    -> Refreshed(inst[i], TRUE)
             [] inst[i].ui = "restart" -> [inst[i] EXCEPT !.ui = "elect"]
             [] inst[i].ui = "closing" -> [inst[i] EXCEPT !.ui = "exit", !.queue = <<>>, !.proxy = "off"])
  /\ gate' = IF inst[i].ui = "closing" THEN [p \in Profiles |-> Dropped(gate[p], i)] ELSE gate
  /\ UNCHANGED <<bplan, reqs, launched>>

(* StartServer, from the election on: the gate is tried, never waited for. *)
Elected(g, i) == g.by \in {Nobody, i}
Elect(i) ==
  LET p == inst[i].proxy
  IN  /\ inst[i].ui = "elect"
      /\ IF Elected(gate[p], i)
           THEN /\ gate' = [gate EXCEPT ![p] = IF @.by \in {Nobody, i} THEN [by |-> i, n |-> @.n + 1] ELSE @]
                /\ srv' = [srv EXCEPT ![i] = [NoServer EXCEPT !.st = "create", !.profile = p]]
                /\ Ui(i, [inst[i] EXCEPT !.ui = "started"])
         ELSE Ui(i, Refreshed(inst[i], FALSE)) /\ UNCHANGED <<gate, srv>>
      /\ UNCHANGED <<bplan, reqs, launched>>
Unelected(g, i) == IF Holds(g, i) THEN Freed(g) ELSE g
Started(i) ==
  /\ inst[i].ui = "started" /\ srv[i].st # "create"
  /\ gate' = [gate EXCEPT ![inst[i].proxy] = Unelected(@, i)]
  /\ Ui(i, IF srv[i].ready THEN Refreshed(inst[i], TRUE)
           ELSE IF srv[i].st = "none" THEN Refreshed(inst[i], FALSE) ELSE [inst[i] EXCEPT !.ui = "stop"])
  /\ UNCHANGED <<bplan, srv, reqs, launched>>

-----------------------------------------------------------------------------
(* ServerThread.  A profile has one pipe; a client may already be there,   *)
(* or have come and gone, before ConnectNamedPipe is called.               *)
Thread(i, x) == srv' = [srv EXCEPT ![i] = x]
ServerCreates(i) ==
  /\ srv[i].st = "create"
  /\ Thread(i, IF Serving(srv[i].profile) = {} THEN [srv[i] EXCEPT !.st = "fresh", !.ready = TRUE]
               ELSE [srv[i] EXCEPT !.st = "none"])
  /\ UNCHANGED <<bplan, gate, inst, reqs, launched>>

(* The end of the thread, or of a client: whoever is connected is thrown   *)
(* off, and what it has not read is gone.                                  *)
Disconnected(j) ==
  [i \in Instances |-> IF srv[j].client = i /\ inst[i].told = "open" THEN [inst[i] EXCEPT !.told = "broken", !.data = FALSE]
                       ELSE inst[i]]
Ended(j) == [srv[j] EXCEPT !.st = "none", !.client = Nobody, !.msg = FALSE, !.ready = FALSE]
Gone(c) == inst[c].ui \notin {"write", "sent", "reading"}

ServerConnects(j) ==
  /\ srv[j].st \in {"fresh", "listen"}
  /\ IF srv[j].stop \/ (srv[j].st = "fresh" /\ srv[j].client # Nobody /\ Gone(srv[j].client))
       THEN Thread(j, Ended(j)) /\ inst' = Disconnected(j)
     ELSE /\ srv[j].st = "fresh" \/ srv[j].client # Nobody
          /\ Thread(j, [srv[j] EXCEPT !.st = IF srv[j].client = Nobody THEN "listen" ELSE "read"]) /\ inst' = inst
  /\ UNCHANGED <<bplan, gate, reqs, launched>>

(* ProcessClient: the command is posted to the window, with a reference    *)
(* for each of the two threads.                                            *)
Back(j) == IF srv[j].stop THEN Ended(j) ELSE [srv[j] EXCEPT !.st = "listen", !.client = Nobody, !.msg = FALSE]
ServerReads(j) ==
  LET c == srv[j].client
  IN  /\ srv[j].st = "read"
      /\ \/ /\ srv[j].msg
            /\ Thread(j, [srv[j] EXCEPT !.st = "wait", !.msg = FALSE])
            /\ reqs' = [reqs EXCEPT ![c] = [NoRequest EXCEPT !.refs = 2]]
            /\ inst' = [inst EXCEPT ![j].queue = Append(@, c)]
         \/ /\ ~srv[j].msg /\ (srv[j].stop \/ Gone(c))
            /\ Thread(j, Back(j)) /\ inst' = Disconnected(j) /\ reqs' = reqs
      /\ UNCHANGED <<bplan, gate, launched>>

(* The wait: stopping comes first.  The answer reaches a client that reads *)
(* already; another must read it before it is thrown off.                  *)
Cancelled(r) == [r EXCEPT !.cancelled = TRUE, !.refs = @ - 1]
ServerCancels(j) ==
  /\ srv[j].st = "wait" /\ srv[j].stop
  /\ reqs' = [reqs EXCEPT ![srv[j].client] = Cancelled(@)]
  /\ Thread(j, Back(j)) /\ inst' = Disconnected(j)
  /\ UNCHANGED <<bplan, gate, launched>>
ServerAnswers(j) ==
  LET c == srv[j].client
  IN  /\ srv[j].st = "wait" /\ ~srv[j].stop /\ reqs[c].done
      /\ reqs' = [reqs EXCEPT ![c].refs = @ - 1]
      /\ inst' = IF inst[c].ui = "reading" THEN [inst EXCEPT ![c].told = reqs[c].code]
                 ELSE IF inst[c].ui = "sent" THEN [inst EXCEPT ![c].data = TRUE] ELSE inst
      /\ Thread(j, [srv[j] EXCEPT !.st = "answered"])
      /\ UNCHANGED <<bplan, gate, launched>>
ServerDisconnects(j) ==
  /\ srv[j].st = "answered"
  /\ Thread(j, Back(j)) /\ inst' = Disconnected(j)
  /\ UNCHANGED <<bplan, gate, reqs, launched>>

-----------------------------------------------------------------------------
(* The UI thread takes its next message: WM_PROXY_STATUS_CHANGED is        *)
(* Nobody's, OnProfileCommandRequest a client's.                           *)
OnProxyStatusChanged(i) ==
  /\ inst[i].ui = "idle" /\ inst[i].queue # <<>> /\ Head(inst[i].queue) = Nobody
  /\ Ui(i, [inst[i] EXCEPT !.ui = "refresh", !.why = "status", !.queue = Tail(@)])
  /\ UNCHANGED <<bplan, gate, srv, reqs, launched>>
RunsCancelled(i, c) == inst[i].proxy = "A" /\ IsServerActive(i, "A")
MayRun(i, c) == ~reqs[c].cancelled /\ inst[i].proxy = "A" /\ IsServerActive(i, "A")
OnProfileCommandRequest(i, ok) ==
  /\ inst[i].ui = "idle" /\ inst[i].queue # <<>> /\ Head(inst[i].queue) # Nobody
  /\ LET c == Head(inst[i].queue)
         runs == MayRun(i, c) /\ ok
     IN  /\ launched' = [launched EXCEPT ![c] = IF runs THEN @ + 1 ELSE @]
         /\ reqs' = [reqs EXCEPT ![c] = [@ EXCEPT !.done = TRUE, !.refs = @ - 1, !.code = IF runs THEN "success" ELSE "failed"]]
  /\ Ui(i, [inst[i] EXCEPT !.queue = Tail(@)])
  /\ UNCHANGED <<bplan, gate, srv>>

(* The user starts, stops or changes the profile, or closes the window. *)
Used == bplan' = [bplan EXCEPT !.acts = @ - 1]
UserRuns(i, p) ==
  /\ inst[i].ui = "idle" /\ bplan.acts > 0 /\ p # inst[i].proxy
  /\ Used /\ Ui(i, [inst[i] EXCEPT !.proxy = p, !.queue = Append(@, Nobody)])
  /\ UNCHANGED <<gate, srv, reqs, launched>>
UserCloses(i) ==
  /\ inst[i].ui = "idle" /\ bplan.acts > 0 /\ Used
  /\ Ui(i, [inst[i] EXCEPT !.ui = "closing"])
  /\ UNCHANGED <<gate, srv, reqs, launched>>
OnDestroy(i) ==
  /\ inst[i].ui = "closing" /\ srv[i].st # "none" /\ ~srv[i].stop
  /\ StopServer(i) /\ UNCHANGED <<bplan, gate, inst, reqs, launched>>

(* A process dies: its mutex is given up, its pipe is closed. *)
Crash(i) ==
  /\ bplan.crashes > 0 /\ inst[i].ui # "exit"
  /\ bplan' = [bplan EXCEPT !.crashes = @ - 1]
  /\ gate' = [p \in Profiles |-> Dropped(gate[p], i)]
  /\ inst' = [Disconnected(i) EXCEPT ![i] = [inst[i] EXCEPT !.ui = "exit", !.queue = <<>>, !.told = "no", !.data = FALSE,
                                                            !.proxy = "off", !.code = IF @ = "none" THEN "crash" ELSE @]]
  /\ srv' = [srv EXCEPT ![i] = NoServer]
  /\ reqs' = [c \in Instances |-> IF srv[i].client = c \/ \E k \in DOMAIN inst[i].queue : inst[i].queue[k] = c
                                    THEN NoRequest ELSE reqs[c]]
  /\ UNCHANGED launched

BNext ==
  \E i \in Instances :
    \/ AcquireLaunchGate(i) \/ Forward(i) \/ ForwardWrites(i) \/ ForwardReads(i) \/ ForwardReadsData(i) \/ ForwardEnds(i)
    \/ SignalAutomationReady(i) \/ Refresh(i) \/ Joined(i) \/ Elect(i) \/ Started(i)
    \/ \E ok \in BOOLEAN : StartProxy(i, ok) \/ Launch(i, ok) \/ OnProfileCommandRequest(i, ok)
    \/ ServerCreates(i) \/ ServerConnects(i) \/ ServerReads(i) \/ ServerCancels(i) \/ ServerAnswers(i) \/ ServerDisconnects(i)
    \/ OnProxyStatusChanged(i) \/ UserCloses(i) \/ OnDestroy(i) \/ Crash(i)
    \/ \E p \in Profiles \cup {"off"} : UserRuns(i, p)

BSpec == BInit /\ [][BNext]_bvars

-----------------------------------------------------------------------------
(* Types; a mutex is held as often as it says. *)
BrokerTypeOK ==
  /\ \A p \in Profiles : gate[p].n \in 0..2 /\ (gate[p].n = 0 <=> gate[p].by = Nobody)
  /\ \A i \in Instances : reqs[i].refs \in 0..2 /\ srv[i].client \in Instances \cup {Nobody}

(* The references of a request are the threads that still use it: the      *)
(* server thread that waits for it and the message in the queue.           *)
RequestOwned ==
  \A c \in Instances :
    LET waiting == {j \in Instances : srv[j].st = "wait" /\ srv[j].client = c}
        posted  == {j \in Instances : inst[j].ui # "exit" /\ \E k \in DOMAIN inst[j].queue : inst[j].queue[k] = c}
    IN  reqs[c].refs >= Cardinality(waiting) + Cardinality(posted)

(* A command is run at most once, whoever runs it and whatever its client  *)
(* was told; a client that was told of success is right.                   *)
OnceLaunched ==
  \A i \in Instances : launched[i] <= 1 /\ (inst[i].code = "success" => launched[i] = 1)

(* A command is not run any more once its client was told that it failed.  *)
NoLateLaunch ==
  [][\A i \in Instances : launched'[i] # launched[i] => inst[i].code \in {"none", "crash"}]_bvars

(* The gate decides: an instance that found nobody while it held the gate  *)
(* becomes the one that serves the profile, unless a client died as it     *)
(* connected and took the new server thread with it.                       *)
GateDecides ==
  (\E i \in Instances : inst[i].code = "unowned") => \E j \in Instances : inst[j].code = "crash"

(* An instance that works for its user, or is gone, does not hold the gate *)
(* that every command for the profile waits for.                           *)
GateIsFreed == \A i \in Instances, p \in Profiles : inst[i].ui \in {"idle", "exit"} => ~Holds(gate[p], i)

=============================================================================
