------------------------------ MODULE MCEngine ------------------------------
(* What happens in and around the proxied programs, for TLC: the hooks in  *)
(* a program (WinsockHooks), the launch of a program (Launcher), the watch *)
(* on a launched browser (BrowserWatch), or the instances that share a     *)
(* profile (ProfileBroker).  They share no state, so one of them moves in  *)
(* a behaviour and the others stay at their start.                         *)
EXTENDS WinsockHooks, Launcher

CONSTANTS Pids, ObservationMs, Scopes, Copies, BrokerPlans

VARIABLES moves,
          scope, proc, births, hooked, clock, launches, obs, watches, notices, active, timer,
          running, dialog, hit, displayed,
          bplan, gate, inst, srv, reqs, launched

watchVars  == <<scope, proc, births, hooked, clock, launches, obs, watches, notices, active, timer,
                running, dialog, hit, displayed>>
brokerVars == <<bplan, gate, inst, srv, reqs, launched>>

Watch  == INSTANCE BrowserWatch
Broker == INSTANCE ProfileBroker WITH Instances <- Copies

MCHostLength == [short |-> 3, long |-> 20]

V4(at) == Address("v4", at, 0)
V6(at) == Address("v6", at, 0)

Quiet == [remote |-> TRUE, reserved |-> {}, mine |-> TRUE, block6 |-> FALSE, blockUdp |-> FALSE,
          noMdns |-> FALSE, tcp |-> TRUE, udp |-> TRUE, lan |-> FALSE, redirect |-> FALSE,
          proxy |-> "wan", socks |-> TRUE, listener6 |-> TRUE, declines |-> FALSE, refusals |-> {TRUE},
          closes |-> FALSE, restarts |-> FALSE, connects |-> TRUE, ticks |-> 0, top |-> 0,
          families |-> {}, dests |-> {}, sizes |-> {}, calls |-> 3,
          types |-> [s \in Sockets |-> IF s = 1 THEN "stream" ELSE "dgram"]]
Lookups  == [Quiet EXCEPT !.families = {"any", "v6"}, !.calls = 4, !.top = DummyRange - 1, !.sizes = {100}]
Named    == [Quiet EXCEPT !.families = {"v4", "v6"}, !.sizes = {65480, 65481, 65485, 65497, 65498}]
Twice    == [Named EXCEPT !.families = {"v4"}, !.calls = 4, !.connects = FALSE, !.sizes = {65497},
                          !.types = [s \in Sockets |-> "dgram"]]
Policies ==
  {[Quiet EXCEPT !.calls = 2, !.sizes = {100}, !.redirect = r, !.lan = l, !.proxy = p, !.noMdns = m,
                 !.families = {"any", "v6"}, !.listener6 = l6, !.block6 = b,
                 !.dests = {V4(x) : x \in {"wan", "lan", "loop", "zero", "mdns", "dns"}}
                           \cup {V6(x) : x \in {"wan", "lan", "loop"}} \cup {Address("mapped", "lan", 0)}] :
     r \in BOOLEAN, l \in BOOLEAN, p \in {"wan", "near", "loop", "name", "none"}, m \in BOOLEAN,
     l6 \in BOOLEAN, b \in BOOLEAN}
Partial  == {[Quiet EXCEPT !.dests = {V4("wan"), V4("loop"), V6("wan")}, !.families = {"v4"}, !.calls = 2,
                           !.sizes = {100}, !.tcp = x, !.udp = y, !.mine = m, !.reserved = {"short"}] :
               x \in BOOLEAN, y \in BOOLEAN, m \in BOOLEAN}
Blocking == [Quiet EXCEPT !.blockUdp = TRUE, !.dests = {V4("wan"), V4("lan"), V4("loop"), V4("dns")}, !.calls = 4,
                          !.sizes = {100}, !.ticks = 4, !.types = [s \in Sockets |-> "dgram"]]
Moves    == [Quiet EXCEPT !.dests = {V4("wan"), V6("wan"), V4("loop"), V4("zero")}, !.calls = 4, !.refusals = BOOLEAN,
                          !.closes = TRUE, !.declines = TRUE]
Datagrams == [Quiet EXCEPT !.dests = {V4("wan"), V6("wan"), V4("loop")}, !.calls = 4, !.closes = TRUE, !.declines = TRUE,
                           !.sizes = {65485, 65497, 65507}]
Restarts == [Quiet EXCEPT !.dests = {V4("wan")}, !.sizes = {100}, !.calls = 4, !.restarts = TRUE,
                          !.families = {"any"}, !.refusals = BOOLEAN]

(* Situations of Launcher: every kind of program, with and without faults. *)
Steps == {"create", "inject", "resume", "activate", "authorize", "freeze", "attach", "thaw",
          "thawAgain", "uac", "killed"}
MCRequests ==
  {r \in [kind : {"invalid", "shortcut", "package", "program"}, admin : BOOLEAN, strict : BOOLEAN,
          remote : BOOLEAN, error : {"elevation", "package", "other"},
          running : {{"none", "plain", "hooked"}}, faults : {Steps, {}}] :
     r.remote => r.kind = "shortcut"}
Calm == CHOOSE r \in MCRequests : r.kind = "invalid"

(* Situations of BrowserWatch: an older browser with its network service,  *)
(* processes of unclear role with snapshots that fail and a proxy that     *)
(* stops, two launches one after the other.                                *)
Judging == [births |-> 4, launches |-> 1, time |-> 2, roles |-> {"main", "network"}, toggles |-> FALSE,
            reports |-> {"network"}, complete |-> {TRUE}]
Unclear == [births |-> 3, launches |-> 1, time |-> 2, roles |-> {"main", "unknown", "network"},
            toggles |-> TRUE, reports |-> {"main", "unknown", "network"}, complete |-> BOOLEAN]
Queued  == [births |-> 4, launches |-> 2, time |-> 1, roles |-> {"main"}, toggles |-> FALSE,
            reports |-> {}, complete |-> {TRUE}]
MCScopes == {Judging, Unclear, Queued}

(* Situations of ProfileBroker: two commands meet a user, a 32-bit and a   *)
(* 64-bit command race, a server and its user with a crash, two users.     *)
Start(a, b, c) == [kind |-> <<a, b, c>>, acts |-> 2, crashes |-> 0]
MCBrokerPlans ==
  {Start("auto", "auto", "manual"), Start("auto", "manual", "manual"),
   [Start("auto", "wow", "none") EXCEPT !.crashes = 1],
   [Start("wow", "manual", "none") EXCEPT !.acts = 4, !.crashes = 1]}

MCSetups == {Lookups, Named, Twice, Blocking, Moves, Datagrams, Restarts} \cup Policies \cup Partial

MCInit ==
  /\ moves \in {"hooks", "launch", "watch", "broker"}
  /\ setup \in (IF moves = "hooks" THEN Setups ELSE {Lookups}) /\ Init
  /\ request \in (IF moves = "launch" THEN Requests ELSE {Calm}) /\ LaunchInit
  /\ scope \in (IF moves = "watch" THEN Scopes ELSE {Judging}) /\ Watch!Init
  /\ bplan \in (IF moves = "broker" THEN BrokerPlans ELSE {Start("auto", "auto", "manual")}) /\ Broker!BInit

MCNext ==
  \/ moves = "hooks" /\ Next /\ UNCHANGED <<moves, lvars, watchVars, brokerVars>>
  \/ moves = "launch" /\ LaunchNext /\ UNCHANGED <<moves, hvars, watchVars, brokerVars>>
  \/ moves = "watch" /\ Watch!Next /\ UNCHANGED <<moves, hvars, lvars, brokerVars>>
  \/ moves = "broker" /\ Broker!BNext /\ UNCHANGED <<moves, hvars, lvars, watchVars>>

MCSpec == MCInit /\ [][MCNext]_<<moves, hvars, lvars, watchVars, brokerVars>>

(* The properties of the instanced modules, where each part is explained;  *)
(* a part that does not move is looked at in the behaviours where it does. *)

(* CheckBrowserLaunches warns only of instances older than the launch, the *)
(* notice on the screen is the one a click opens, its timer runs while     *)
(* there is work, and an action reaches only lifetimes the dialog showed.  *)
WatchSound ==
  moves = "watch" => /\ Watch!WatchTypeOK /\ Watch!WarnsOfOld /\ Watch!ActionExact
                     /\ Watch!TimerRuns /\ Watch!ShownIsFront
(* A command is run at most once and never after its client was told that  *)
(* it failed; the launch gate decides who serves a profile and is given    *)
(* back on every path; who uses a request holds a reference of it.         *)
BrokerSound ==
  /\ [](moves = "broker" => /\ Broker!BrokerTypeOK /\ Broker!RequestOwned /\ Broker!OnceLaunched
                            /\ Broker!GateDecides /\ Broker!GateIsFreed)
  /\ Broker!NoLateLaunch
=============================================================================
