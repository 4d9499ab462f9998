---------------------------- MODULE WinsockHooks ----------------------------
(***************************************************************************)
(* The detoured Winsock calls inside a hooked process (CHookWinsock):      *)
(* name lookups answered with dummy addresses (CDummyDNS), connects and    *)
(* datagrams decided on and redirected (HackConnect, HackSendTo,           *)
(* CanHackIt), the list of redirected sockets and the payload limits of    *)
(* redirected datagrams (CHackedSocket), the request pipe all of them      *)
(* share, and the budget of the log of blocked datagrams                   *)
(* (CUdpBlockLogLimiter).                                                  *)
(*                                                                         *)
(* Threads of the application call at any time; each list is locked only   *)
(* while it is searched or changed, the request pipe for the rest of a     *)
(* decision.  Ports, handles and error codes are left out.                 *)
(***************************************************************************)
EXTENDS Integers, Sequences, FiniteSets, Lists

CONSTANTS Threads,     \* threads of the application
          Hosts,       \* names it looks up
          Sockets,     \* socket handles
          HostLength,  \* host -> length of the name
          DummyRange,  \* last dummy number before the counter wraps, 65534 in the code
          Interval, MaxPerInterval, Capacity,  \* of the log limiter
          Setups       \* the settings and calls to explore, see MCEngine

VARIABLES setup,    \* the chosen settings (m_psi), proxy and calls
          nodes,    \* m_ls of CDummyDNS, newest first
          top,      \* m_DummyIP, relative to 127.255.0.0
          known,    \* history: dummy addresses the application was given
          call,     \* thread -> the call it is in
          calls,    \* calls made so far (bound)
          sock,     \* socket -> [type, peer, want, again]
          hacked,   \* m_HackedSocket's list, newest first
          limits,   \* m_udpPayloadLimits, newest first
          link,     \* m_RequestPipe: "none", "good", or "dead" (server gone)
          up,       \* the service runs
          asked,    \* history: requests registered with the service
          passed,   \* history: connects and datagrams handed to Winsock
          log       \* m_udpBlockLogLimiter, with the clock and the lines logged

hvars == <<setup, nodes, top, known, call, calls, sock, hacked, limits, link, up, asked, passed, log>>
names == <<nodes, top, known>>
lists == <<hacked, limits>>

-----------------------------------------------------------------------------
(* Addresses: family, what the address is, and a number for dummy          *)
(* addresses and for the local routes of the service.                      *)
Address(fam, at, n) == [fam |-> fam, at |-> at, n |-> n]
NoAddress == Address("none", "none", 0)
NoHost    == "none"

(* What the constants stand for: a name fits szDomainName, the counter     *)
(* starts within its range, and of the destinations the application has    *)
(* by itself none is an address that only the hooks or the service give.   *)
IsSetup(u) ==
  /\ u.top \in 0..DummyRange /\ u.types \in [Sockets -> {"stream", "dgram"}]
  /\ u.families \subseteq {"any", "v4", "v6"} /\ u.sizes \subseteq Nat
  /\ u.dests \subseteq [fam : {"v4", "v6", "mapped"}, n : {0},
                        at : {"wan", "lan", "loop", "zero", "mdns", "dns"}]
ASSUME HooksAssumption ==
  /\ DummyRange \in Nat /\ Capacity \in Nat
  /\ Interval \in Nat \ {0} /\ MaxPerInterval \in Nat
  /\ NoHost \notin Hosts /\ HostLength \in [Hosts -> 1..255]
  /\ \A u \in Setups : IsSetup(u)

(* An IPv4-mapped IPv6 address is treated as its IPv4 address. *)
NormalizeSocketAddress(d) == IF d.fam = "mapped" THEN [d EXCEPT !.fam = "v4"] ELSE d

(* 127.255.x.x is loopback too; the IPv6 dummy addresses are unique local. *)
IsDummy(a)    == a.at = "dummy"
IsLoopback(a) == a.at \in {"loop", "route"} \/ (IsDummy(a) /\ a.fam = "v4")
IsUdpAllowedLoopback(a) == IsLoopback(a) /\ ~IsDummy(a)

(* Ipv6BlockPolicy::ShouldBlock on the normalized address. *)
ShouldBlock(a) == a.fam = "v6" /\ ~IsUdpAllowedLoopback(a)

IsMdnsDestination(a) == a.at = "mdns"

(* A null destination stands for the peer of the connected socket. *)
GetSocketDestination(s, d) == NormalizeSocketAddress(IF d = NoAddress THEN sock[s].peer ELSE d)

IsBlockedIPv6Destination(s, d) == ShouldBlock(GetSocketDestination(s, d))
IsUdpLoopbackDestination(s, d) == IsUdpAllowedLoopback(GetSocketDestination(s, d))

Idle    == [st |-> "idle", host |-> NoHost, fam |-> "none", s |-> 0, api |-> "none",
            dst |-> NoAddress, name |-> NoHost, size |-> 0]
Unused  == [used |-> FALSE, dst |-> NoAddress, at |-> 0]
Opened(type) == [type |-> type, peer |-> NoAddress, want |-> NoAddress, again |-> FALSE]

Init ==
  /\ setup \in Setups
  /\ nodes = <<>> /\ top = setup.top /\ known = {}
  /\ call = [t \in Threads |-> Idle] /\ calls = 0
  /\ sock = [s \in Sockets |-> Opened(setup.types[s])]
  /\ hacked = <<>> /\ limits = <<>>
  /\ link = "none" /\ up = TRUE
  /\ asked = {} /\ passed = {}
  /\ log = [now |-> 0, start |-> 0, count |-> 0, entries |-> [i \in 1..Capacity |-> Unused], lines |-> {}]

-----------------------------------------------------------------------------
(* CDummyDNS.                                                              *)

(* The newest entry of a host, 0 if there is none. *)
GetNode(h) == First({i \in DOMAIN nodes : nodes[i].host = h})

(* The host behind a dummy number, newest entry first. *)
HostOf(n) ==
  LET i == First({j \in DOMAIN nodes : nodes[j].n = n})
  IN  IF i = 0 THEN NoHost ELSE nodes[i].host

(* The name a request carries: GetHostByIP, or GetHostByIPv6. *)
GetHostByIP(a) == IF IsDummy(a) THEN HostOf(a.n) ELSE NoHost

(* The counter wraps to the start of 127.255.0.0/16, itself unused so far. *)
WrapsToFirst == IF top + 1 > DummyRange THEN 1 ELSE top + 1
NextDummy    == IF top + 1 > DummyRange THEN 0 ELSE top + 1

(* Localhost, the machine's own name and literals are reserved; so is any  *)
(* name while the service cannot be asked or declines.                     *)
IsHostNameReserved(h) == h \in setup.reserved \/ ~up \/ ~setup.mine
HackDNS(h) == setup.remote /\ ~IsHostNameReserved(h)

(* DnsAddressFamilyPolicy: unspecified means IPv4; IPv6 may be refused. *)
Decide(fam) == IF fam = "any" THEN "v4"
               ELSE IF fam = "v6" /\ setup.block6 THEN "reject" ELSE fam

Given(h, fam, n) == [addr |-> Address(fam, "dummy", n), host |-> h]

(* gethostbyname, getaddrinfo and their relatives as far as GetNode; the   *)
(* system's own answer changes nothing here.                               *)
Resolve(t, h, fam) ==
  /\ call[t].st = "idle" /\ calls < setup.calls
  /\ HackDNS(h) /\ Decide(fam) # "reject"
  /\ calls' = calls + 1
  /\ LET i == GetNode(h) IN
     IF i = 0
       THEN /\ call' = [call EXCEPT ![t] = [Idle EXCEPT !.st = "insert", !.host = h, !.fam = Decide(fam)]]
            /\ UNCHANGED known
       ELSE known' = known \cup {Given(h, Decide(fam), nodes[i].n)} /\ UNCHANGED call
  /\ UNCHANGED <<setup, nodes, top, sock, lists, link, up, asked, passed, log>>

(* The second half of GetDummyIP; another thread may have inserted the     *)
(* same host in between.                                                   *)
GetDummyIP(t) ==
  /\ call[t].st = "insert"
  /\ top' = NextDummy
  /\ nodes' = <<[host |-> call[t].host, n |-> top']>> \o nodes
  /\ IF call[t].fam = "v4"
       THEN known' = known \cup {Given(call[t].host, "v4", top')} /\ call' = [call EXCEPT ![t] = Idle]
       ELSE call' = [call EXCEPT ![t].st = "six"] /\ UNCHANGED known
  /\ UNCHANGED <<setup, calls, sock, lists, link, up, asked, passed, log>>

(* GetDummyIPv6 looks the host up again. *)
GetDummyIPv6(t) ==
  /\ call[t].st = "six"
  /\ known' = known \cup {Given(call[t].host, "v6", nodes[GetNode(call[t].host)].n)}
  /\ call' = [call EXCEPT ![t] = Idle]
  /\ UNCHANGED <<setup, nodes, top, calls, sock, lists, link, up, asked, passed, log>>

-----------------------------------------------------------------------------
(* CHackedSocket.                                                          *)

(* The positions of a list whose entries are for the same request: the    *)
(* first of them is replaced in place, a new entry goes to the front.      *)
Put(seq, e, I) == IF I = {} THEN <<e>> \o seq ELSE [seq EXCEPT ![First(I)] = e]

SameRequest(e, f) == e.s = f.s /\ e.type = f.type /\ e.dst = f.dst /\ e.name = f.name
Requested(e) == {i \in DOMAIN hacked : SameRequest(e, hacked[i])}
push(e)      == Put(hacked, e, Requested(e))

Limited(s, dst, name) ==
  {i \in DOMAIN limits : limits[i].s = s /\ limits[i].dst = dst /\ limits[i].name = name}
SetUDPMaxPayload(e) == Put(limits, e, Limited(e.s, e.dst, e.name))

Nothing  == [s |-> 0, type |-> "none", dst |-> NoAddress, name |-> NoHost, udp |-> NoAddress]
Found(I) == IF I = {} THEN Nothing ELSE hacked[First(I)]
GetInfo(s) == Found({i \in DOMAIN hacked : hacked[i].s = s})

(* The datagram requests with a route: by name, or by address if it has    *)
(* none.                                                                   *)
Routes(s, dst, name) ==
  {i \in DOMAIN hacked : /\ hacked[i].s = s /\ hacked[i].type = "dgram" /\ hacked[i].name = name
                         /\ name = NoHost => hacked[i].dst = dst}
IsUDPReqHacked(s, dst, name) == Routes(s, dst, name) # {}
IsUDPRouteAddress(s, a) == \E i \in DOMAIN hacked : hacked[i].s = s /\ hacked[i].udp = a

(* GetUDPMaxPayload for a request, GetConnectedUDPMaxPayload for a socket; *)
(* NoLimit if there is no entry.                                           *)
NoLimit == 65507
LimitAt(I) == IF I = {} THEN NoLimit ELSE limits[First(I)].max
GetUDPMaxPayload(s, dst, name) == LimitAt(Limited(s, dst, name))
GetConnectedUDPMaxPayload(s) ==
  LimitAt({i \in DOMAIN limits : limits[i].s = s /\ limits[i].connected})

(* UdpPayloadPolicy: the header the service will put in front. *)
Socks5HeaderSize(name) == IF name = NoHost THEN 10 ELSE 7 + HostLength[name]
MaxPayload(name, six) ==
  IF ~setup.socks THEN NoLimit
  ELSE NoLimit - (IF six THEN 22 ELSE Socks5HeaderSize(name))

(* CanHackIt: private resolvers, names and IPv6 are always redirected; of  *)
(* IPv4, what is local to this machine or its network stays direct unless  *)
(* the proxy is there too, the settings include it, or the proxy is given  *)
(* by name or not at all.                                                  *)
ShouldRedirect(a, name) ==
  setup.remote /\ setup.redirect /\ setup.proxy # "none" /\ a.at = "dns" /\ name = NoHost
Stays(a) ==
  \/ a.at = "zero"
  \/ /\ setup.proxy \notin {"name", "none"} /\ ~setup.lan
     /\ \/ IsLoopback(a) /\ setup.proxy # "loop"
        \/ a.at \in {"lan", "dns"} /\ setup.proxy # "near"
LanFirst(a, name) == IF Stays(a) THEN "bypass" ELSE "redirected"
CanHackIt(a, name) ==
  IF ShouldRedirect(a, name) \/ name # NoHost \/ a.fam = "v6" \/ ~Stays(a) THEN "redirected" ELSE "bypass"

-----------------------------------------------------------------------------
(* CUdpBlockLogLimiter::AllowLocked: a budget per interval and a cooldown  *)
(* per destination; a live cooldown is never evicted.                      *)
Live(e) == e.used /\ log.now - e.at < Interval
SlotFor(d) ==
  LET same == {i \in 1..Capacity : log.entries[i].used /\ log.entries[i].dst = d}
      free == {i \in 1..Capacity : ~Live(log.entries[i])}
  IN  IF same # {} THEN same \ {i \in same : Live(log.entries[i])} ELSE free
Window == IF log.now - log.start >= Interval THEN [log EXCEPT !.start = log.now, !.count = 0] ELSE log
Allow(d) ==
  IF Window.count >= MaxPerInterval \/ SlotFor(d) = {} THEN Window
  ELSE LET i == First(SlotFor(d))
       IN  [Window EXCEPT !.entries[i] = [used |-> TRUE, dst |-> d, at |-> log.now],
                          !.count = @ + 1,
                          !.lines = @ \cup {[dst |-> d, at |-> log.now, window |-> Window.start]}]

(* LogBlockedUDP and LogBlockedIPv6 use the request pipe and drop it when  *)
(* the request fails.                                                      *)
LinkAfterUse == IF link = "none" /\ up THEN "good" ELSE IF link = "dead" THEN "none" ELSE link
LogBlockedIPv6 == link' = LinkAfterUse /\ UNCHANGED log
LogBlockedUDP(d) ==
  /\ log' = Allow(d)
  /\ link' = IF log'.lines # log.lines THEN LinkAfterUse ELSE link

-----------------------------------------------------------------------------
(* Connecting.                                                             *)

Passed(s, d, via, size, name) ==
  [type |-> sock[s].type, dst |-> d, via |-> via, size |-> size, name |-> name, again |-> sock[s].again]

(* The original connect; a stream attempt may be refused. *)
Trampoline(s, d, to, via, name) ==
  /\ passed' = passed \cup {Passed(s, d, via, 0, name)}
  /\ \E ok \in (IF sock[s].type = "stream" THEN setup.refusals ELSE {TRUE}) :
       sock' = [sock EXCEPT ![s] =
         [type |-> sock[s].type, peer |-> IF ok THEN to ELSE NoAddress, want |-> d,
          again |-> \/ sock[s].again
                    \/ via = "prc" /\ \E i \in DOMAIN hacked : i > 1 /\ hacked[i].s = s /\ hacked[i].dst = d]]

(* inhook_connect, inhook_WSAConnect and inhook_ConnectEx as far as the    *)
(* request pipe, with the first checks of HackConnect.  ConnectEx, for     *)
(* streams only, does not test bBlockUDP.                                  *)
ConnectVerdict(s, a) ==
  LET dgram == sock[s].type = "dgram"
  IN  IF setup.block6 /\ ShouldBlock(a) THEN "blocked6"
      ELSE IF dgram /\ setup.blockUdp /\ ~IsUdpAllowedLoopback(a) THEN "blockedUdp"
      ELSE IF dgram /\ setup.noMdns /\ IsMdnsDestination(a) THEN "refused"
      ELSE IF ~(IF dgram THEN setup.udp ELSE setup.tcp) \/ IsUdpAllowedLoopback(a) THEN "direct"
      ELSE "ask"

Asking(st, s, a, size) ==
  [Idle EXCEPT !.st = st, !.s = s, !.dst = a, !.name = GetHostByIP(a), !.size = size]

(* What the blocking verdicts of both kinds of calls do. *)
Blocked(verdict, a) ==
  /\ \/ verdict = "blocked6" /\ LogBlockedIPv6
     \/ verdict = "blockedUdp" /\ LogBlockedUDP(a)
     \/ verdict \in {"refused", "direct", "ask"} /\ UNCHANGED <<link, log>>
  /\ UNCHANGED <<setup, names, lists, up, asked>>

Connect(t, s, d) ==
  LET a == NormalizeSocketAddress(d)
      verdict == ConnectVerdict(s, a)
  IN
  /\ call[t].st = "idle" /\ calls < setup.calls
  /\ sock[s].peer = NoAddress \/ sock[s].type = "dgram"
  /\ \A u \in Threads : call[u].s # s
  /\ calls' = calls + 1
  /\ IF verdict = "ask" THEN call' = [call EXCEPT ![t] = Asking("connect", s, a, 0)] ELSE UNCHANGED call
  /\ IF verdict = "direct" THEN Trampoline(s, a, a, "direct", NoHost) ELSE UNCHANGED <<sock, passed>>
  /\ Blocked(verdict, a)

(* EnsureRequestPipe. *)
Ensured == IF link = "none" /\ up THEN "good" ELSE link

(* The address of the service's route for a request: stable per request,   *)
(* and a port of its own.                                                  *)
FreePorts == {n \in 1..(Len(hacked) + 1) : \A i \in DOMAIN hacked : hacked[i].udp.n # n}
NewRoute(e) ==
  IF e.type = "stream" THEN NoAddress
  ELSE IF Requested(e) # {} THEN Found(Requested(e)).udp
  ELSE Address(e.dst.fam, "route", First(FreePorts))

Entry(c) ==
  LET e == [s |-> c.s, type |-> sock[c.s].type, dst |-> c.dst, name |-> c.name, udp |-> NoAddress]
  IN  [e EXCEPT !.udp = NewRoute(e)]
Limit(c, connected) ==
  [s |-> c.s, dst |-> c.dst, name |-> c.name, max |-> MaxPayload(c.name, c.dst.fam = "v6"),
   connected |-> connected]

(* The service's listener an accepted stream is connected to. *)
Prc(a) == Address(a.fam, "prc", 0)

(* A request that fails disconnects the pipe. *)
Disconnected == "none"

Return(t) == call' = [call EXCEPT ![t] = Idle]

(* The rest of HackConnect under the pipe lock, and the original call with *)
(* the address it leaves.  GetPRCStartupInfo, which comes first, finds a   *)
(* dead pipe and disconnects it, and so does a registration that fails;    *)
(* CanHackIt returns without a disconnect when PRCGetProxyInfo fails, so a *)
(* pipe that dies between the two stays.  What the service declines leaves *)
(* the pipe good.                                                          *)
HackConnect(t) ==
  LET c == call[t]
      e == Entry(c)
      dgram == e.type = "dgram"
      lost == ~dgram /\ c.dst.fam = "v6" /\ ~setup.listener6
  IN
  /\ c.st = "connect" /\ Return(t)
  /\ \/ Ensured # "good" /\ link' = Disconnected /\ UNCHANGED <<sock, lists, asked, passed>>
     \/ /\ Ensured = "good" /\ CanHackIt(c.dst, c.name) = "bypass"
        /\ link' = "good" /\ Trampoline(c.s, c.dst, c.dst, "direct", NoHost)
        /\ UNCHANGED <<lists, asked>>
     \/ /\ Ensured = "good" /\ CanHackIt(c.dst, c.name) # "bypass" /\ ~lost
        /\ link' = "good"
        /\ asked' = asked \cup {[dst |-> c.dst, name |-> c.name]}
        /\ hacked' = push(e)
        /\ limits' = IF dgram THEN SetUDPMaxPayload(Limit(c, TRUE)) ELSE limits
        /\ Trampoline(c.s, c.dst, IF dgram THEN e.udp ELSE Prc(c.dst), "prc", c.name)
     \/ /\ Ensured = "good"
        /\ (CanHackIt(c.dst, c.name) # "bypass" /\ lost) \/ setup.declines
        /\ link' = "good" /\ UNCHANGED <<sock, lists, asked, passed>>
     \/ /\ Ensured = "good" /\ setup.restarts            \* the service stops meanwhile
        /\ link' \in {Disconnected, "dead"} /\ UNCHANGED <<sock, lists, asked, passed>>
  /\ UNCHANGED <<setup, names, calls, up, log>>

-----------------------------------------------------------------------------
(* Datagrams.                                                              *)

(* inhook_sendto, inhook_WSASendTo and inhook_WSASendMsg before HackSendTo *)
(* and its checks before the pipe; without a destination the limit of the  *)
(* connected socket applies.                                               *)
SendVerdict(s, d, size) ==
  LET a == NormalizeSocketAddress(d)
  IN  IF setup.block6 /\ IsBlockedIPv6Destination(s, d) THEN "blocked6"
      ELSE IF setup.blockUdp /\ ~IsUdpLoopbackDestination(s, d) THEN "blockedUdp"
      ELSE IF setup.noMdns /\ IsMdnsDestination(a) THEN "refused"
      ELSE IF ~setup.udp THEN "direct"
      ELSE IF d = NoAddress THEN IF size > GetConnectedUDPMaxPayload(s) THEN "refused" ELSE "wire"
      ELSE IF IsUDPRouteAddress(s, a) THEN "route"
      ELSE IF IsUDPReqHacked(s, a, GetHostByIP(a)) THEN "hacked"
      ELSE "ask"

Sent(s, a, via, size, name) == passed' = passed \cup {Passed(s, a, via, size, name)}

(* A request with a route goes there if the payload leaves room for the    *)
(* header; addrname becomes the route's address.                           *)
SendHacked(s, a, name, size) ==
  IF size <= GetUDPMaxPayload(s, a, name) THEN Sent(s, a, "prc", size, name) ELSE UNCHANGED passed

(* The peer of a connected socket as the service knows it: the newest      *)
(* request with that route.                                                *)
Behind(s) == Found({i \in DOMAIN hacked : hacked[i].s = s /\ hacked[i].udp = sock[s].peer})

SendTo(t, s, d, size) ==
  LET a == NormalizeSocketAddress(d)
      verdict == SendVerdict(s, d, size)
  IN
  /\ call[t].st = "idle" /\ calls < setup.calls
  /\ sock[s].type = "dgram" /\ (d = NoAddress => sock[s].peer # NoAddress)
  /\ calls' = calls + 1
  /\ IF verdict = "ask" THEN call' = [call EXCEPT ![t] = Asking("send", s, a, size)] ELSE UNCHANGED call
  /\ \/ verdict \in {"direct", "route"} /\ Sent(s, GetSocketDestination(s, d), "direct", size, NoHost)
     \/ verdict = "wire" /\ Behind(s) = Nothing /\ Sent(s, sock[s].peer, "direct", size, NoHost)
     \/ verdict = "wire" /\ Behind(s) # Nothing /\ Sent(s, Behind(s).dst, "prc", size, Behind(s).name)
     \/ verdict = "hacked" /\ SendHacked(s, a, GetHostByIP(a), size)
     \/ verdict \in {"blocked6", "blockedUdp", "refused", "ask"} /\ UNCHANGED passed
  /\ UNCHANGED sock
  /\ IF verdict \in {"wire", "route", "hacked"}
       THEN UNCHANGED <<setup, names, lists, link, up, asked, log>>
       ELSE Blocked(verdict, GetSocketDestination(s, d))

(* The rest of HackSendTo under the pipe lock; the request for the proxy   *)
(* comes first here, so a dead pipe stays dead.                            *)
HackSendTo(t) ==
  LET c == call[t]
      e == Entry(c)
  IN
  /\ c.st = "send" /\ Return(t)
  /\ \/ /\ IsUDPReqHacked(c.s, c.dst, c.name)
        /\ SendHacked(c.s, c.dst, c.name, c.size) /\ UNCHANGED <<lists, asked, link>>
     \/ /\ ~IsUDPReqHacked(c.s, c.dst, c.name) /\ Ensured # "good"
        /\ link' = Ensured /\ UNCHANGED <<lists, asked, passed>>
     \/ /\ ~IsUDPReqHacked(c.s, c.dst, c.name) /\ Ensured = "good"
        /\ link' = "good"
        /\ \/ /\ CanHackIt(c.dst, c.name) = "bypass"
              /\ Sent(c.s, c.dst, "direct", c.size, NoHost) /\ UNCHANGED <<lists, asked>>
           \/ /\ CanHackIt(c.dst, c.name) # "bypass"
              /\ asked' = asked \cup {[dst |-> c.dst, name |-> c.name]}
              /\ hacked' = push(e)
              /\ limits' = SetUDPMaxPayload(Limit(c, FALSE))
              /\ IF c.size <= MaxPayload(c.name, c.dst.fam = "v6")
                   THEN Sent(c.s, c.dst, "prc", c.size, c.name) ELSE UNCHANGED passed
           \/ setup.declines /\ UNCHANGED <<lists, asked, passed>>
     \/ /\ ~IsUDPReqHacked(c.s, c.dst, c.name) /\ Ensured = "good" /\ setup.restarts
        /\ link' \in {Disconnected, "dead"} /\ UNCHANGED <<lists, asked, passed>>
  /\ UNCHANGED <<setup, names, calls, sock, up, log>>

-----------------------------------------------------------------------------
(* inhook_getpeername: a redirected stream shows its destination, a        *)
(* datagram socket the real route.                                         *)
PeerName(s) == IF GetInfo(s).type = "stream" THEN GetInfo(s).dst ELSE sock[s].peer

(* inhook_closesocket: remove(), and the handle may be used again.  That   *)
(* no thread is in a call on the socket is assumed of the application.     *)
CloseSocket(s) ==
  /\ setup.closes /\ \A t \in Threads : call[t].s # s
  /\ calls < setup.calls /\ calls' = calls + 1
  /\ hacked' = Only(hacked, {i \in DOMAIN hacked : hacked[i].s # s})
  /\ limits' = Only(limits, {i \in DOMAIN limits : limits[i].s # s})
  /\ sock' = [sock EXCEPT ![s] = Opened(sock[s].type)]
  /\ UNCHANGED <<setup, names, call, link, up, asked, passed, log>>

(* The service stops, or starts again under the same pipe name. *)
Service ==
  /\ setup.restarts /\ up' = ~up
  /\ link' = IF link = "good" THEN "dead" ELSE link
  /\ UNCHANGED <<setup, names, call, calls, sock, lists, asked, passed, log>>

Tick ==
  /\ log.now < setup.ticks
  /\ log' = [log EXCEPT !.now = @ + 1]
  /\ UNCHANGED <<setup, names, call, calls, sock, lists, link, up, asked, passed>>

(* Destinations the application may use: ordinary ones, the dummy          *)
(* addresses it was given, and a datagram socket's own peer name.          *)
Targets(s) == setup.dests \cup {k.addr : k \in known}
              \cup (IF sock[s].type = "dgram" THEN {PeerName(s)} \ {NoAddress} ELSE {})

Next ==
  \/ \E t \in Threads, h \in Hosts, fam \in setup.families : Resolve(t, h, fam)
  \/ \E t \in Threads : GetDummyIP(t) \/ GetDummyIPv6(t) \/ HackConnect(t) \/ HackSendTo(t)
  \/ \E t \in Threads, s \in Sockets : \E d \in Targets(s) : setup.connects /\ Connect(t, s, d)
  \/ \E t \in Threads, s \in Sockets, size \in setup.sizes :
       \E d \in Targets(s) \cup {NoAddress} : SendTo(t, s, d, size)
  \/ \E s \in Sockets : CloseSocket(s)
  \/ Service \/ Tick

Spec == Init /\ [][Next]_hvars

-----------------------------------------------------------------------------
(* Types of the lists, calls and sockets. *)
HooksTypeOK ==
  /\ top \in 0..DummyRange
  /\ \A i \in DOMAIN nodes : nodes[i].host \in Hosts /\ nodes[i].n \in 0..DummyRange
  /\ \A i \in DOMAIN hacked : hacked[i].s \in Sockets /\ hacked[i].type = sock[hacked[i].s].type
  /\ \A i \in DOMAIN limits : limits[i].max \in 0..NoLimit /\ sock[limits[i].s].type = "dgram"
  /\ \A t \in Threads : call[t].st \in {"idle", "insert", "six", "connect", "send"}
  /\ link \in {"none", "good", "dead"}

(* Nothing the settings say to proxy or to block leaves the machine        *)
(* directly: of a hooked protocol only loopback, 0.0.0.0 or broadcast, the *)
(* local network and the service's own routes do, never a dummy address    *)
(* the service could name, a private resolver it redirects, blocked IPv6   *)
(* or blocked datagrams.                                                   *)
NoLeak ==
  \A p \in passed :
    /\ p.via = "direct" /\ (IF p.type = "dgram" THEN setup.udp ELSE setup.tcp) =>
         /\ p.dst.at \in {"loop", "route", "zero", "lan", "dns"}
         /\ p.dst.at \in {"lan", "dns"} => p.dst.fam = "v4" /\ ~setup.lan
         /\ p.dst.at = "dns" => ~(setup.remote /\ setup.redirect)
    /\ setup.block6 => ~ShouldBlock(p.dst)
    /\ setup.blockUdp /\ p.type = "dgram" => IsUdpAllowedLoopback(p.dst)

(* As long as the dummy range has not been used up, every address the      *)
(* application was given still leads back to the name it asked for,        *)
(* whatever threads looked up meanwhile (GetDummyIP).                      *)
AnswersMapBack ==
  Len(nodes) <= DummyRange + 1 => \A k \in known : HostOf(k.addr.n) = k.host

(* The service is asked for the name behind a dummy address, never for the *)
(* address (HackConnect, HackSendTo), in either family.                    *)
NamesTrue ==
  Len(nodes) <= DummyRange + 1 =>
    \A r \in asked : IsDummy(r.dst) => \E k \in known : k.addr.n = r.dst.n /\ k.host = r.name

(* A datagram the hooks accept for a route leaves the service room for its *)
(* header within one UDP payload.  Named IPv6 destinations, names the      *)
(* service was asked for under a second address, and sockets connected     *)
(* back to an earlier destination are not covered, see README.             *)
PayloadFits ==
  \A p \in passed :
    /\ p.type = "dgram" /\ p.via = "prc" /\ setup.socks /\ ~p.again
    /\ p.name # NoHost => p.dst.fam # "v6" /\ \A r \in asked : r.name = p.name => r.dst = p.dst
    =>
      p.size + (IF p.dst.fam = "v6" THEN 22 ELSE Socks5HeaderSize(p.name)) <= NoLimit

(* getpeername of a stream connected to the service shows where the        *)
(* application wanted to go, after any failed attempts that did not come   *)
(* back to an earlier destination.                                         *)
PeerHidden ==
  \A s \in Sockets :
    sock[s].type = "stream" /\ sock[s].peer.at = "prc" /\ ~sock[s].again => PeerName(s) = sock[s].want

(* An application that sends to the peer name of its datagram socket never *)
(* makes the service register its own route as a destination.              *)
RouteNotRegistered == \A r \in asked : r.dst.at # "route"

(* A connect that finds a pipe whose server is gone fails and leaves none, *)
(* so that the next one opens a new pipe (HackConnect disconnects).  A     *)
(* pipe that dies during the call may be left to the next one (CanHackIt). *)
ConnectReopens ==
  [][\A t \in Threads : call[t].st = "connect" /\ call'[t].st = "idle" /\ link = "dead"
        => link' # "dead"]_hvars

(* Two lines about one destination are an interval apart, and no window    *)
(* has more than its budget (CUdpBlockLogLimiter).                         *)
LogSpaced ==
  /\ \A k, l \in log.lines : k.dst = l.dst /\ k.at < l.at => l.at - k.at >= Interval
  /\ \A k \in log.lines : Cardinality({l \in log.lines : l.window = k.window}) <= MaxPerInterval

(* Every call goes where the settings say, and the program does not notice:
   nothing that should be proxied leaves directly (NoLeak), getpeername shows the
   destination (PeerHidden), the service's own route is not registered as one
   (RouteNotRegistered), the log of blocked calls keeps its distance (LogSpaced),
   and a pipe the service left is not left to a second connect (ConnectReopens). *)
CallsRouted == [](HooksTypeOK /\ NoLeak /\ PeerHidden /\ RouteNotRegistered /\ LogSpaced) /\ ConnectReopens

(* What the service is asked for is what the program meant: an address handed out
   leads back to its name (AnswersMapBack), the name goes into the request
   (NamesTrue), and a datagram that was accepted fits with its header (PayloadFits). *)
RequestsTrue == AnswersMapBack /\ NamesTrue /\ PayloadFits

=============================================================================
