---------------------------- MODULE EngineProofs ----------------------------
(* Proofs about what happens in a proxied program: the detoured calls       *)
(* (WinsockHooks), for any threads, sockets, names, settings and lengths of *)
(* the lists, and the launch (Launcher), for every kind of program, every   *)
(* combination of failing steps and every number of attachments; and about  *)
(* the switch of the monitor (MonitorControl), for any threads and plans.   *)
EXTENDS WinsockHooks, Launcher, MonitorControl, ListProofs

(* The values the variables of WinsockHooks take. *)
Names     == Hosts \cup {NoHost}
Places    == {"none", "wan", "lan", "loop", "zero", "mdns", "dns", "dummy", "route", "prc"}
Addresses == [fam : {"none", "v4", "v6"}, at : Places, n : Nat]
Nodes     == [host : Hosts, n : 0..DummyRange]
Answers   == [addr : [fam : {"v4", "v6"}, at : {"dummy"}, n : Nat], host : Hosts]
Calls     == [st : {"idle", "insert", "six", "connect", "send"}, host : Names,
              fam : {"none", "v4", "v6"}, s : Sockets \cup {0}, api : {"none"},
              dst : Addresses, name : Names, size : Nat]
Types     == {"stream", "dgram"}
Socks     == [type : Types, peer : Addresses, want : Addresses, again : BOOLEAN]
Entries   == [s : Sockets, type : Types, dst : Addresses, name : Names, udp : Addresses]
LimitRecs == [s : Sockets, dst : Addresses, name : Names, max : 0..NoLimit, connected : BOOLEAN]
Slots     == [used : BOOLEAN, dst : Addresses, at : Nat]
Lines     == [dst : Addresses, at : Nat, window : Nat]
Logs      == [now : Nat, start : Nat, count : Nat, entries : [1..Capacity -> Slots], lines : SUBSET Lines]
Leavings  == [type : Types, dst : Addresses, via : {"direct", "prc"}, size : Nat, name : Names, again : BOOLEAN]

Typed ==
  /\ setup \in Setups /\ nodes \in Seq(Nodes) /\ top \in 0..DummyRange
  /\ known \in SUBSET Answers /\ call \in [Threads -> Calls] /\ sock \in [Sockets -> Socks]
  /\ hacked \in Seq(Entries) /\ limits \in Seq(LimitRecs)
  /\ link \in {"none", "good", "dead"} /\ up \in BOOLEAN
  /\ asked \in SUBSET [dst : Addresses, name : Names]
  /\ passed \in SUBSET Leavings /\ log \in Logs

(* Names.  Until the range is used up the numbers of the list are those    *)
(* the counter passed through, newest first; each address handed out has a *)
(* node of its host; a lookup under way is of a host, and before its IPv6  *)
(* half the host has a node.                                               *)
Back(i) == IF i - 1 <= top THEN top - (i - 1) ELSE top - (i - 1) + DummyRange + 1
Fresh   == Len(nodes) <= DummyRange + 1
Counted == Fresh => \A i \in DOMAIN nodes : nodes[i].n = Back(i)
Noted   == \A k \in known : \E i \in DOMAIN nodes : nodes[i].host = k.host /\ nodes[i].n = k.addr.n
Looking ==
  \A t \in Threads :
    /\ call[t].st \in {"insert", "six"} => call[t].host \in Hosts /\ call[t].fam \in {"v4", "v6"}
    /\ call[t].st = "six" => \E i \in DOMAIN nodes : nodes[i].host = call[t].host
NamesInv == Counted /\ Noted /\ Looking

(* Requests.  A destination that is asked for is no address of the service *)
(* and carries a name exactly if it is a dummy address, the name the       *)
(* address was given for; what is asked for is not to be blocked.          *)
Meant(dst, name) ==
  /\ dst.fam \in {"v4", "v6"} /\ dst.at \notin {"none", "route", "prc"}
  /\ IsDummy(dst) <=> name # NoHost
  /\ Fresh /\ IsDummy(dst) => \E k \in known : k.addr = dst /\ k.host = name
Unblocked(type, dst) ==
  /\ setup.block6 => ~ShouldBlock(dst)
  /\ setup.blockUdp /\ type = "dgram" => IsUdpAllowedLoopback(dst)
Asks(c) ==
  c.st \in {"connect", "send"} =>
    /\ c.s \in Sockets
    /\ Meant(c.dst, c.name) /\ Unblocked(sock[c.s].type, c.dst)
    /\ c.st = "send" => sock[c.s].type = "dgram"
Pending  == \A t \in Threads, c \in Calls : c = call[t] => Asks(c)
AskedInv == \A r \in asked : Meant(r.dst, r.name)

(* The list of redirected sockets.  An entry is of a request that was      *)
(* registered, has a route exactly if it is for datagrams, and shares      *)
(* neither its request nor its route with another.                         *)
Redirected ==
  \A i \in DOMAIN hacked :
    /\ hacked[i].type = sock[hacked[i].s].type
    /\ Meant(hacked[i].dst, hacked[i].name) /\ Unblocked(hacked[i].type, hacked[i].dst)
    /\ [dst |-> hacked[i].dst, name |-> hacked[i].name] \in asked
    /\ hacked[i].type = "dgram" =>
         hacked[i].udp.at = "route" /\ hacked[i].udp.fam = hacked[i].dst.fam /\ hacked[i].udp.n # 0
    /\ hacked[i].type = "stream" => hacked[i].udp = NoAddress
Distinct ==
  \A i, j \in DOMAIN hacked :
    /\ SameRequest(hacked[i], hacked[j]) => i = j
    /\ hacked[i].type = "dgram" /\ hacked[i].udp.n = hacked[j].udp.n => i = j
HackedInv == Redirected /\ Distinct

(* The payload limits.  Each is right for its request; datagram requests   *)
(* and limits correspond, in the same order.                               *)
SameKey(e, f) == e.type = "dgram" /\ e.s = f.s /\ e.dst = f.dst /\ e.name = f.name
LimitsInv ==
  /\ \A j \in DOMAIN limits :
       /\ limits[j].max = MaxPayload(limits[j].name, limits[j].dst.fam = "v6")
       /\ \E i \in DOMAIN hacked : SameKey(hacked[i], limits[j])
  /\ \A i \in DOMAIN hacked : hacked[i].type = "dgram" =>
       \E j \in DOMAIN limits : SameKey(hacked[i], limits[j])
  /\ \A i, k \in DOMAIN hacked, j, l \in DOMAIN limits :
       SameKey(hacked[i], limits[j]) /\ SameKey(hacked[k], limits[l]) /\ i <= k => j <= l

(* Connected sockets.  The peer of a datagram socket may be sent to        *)
(* directly; if it is a route, that is the route of an entry of the        *)
(* socket, and unless the socket was connected back to an earlier          *)
(* destination, the limit of that entry is the first connected one.  The   *)
(* first entry of a redirected stream is of the destination it wanted.     *)
Direct(type, dst) ==
  (IF type = "dgram" THEN setup.udp ELSE setup.tcp) =>
    /\ dst.at \in {"loop", "route", "zero", "lan", "dns"}
    /\ dst.at \in {"lan", "dns"} => dst.fam = "v4" /\ ~setup.lan
    /\ dst.at = "dns" => ~(setup.remote /\ setup.redirect)
Hooked(s, i) == hacked[i].s = s /\ hacked[i].udp = sock[s].peer
Leads(s, i, j) ==
  /\ Hooked(s, i) /\ SameKey(hacked[i], limits[j]) /\ limits[j].connected
  /\ \A k \in DOMAIN limits : limits[k].s = s /\ limits[k].connected => j <= k
Peers ==
  \A s \in Sockets : sock[s].type = "dgram" /\ sock[s].peer # NoAddress =>
    /\ sock[s].peer.fam # "none" /\ sock[s].peer.at \notin {"none", "prc"}
    /\ Direct("dgram", sock[s].peer)
    /\ Unblocked("dgram", sock[s].peer)
    /\ IsDummy(sock[s].peer) => \E k \in known : k.addr = sock[s].peer
    /\ sock[s].peer.at = "route" => \E i \in DOMAIN hacked : Hooked(s, i)
    /\ sock[s].peer.at = "route" /\ ~sock[s].again =>
         \E i \in DOMAIN hacked, j \in DOMAIN limits : Leads(s, i, j)
Shown ==
  \A s \in Sockets :
    sock[s].type = "stream" /\ sock[s].peer.at = "prc" /\ ~sock[s].again =>
      \E i \in DOMAIN hacked : /\ hacked[i].s = s /\ hacked[i].dst = sock[s].want
                               /\ \A k \in DOMAIN hacked : hacked[k].s = s => i <= k
SocketsInv == Peers /\ Shown

(* What was handed to Winsock. *)
PassedInv == NoLeak /\ PayloadFits

(* The log.  Its count covers the lines of the current window, a line that *)
(* is younger than an interval holds a slot, no two slots hold one         *)
(* destination, and the lines are spaced as they should be.                *)
Held(e, l) == e = [used |-> TRUE, dst |-> l.dst, at |-> l.at]
LogOK(L) ==
  /\ L.count <= MaxPerInterval /\ L.start <= L.now /\ IsFiniteSet(L.lines)
  /\ Cardinality({l \in L.lines : l.window = L.start}) <= L.count
  /\ \A l \in L.lines : l.at <= L.now /\ l.window <= L.start
  /\ \A l \in L.lines : L.now - l.at < Interval => \E i \in 1..Capacity : Held(L.entries[i], l)
  /\ \A i, j \in 1..Capacity :
       L.entries[i].used /\ L.entries[j].used /\ L.entries[i].dst = L.entries[j].dst => i = j
  /\ \A k, l \in L.lines : k.dst = l.dst /\ k.at < l.at => l.at - k.at >= Interval
  /\ \A k \in L.lines : Cardinality({l \in L.lines : l.window = k.window}) <= MaxPerInterval
LogInv == LogOK(log)

(* The inductive invariant of the hooks. *)
HooksInv ==
  /\ Typed /\ NamesInv /\ Pending /\ AskedInv /\ HackedInv /\ LimitsInv
  /\ SocketsInv /\ PassedInv /\ LogInv

-----------------------------------------------------------------------------
LEMMA IsSetupNow ==
  ASSUME Typed
  PROVE  /\ setup.top \in 0..DummyRange /\ setup.types \in [Sockets -> Types]
         /\ setup.families \subseteq {"any", "v4", "v6"} /\ setup.sizes \subseteq Nat
         /\ setup.dests \subseteq [fam : {"v4", "v6", "mapped"}, n : {0},
                                   at : {"wan", "lan", "loop", "zero", "mdns", "dns"}]
<1>1. setup \in Setups
  BY DEF Typed
<1>2. IsSetup(setup)
  BY <1>1, HooksAssumption
<1> QED BY <1>2 DEF IsSetup, Types

(* The first of a set of positions of a list. *)
LEMMA FirstOf ==
  ASSUME NEW S, NEW seq \in Seq(S), NEW I \in SUBSET DOMAIN seq
  PROVE  /\ I # {} => First(I) \in I /\ First(I) \in DOMAIN seq /\ \A m \in I : First(I) <= m
         /\ I = {} => First(I) = 0
         /\ DOMAIN seq \in SUBSET (Nat \ {0})
<1>1. DOMAIN seq = 1..Len(seq) /\ Len(seq) \in Nat
  BY LenProperties
<1>2. DOMAIN seq \in SUBSET (Nat \ {0})
  BY <1>1
<1>3. I \in SUBSET (Nat \ {0})
  BY <1>2
<1> QED BY <1>2, <1>3, FirstIsLeast

(* Where an entry that is put in a list stands, and where the others do. *)
Fronted(old, new, e) ==
  /\ \A i \in DOMAIN old : i + 1 \in DOMAIN new /\ new[i + 1] = old[i]
  /\ 1 \in DOMAIN new /\ new[1] = e
  /\ \A j \in DOMAIN new : j = 1 \/ (j - 1 \in DOMAIN old /\ new[j] = old[j - 1])
Replaced(old, new, e, k) ==
  /\ DOMAIN new = DOMAIN old /\ k \in DOMAIN old
  /\ new[k] = e /\ \A i \in DOMAIN old : i # k => new[i] = old[i]

LEMMA PutFronts ==
  ASSUME NEW S, NEW seq \in Seq(S), NEW e \in S, NEW I, I = {}
  PROVE  Put(seq, e, I) \in Seq(S) /\ Fronted(seq, Put(seq, e, I), e)
<1>1. PICK p : p = <<e>> \o seq
  OBVIOUS
<1>2. Put(seq, e, I) = p
  BY <1>1 DEF Put
<1>3. <<e>> \in Seq(S) /\ Len(<<e>>) = 1 /\ <<e>>[1] = e
  OBVIOUS
<1>4. /\ p \in Seq(S) /\ Len(p) = 1 + Len(seq)
      /\ \A i \in 1..(1 + Len(seq)) : p[i] = IF i <= 1 THEN e ELSE seq[i - 1]
  BY <1>1, <1>3, ConcatProperties
<1>5. DOMAIN seq = 1..Len(seq) /\ Len(seq) \in Nat /\ DOMAIN p = 1..(1 + Len(seq))
  BY <1>4, LenProperties
<1>6. Fronted(seq, p, e)
  BY <1>4, <1>5 DEF Fronted
<1> QED BY <1>2, <1>4, <1>6

LEMMA PutReplaces ==
  ASSUME NEW S, NEW seq \in Seq(S), NEW e \in S, NEW I \in SUBSET DOMAIN seq, I # {}
  PROVE  Put(seq, e, I) \in Seq(S) /\ Replaced(seq, Put(seq, e, I), e, First(I)) /\ First(I) \in I
<1>1. First(I) \in I /\ First(I) \in DOMAIN seq
  BY FirstOf
<1>2. PICK k : k = First(I)
  OBVIOUS
<1>3. k \in DOMAIN seq
  BY <1>1, <1>2
<1>4. Put(seq, e, I) = [seq EXCEPT ![k] = e]
  BY <1>2 DEF Put
<1>5. [seq EXCEPT ![k] = e] \in Seq(S)
  BY <1>3, ExceptSeq
<1>6. Replaced(seq, [seq EXCEPT ![k] = e], e, k)
  BY <1>3 DEF Replaced
<1> QED BY <1>1, <1>2, <1>4, <1>5, <1>6

-----------------------------------------------------------------------------
LEMMA NodeOf ==
  ASSUME Typed, NEW h
  PROVE  /\ GetNode(h) # 0 => GetNode(h) \in DOMAIN nodes /\ nodes[GetNode(h)].host = h
         /\ (\E i \in DOMAIN nodes : nodes[i].host = h) => GetNode(h) # 0
<1>1. nodes \in Seq(Nodes)
  BY DEF Typed
<1>2. PICK I : I = {i \in DOMAIN nodes : nodes[i].host = h}
  OBVIOUS
<1>3. I \in SUBSET DOMAIN nodes
  BY <1>2
<1>4. /\ I # {} => First(I) \in I /\ First(I) \in DOMAIN nodes
      /\ I = {} => First(I) = 0
      /\ DOMAIN nodes \in SUBSET (Nat \ {0})
  BY <1>1, <1>3, FirstOf
<1>5. GetNode(h) = First(I)
  BY <1>2 DEF GetNode
<1>6. First(I) # 0 => First(I) \in DOMAIN nodes /\ nodes[First(I)].host = h
  BY <1>2, <1>4
<1>7. (\E i \in DOMAIN nodes : nodes[i].host = h) => First(I) # 0
  BY <1>2, <1>4
<1> QED BY <1>5, <1>6, <1>7

(* The numbers behind one counter do not meet before the range is used up. *)
LEMMA NumbersDiffer ==
  ASSUME NEW R \in Nat, NEW t \in 0..R, NEW i \in 1..(R + 1), NEW j \in 1..(R + 1),
         (IF i - 1 <= t THEN t - (i - 1) ELSE t - (i - 1) + R + 1)
         = (IF j - 1 <= t THEN t - (j - 1) ELSE t - (j - 1) + R + 1)
  PROVE  i = j
OBVIOUS

LEMMA HostOfNode ==
  ASSUME Typed, NEW i \in DOMAIN nodes
  PROVE  /\ HostOf(nodes[i].n) \in Hosts
         /\ Fresh /\ Counted => HostOf(nodes[i].n) = nodes[i].host
<1>1. nodes \in Seq(Nodes) /\ DummyRange \in Nat /\ top \in 0..DummyRange
  BY HooksAssumption DEF Typed
<1>2. PICK n : n = nodes[i].n
  OBVIOUS
<1>3. PICK I : I = {j \in DOMAIN nodes : nodes[j].n = n}
  OBVIOUS
<1>4. I \in SUBSET DOMAIN nodes /\ i \in I
  BY <1>2, <1>3
<1>5. First(I) \in I /\ First(I) \in DOMAIN nodes /\ DOMAIN nodes \in SUBSET (Nat \ {0})
  BY <1>1, <1>4, FirstOf
<1>6. First(I) # 0
  BY <1>5
<1>7. HostOf(n) = nodes[First(I)].host
  BY <1>3, <1>6 DEF HostOf
<1>8. nodes[First(I)] \in Nodes
  BY <1>1, <1>5, ElementOfSeq
<1>9. HostOf(n) \in Hosts
  BY <1>7, <1>8 DEF Nodes
<1>10. ASSUME Fresh, Counted PROVE HostOf(n) = nodes[i].host
  <2>1. PICK f : f = First(I)
    OBVIOUS
  <2>2. nodes[f].n = nodes[i].n /\ f \in DOMAIN nodes
    BY <1>2, <1>3, <1>5, <2>1
  <2>3. Back(f) = Back(i)
    BY <1>10, <2>2 DEF Counted
  <2>4. DOMAIN nodes = 1..Len(nodes) /\ Len(nodes) \in Nat
    BY <1>1, LenProperties
  <2>5. f \in 1..(DummyRange + 1) /\ i \in 1..(DummyRange + 1)
    BY <1>1, <1>10, <2>2, <2>4 DEF Fresh
  <2>6. f = i
    BY <1>1, <2>3, <2>5, NumbersDiffer DEF Back
  <2> QED BY <1>7, <2>1, <2>6
<1> QED BY <1>2, <1>9, <1>10

(* Every address the application was given has a name, its own as long as  *)
(* the range has not been used up.                                         *)
LEMMA KnownName ==
  ASSUME Typed, NamesInv, NEW k \in known
  PROVE  HostOf(k.addr.n) \in Hosts /\ (Fresh => HostOf(k.addr.n) = k.host)
<1>1. PICK i \in DOMAIN nodes : nodes[i].host = k.host /\ nodes[i].n = k.addr.n
  BY DEF NamesInv, Noted
<1>2. /\ HostOf(nodes[i].n) \in Hosts
      /\ Fresh /\ Counted => HostOf(nodes[i].n) = nodes[i].host
  BY HostOfNode
<1> QED BY <1>1, <1>2 DEF NamesInv

-----------------------------------------------------------------------------
(* What the name lookups leave alone, and what they only add to. *)
Elsewhere == UNCHANGED <<setup, sock, hacked, limits, link, up, asked, passed, log>>
Grows ==
  /\ known \subseteq known' /\ Len(nodes) <= Len(nodes')
  /\ \A t \in Threads : call'[t].st \in {"connect", "send"} => call'[t] = call[t]

LEMMA IdleCall == Idle \in Calls /\ Idle.st = "idle"
BY DEF Idle, Calls, NoHost, Names, Addresses, NoAddress, Address, Places

Lookup(h, f) == [Idle EXCEPT !.st = "insert", !.host = h, !.fam = f]
LEMMA LookupCall ==
  ASSUME NEW h \in Hosts, NEW f \in {"v4", "v6"}, NEW c, c = Lookup(h, f)
  PROVE  c \in Calls /\ c.st = "insert" /\ c.host = h /\ c.fam = f
BY DEF Lookup, Idle, Calls, NoHost, Names, Addresses, NoAddress, Address, Places

LEMMA GivenAnswer ==
  ASSUME NEW h \in Hosts, NEW f \in {"v4", "v6"}, NEW n \in Nat
  PROVE  /\ Given(h, f, n) \in Answers
         /\ Given(h, f, n).host = h /\ Given(h, f, n).addr.n = n
BY DEF Given, Answers, Address

LEMMA NodeTypes ==
  ASSUME Typed, NEW i \in DOMAIN nodes
  PROVE  nodes[i] \in Nodes /\ nodes[i].n \in Nat /\ nodes[i].host \in Hosts
<1>1. nodes \in Seq(Nodes) /\ DummyRange \in Nat
  BY HooksAssumption DEF Typed
<1>2. nodes[i] \in Nodes
  BY <1>1, ElementOfSeq
<1> QED BY <1>1, <1>2 DEF Nodes

LEMMA ResolveNames ==
  ASSUME Typed, NamesInv, NEW t \in Threads, NEW h \in Hosts, NEW fam \in setup.families,
         Resolve(t, h, fam)
  PROVE  Typed' /\ NamesInv' /\ Elsewhere /\ Grows
<1>0. PICK D : D = Decide(fam)
  OBVIOUS
<1>1. D \in {"v4", "v6"}
  <2>1. fam \in {"any", "v4", "v6"}
    BY IsSetupNow
  <2> QED BY <1>0, <2>1 DEF Resolve, Decide
<1>2. Elsewhere /\ UNCHANGED <<nodes, top>>
  BY DEF Resolve, Elsewhere, lists
<1>3. call \in [Threads -> Calls] /\ known \in SUBSET Answers
  BY DEF Typed
<1>4. CASE GetNode(h) = 0
  <2>1. PICK c : c = Lookup(h, D)
    OBVIOUS
  <2>2. call' = [call EXCEPT ![t] = c] /\ known' = known
    BY <1>0, <1>4, <2>1 DEF Resolve, Lookup
  <2>3. c \in Calls /\ c.st = "insert" /\ c.host = h /\ c.fam = D
    BY <1>1, <2>1, LookupCall
  <2>4. call' \in [Threads -> Calls] /\ call'[t] = c /\ \A u \in Threads : u # t => call'[u] = call[u]
    BY <1>3, <2>2, <2>3
  <2>5. Typed'
    BY <1>2, <2>2, <2>4 DEF Typed, Elsewhere
  <2>6. Looking'
    BY <1>1, <1>2, <2>3, <2>4 DEF NamesInv, Looking
  <2>7. Counted' /\ Noted'
    BY <1>2, <2>2 DEF NamesInv, Counted, Noted, Fresh, Back
  <2>8. Grows
    <3>1. \A u \in Threads : call'[u].st \in {"connect", "send"} => call'[u] = call[u]
      BY <2>3, <2>4
    <3>2. Len(nodes) <= Len(nodes')
      <4>1. Len(nodes) \in Nat
        BY LenProperties DEF Typed
      <4> QED BY <1>2, <4>1
    <3> QED BY <2>2, <3>1, <3>2 DEF Grows
  <2> QED BY <1>2, <2>5, <2>6, <2>7, <2>8 DEF NamesInv
<1>5. CASE GetNode(h) # 0
  <2>1. PICK i : i = GetNode(h)
    OBVIOUS
  <2>2. i \in DOMAIN nodes /\ nodes[i].host = h
    BY <1>5, <2>1, NodeOf
  <2>3. PICK k : k = Given(h, D, nodes[i].n)
    OBVIOUS
  <2>4. k \in Answers /\ k.host = h /\ k.addr.n = nodes[i].n
    BY <1>1, <2>2, <2>3, NodeTypes, GivenAnswer
  <2>5. known' = known \cup {k} /\ call' = call
    BY <1>0, <1>5, <2>1, <2>3 DEF Resolve
  <2>6. Typed'
    BY <1>2, <1>3, <2>4, <2>5 DEF Typed, Elsewhere
  <2>7. Noted'
    BY <1>2, <2>2, <2>4, <2>5 DEF NamesInv, Noted
  <2>8. Counted' /\ Looking'
    BY <1>2, <2>5 DEF NamesInv, Counted, Looking, Fresh, Back
  <2>9. Grows
    <3>1. Len(nodes) \in Nat
      BY LenProperties DEF Typed
    <3> QED BY <1>2, <2>5, <3>1 DEF Grows
  <2> QED BY <1>2, <2>6, <2>7, <2>8, <2>9 DEF NamesInv
<1> QED BY <1>4, <1>5

(* The counter moves on, and every older number stands one further back. *)
LEMMA CounterMoves ==
  ASSUME NEW R \in Nat, NEW t \in 0..R, NEW u, u = (IF t + 1 > R THEN 0 ELSE t + 1),
         NEW i \in 1..R
  PROVE  (IF i - 1 <= t THEN t - (i - 1) ELSE t - (i - 1) + R + 1)
         = (IF (i + 1) - 1 <= u THEN u - ((i + 1) - 1) ELSE u - ((i + 1) - 1) + R + 1)
OBVIOUS

LEMMA GetDummyIPNames ==
  ASSUME Typed, NamesInv, NEW t \in Threads, GetDummyIP(t)
  PROVE  Typed' /\ NamesInv' /\ Elsewhere /\ Grows
<1>1. Elsewhere
  BY DEF GetDummyIP, Elsewhere, lists
<1>2. call \in [Threads -> Calls] /\ known \in SUBSET Answers /\ nodes \in Seq(Nodes)
      /\ top \in 0..DummyRange /\ DummyRange \in Nat
  BY HooksAssumption DEF Typed
<1>3. PICK h, f : h = call[t].host /\ f = call[t].fam
  OBVIOUS
<1>4. h \in Hosts /\ f \in {"v4", "v6"} /\ call[t].st = "insert"
  BY <1>3 DEF NamesInv, Looking, GetDummyIP
<1>5. PICK n : n = top'
  OBVIOUS
<1>6. n = (IF top + 1 > DummyRange THEN 0 ELSE top + 1)
  BY <1>5 DEF GetDummyIP, NextDummy
<1>7. n \in 0..DummyRange /\ n \in Nat
  BY <1>2, <1>6
<1>8. PICK e : e = [host |-> h, n |-> n]
  OBVIOUS
<1>9. e \in Nodes /\ e.host = h /\ e.n = n
  BY <1>4, <1>7, <1>8 DEF Nodes
<1>10. nodes' = <<e>> \o nodes
  BY <1>3, <1>5, <1>8 DEF GetDummyIP
<1>11. Put(nodes, e, {}) = <<e>> \o nodes
  BY DEF Put
<1>12. nodes' \in Seq(Nodes) /\ Fronted(nodes, nodes', e)
  BY <1>2, <1>9, <1>10, <1>11, PutFronts
<1>13. Len(nodes') = 1 + Len(nodes) /\ Len(nodes) \in Nat /\ DOMAIN nodes = 1..Len(nodes)
  <2>1. <<e>> \in Seq(Nodes) /\ Len(<<e>>) = 1
    BY <1>9
  <2> QED BY <1>2, <1>10, <2>1, ConcatProperties, LenProperties
<1>14. \A i \in DOMAIN nodes : \E j \in DOMAIN nodes' : nodes'[j] = nodes[i]
  BY <1>12 DEF Fronted
<1>15. \E j \in DOMAIN nodes' : nodes'[j] = e
  BY <1>12 DEF Fronted
<1>16. Counted'
  <2>1. SUFFICES ASSUME Fresh', NEW j \in DOMAIN nodes' PROVE nodes'[j].n = Back(j)'
    BY DEF Counted
  <2>2. Fresh /\ Len(nodes) <= DummyRange
    BY <1>2, <1>13, <2>1 DEF Fresh
  <2>3. CASE j = 1
    <3>1. nodes'[j].n = n
      BY <1>9, <1>12, <2>3 DEF Fronted
    <3>2. top' \in Nat /\ j - 1 = 0
      BY <1>5, <1>7, <2>3
    <3>2b. Back(j)' = IF j - 1 <= top' THEN top' - (j - 1) ELSE top' - (j - 1) + DummyRange + 1
      BY DEF Back
    <3>2c. 0 <= n /\ n - 0 = n
      BY <1>7
    <3>2a. Back(j)' = n
      BY <1>5, <3>2, <3>2b, <3>2c
    <3> QED BY <3>1, <3>2a
  <2>4. CASE j # 1
    <3>1. PICK i : i = j - 1
      OBVIOUS
    <3>2. i \in DOMAIN nodes /\ nodes'[j] = nodes[i]
      BY <1>12, <2>4, <3>1 DEF Fronted
    <3>3. DOMAIN nodes' = 1..Len(nodes')
      BY <1>12, LenProperties
    <3>4. j = i + 1 /\ i \in 1..DummyRange
      BY <1>2, <1>13, <2>2, <3>1, <3>2, <3>3
    <3>5. nodes[i].n = Back(i)
      BY <2>2, <3>2 DEF NamesInv, Counted
    <3>6. Back(i) = (IF (i + 1) - 1 <= n THEN n - ((i + 1) - 1) ELSE n - ((i + 1) - 1) + DummyRange + 1)
      BY <1>2, <1>6, <3>4, CounterMoves DEF Back
    <3>7. Back(j)' = (IF (i + 1) - 1 <= n THEN n - ((i + 1) - 1) ELSE n - ((i + 1) - 1) + DummyRange + 1)
      BY <1>5, <3>4 DEF Back
    <3> QED BY <3>2, <3>5, <3>6, <3>7
  <2> QED BY <2>3, <2>4
<1>17. CASE f = "v4"
  <2>1. PICK k : k = Given(h, "v4", n)
    OBVIOUS
  <2>2. k \in Answers /\ k.host = h /\ k.addr.n = n
    BY <1>4, <1>7, <2>1, GivenAnswer
  <2>3. known' = known \cup {k} /\ call' = [call EXCEPT ![t] = Idle]
    BY <1>3, <1>5, <1>17, <2>1 DEF GetDummyIP
  <2>4. call' \in [Threads -> Calls] /\ call'[t] = Idle /\ \A u \in Threads : u # t => call'[u] = call[u]
    BY <1>2, <2>3, IdleCall
  <2>5. Typed'
    BY <1>1, <1>2, <1>5, <1>7, <1>12, <2>2, <2>3, <2>4 DEF Typed, Elsewhere
  <2>6. Noted'
    BY <1>9, <1>14, <1>15, <2>2, <2>3 DEF NamesInv, Noted
  <2>7. Looking'
    BY <1>14, <2>4, IdleCall DEF NamesInv, Looking
  <2>8. Grows
    BY <1>13, <2>3, <2>4, IdleCall DEF Grows
  <2> QED BY <1>1, <1>16, <2>5, <2>6, <2>7, <2>8 DEF NamesInv
<1>18. CASE f # "v4"
  <2>1. PICK c : c = [call[t] EXCEPT !.st = "six"]
    OBVIOUS
  <2>2. known' = known /\ call' = [call EXCEPT ![t] = c]
    BY <1>2, <1>3, <1>18, <2>1 DEF GetDummyIP
  <2>3. c \in Calls /\ c.st = "six" /\ c.host = h /\ c.fam = f
    BY <1>2, <1>3, <2>1 DEF Calls
  <2>4. call' \in [Threads -> Calls] /\ call'[t] = c /\ \A u \in Threads : u # t => call'[u] = call[u]
    BY <1>2, <2>2, <2>3
  <2>5. Typed'
    BY <1>1, <1>2, <1>5, <1>7, <1>12, <2>2, <2>4 DEF Typed, Elsewhere
  <2>6. Noted'
    BY <1>14, <2>2 DEF NamesInv, Noted
  <2>7. Looking'
    BY <1>4, <1>9, <1>14, <1>15, <2>3, <2>4 DEF NamesInv, Looking
  <2>8. Grows
    BY <1>13, <2>2, <2>3, <2>4 DEF Grows
  <2> QED BY <1>1, <1>16, <2>5, <2>6, <2>7, <2>8 DEF NamesInv
<1> QED BY <1>17, <1>18

LEMMA GetDummyIPv6Names ==
  ASSUME Typed, NamesInv, NEW t \in Threads, GetDummyIPv6(t)
  PROVE  Typed' /\ NamesInv' /\ Elsewhere /\ Grows
<1>1. Elsewhere /\ UNCHANGED <<nodes, top>>
  BY DEF GetDummyIPv6, Elsewhere, lists
<1>2. call \in [Threads -> Calls] /\ known \in SUBSET Answers
  BY DEF Typed
<1>3. PICK h : h = call[t].host
  OBVIOUS
<1>4. PICK i : i = GetNode(h)
  OBVIOUS
<1>5. h \in Hosts /\ \E m \in DOMAIN nodes : nodes[m].host = h
  BY <1>3 DEF NamesInv, Looking, GetDummyIPv6
<1>6. i \in DOMAIN nodes /\ nodes[i].host = h
  BY <1>4, <1>5, NodeOf
<1>7. PICK k : k = Given(h, "v6", nodes[i].n)
  OBVIOUS
<1>8. k \in Answers /\ k.host = h /\ k.addr.n = nodes[i].n
  BY <1>5, <1>6, <1>7, NodeTypes, GivenAnswer
<1>9. known' = known \cup {k} /\ call' = [call EXCEPT ![t] = Idle]
  BY <1>3, <1>4, <1>7 DEF GetDummyIPv6
<1>10. call' \in [Threads -> Calls] /\ call'[t] = Idle /\ \A u \in Threads : u # t => call'[u] = call[u]
  BY <1>2, <1>9, IdleCall
<1>11. Typed'
  BY <1>1, <1>2, <1>8, <1>9, <1>10 DEF Typed, Elsewhere
<1>12. Noted'
  BY <1>1, <1>6, <1>8, <1>9 DEF NamesInv, Noted
<1>13. Looking'
  BY <1>1, <1>10, IdleCall DEF NamesInv, Looking
<1>14. Counted'
  BY <1>1 DEF NamesInv, Counted, Fresh, Back
<1>15. Grows
  <2>1. Len(nodes) \in Nat
    BY LenProperties DEF Typed
  <2> QED BY <1>1, <1>9, <1>10, <2>1, IdleCall DEF Grows
<1> QED BY <1>1, <1>11, <1>12, <1>13, <1>14, <1>15 DEF NamesInv

-----------------------------------------------------------------------------
(* What was meant stays what was meant while names are added. *)
LEMMA MeantKept ==
  ASSUME Typed, Typed', known \subseteq known', Len(nodes) <= Len(nodes'),
         NEW d, NEW n, Meant(d, n)
  PROVE  Meant(d, n)'
<1>1. Fresh' => Fresh
  <2>1. Len(nodes) \in Nat /\ Len(nodes') \in Nat /\ DummyRange \in Nat
    BY LenProperties, HooksAssumption DEF Typed
  <2> QED BY <2>1 DEF Fresh
<1> QED BY <1>1 DEF Meant, IsDummy

LEMMA GrowsKeeps ==
  ASSUME HooksInv, Typed', NamesInv', Elsewhere, Grows
  PROVE  HooksInv'
<1>1. Typed /\ known \subseteq known' /\ Len(nodes) <= Len(nodes')
  BY DEF HooksInv, Grows
<1>2. \A d, n : Meant(d, n) => Meant(d, n)'
  BY <1>1, MeantKept
<1>3. UNCHANGED <<setup, sock, hacked, limits, link, up, asked, passed, log>>
  BY DEF Elsewhere
<1>4. \A type, d : Unblocked(type, d)' = Unblocked(type, d)
  BY <1>3 DEF Unblocked, ShouldBlock, IsUdpAllowedLoopback, IsLoopback, IsDummy
<1>5. Pending'
  <2>1. SUFFICES ASSUME NEW t \in Threads, NEW c \in Calls, c = call'[t] PROVE Asks(c)'
    BY DEF Pending
  <2>2. CASE c.st \notin {"connect", "send"}
    BY <2>2 DEF Asks
  <2>3. CASE c.st \in {"connect", "send"}
    <3>1. call'[t] = call[t]
      BY <2>1, <2>3 DEF Grows
    <3>2. Asks(c)
      BY <2>1, <3>1 DEF HooksInv, Pending
    <3> QED BY <1>2, <1>3, <1>4, <3>2 DEF Asks
  <2> QED BY <2>2, <2>3
<1>6. AskedInv'
  BY <1>2, <1>3 DEF HooksInv, AskedInv
<1>7. HackedInv'
  BY <1>2, <1>3, <1>4 DEF HooksInv, HackedInv, Redirected, Distinct
<1>8. LimitsInv'
  BY <1>3 DEF HooksInv, LimitsInv, MaxPayload, Socks5HeaderSize
<1>9. Shown'
  BY <1>3 DEF HooksInv, SocketsInv, Shown
<1>10. Peers'
  BY <1>1, <1>3, <1>4 DEF HooksInv, SocketsInv, Peers, Direct, Hooked, Leads
<1>11. PassedInv'
  BY <1>3 DEF HooksInv, PassedInv, NoLeak, PayloadFits, ShouldBlock, IsUdpAllowedLoopback, IsLoopback, IsDummy, Socks5HeaderSize
<1>12. LogInv'
  BY <1>3 DEF HooksInv, LogInv, LogOK
<1> QED BY <1>5, <1>6, <1>7, <1>8, <1>9, <1>10, <1>11, <1>12 DEF HooksInv, SocketsInv

-----------------------------------------------------------------------------
(* The log of blocked datagrams. *)
LEMMA LogTypes ==
  ASSUME NEW L \in Logs
  PROVE  /\ L.now \in Nat /\ L.start \in Nat /\ L.count \in Nat
         /\ L.entries \in [1..Capacity -> Slots] /\ L.lines \in SUBSET Lines
         /\ \A l \in L.lines : l.at \in Nat /\ l.window \in Nat /\ l.dst \in Addresses
         /\ \A i \in 1..Capacity : L.entries[i] \in Slots /\ L.entries[i].used \in BOOLEAN /\ L.entries[i].at \in Nat
BY DEF Logs, Slots, Lines

(* A new interval begins with an empty budget. *)
LEMMA WindowOK ==
  ASSUME NEW L \in Logs, LogOK(L), L.now - L.start >= Interval,
         NEW W, W = [L EXCEPT !.start = L.now, !.count = 0]
  PROVE  /\ W \in Logs /\ LogOK(W)
         /\ W.now = L.now /\ W.entries = L.entries /\ W.lines = L.lines
<1>1. /\ W \in Logs /\ W.now = L.now /\ W.entries = L.entries /\ W.lines = L.lines
      /\ W.start = L.now /\ W.count = 0
  BY LogTypes DEF Logs
<1>2. /\ L.now \in Nat /\ L.start \in Nat /\ Interval \in Nat \ {0} /\ MaxPerInterval \in Nat
      /\ \A l \in L.lines : l.at \in Nat /\ l.window \in Nat
  BY LogTypes, HooksAssumption
<1>3. \A l \in L.lines : l.window <= L.start
  BY DEF LogOK
<1>4. L.start < L.now
  BY <1>2
<1>5. \A l \in L.lines : l.window < L.now
  BY <1>2, <1>3, <1>4
<1>6. {l \in L.lines : l.window = L.now} = {}
  BY <1>2, <1>5
<1>7. Cardinality({l \in W.lines : l.window = W.start}) <= W.count
  <2>1. Cardinality({}) = 0
    BY FS_EmptySet
  <2> QED BY <1>1, <1>6, <2>1
<1>8. W.count <= MaxPerInterval /\ W.start <= W.now /\ IsFiniteSet(W.lines)
  BY <1>1, <1>2 DEF LogOK
<1>9. \A l \in W.lines : l.at <= W.now /\ l.window <= W.start
  BY <1>1, <1>2, <1>5 DEF LogOK
<1> QED BY <1>1, <1>7, <1>8, <1>9 DEF LogOK

(* A line is logged for a destination that has none within the interval,   *)
(* in a slot that remembers no line within the interval.                   *)
LEMMA LineOK ==
  ASSUME NEW L \in Logs, LogOK(L), L.count < MaxPerInterval, NEW d \in Addresses,
         NEW i \in 1..Capacity, NEW l, l = [dst |-> d, at |-> L.now, window |-> L.start],
         ~(L.entries[i].used /\ L.now - L.entries[i].at < Interval),
         \A j \in 1..Capacity : L.entries[j].used /\ L.entries[j].dst = d => j = i,
         NEW e, e = [used |-> TRUE, dst |-> d, at |-> L.now],
         NEW N, N \in Logs, N.now = L.now, N.start = L.start, N.count = L.count + 1,
         N.entries = [L.entries EXCEPT ![i] = e], N.lines = L.lines \cup {l}
  PROVE  LogOK(N)
<1>1. /\ L.now \in Nat /\ L.start \in Nat /\ L.count \in Nat /\ Interval \in Nat \ {0} /\ MaxPerInterval \in Nat
      /\ \A k \in L.lines : k.at \in Nat /\ k.window \in Nat
      /\ L.entries \in [1..Capacity -> Slots]
  BY LogTypes, HooksAssumption
<1>2. l.dst = d /\ l.at = L.now /\ l.window = L.start
  OBVIOUS
<1>3. N.entries[i] = e /\ \A j \in 1..Capacity : j # i => N.entries[j] = L.entries[j]
  BY <1>1
<1>4. /\ N.count <= MaxPerInterval /\ N.start <= N.now /\ IsFiniteSet(N.lines)
  <2>1. IsFiniteSet(L.lines \cup {l})
    BY FS_AddElement DEF LogOK
  <2> QED BY <1>1, <2>1 DEF LogOK
<1>5. ASSUME NEW S, IsFiniteSet(S), Cardinality(S) <= L.count
      PROVE  Cardinality(S \cup {l}) <= L.count + 1
  <2>1. Cardinality(S) \in Nat /\ (Cardinality(S \cup {l}) = Cardinality(S) \/ Cardinality(S \cup {l}) = Cardinality(S) + 1)
    BY <1>5, FS_AddElement, FS_CardinalityType
  <2> QED BY <1>1, <1>5, <2>1
<1>6. \A w : IsFiniteSet({k \in L.lines : k.window = w})
  <2>1. \A w : {k \in L.lines : k.window = w} \in SUBSET L.lines
    OBVIOUS
  <2> QED BY <2>1, FS_Subset DEF LogOK
<1>7. {k \in N.lines : k.window = L.start} = {k \in L.lines : k.window = L.start} \cup {l}
  BY <1>2
<1>8. Cardinality({k \in N.lines : k.window = N.start}) <= N.count
  <2>1. Cardinality({k \in L.lines : k.window = L.start}) <= L.count
    BY DEF LogOK
  <2>2. Cardinality({k \in L.lines : k.window = L.start} \cup {l}) <= L.count + 1
    BY <1>5, <1>6, <2>1
  <2> QED BY <1>7, <2>2
<1>9. \A k \in N.lines : k.at <= N.now /\ k.window <= N.start
  BY <1>1, <1>2 DEF LogOK
<1>10. \A k \in N.lines : N.now - k.at < Interval => \E j \in 1..Capacity : Held(N.entries[j], k)
  <2>1. SUFFICES ASSUME NEW k \in N.lines, L.now - k.at < Interval
                 PROVE  \E j \in 1..Capacity : Held(N.entries[j], k)
    OBVIOUS
  <2>2. CASE k = l
    BY <1>2, <1>3, <2>2 DEF Held
  <2>3. CASE k \in L.lines
    <3>1. PICK j \in 1..Capacity : Held(L.entries[j], k)
      BY <2>1, <2>3 DEF LogOK
    <3>2. L.entries[j].used /\ L.entries[j].at = k.at
      BY <3>1 DEF Held
    <3>3. j # i
      BY <2>1, <3>2
    <3> QED BY <1>3, <3>1, <3>3
  <2> QED BY <2>2, <2>3
<1>11. \A j, k \in 1..Capacity :
         N.entries[j].used /\ N.entries[k].used /\ N.entries[j].dst = N.entries[k].dst => j = k
  <2>1. e.dst = d
    OBVIOUS
  <2> QED BY <1>3, <2>1 DEF LogOK
<1>12. \A k \in L.lines : k.dst = d => L.now - k.at >= Interval \/ k.at = L.now
  <2>1. SUFFICES ASSUME NEW k \in L.lines, k.dst = d, L.now - k.at < Interval PROVE FALSE
    BY <1>1
  <2>2. PICK j \in 1..Capacity : Held(L.entries[j], k)
    BY <2>1 DEF LogOK
  <2>3. L.entries[j].used /\ L.entries[j].dst = d /\ L.entries[j].at = k.at
    BY <2>1, <2>2 DEF Held
  <2>4. j = i
    BY <2>3
  <2> QED BY <2>1, <2>3, <2>4
<1>13. \A k, m \in N.lines : k.dst = m.dst /\ k.at < m.at => m.at - k.at >= Interval
  <2>1. SUFFICES ASSUME NEW k \in N.lines, NEW m \in N.lines, k.dst = m.dst, k.at < m.at
                 PROVE  m.at - k.at >= Interval
    OBVIOUS
  <2>2. CASE k \in L.lines /\ m \in L.lines
    BY <2>1, <2>2 DEF LogOK
  <2>3. CASE k \in L.lines /\ m = l
    BY <1>1, <1>2, <1>12, <2>1, <2>3
  <2>4. CASE k = l
    <3>1. m.at <= L.now
      BY <1>9
    <3>2. m.at \in Int
      BY <1>1, <1>2
    <3> QED BY <1>1, <1>2, <2>1, <2>4, <3>1, <3>2
  <2> QED BY <2>2, <2>3, <2>4
<1>14. \A k \in N.lines : Cardinality({m \in N.lines : m.window = k.window}) <= MaxPerInterval
  <2>1. SUFFICES ASSUME NEW k \in N.lines
                 PROVE  Cardinality({m \in N.lines : m.window = k.window}) <= MaxPerInterval
    OBVIOUS
  <2>2. CASE k.window = L.start
    <3>1. Cardinality({m \in N.lines : m.window = k.window}) <= L.count + 1
      BY <1>8, <2>2
    <3>2. {m \in N.lines : m.window = k.window} \in SUBSET N.lines
      OBVIOUS
    <3>3. Cardinality({m \in N.lines : m.window = k.window}) \in Nat
      BY <1>4, <3>2, FS_Subset, FS_CardinalityType
    <3> QED BY <1>1, <3>1, <3>3
  <2>3. CASE k.window # L.start
    <3>1. {m \in N.lines : m.window = k.window} = {m \in L.lines : m.window = k.window}
      BY <1>2, <2>3
    <3>2. k \in L.lines
      BY <1>2, <2>3
    <3> QED BY <3>1, <3>2 DEF LogOK
  <2> QED BY <2>2, <2>3
<1> QED BY <1>4, <1>8, <1>9, <1>10, <1>11, <1>13, <1>14 DEF LogOK

(* A slot for a destination: its own if it has one, and a stale one. *)
LEMMA SlotIs ==
  ASSUME log \in Logs, LogOK(log), NEW d \in Addresses, SlotFor(d) # {}, NEW i, i = First(SlotFor(d))
  PROVE  /\ i \in 1..Capacity /\ ~(log.entries[i].used /\ log.now - log.entries[i].at < Interval)
         /\ \A j \in 1..Capacity : log.entries[j].used /\ log.entries[j].dst = d => j = i
<1>1. PICK same : same = {j \in 1..Capacity : log.entries[j].used /\ log.entries[j].dst = d}
  OBVIOUS
<1>2. PICK free : free = {j \in 1..Capacity : ~Live(log.entries[j])}
  OBVIOUS
<1>3. SlotFor(d) = IF same # {} THEN same \ {j \in same : Live(log.entries[j])} ELSE free
  BY <1>1, <1>2 DEF SlotFor
<1>4. SlotFor(d) \in SUBSET (1..Capacity) /\ \A j \in SlotFor(d) : ~Live(log.entries[j])
  BY <1>1, <1>2, <1>3
<1>5. Capacity \in Nat
  BY HooksAssumption
<1>6. 1..Capacity \in SUBSET (Nat \ {0})
  BY <1>5
<1>7. SlotFor(d) \in SUBSET (Nat \ {0})
  BY <1>4, <1>6
<1>8. i \in SlotFor(d)
  BY <1>7, FirstIsLeast
<1>9. i \in 1..Capacity /\ ~Live(log.entries[i])
  BY <1>4, <1>8
<1>10. ASSUME NEW j \in 1..Capacity, log.entries[j].used, log.entries[j].dst = d PROVE j = i
  <2>1. j \in same
    BY <1>1, <1>10
  <2>2. i \in same
    BY <1>3, <1>8, <2>1
  <2>3. log.entries[i].used /\ log.entries[i].dst = d
    BY <1>1, <2>2
  <2> QED BY <1>9, <1>10, <2>3 DEF LogOK
<1> QED BY <1>9, <1>10 DEF Live

LEMMA AllowOK ==
  ASSUME log \in Logs, LogOK(log), NEW d \in Addresses
  PROVE  Allow(d) \in Logs /\ LogOK(Allow(d))
<1>1. PICK W : W = Window
  OBVIOUS
<1>2. W \in Logs /\ LogOK(W) /\ W.now = log.now /\ W.entries = log.entries
  <2>1. CASE log.now - log.start >= Interval
    <3>1. W = [log EXCEPT !.start = log.now, !.count = 0]
      BY <1>1, <2>1 DEF Window
    <3> QED BY <2>1, <3>1, WindowOK
  <2>2. CASE ~(log.now - log.start >= Interval)
    BY <1>1, <2>2 DEF Window
  <2> QED BY <2>1, <2>2
<1>3. CASE W.count >= MaxPerInterval \/ SlotFor(d) = {}
  BY <1>1, <1>2, <1>3 DEF Allow
<1>4. CASE ~(W.count >= MaxPerInterval) /\ SlotFor(d) # {}
  <2>1. PICK i : i = First(SlotFor(d))
    OBVIOUS
  <2>2. /\ i \in 1..Capacity /\ ~(log.entries[i].used /\ log.now - log.entries[i].at < Interval)
        /\ \A j \in 1..Capacity : log.entries[j].used /\ log.entries[j].dst = d => j = i
    BY <1>4, <2>1, SlotIs
  <2>3. PICK e, l : e = [used |-> TRUE, dst |-> d, at |-> W.now]
                    /\ l = [dst |-> d, at |-> W.now, window |-> W.start]
    OBVIOUS
  <2>4. W.now \in Nat /\ W.start \in Nat /\ W.count \in Nat /\ MaxPerInterval \in Nat
        /\ W.entries \in [1..Capacity -> Slots] /\ W.lines \in SUBSET Lines
    BY <1>2, LogTypes, HooksAssumption
  <2>5. e \in Slots /\ l \in Lines
    BY <2>3, <2>4 DEF Slots, Lines
  <2>6. PICK N : N = [W EXCEPT !.entries[i] = e, !.count = @ + 1, !.lines = @ \cup {l}]
    OBVIOUS
  <2>7. Allow(d) = N
    BY <1>1, <1>2, <1>4, <2>1, <2>3, <2>6 DEF Allow
  <2>8. /\ N.now = W.now /\ N.start = W.start /\ N.count = W.count + 1
        /\ N.entries = [W.entries EXCEPT ![i] = e] /\ N.lines = W.lines \cup {l}
        /\ N = [now |-> N.now, start |-> N.start, count |-> N.count, entries |-> N.entries, lines |-> N.lines]
    BY <1>2, <2>6 DEF Logs
  <2>9. [W.entries EXCEPT ![i] = e] \in [1..Capacity -> Slots] /\ W.lines \cup {l} \in SUBSET Lines
        /\ W.count + 1 \in Nat
    <3>1. [W.entries EXCEPT ![i] = e] \in [1..Capacity -> Slots]
      BY <2>2, <2>4, <2>5
    <3>2. W.lines \cup {l} \in SUBSET Lines
      BY <2>4, <2>5
    <3>3. W.count + 1 \in Nat
      BY <2>4
    <3> QED BY <3>1, <3>2, <3>3
  <2>10. N \in Logs
    BY <2>4, <2>8, <2>9 DEF Logs
  <2>11. W.count < MaxPerInterval
    BY <1>4, <2>4
  <2>12. LogOK(N)
    BY <1>2, <2>2, <2>3, <2>8, <2>10, <2>11, LineOK
  <2> QED BY <2>7, <2>10, <2>12
<1> QED BY <1>3, <1>4

LEMMA TickOK ==
  ASSUME NEW L \in Logs, LogOK(L), NEW N, N = [L EXCEPT !.now = @ + 1]
  PROVE  N \in Logs /\ LogOK(N)
<1>1. /\ L.now \in Nat /\ L.start \in Nat /\ L.count \in Nat /\ Interval \in Nat \ {0}
      /\ \A k \in L.lines : k.at \in Nat /\ k.window \in Nat
  BY LogTypes, HooksAssumption
<1>2. /\ N \in Logs /\ N.now = L.now + 1 /\ N.start = L.start /\ N.count = L.count
      /\ N.entries = L.entries /\ N.lines = L.lines
  BY <1>1 DEF Logs
<1>3. N.start <= N.now
  BY <1>1, <1>2 DEF LogOK
<1>4. \A l \in N.lines : l.at <= N.now /\ l.window <= N.start
  BY <1>1, <1>2 DEF LogOK
<1>5. \A l \in N.lines : N.now - l.at < Interval => \E i \in 1..Capacity : Held(N.entries[i], l)
  <2>1. \A l \in N.lines : N.now - l.at < Interval => L.now - l.at < Interval
    BY <1>1, <1>2
  <2> QED BY <1>2, <2>1 DEF LogOK
<1> QED BY <1>2, <1>3, <1>4, <1>5 DEF LogOK

-----------------------------------------------------------------------------
(* Steps that register nothing: a call begins or ends, a socket may be     *)
(* connected directly, something may be handed to Winsock.                 *)
LeaksNot(p) ==
  /\ p.via = "direct" => Direct(p.type, p.dst)
  /\ Unblocked(p.type, p.dst)
Roomy(p) ==
  p.type = "dgram" /\ p.via = "prc" /\ setup.socks /\ ~p.again
    /\ (p.name # NoHost => p.dst.fam # "v6" /\ \A r \in asked : r.name = p.name => r.dst = p.dst)
  => p.size + (IF p.dst.fam = "v6" THEN 22 ELSE Socks5HeaderSize(p.name)) <= NoLimit

LEMMA PassedParts == PassedInv <=> \A p \in passed : LeaksNot(p) /\ Roomy(p)
BY DEF PassedInv, NoLeak, PayloadFits, LeaksNot, Roomy, Direct, Unblocked

Reachable(s, a) ==
  /\ a.fam # "none" /\ a.at \notin {"none", "prc"}
  /\ Direct(sock[s].type, a) /\ Unblocked(sock[s].type, a)
  /\ IsDummy(a) => \E k \in known : k.addr = a
  /\ a.at = "route" => sock[s].type = "dgram" /\ a = sock[s].peer

Moved(s, a, w) ==
  /\ sock' = [sock EXCEPT ![s] = w] /\ w.type = sock[s].type
  /\ w.peer \in {a, NoAddress} /\ w.again = sock[s].again

CalmCalls == call' \in [Threads -> Calls]
             /\ \A t \in Threads, c \in Calls : c = call'[t] => c = call[t] \/ c = Idle \/ (Asks(c) /\ c.st \notin {"insert", "six"})
CalmSocks == sock' = sock \/ \E s \in Sockets, a \in Addresses, w \in Socks : Reachable(s, a) /\ Moved(s, a, w)
CalmPassed == passed' = passed \/ \E p \in Leavings : passed' = passed \cup {p} /\ LeaksNot(p) /\ Roomy(p)
CalmLog == log' \in Logs /\ LogOK(log')

CalmStep ==
  /\ UNCHANGED <<setup, nodes, top, known, hacked, limits, asked>>
  /\ link' \in {"none", "good", "dead"} /\ up' \in BOOLEAN
  /\ CalmCalls /\ CalmSocks /\ CalmPassed /\ CalmLog

LEMMA CalmTyped ==
  ASSUME Typed, CalmStep
  PROVE  Typed'
<1>1. sock' \in [Sockets -> Socks]
  <2>1. CASE sock' = sock
    BY <2>1 DEF Typed
  <2>2. CASE sock' # sock
    <3>1. PICK s \in Sockets, w \in Socks : sock' = [sock EXCEPT ![s] = w]
      BY <2>2 DEF CalmStep, CalmSocks, Moved
    <3> QED BY <3>1 DEF Typed
  <2> QED BY <2>1, <2>2
<1>2. passed' \in SUBSET Leavings
  BY DEF Typed, CalmStep, CalmPassed
<1> QED BY <1>1, <1>2 DEF Typed, CalmStep, CalmCalls, CalmLog

LEMMA CalmNames ==
  ASSUME Typed, NamesInv, CalmStep
  PROVE  NamesInv'
<1>1. UNCHANGED <<nodes, top, known>>
  BY DEF CalmStep
<1>2. Looking'
  <2>1. SUFFICES ASSUME NEW t \in Threads
                 PROVE  /\ call'[t].st \in {"insert", "six"} => call'[t].host \in Hosts /\ call'[t].fam \in {"v4", "v6"}
                        /\ call'[t].st = "six" => \E i \in DOMAIN nodes : nodes[i].host = call'[t].host
    BY <1>1 DEF Looking
  <2>2. PICK c : c = call'[t]
    OBVIOUS
  <2>3. c \in Calls
    BY <2>2 DEF CalmStep, CalmCalls
  <2>4. c = call[t] \/ c = Idle \/ c.st \notin {"insert", "six"}
    BY <2>2, <2>3 DEF CalmStep, CalmCalls
  <2>5. c = call[t] \/ c.st \notin {"insert", "six"}
    BY <2>4, IdleCall
  <2> QED BY <2>2, <2>5 DEF NamesInv, Looking
<1> QED BY <1>1, <1>2 DEF NamesInv, Counted, Noted, Fresh, Back

LEMMA CalmPending ==
  ASSUME Typed, Pending, CalmStep
  PROVE  Pending'
<1>1. SUFFICES ASSUME NEW t \in Threads, NEW c \in Calls, c = call'[t] PROVE Asks(c)'
  BY DEF Pending
<1>2. UNCHANGED <<setup, nodes, known>>
  BY DEF CalmStep
<1>3. \A s \in Sockets : sock'[s].type = sock[s].type
  <2>1. CASE sock' = sock
    BY <2>1
  <2>2. CASE sock' # sock
    <3>1. PICK s \in Sockets, w \in Socks : sock' = [sock EXCEPT ![s] = w] /\ w.type = sock[s].type
      BY <2>2 DEF CalmStep, CalmSocks, Moved
    <3> QED BY <3>1 DEF Typed
  <2> QED BY <2>1, <2>2
<1>4. c = call[t] \/ c = Idle \/ Asks(c)
  BY <1>1 DEF CalmStep, CalmCalls
<1>5. Asks(c)
  <2>1. CASE c = call[t]
    BY <2>1 DEF Pending
  <2>2. CASE c = Idle
    BY <2>2, IdleCall DEF Asks
  <2> QED BY <1>4, <2>1, <2>2
<1>6. c.s \in Sockets => sock'[c.s].type = sock[c.s].type
  BY <1>3
<1> QED BY <1>2, <1>5, <1>6 DEF Asks, Meant, Unblocked, Fresh, IsDummy, ShouldBlock, IsUdpAllowedLoopback, IsLoopback

(* The peer of a datagram socket, and of a stream. *)
PeerOK(s) ==
  sock[s].type = "dgram" /\ sock[s].peer # NoAddress =>
    /\ sock[s].peer.fam # "none" /\ sock[s].peer.at \notin {"none", "prc"}
    /\ Direct("dgram", sock[s].peer)
    /\ Unblocked("dgram", sock[s].peer)
    /\ IsDummy(sock[s].peer) => \E k \in known : k.addr = sock[s].peer
    /\ sock[s].peer.at = "route" => \E i \in DOMAIN hacked : Hooked(s, i)
    /\ sock[s].peer.at = "route" /\ ~sock[s].again =>
         \E i \in DOMAIN hacked, j \in DOMAIN limits : Leads(s, i, j)
ShownOK(s) ==
  sock[s].type = "stream" /\ sock[s].peer.at = "prc" /\ ~sock[s].again =>
    \E i \in DOMAIN hacked : /\ hacked[i].s = s /\ hacked[i].dst = sock[s].want
                             /\ \A k \in DOMAIN hacked : hacked[k].s = s => i <= k

LEMMA SocketParts == SocketsInv <=> \A s \in Sockets : PeerOK(s) /\ ShownOK(s)
BY DEF SocketsInv, Peers, Shown, PeerOK, ShownOK

LEMMA NoAddressIs == NoAddress \in Addresses /\ NoAddress.fam = "none" /\ NoAddress.at = "none" /\ NoAddress.n = 0
BY DEF NoAddress, Address, Addresses, Places

LEMMA SameSocket ==
  ASSUME UNCHANGED <<setup, known, hacked, limits>>, NEW s, sock'[s] = sock[s], PeerOK(s), ShownOK(s)
  PROVE  PeerOK(s)' /\ ShownOK(s)'
<1>1. PeerOK(s)'
  BY DEF PeerOK, Direct, Unblocked, ShouldBlock, IsUdpAllowedLoopback, IsLoopback, IsDummy, Hooked, Leads
<1>2. ShownOK(s)'
  BY DEF ShownOK
<1> QED BY <1>1, <1>2

LEMMA MovedSocket ==
  ASSUME UNCHANGED <<setup, known, hacked, limits>>, NEW s, NEW a \in Addresses, NEW w \in Socks,
         sock'[s] = w, w.type = sock[s].type, w.peer \in {a, NoAddress}, w.again = sock[s].again,
         Reachable(s, a), PeerOK(s)
  PROVE  PeerOK(s)' /\ ShownOK(s)'
<1>1. ShownOK(s)'
  BY NoAddressIs DEF ShownOK, Reachable
<1>2. CASE w.peer = NoAddress
  <2>1. PeerOK(s)'
    BY <1>2 DEF PeerOK
  <2> QED BY <1>1, <2>1
<1>3. CASE w.peer = a /\ w.type = "dgram"
  <2>1. /\ a.fam # "none" /\ a.at \notin {"none", "prc"}
        /\ Direct("dgram", a)' /\ Unblocked("dgram", a)'
        /\ IsDummy(a) => \E k \in known' : k.addr = a
    BY <1>3 DEF Reachable, Direct, Unblocked, ShouldBlock, IsUdpAllowedLoopback, IsLoopback, IsDummy
  <2>2. CASE a.at # "route"
    <3>1. PeerOK(s)'
      BY <1>3, <2>1, <2>2 DEF PeerOK, Direct, Unblocked, IsDummy, ShouldBlock, IsUdpAllowedLoopback, IsLoopback
    <3> QED BY <1>1, <3>1
  <2>3. CASE a.at = "route"
    <3>1. a = sock[s].peer /\ a # NoAddress
      BY <2>3, NoAddressIs DEF Reachable
    <3>2. PICK i \in DOMAIN hacked : Hooked(s, i)
      BY <1>3, <2>3, <3>1 DEF PeerOK
    <3>3. Hooked(s, i)'
      BY <1>3, <3>1, <3>2 DEF Hooked
    <3>4. ~w.again => \E k \in DOMAIN hacked, j \in DOMAIN limits : Leads(s, k, j)
      BY <1>3, <2>3, <3>1 DEF PeerOK
    <3>5. \A k, j : Leads(s, k, j) => Leads(s, k, j)'
      BY <1>3, <3>1 DEF Leads, Hooked
    <3>6. PeerOK(s)'
      BY <1>3, <2>1, <2>3, <3>2, <3>3, <3>4, <3>5 DEF PeerOK, Direct, Unblocked, IsDummy, ShouldBlock, IsUdpAllowedLoopback, IsLoopback
    <3> QED BY <1>1, <3>6
  <2> QED BY <2>2, <2>3
<1>4. CASE w.type # "dgram"
  BY <1>1, <1>4 DEF PeerOK
<1> QED BY <1>2, <1>3, <1>4

LEMMA CalmSockets ==
  ASSUME Typed, SocketsInv, CalmStep
  PROVE  SocketsInv'
<1>1. UNCHANGED <<setup, known, hacked, limits>>
  BY DEF CalmStep
<1>2. \A s \in Sockets : PeerOK(s) /\ ShownOK(s)
  BY SocketParts
<1>3. SUFFICES ASSUME NEW s \in Sockets PROVE PeerOK(s)' /\ ShownOK(s)'
  BY DEF SocketsInv, Peers, Shown, PeerOK, ShownOK
<1>4. CASE sock'[s] = sock[s]
  BY <1>1, <1>2, <1>4, SameSocket
<1>5. CASE sock'[s] # sock[s]
  <2>1. PICK q \in Sockets, a \in Addresses, w \in Socks : Reachable(q, a) /\ Moved(q, a, w)
    BY <1>5 DEF CalmStep, CalmSocks
  <2>2. sock' = [sock EXCEPT ![q] = w]
    BY <2>1 DEF Moved
  <2>3. q = s /\ sock'[s] = w
    BY <1>5, <2>2 DEF Typed
  <2>4. w.type = sock[s].type /\ w.peer \in {a, NoAddress} /\ w.again = sock[s].again /\ Reachable(s, a)
    BY <2>1, <2>3 DEF Moved
  <2> QED BY <1>1, <1>2, <2>3, <2>4, MovedSocket
<1> QED BY <1>4, <1>5

LEMMA CalmLists ==
  ASSUME Typed, AskedInv, HackedInv, LimitsInv, CalmStep
  PROVE  AskedInv' /\ HackedInv' /\ LimitsInv'
<1>1. UNCHANGED <<setup, nodes, known, hacked, limits, asked>>
  BY DEF CalmStep
<1>2. \A s \in Sockets : sock'[s].type = sock[s].type
  <2>1. CASE sock' = sock
    BY <2>1
  <2>2. CASE sock' # sock
    <3>1. PICK s \in Sockets, w \in Socks : sock' = [sock EXCEPT ![s] = w] /\ w.type = sock[s].type
      BY <2>2 DEF CalmStep, CalmSocks, Moved
    <3> QED BY <3>1 DEF Typed
  <2> QED BY <2>1, <2>2
<1>3. \A i \in DOMAIN hacked : hacked[i].s \in Sockets
  <2>1. \A i \in DOMAIN hacked : hacked[i] \in Entries
    BY ElementOfSeq DEF Typed
  <2> QED BY <2>1 DEF Entries
<1>4. AskedInv'
  BY <1>1 DEF AskedInv, Meant, Fresh, IsDummy
<1>5. Redirected'
  BY <1>1, <1>2, <1>3 DEF HackedInv, Redirected, Meant, Unblocked, Fresh, IsDummy, ShouldBlock, IsUdpAllowedLoopback, IsLoopback
<1>6. Distinct'
  BY <1>1 DEF HackedInv, Distinct
<1>7. LimitsInv'
  BY <1>1 DEF LimitsInv, MaxPayload, Socks5HeaderSize
<1> QED BY <1>4, <1>5, <1>6, <1>7 DEF HackedInv

(* What holds of one thing handed to Winsock stays: the settings stay, and *)
(* the service is only asked for more.                                     *)
LEMMA PassedStays ==
  ASSUME setup' = setup, asked \subseteq asked', NEW p, LeaksNot(p), Roomy(p)
  PROVE  LeaksNot(p)' /\ Roomy(p)'
<1>1. LeaksNot(p)'
  BY DEF LeaksNot, Direct, Unblocked, ShouldBlock, IsUdpAllowedLoopback, IsLoopback, IsDummy
<1>2. Roomy(p)'
  BY DEF Roomy, Socks5HeaderSize
<1> QED BY <1>1, <1>2

LEMMA CalmKeeps ==
  ASSUME HooksInv, CalmStep
  PROVE  HooksInv'
<1>1. Typed' /\ NamesInv' /\ Pending' /\ SocketsInv' /\ AskedInv' /\ HackedInv' /\ LimitsInv'
  BY CalmTyped, CalmNames, CalmPending, CalmSockets, CalmLists DEF HooksInv
<1>2. PassedInv'
  <2>1. setup' = setup /\ asked \subseteq asked'
    BY DEF CalmStep
  <2>2. \A p \in passed' : LeaksNot(p) /\ Roomy(p)
    BY PassedParts DEF HooksInv, CalmStep, CalmPassed
  <2>3. \A p \in passed' : LeaksNot(p)' /\ Roomy(p)'
    BY <2>1, <2>2, PassedStays
  <2> QED BY <2>3 DEF PassedInv, NoLeak, PayloadFits, LeaksNot, Roomy, Direct, Unblocked
<1>3. LogInv'
  BY DEF CalmStep, CalmLog, LogInv, LogOK
<1> QED BY <1>1, <1>2, <1>3 DEF HooksInv

-----------------------------------------------------------------------------
(* What the application can name as a destination. *)
LEMMA EntryTypes ==
  ASSUME Typed, NEW i \in DOMAIN hacked
  PROVE  /\ hacked[i] \in Entries /\ hacked[i].s \in Sockets /\ hacked[i].type \in Types
         /\ hacked[i].dst \in Addresses /\ hacked[i].name \in Names /\ hacked[i].udp \in Addresses
<1>1. hacked[i] \in Entries
  BY ElementOfSeq DEF Typed
<1> QED BY <1>1 DEF Entries

LEMMA FoundIn ==
  ASSUME Typed, NEW I \in SUBSET DOMAIN hacked
  PROVE  /\ I # {} => /\ First(I) \in I /\ First(I) \in DOMAIN hacked /\ Found(I) = hacked[First(I)]
                      /\ \A m \in I : First(I) <= m
         /\ I = {} => Found(I) = Nothing
<1>1. hacked \in Seq(Entries)
  BY DEF Typed
<1> QED BY <1>1, FirstOf DEF Found

LEMMA NothingIs == Nothing.type = "none" /\ Nothing.dst = NoAddress /\ Nothing.udp = NoAddress
BY DEF Nothing

LEMMA PeerNameIs ==
  ASSUME Typed, HackedInv, NEW s \in Sockets, sock[s].type = "dgram"
  PROVE  PeerName(s) = sock[s].peer
<1>1. PICK I : I = {i \in DOMAIN hacked : hacked[i].s = s}
  OBVIOUS
<1>2. I \in SUBSET DOMAIN hacked /\ GetInfo(s) = Found(I)
  BY <1>1 DEF GetInfo
<1>3. GetInfo(s).type # "stream"
  <2>1. CASE I = {}
    BY <1>2, <2>1, FoundIn, NothingIs
  <2>2. CASE I # {}
    <3>1. PICK f \in I : GetInfo(s) = hacked[f]
      BY <1>2, <2>2, FoundIn
    <3> QED BY <1>1, <3>1 DEF HackedInv, Redirected
  <2> QED BY <2>1, <2>2
<1> QED BY <1>3 DEF PeerName

Nameable(s, a) ==
  /\ a \in Addresses /\ a.fam \in {"v4", "v6"} /\ a.at \notin {"none", "prc"}
  /\ IsDummy(a) => \E k \in known : k.addr = a
  /\ a.at = "route" => sock[s].type = "dgram" /\ a = sock[s].peer

LEMMA NormalTypes ==
  ASSUME NEW d \in Addresses PROVE NormalizeSocketAddress(d) = d
BY DEF NormalizeSocketAddress, Addresses

LEMMA TargetIs ==
  ASSUME Typed, HackedInv, SocketsInv, NEW s \in Sockets, NEW d \in Targets(s)
  PROVE  Nameable(s, NormalizeSocketAddress(d)) /\ d # NoAddress
<1>1. CASE d \in setup.dests
  <2>1. d \in [fam : {"v4", "v6", "mapped"}, n : {0}, at : {"wan", "lan", "loop", "zero", "mdns", "dns"}]
    BY <1>1, IsSetupNow
  <2>2. PICK a : a = NormalizeSocketAddress(d)
    OBVIOUS
  <2>3. a.fam \in {"v4", "v6"} /\ a.at = d.at /\ a.n = 0 /\ a = [fam |-> a.fam, at |-> a.at, n |-> a.n]
    BY <2>1, <2>2 DEF NormalizeSocketAddress
  <2>4. a.at \in {"wan", "lan", "loop", "zero", "mdns", "dns"}
    BY <2>1, <2>3
  <2>5. a \in Addresses
    BY <2>3, <2>4 DEF Addresses, Places
  <2>6. Nameable(s, a)
    BY <2>3, <2>4, <2>5 DEF Nameable, IsDummy
  <2>7. d # NoAddress
    BY <2>1, NoAddressIs
  <2> QED BY <2>2, <2>6, <2>7
<1>2. CASE d \in {k.addr : k \in known}
  <2>1. PICK k \in known : d = k.addr
    BY <1>2
  <2>2. k \in Answers
    BY DEF Typed
  <2>3. d \in Addresses /\ d.fam \in {"v4", "v6"} /\ d.at = "dummy"
    BY <2>1, <2>2 DEF Answers, Addresses, Places
  <2>4. NormalizeSocketAddress(d) = d /\ d # NoAddress
    BY <2>3, NormalTypes, NoAddressIs
  <2>5. Nameable(s, d)
    BY <2>1, <2>3 DEF Nameable, IsDummy
  <2> QED BY <2>4, <2>5
<1>3. CASE sock[s].type = "dgram" /\ d = PeerName(s) /\ d # NoAddress
  <2>1. d = sock[s].peer
    BY <1>3, PeerNameIs
  <2>2. PeerOK(s)
    BY SocketParts
  <2>3. d \in Addresses
    BY <2>1 DEF Typed, Socks
  <2>4. NormalizeSocketAddress(d) = d
    BY <2>3, NormalTypes
  <2>5. d.fam # "none" /\ d.at \notin {"none", "prc"} /\ (IsDummy(d) => \E k \in known : k.addr = d)
    BY <1>3, <2>1, <2>2 DEF PeerOK
  <2>6. d.fam \in {"v4", "v6"}
    BY <2>3, <2>5 DEF Addresses
  <2>7. Nameable(s, d)
    BY <1>3, <2>1, <2>3, <2>5, <2>6 DEF Nameable
  <2> QED BY <1>3, <2>4, <2>7
<1> QED BY <1>1, <1>2, <1>3 DEF Targets

(* The name that goes with a destination. *)
LEMMA MeantNow ==
  ASSUME Typed, NamesInv, NEW s, NEW a, Nameable(s, a), a.at # "route"
  PROVE  Meant(a, GetHostByIP(a)) /\ GetHostByIP(a) \in Names
<1>1. CASE ~IsDummy(a)
  <2>1. GetHostByIP(a) = NoHost
    BY <1>1 DEF GetHostByIP
  <2>2. Meant(a, NoHost)
    BY <1>1 DEF Meant, Nameable
  <2> QED BY <2>1, <2>2 DEF Names
<1>2. CASE IsDummy(a)
  <2>1. PICK k \in known : k.addr = a
    BY <1>2 DEF Nameable
  <2>2. HostOf(a.n) \in Hosts /\ (Fresh => HostOf(a.n) = k.host)
    BY <2>1, KnownName
  <2>3. GetHostByIP(a) = HostOf(a.n)
    BY <1>2 DEF GetHostByIP
  <2>4. HostOf(a.n) # NoHost
    BY <2>2, HooksAssumption
  <2>5. Meant(a, HostOf(a.n))
    BY <1>2, <2>1, <2>2, <2>4 DEF Meant, Nameable
  <2> QED BY <2>2, <2>3, <2>5 DEF Names
<1> QED BY <1>1, <1>2

LEMMA AskingCall ==
  ASSUME Typed, NEW st \in {"connect", "send"}, NEW s \in Sockets, NEW a \in Addresses,
         GetHostByIP(a) \in Names, NEW size \in Nat
  PROVE  /\ Asking(st, s, a, size) \in Calls
         /\ Asking(st, s, a, size).st = st /\ Asking(st, s, a, size).s = s
         /\ Asking(st, s, a, size).dst = a /\ Asking(st, s, a, size).name = GetHostByIP(a)
<1>1. PICK n : n = GetHostByIP(a)
  OBVIOUS
<1>2. Asking(st, s, a, size) = [Idle EXCEPT !.st = st, !.s = s, !.dst = a, !.name = n, !.size = size]
  BY <1>1 DEF Asking
<1>3. n \in Names
  BY <1>1
<1>4. PICK c : c = [Idle EXCEPT !.st = st, !.s = s, !.dst = a, !.name = n, !.size = size]
  OBVIOUS
<1>5. c \in Calls /\ c.st = st /\ c.s = s /\ c.dst = a /\ c.name = n
  BY <1>3, <1>4 DEF Idle, Calls, NoHost, Names
<1> QED BY <1>1, <1>2, <1>4, <1>5

-----------------------------------------------------------------------------
(* What the blocking verdicts and the original calls do. *)
LEMMA BlockedCalm ==
  ASSUME Typed, LogInv, NEW v, NEW a \in Addresses, Blocked(v, a)
  PROVE  /\ CalmLog /\ link' \in {"none", "good", "dead"} /\ up' \in BOOLEAN
         /\ UNCHANGED <<setup, nodes, top, known, hacked, limits, asked>>
<1>1. UNCHANGED <<setup, nodes, top, known, hacked, limits, up, asked>>
  BY DEF Blocked, names, lists
<1>2. link \in {"none", "good", "dead"} /\ up \in BOOLEAN /\ log \in Logs /\ LogOK(log)
  BY DEF Typed, LogInv
<1>3. LinkAfterUse \in {"none", "good", "dead"}
  BY <1>2 DEF LinkAfterUse
<1>4. link' \in {"none", "good", "dead"}
  BY <1>2, <1>3 DEF Blocked, LogBlockedIPv6, LogBlockedUDP
<1>5. log' = log \/ log' = Allow(a)
  BY DEF Blocked, LogBlockedIPv6, LogBlockedUDP
<1>6. CalmLog
  <2>1. Allow(a) \in Logs /\ LogOK(Allow(a))
    BY <1>2, AllowOK
  <2> QED BY <1>2, <1>5, <2>1 DEF CalmLog
<1> QED BY <1>1, <1>2, <1>4, <1>6

LEMMA PassedIs ==
  ASSUME Typed, NEW s \in Sockets, NEW d \in Addresses, NEW via \in {"direct", "prc"},
         NEW size \in Nat, NEW name \in Names, NEW p, p = Passed(s, d, via, size, name)
  PROVE  /\ p \in Leavings /\ p.type = sock[s].type /\ p.dst = d /\ p.via = via /\ p.size = size
         /\ p.name = name /\ p.again = sock[s].again
<1>1. sock[s].type \in Types /\ sock[s].again \in BOOLEAN
  BY DEF Typed, Socks
<1> QED BY <1>1 DEF Passed, Leavings

LEMMA TrampolineIs ==
  ASSUME Typed, NEW s \in Sockets, NEW d \in Addresses, NEW to \in Addresses,
         NEW via, NEW name, Trampoline(s, d, to, via, name)
  PROVE  /\ passed' = passed \cup {Passed(s, d, via, 0, name)}
         /\ \E w \in Socks :
              /\ sock' = [sock EXCEPT ![s] = w] /\ w.type = sock[s].type
              /\ w.peer \in {to, NoAddress} /\ w.want = d
              /\ w.again <=> sock[s].again \/ (via = "prc" /\ \E i \in DOMAIN hacked : i > 1 /\ hacked[i].s = s /\ hacked[i].dst = d)
<1>1. sock \in [Sockets -> Socks] /\ sock[s].again \in BOOLEAN
  BY DEF Typed, Socks
<1>2. PICK g \in BOOLEAN : g = (sock[s].again \/
           (via = "prc" /\ \E i \in DOMAIN hacked : i > 1 /\ hacked[i].s = s /\ hacked[i].dst = d))
  OBVIOUS
<1>3. \E ok : sock' = [sock EXCEPT ![s] =
               [type |-> sock[s].type, peer |-> IF ok THEN to ELSE NoAddress, want |-> d, again |-> g]]
  BY <1>2 DEF Trampoline
<1>4. PICK p \in {to, NoAddress} :
        sock' = [sock EXCEPT ![s] = [type |-> sock[s].type, peer |-> p, want |-> d, again |-> g]]
  BY <1>3
<1>5. p \in Addresses /\ sock[s].type \in Types
  BY <1>4, NoAddressIs DEF Typed, Socks
<1>6. PICK w : w = [type |-> sock[s].type, peer |-> p, want |-> d, again |-> g]
  OBVIOUS
<1>7. sock' = [sock EXCEPT ![s] = w] /\ w \in Socks
  BY <1>2, <1>4, <1>5, <1>6 DEF Socks
<1>8. w.type = sock[s].type /\ w.peer \in {to, NoAddress} /\ w.want = d /\ w.again = g
  BY <1>4, <1>6
<1> QED BY <1>2, <1>7, <1>8 DEF Trampoline

LEMMA DirectCalm ==
  ASSUME Typed, NEW s \in Sockets, NEW a \in Addresses, Reachable(s, a),
         Trampoline(s, a, a, "direct", NoHost)
  PROVE  CalmSocks /\ CalmPassed
<1>1. /\ passed' = passed \cup {Passed(s, a, "direct", 0, NoHost)}
      /\ \E w \in Socks : /\ sock' = [sock EXCEPT ![s] = w] /\ w.type = sock[s].type
                          /\ w.peer \in {a, NoAddress}
                          /\ w.again <=> sock[s].again
  BY TrampolineIs
<1>2. PICK w \in Socks : /\ sock' = [sock EXCEPT ![s] = w] /\ w.type = sock[s].type
                         /\ w.peer \in {a, NoAddress} /\ (w.again <=> sock[s].again)
  BY <1>1
<1>3. w.again \in BOOLEAN /\ sock[s].again \in BOOLEAN
  BY DEF Typed, Socks
<1>4. w.again = sock[s].again
  BY <1>2, <1>3
<1>5. CalmSocks
  BY <1>2, <1>4 DEF CalmSocks, Moved
<1>6. PICK p : p = Passed(s, a, "direct", 0, NoHost)
  OBVIOUS
<1>7. p \in Leavings /\ p.type = sock[s].type /\ p.dst = a /\ p.via = "direct"
  BY <1>6, PassedIs DEF Names
<1>8. LeaksNot(p) /\ Roomy(p)
  BY <1>7 DEF LeaksNot, Roomy, Reachable
<1>9. CalmPassed
  BY <1>1, <1>6, <1>7, <1>8 DEF CalmPassed
<1> QED BY <1>5, <1>9

(* A call that begins to ask, and a call that ends. *)
LEMMA CallSet ==
  ASSUME Typed, NEW t \in Threads, NEW c \in Calls, call' = [call EXCEPT ![t] = c],
         c = Idle \/ (Asks(c) /\ c.st \in {"connect", "send"})
  PROVE  CalmCalls
<1>1. call \in [Threads -> Calls]
  BY DEF Typed
<1>2. call' \in [Threads -> Calls] /\ call'[t] = c /\ \A u \in Threads : u # t => call'[u] = call[u]
  BY <1>1
<1> QED BY <1>2 DEF CalmCalls

LEMMA CallKept ==
  ASSUME Typed, call' = call
  PROVE  CalmCalls
BY DEF Typed, CalmCalls

-----------------------------------------------------------------------------
(* Connecting. *)
LEMMA ConnectCalm ==
  ASSUME HooksInv, NEW t \in Threads, NEW s \in Sockets, NEW d \in Targets(s), Connect(t, s, d)
  PROVE  CalmStep
<1>1. Typed /\ NamesInv /\ HackedInv /\ SocketsInv /\ LogInv
  BY DEF HooksInv
<1>2. PICK a : a = NormalizeSocketAddress(d)
  OBVIOUS
<1>3. Nameable(s, a) /\ a \in Addresses
  BY <1>1, <1>2, TargetIs DEF Nameable
<1>4. PICK v : v = ConnectVerdict(s, a)
  OBVIOUS
<1>5. Blocked(v, a)
  BY <1>2, <1>4 DEF Connect
<1>6. /\ CalmLog /\ link' \in {"none", "good", "dead"} /\ up' \in BOOLEAN
      /\ UNCHANGED <<setup, nodes, top, known, hacked, limits, asked>>
  BY <1>1, <1>3, <1>5, BlockedCalm
<1>7. CalmCalls
  <2>1. CASE v = "ask"
    <3>1. PICK c : c = Asking("connect", s, a, 0)
      OBVIOUS
    <3>2. call' = [call EXCEPT ![t] = c]
      BY <1>2, <1>4, <2>1, <3>1 DEF Connect
    <3>3. a.at # "route" /\ Unblocked(sock[s].type, a)
      BY <1>4, <2>1 DEF ConnectVerdict, Unblocked, IsUdpAllowedLoopback, IsLoopback, IsDummy
    <3>4. Meant(a, GetHostByIP(a)) /\ GetHostByIP(a) \in Names
      BY <1>1, <1>3, <3>3, MeantNow
    <3>5. c \in Calls /\ c.st = "connect" /\ c.s = s /\ c.dst = a /\ c.name = GetHostByIP(a)
      BY <1>1, <1>3, <3>1, <3>4, AskingCall
    <3>6. Asks(c)
      BY <3>3, <3>4, <3>5 DEF Asks
    <3> QED BY <1>1, <3>2, <3>5, <3>6, CallSet
  <2>2. CASE v # "ask"
    <3>1. call' = call
      BY <1>2, <1>4, <2>2 DEF Connect
    <3> QED BY <1>1, <3>1, CallKept
  <2> QED BY <2>1, <2>2
<1>8. CalmSocks /\ CalmPassed
  <2>1. CASE v = "direct"
    <3>1. Trampoline(s, a, a, "direct", NoHost)
      BY <1>2, <1>4, <2>1 DEF Connect
    <3>2. Unblocked(sock[s].type, a)
      BY <1>4, <2>1 DEF ConnectVerdict, Unblocked
    <3>3. Direct(sock[s].type, a)
      BY <1>4, <2>1 DEF ConnectVerdict, Direct, IsUdpAllowedLoopback, IsLoopback, IsDummy
    <3>4. Reachable(s, a)
      BY <1>3, <3>2, <3>3 DEF Reachable, Nameable
    <3> QED BY <1>1, <1>3, <3>1, <3>4, DirectCalm
  <2>2. CASE v # "direct"
    <3>1. sock' = sock /\ passed' = passed
      BY <1>2, <1>4, <2>2 DEF Connect
    <3> QED BY <3>1 DEF CalmSocks, CalmPassed
  <2> QED BY <2>1, <2>2
<1> QED BY <1>6, <1>7, <1>8 DEF CalmStep

(* The service, the clock. *)
LEMMA ServiceCalm ==
  ASSUME HooksInv, Service
  PROVE  CalmStep
<1>1. Typed /\ LogInv
  BY DEF HooksInv
<1>2. UNCHANGED <<setup, nodes, top, known, call, sock, hacked, limits, asked, passed, log>>
  BY DEF Service, names, lists
<1>3. CalmLog
  BY <1>1, <1>2 DEF CalmLog, LogInv, Typed
<1>4. link' \in {"none", "good", "dead"} /\ up' \in BOOLEAN
  BY <1>1 DEF Service, Typed
<1> QED BY <1>1, <1>2, <1>3, <1>4, CallKept DEF CalmStep, CalmSocks, CalmPassed

LEMMA TickCalm ==
  ASSUME HooksInv, Tick
  PROVE  CalmStep
<1>1. Typed /\ LogInv
  BY DEF HooksInv
<1>2. UNCHANGED <<setup, nodes, top, known, call, sock, hacked, limits, link, up, asked, passed>>
  BY DEF Tick, names, lists
<1>3. log \in Logs /\ LogOK(log)
  BY <1>1 DEF Typed, LogInv
<1>4. PICK N : N = [log EXCEPT !.now = @ + 1]
  OBVIOUS
<1>5. N \in Logs /\ LogOK(N)
  BY <1>3, <1>4, TickOK
<1>6. CalmLog
  BY <1>4, <1>5 DEF Tick, CalmLog
<1>7. link' \in {"none", "good", "dead"} /\ up' \in BOOLEAN
  BY <1>1, <1>2 DEF Typed
<1> QED BY <1>1, <1>2, <1>6, <1>7, CallKept DEF CalmStep, CalmSocks, CalmPassed

(* A payload within the limit of its request leaves room for the header. *)
LEMMA RoomFor ==
  ASSUME NEW n \in Names, NEW d, NEW size \in Nat, setup.socks, size <= MaxPayload(n, d.fam = "v6")
  PROVE  size + (IF d.fam = "v6" THEN 22 ELSE Socks5HeaderSize(n)) <= NoLimit
<1>1. Socks5HeaderSize(n) \in Nat
  BY HooksAssumption DEF Socks5HeaderSize, Names
<1>2. PICK h \in Nat : h = IF d.fam = "v6" THEN 22 ELSE Socks5HeaderSize(n)
  BY <1>1
<1>3. MaxPayload(n, d.fam = "v6") = NoLimit - h
  BY <1>2 DEF MaxPayload
<1> QED BY <1>2, <1>3 DEF NoLimit

LEMMA LimitIs ==
  ASSUME NEW m \in LimitRecs
  PROVE  m.max \in Int
<1>1. PICK X : X = 0..NoLimit
  OBVIOUS
<1>2. LimitRecs = [s : Sockets, dst : Addresses, name : Names, max : X, connected : BOOLEAN]
  BY <1>1 DEF LimitRecs
<1>3. m.max \in X
  BY <1>2
<1>4. NoLimit \in Nat
  BY DEF NoLimit
<1> QED BY <1>1, <1>3, <1>4

LEMMA LimitTypes ==
  ASSUME Typed, NEW j \in DOMAIN limits
  PROVE  /\ limits[j] \in LimitRecs /\ limits[j].s \in Sockets /\ limits[j].dst \in Addresses
         /\ limits[j].name \in Names /\ limits[j].connected \in BOOLEAN
<1>1. limits[j] \in LimitRecs
  BY ElementOfSeq DEF Typed
<1> QED BY <1>1 DEF LimitRecs

LEMMA LimitOf ==
  ASSUME Typed, LimitsInv, NEW I \in SUBSET DOMAIN limits, NEW j \in I
  PROVE  /\ First(I) \in I /\ First(I) <= j
         /\ LimitAt(I) = MaxPayload(limits[First(I)].name, limits[First(I)].dst.fam = "v6")
<1>1. limits \in Seq(LimitRecs)
  BY DEF Typed
<1>2. First(I) \in I /\ First(I) <= j
  BY <1>1, FirstOf
<1> QED BY <1>2 DEF LimitsInv, LimitAt

LEMMA HackedRoom ==
  ASSUME Typed, HackedInv, LimitsInv, NEW s \in Sockets, NEW a \in Addresses, NEW n \in Names,
         IsUDPReqHacked(s, a, n), NEW size \in Nat, size <= GetUDPMaxPayload(s, a, n), setup.socks,
         n # NoHost => \A r \in asked : r.name = n => r.dst = a
  PROVE  size + (IF a.fam = "v6" THEN 22 ELSE Socks5HeaderSize(n)) <= NoLimit
<1>1. PICK i \in DOMAIN hacked : /\ hacked[i].s = s /\ hacked[i].type = "dgram" /\ hacked[i].name = n
                                 /\ n = NoHost => hacked[i].dst = a
  BY DEF IsUDPReqHacked, Routes
<1>2. hacked[i].dst = a
  <2>1. CASE n = NoHost
    BY <1>1, <2>1
  <2>2. CASE n # NoHost
    <3>1. PICK r \in asked : r = [dst |-> hacked[i].dst, name |-> hacked[i].name]
      BY DEF HackedInv, Redirected
    <3> QED BY <1>1, <2>2, <3>1
  <2> QED BY <2>1, <2>2
<1>3. PICK j \in DOMAIN limits : SameKey(hacked[i], limits[j])
  BY <1>1 DEF LimitsInv
<1>4. PICK I : I = Limited(s, a, n)
  OBVIOUS
<1>5. I \in SUBSET DOMAIN limits /\ j \in I
  BY <1>1, <1>2, <1>3, <1>4 DEF Limited, SameKey
<1>6. First(I) \in I /\ LimitAt(I) = MaxPayload(limits[First(I)].name, limits[First(I)].dst.fam = "v6")
  BY <1>5, LimitOf
<1>7. limits[First(I)].name = n /\ limits[First(I)].dst = a
  BY <1>4, <1>6 DEF Limited
<1>8. size <= MaxPayload(n, a.fam = "v6")
  BY <1>4, <1>6, <1>7 DEF GetUDPMaxPayload
<1> QED BY <1>8, RoomFor

(* On a connected socket: the request behind its peer is the one whose     *)
(* limit is looked up.                                                     *)
LEMMA BehindIs ==
  ASSUME Typed, NEW s \in Sockets, Behind(s) # Nothing
  PROVE  \E f \in DOMAIN hacked : Hooked(s, f) /\ Behind(s) = hacked[f]
<1>1. PICK I : I = {i \in DOMAIN hacked : hacked[i].s = s /\ hacked[i].udp = sock[s].peer}
  OBVIOUS
<1>2. I \in SUBSET DOMAIN hacked /\ Behind(s) = Found(I)
  BY <1>1 DEF Behind
<1>3. I # {}
  BY <1>2, FoundIn
<1>4. First(I) \in I /\ Behind(s) = hacked[First(I)]
  BY <1>2, <1>3, FoundIn
<1>5. PICK f \in I : Behind(s) = hacked[f]
  BY <1>4
<1> QED BY <1>1, <1>5 DEF Hooked

LEMMA WireRoom ==
  ASSUME Typed, HackedInv, LimitsInv, SocketsInv, NEW s \in Sockets, sock[s].type = "dgram",
         sock[s].peer # NoAddress, ~sock[s].again, NEW f \in DOMAIN hacked, Hooked(s, f),
         NEW size \in Nat, size <= GetConnectedUDPMaxPayload(s), setup.socks
  PROVE  size + (IF hacked[f].dst.fam = "v6" THEN 22 ELSE Socks5HeaderSize(hacked[f].name)) <= NoLimit
<1>1. hacked[f].type = "dgram" /\ sock[s].peer.at = "route"
  BY DEF Hooked, HackedInv, Redirected
<1>2. PeerOK(s)
  BY SocketParts
<1>3. PICK i \in DOMAIN hacked, j \in DOMAIN limits : Leads(s, i, j)
  BY <1>1, <1>2 DEF PeerOK
<1>4. Hooked(s, i) /\ SameKey(hacked[i], limits[j]) /\ limits[j].connected
      /\ \A k \in DOMAIN limits : limits[k].s = s /\ limits[k].connected => j <= k
  BY <1>3 DEF Leads
<1>5. f = i
  BY <1>1, <1>4 DEF Hooked, HackedInv, Distinct
<1>6. PICK I : I = {k \in DOMAIN limits : limits[k].s = s /\ limits[k].connected}
  OBVIOUS
<1>7. I \in SUBSET DOMAIN limits /\ j \in I
  BY <1>4, <1>6 DEF SameKey, Hooked
<1>8. First(I) \in I /\ First(I) <= j /\ LimitAt(I) = MaxPayload(limits[First(I)].name, limits[First(I)].dst.fam = "v6")
  BY <1>7, LimitOf
<1>9. j <= First(I) /\ First(I) \in DOMAIN limits
  BY <1>4, <1>6, <1>8
<1>10. DOMAIN limits \in SUBSET (Nat \ {0})
  BY FirstOf DEF Typed
<1>11. First(I) = j
  BY <1>8, <1>9, <1>10
<1>12. limits[j].name = hacked[f].name /\ limits[j].dst = hacked[f].dst
  BY <1>4, <1>5 DEF SameKey
<1>13. size <= MaxPayload(hacked[f].name, hacked[f].dst.fam = "v6")
  BY <1>6, <1>8, <1>11, <1>12 DEF GetConnectedUDPMaxPayload
<1>14. hacked[f].name \in Names
  BY EntryTypes
<1> QED BY <1>13, <1>14, RoomFor

(* Something sent. *)
LEMMA SentCalm ==
  ASSUME Typed, NEW s \in Sockets, NEW a \in Addresses, NEW via \in {"direct", "prc"}, NEW size \in Nat,
         NEW n \in Names, Sent(s, a, via, size, n), sock[s].type = "dgram",
         Unblocked("dgram", a), via = "direct" => Direct("dgram", a),
         via = "prc" /\ setup.socks /\ ~sock[s].again
           /\ (n # NoHost => \A r \in asked : r.name = n => r.dst = a) =>
           size + (IF a.fam = "v6" THEN 22 ELSE Socks5HeaderSize(n)) <= NoLimit
  PROVE  CalmPassed
<1>1. PICK p : p = Passed(s, a, via, size, n)
  OBVIOUS
<1>2. /\ p \in Leavings /\ p.type = sock[s].type /\ p.dst = a /\ p.via = via /\ p.size = size
      /\ p.name = n /\ p.again = sock[s].again
  BY <1>1, PassedIs
<1>3. LeaksNot(p)
  BY <1>2 DEF LeaksNot
<1>4. Roomy(p)
  BY <1>2 DEF Roomy
<1>5. passed' = passed \cup {p}
  BY <1>1 DEF Sent
<1> QED BY <1>2, <1>3, <1>4, <1>5 DEF CalmPassed

LEMMA SendHackedCalm ==
  ASSUME Typed, HackedInv, LimitsInv, NEW s \in Sockets, NEW a \in Addresses, NEW n \in Names, NEW size \in Nat,
         IsUDPReqHacked(s, a, n), SendHacked(s, a, n, size), sock[s].type = "dgram", Unblocked("dgram", a)
  PROVE  CalmPassed
<1>1. CASE size <= GetUDPMaxPayload(s, a, n)
  <2>1. Sent(s, a, "prc", size, n)
    BY <1>1 DEF SendHacked
  <2>2. setup.socks /\ (n # NoHost => \A r \in asked : r.name = n => r.dst = a) =>
           size + (IF a.fam = "v6" THEN 22 ELSE Socks5HeaderSize(n)) <= NoLimit
    BY <1>1, HackedRoom
  <2> QED BY <2>1, <2>2, SentCalm
<1>2. CASE ~(size <= GetUDPMaxPayload(s, a, n))
  BY <1>2 DEF SendHacked, CalmPassed
<1> QED BY <1>1, <1>2

LEMMA SendToCalm ==
  ASSUME HooksInv, NEW t \in Threads, NEW s \in Sockets, NEW size \in setup.sizes,
         NEW d \in Targets(s) \cup {NoAddress}, SendTo(t, s, d, size)
  PROVE  CalmStep
<1>1. Typed /\ NamesInv /\ HackedInv /\ LimitsInv /\ SocketsInv /\ LogInv
  BY DEF HooksInv
<1>2. size \in Nat
  BY <1>1, IsSetupNow
<1>3. sock[s].type = "dgram" /\ (d = NoAddress => sock[s].peer # NoAddress)
  BY DEF SendTo
<1>4. PICK v : v = SendVerdict(s, d, size)
  OBVIOUS
<1>5. PICK a : a = NormalizeSocketAddress(d)
  OBVIOUS
<1>6. PICK g : g = GetSocketDestination(s, d)
  OBVIOUS
<1>7. d # NoAddress => g = a /\ Nameable(s, a) /\ a \in Addresses
  <2>1. d # NoAddress => Nameable(s, a)
    BY <1>1, <1>5, TargetIs
  <2> QED BY <1>5, <1>6, <2>1 DEF GetSocketDestination, Nameable
<1>8. d = NoAddress => g = sock[s].peer /\ g \in Addresses
  <2>1. sock[s].peer \in Addresses
    BY <1>1 DEF Typed, Socks
  <2> QED BY <1>6, <2>1, NormalTypes DEF GetSocketDestination
<1>9. g \in Addresses
  BY <1>7, <1>8
<1>10. v \notin {"blocked6", "blockedUdp"} => Unblocked("dgram", g)
  BY <1>4, <1>6 DEF SendVerdict, Unblocked, IsBlockedIPv6Destination, IsUdpLoopbackDestination
<1>11. /\ CalmLog /\ link' \in {"none", "good", "dead"} /\ up' \in BOOLEAN
       /\ UNCHANGED <<setup, nodes, top, known, hacked, limits, asked>>
  <2>1. CASE v \in {"wire", "route", "hacked"}
    <3>1. UNCHANGED <<setup, nodes, top, known, hacked, limits, link, up, asked, log>>
      BY <1>4, <2>1 DEF SendTo, names, lists
    <3> QED BY <1>1, <3>1 DEF Typed, CalmLog, LogInv
  <2>2. CASE v \notin {"wire", "route", "hacked"}
    <3>1. Blocked(v, g)
      BY <1>4, <1>6, <2>2 DEF SendTo
    <3> QED BY <1>1, <1>9, <3>1, BlockedCalm
  <2> QED BY <2>1, <2>2
<1>12. CalmSocks
  BY DEF SendTo, CalmSocks
<1>13. CalmCalls
  <2>1. CASE v = "ask"
    <3>1. PICK c : c = Asking("send", s, a, size)
      OBVIOUS
    <3>2. call' = [call EXCEPT ![t] = c]
      BY <1>4, <1>5, <2>1, <3>1 DEF SendTo
    <3>3. d # NoAddress /\ ~IsUDPRouteAddress(s, a)
      BY <1>4, <1>5, <2>1 DEF SendVerdict
    <3>4. a.at # "route"
      <4>1. SUFFICES ASSUME a.at = "route" PROVE FALSE
        OBVIOUS
      <4>2. a = sock[s].peer /\ a # NoAddress
        BY <1>7, <3>3, <4>1, NoAddressIs DEF Nameable
      <4>3. PeerOK(s)
        BY <1>1, SocketParts
      <4>4. \E i \in DOMAIN hacked : Hooked(s, i)
        BY <1>3, <4>1, <4>2, <4>3 DEF PeerOK
      <4> QED BY <3>3, <4>2, <4>4 DEF Hooked, IsUDPRouteAddress
    <3>5. Meant(a, GetHostByIP(a)) /\ GetHostByIP(a) \in Names
      BY <1>1, <1>7, <3>3, <3>4, MeantNow
    <3>6. c \in Calls /\ c.st = "send" /\ c.s = s /\ c.dst = a /\ c.name = GetHostByIP(a)
      BY <1>1, <1>2, <1>7, <3>1, <3>3, <3>5, AskingCall
    <3>7. Asks(c)
      BY <1>3, <1>7, <1>10, <2>1, <3>3, <3>5, <3>6 DEF Asks
    <3> QED BY <1>1, <3>2, <3>6, <3>7, CallSet
  <2>2. CASE v # "ask"
    <3>1. call' = call
      BY <1>4, <2>2 DEF SendTo
    <3> QED BY <1>1, <3>1, CallKept
  <2> QED BY <2>1, <2>2
<1>14. CalmPassed
  <2>1. CASE v \in {"blocked6", "blockedUdp", "refused", "ask"}
    BY <1>4, <2>1 DEF SendTo, CalmPassed
  <2>2. CASE v = "direct"
    <3>1. Sent(s, g, "direct", size, NoHost)
      BY <1>4, <1>6, <2>2 DEF SendTo
    <3>2. ~setup.udp
      BY <1>4, <2>2 DEF SendVerdict
    <3>3. Direct("dgram", g)
      BY <3>2 DEF Direct
    <3> QED BY <1>1, <1>2, <1>3, <1>9, <1>10, <2>2, <3>1, <3>3, SentCalm DEF Names
  <2>3. CASE v = "route"
    <3>1. Sent(s, g, "direct", size, NoHost)
      BY <1>4, <1>6, <2>3 DEF SendTo
    <3>2. d # NoAddress /\ IsUDPRouteAddress(s, a)
      BY <1>4, <1>5, <2>3 DEF SendVerdict
    <3>3. PICK i \in DOMAIN hacked : hacked[i].s = s /\ hacked[i].udp = a
      BY <3>2 DEF IsUDPRouteAddress
    <3>4. a.at = "route"
      BY <1>1, <1>3, <3>3 DEF HackedInv, Redirected
    <3>5. Direct("dgram", g)
      BY <1>7, <3>2, <3>4 DEF Direct
    <3> QED BY <1>1, <1>2, <1>3, <1>9, <1>10, <2>3, <3>1, <3>5, SentCalm DEF Names
  <2>4. CASE v = "wire"
    <3>1. d = NoAddress /\ ~(size > GetConnectedUDPMaxPayload(s))
      BY <1>4, <2>4 DEF SendVerdict
    <3>2. CASE Behind(s) = Nothing
      <4>1. Sent(s, sock[s].peer, "direct", size, NoHost)
        BY <1>4, <2>4, <3>2 DEF SendTo
      <4>2. PeerOK(s)
        BY <1>1, SocketParts
      <4>3. Direct("dgram", sock[s].peer) /\ Unblocked("dgram", sock[s].peer)
        BY <1>3, <3>1, <4>2 DEF PeerOK
      <4> QED BY <1>1, <1>2, <1>3, <1>8, <3>1, <4>1, <4>3, SentCalm DEF Names
    <3>3. CASE Behind(s) # Nothing
      <4>1. PICK f \in DOMAIN hacked : Hooked(s, f) /\ Behind(s) = hacked[f]
        BY <1>1, <3>3, BehindIs
      <4>2. PICK b, n : b = hacked[f].dst /\ n = hacked[f].name
        OBVIOUS
      <4>3. Sent(s, b, "prc", size, n)
        BY <1>4, <2>4, <3>3, <4>1, <4>2 DEF SendTo
      <4>4. b \in Addresses /\ n \in Names
        BY <1>1, <4>2, EntryTypes
      <4>5. Unblocked("dgram", b)
        BY <1>1, <1>3, <4>1, <4>2 DEF HackedInv, Redirected, Hooked
      <4>6. size <= GetConnectedUDPMaxPayload(s)
        <5>1. GetConnectedUDPMaxPayload(s) \in Int
          <6>1. PICK I : I = {k \in DOMAIN limits : limits[k].s = s /\ limits[k].connected}
            OBVIOUS
          <6>2. limits \in Seq(LimitRecs) /\ I \in SUBSET DOMAIN limits
            BY <1>1, <6>1 DEF Typed
          <6>3. I # {} => First(I) \in DOMAIN limits
            BY <6>2, FirstOf
          <6>4. I # {} => limits[First(I)] \in LimitRecs
            BY <6>2, <6>3, ElementOfSeq
          <6>5. I # {} => limits[First(I)].max \in Int
            BY <6>4, LimitIs
          <6> QED BY <6>1, <6>5 DEF GetConnectedUDPMaxPayload, LimitAt, NoLimit
        <5> QED BY <1>2, <3>1, <5>1
      <4>7. setup.socks /\ ~sock[s].again =>
              size + (IF b.fam = "v6" THEN 22 ELSE Socks5HeaderSize(n)) <= NoLimit
        BY <1>1, <1>2, <1>3, <3>1, <4>1, <4>2, <4>6, WireRoom
      <4> QED BY <1>1, <1>2, <1>3, <4>3, <4>4, <4>5, <4>7, SentCalm
    <3> QED BY <3>2, <3>3
  <2>5. CASE v = "hacked"
    <3>1. PICK n : n = GetHostByIP(a)
      OBVIOUS
    <3>2. d # NoAddress /\ ~IsUDPRouteAddress(s, a) /\ IsUDPReqHacked(s, a, n)
      BY <1>4, <1>5, <2>5, <3>1 DEF SendVerdict
    <3>3. SendHacked(s, a, n, size)
      BY <1>4, <1>5, <2>5, <3>1 DEF SendTo
    <3>4. n \in Names
      <4>1. CASE a.at # "route"
        BY <1>1, <1>7, <3>1, <3>2, <4>1, MeantNow
      <4>2. CASE a.at = "route"
        BY <3>1, <4>2 DEF GetHostByIP, IsDummy, Names
      <4> QED BY <4>1, <4>2
    <3> QED BY <1>1, <1>2, <1>3, <1>7, <1>10, <2>5, <3>2, <3>3, <3>4, SendHackedCalm
  <2>6. v \in {"blocked6", "blockedUdp", "refused", "ask", "direct", "route", "wire", "hacked"}
    BY <1>4 DEF SendVerdict
  <2> QED BY <2>1, <2>2, <2>3, <2>4, <2>5, <2>6
<1> QED BY <1>11, <1>12, <1>13, <1>14 DEF CalmStep

-----------------------------------------------------------------------------
(* The service always has a port for another route. *)
LEMMA PortFree ==
  ASSUME Typed
  PROVE  /\ First(FreePorts) \in Nat \ {0}
         /\ \A i \in DOMAIN hacked : hacked[i].udp.n # First(FreePorts)
<1>1. PICK N : N = Len(hacked)
  OBVIOUS
<1>2. N \in Nat /\ DOMAIN hacked = 1..N
  BY <1>1, LenProperties DEF Typed
<1>3. FreePorts \in SUBSET (Nat \ {0})
  BY <1>1, <1>2 DEF FreePorts
<1>4. FreePorts # {}
  <2>1. SUFFICES ASSUME FreePorts = {} PROVE FALSE
    OBVIOUS
  <2>2. \A n \in 1..(N + 1) : \E i \in 1..N : hacked[i].udp.n = n
    BY <1>1, <1>2, <2>1 DEF FreePorts
  <2>3. PICK g : g = [n \in 1..(N + 1) |-> CHOOSE i \in 1..N : hacked[i].udp.n = n]
    OBVIOUS
  <2>4. \A n \in 1..(N + 1) : g[n] \in 1..N /\ hacked[g[n]].udp.n = n
    BY <2>2, <2>3
  <2>5. g \in [1..(N + 1) -> 1..N]
    BY <2>3, <2>4
  <2>6. IsFiniteSet(1..N) /\ Cardinality(1..N) = N
    <3>1. Cardinality(1..N) = IF 1 > N THEN 0 ELSE N - 1 + 1
      BY <1>2, FS_Interval
    <3> QED BY <1>2, <3>1, FS_Interval
  <2>7. IsFiniteSet(1..(N + 1)) /\ Cardinality(1..(N + 1)) = N + 1
    <3>1. Cardinality(1..(N + 1)) = IF 1 > N + 1 THEN 0 ELSE (N + 1) - 1 + 1
      BY <1>2, FS_Interval
    <3> QED BY <1>2, <3>1, FS_Interval
  <2>8. Cardinality(1..N) < Cardinality(1..(N + 1))
    BY <1>2, <2>6, <2>7
  <2>9. \E x, y \in 1..(N + 1) : x # y /\ g[x] = g[y]
    BY <2>5, <2>6, <2>7, <2>8, FS_PigeonHole
  <2> QED BY <2>4, <2>9
<1>5. First(FreePorts) \in FreePorts
  BY <1>3, <1>4, FirstIsLeast
<1> QED BY <1>3, <1>5 DEF FreePorts

(* The entry of a request: its route is the one the request had, or has a  *)
(* port of its own.                                                        *)
Request(c, e) == e.s = c.s /\ e.type = sock[c.s].type /\ e.dst = c.dst /\ e.name = c.name
RouteOf(e) ==
  /\ e.type = "stream" => e.udp = NoAddress
  /\ e.type = "dgram" => e.udp.at = "route" /\ e.udp.fam = e.dst.fam /\ e.udp.n # 0
  /\ Requested(e) = {} => \A i \in DOMAIN hacked : e.type = "dgram" => hacked[i].udp.n # e.udp.n
  /\ \A i \in Requested(e) : e.udp = hacked[i].udp

LEMMA EntryIs ==
  ASSUME Typed, HackedInv, NEW c \in Calls, c.s \in Sockets, NEW e, e = Entry(c)
  PROVE  e \in Entries /\ Request(c, e) /\ RouteOf(e)
<1>1. PICK b : b = [s |-> c.s, type |-> sock[c.s].type, dst |-> c.dst, name |-> c.name, udp |-> NoAddress]
  OBVIOUS
<1>2. /\ b \in Entries /\ Request(c, b) /\ b.s \in Sockets /\ b.type \in Types
      /\ b.dst \in Addresses /\ b.name \in Names
  <2>1. sock[c.s].type \in Types
    BY DEF Typed, Socks
  <2>2. c.dst \in Addresses /\ c.name \in Names
    BY DEF Calls
  <2>3. b.s = c.s /\ b.type = sock[c.s].type /\ b.dst = c.dst /\ b.name = c.name
    BY <1>1
  <2>4. b \in Entries
    BY <1>1, <2>1, <2>2, NoAddressIs DEF Entries
  <2> QED BY <2>1, <2>2, <2>3, <2>4 DEF Request
<1>3. PICK u : u = NewRoute(b)
  OBVIOUS
<1>4. e = [b EXCEPT !.udp = u]
  BY <1>1, <1>3 DEF Entry
<1>5. e.s = b.s /\ e.type = b.type /\ e.dst = b.dst /\ e.name = b.name /\ e.udp = u
  BY <1>2, <1>4 DEF Entries
<1>6. Requested(e) = Requested(b)
  BY <1>5 DEF Requested, SameRequest
<1>7. PICK I : I = Requested(e)
  OBVIOUS
<1>8. I \in SUBSET DOMAIN hacked /\ \A i \in I : SameRequest(e, hacked[i])
  BY <1>7 DEF Requested
<1>9. CASE e.type = "stream"
  <2>1. u = NoAddress
    BY <1>3, <1>5, <1>9 DEF NewRoute
  <2>2. \A i \in I : hacked[i].udp = NoAddress
    BY <1>8, <1>9 DEF SameRequest, HackedInv, Redirected
  <2>3. e \in Entries
    BY <1>2, <1>4, <2>1, NoAddressIs DEF Entries
  <2>4. RouteOf(e)
    BY <1>5, <1>7, <1>9, <2>1, <2>2 DEF RouteOf
  <2> QED BY <1>2, <1>5, <2>3, <2>4 DEF Request
<1>10. CASE e.type # "stream" /\ I # {}
  <2>1. u = Found(I).udp
    BY <1>3, <1>5, <1>6, <1>7, <1>10 DEF NewRoute
  <2>2. PICK f \in I : u = hacked[f].udp
    BY <1>8, <1>10, <2>1, FoundIn
  <2>3. \A i \in I : i = f
    BY <1>8 DEF SameRequest, HackedInv, Distinct
  <2>4. u \in Addresses
    BY <1>8, <2>2, EntryTypes
  <2>5. e \in Entries
    BY <1>2, <1>4, <2>4 DEF Entries
  <2>6. e.type = "dgram" /\ hacked[f].type = "dgram" /\ hacked[f].dst = e.dst
    BY <1>2, <1>5, <1>8, <1>10 DEF Types, SameRequest
  <2>7. u.at = "route" /\ u.fam = e.dst.fam /\ u.n # 0
    BY <1>8, <2>2, <2>6 DEF HackedInv, Redirected
  <2>8. RouteOf(e)
    BY <1>5, <1>7, <1>10, <2>2, <2>3, <2>6, <2>7 DEF RouteOf
  <2> QED BY <1>2, <1>5, <2>5, <2>8 DEF Request
<1>11. CASE e.type # "stream" /\ I = {}
  <2>1. PICK n : n = First(FreePorts)
    OBVIOUS
  <2>2. n \in Nat /\ n # 0 /\ \A i \in DOMAIN hacked : hacked[i].udp.n # n
    BY <2>1, PortFree
  <2>3. u = Address(e.dst.fam, "route", n)
    BY <1>3, <1>5, <1>6, <1>7, <1>11, <2>1 DEF NewRoute
  <2>4. u.at = "route" /\ u.fam = e.dst.fam /\ u.n = n
    BY <2>3 DEF Address
  <2>5. u \in Addresses
    <3>1. e.dst.fam \in {"none", "v4", "v6"}
      BY <1>2, <1>5 DEF Addresses
    <3> QED BY <2>2, <2>3, <3>1 DEF Address, Addresses, Places
  <2>6. e \in Entries
    BY <1>2, <1>4, <2>5 DEF Entries
  <2>7. RouteOf(e)
    BY <1>5, <1>7, <1>11, <2>2, <2>4 DEF RouteOf
  <2> QED BY <1>2, <1>5, <2>6, <2>7 DEF Request
<1> QED BY <1>9, <1>10, <1>11

(* The limit that goes with a request. *)
LimitFor(e, m) ==
  /\ m.s = e.s /\ m.dst = e.dst /\ m.name = e.name
  /\ m.max = MaxPayload(m.name, m.dst.fam = "v6")

LEMMA LimitMade ==
  ASSUME Typed, NEW c \in Calls, c.s \in Sockets, NEW e, Request(c, e), NEW b \in BOOLEAN,
         NEW m, m = Limit(c, b)
  PROVE  m \in LimitRecs /\ LimitFor(e, m) /\ m.connected = b
<1>1. c.dst \in Addresses /\ c.name \in Names
  BY DEF Calls
<1>2. PICK x : x = MaxPayload(c.name, c.dst.fam = "v6")
  OBVIOUS
<1>3. m = [s |-> c.s, dst |-> c.dst, name |-> c.name, max |-> x, connected |-> b]
  BY <1>2 DEF Limit
<1>4. x \in 0..NoLimit
  <2>1. c.name # NoHost => HostLength[c.name] \in 1..255
    BY <1>1, HooksAssumption DEF Names
  <2>2. Socks5HeaderSize(c.name) \in 0..262
    BY <2>1 DEF Socks5HeaderSize
  <2>3. PICK h \in 0..262 : h = IF c.dst.fam = "v6" THEN 22 ELSE Socks5HeaderSize(c.name)
    BY <2>2
  <2>4. x = NoLimit \/ x = NoLimit - h
    BY <1>2, <2>3 DEF MaxPayload
  <2>5. PICK N \in Nat : N = NoLimit /\ N >= 262
    BY DEF NoLimit
  <2>6. h \in Nat /\ h <= 262
    BY <2>3
  <2>7. N - h \in 0..N /\ N \in 0..N
    BY <2>5, <2>6
  <2> QED BY <2>4, <2>5, <2>7
<1>5. m.s = c.s /\ m.dst = c.dst /\ m.name = c.name /\ m.max = x /\ m.connected = b
  BY <1>3
<1>6. PICK X : X = 0..NoLimit
  OBVIOUS
<1>7. LimitRecs = [s : Sockets, dst : Addresses, name : Names, max : X, connected : BOOLEAN]
  BY <1>6 DEF LimitRecs
<1>8. m \in LimitRecs
  BY <1>1, <1>3, <1>4, <1>6, <1>7
<1> QED BY <1>2, <1>5, <1>8 DEF LimitFor, Request

-----------------------------------------------------------------------------
(* How a registration changes the two lists. *)
Added(e)      == Requested(e) = {} /\ Fronted(hacked, hacked', e)
Renewed(e, k) == SameRequest(e, hacked[k]) /\ Replaced(hacked, hacked', e, k)
AddedLimit(m) == Limited(m.s, m.dst, m.name) = {} /\ Fronted(limits, limits', m)
RenewedLimit(m, j) ==
  /\ limits[j].s = m.s /\ limits[j].dst = m.dst /\ limits[j].name = m.name
  /\ Replaced(limits, limits', m, j)

LEMMA PushIs ==
  ASSUME Typed, NEW e \in Entries, hacked' = push(e)
  PROVE  /\ hacked' \in Seq(Entries)
         /\ Added(e) \/ \E k \in DOMAIN hacked : Renewed(e, k)
<1>1. hacked \in Seq(Entries)
  BY DEF Typed
<1>2. PICK I : I = Requested(e)
  OBVIOUS
<1>3. I \in SUBSET DOMAIN hacked /\ \A i \in I : SameRequest(e, hacked[i])
  BY <1>2 DEF Requested
<1>4. hacked' = Put(hacked, e, I)
  BY <1>2 DEF push
<1>5. CASE I = {}
  BY <1>1, <1>2, <1>4, <1>5, PutFronts DEF Added
<1>6. CASE I # {}
  <2>1. /\ hacked' \in Seq(Entries) /\ Replaced(hacked, hacked', e, First(I)) /\ First(I) \in I
    BY <1>1, <1>3, <1>4, <1>6, PutReplaces
  <2> QED BY <1>3, <2>1 DEF Renewed
<1> QED BY <1>5, <1>6

LEMMA SetLimitIs ==
  ASSUME Typed, NEW m \in LimitRecs, limits' = SetUDPMaxPayload(m)
  PROVE  /\ limits' \in Seq(LimitRecs)
         /\ AddedLimit(m) \/ \E j \in DOMAIN limits : RenewedLimit(m, j)
<1>1. limits \in Seq(LimitRecs)
  BY DEF Typed
<1>2. PICK I : I = Limited(m.s, m.dst, m.name)
  OBVIOUS
<1>3. I \in SUBSET DOMAIN limits
      /\ \A i \in I : limits[i].s = m.s /\ limits[i].dst = m.dst /\ limits[i].name = m.name
  BY <1>2 DEF Limited
<1>4. limits' = Put(limits, m, I)
  BY <1>2 DEF SetUDPMaxPayload
<1>5. CASE I = {}
  BY <1>1, <1>2, <1>4, <1>5, PutFronts DEF AddedLimit
<1>6. CASE I # {}
  <2>1. /\ limits' \in Seq(LimitRecs) /\ Replaced(limits, limits', m, First(I)) /\ First(I) \in I
    BY <1>1, <1>3, <1>4, <1>6, PutReplaces
  <2> QED BY <1>3, <2>1 DEF RenewedLimit
<1> QED BY <1>5, <1>6

(* A datagram request and its limit are both new, or both were there. *)
Registered(e, m) ==
  \/ e.type = "stream" /\ limits' = limits /\ (Added(e) \/ \E k \in DOMAIN hacked : Renewed(e, k))
  \/ e.type = "dgram" /\ Added(e) /\ AddedLimit(m)
  \/ e.type = "dgram" /\ \E k \in DOMAIN hacked, j \in DOMAIN limits : Renewed(e, k) /\ RenewedLimit(m, j)

LEMMA RegisteredIs ==
  ASSUME Typed, LimitsInv, NEW e \in Entries, NEW m \in LimitRecs, LimitFor(e, m), hacked' = push(e),
         limits' = IF e.type = "dgram" THEN SetUDPMaxPayload(m) ELSE limits
  PROVE  hacked' \in Seq(Entries) /\ limits' \in Seq(LimitRecs) /\ Registered(e, m)
<1>1. /\ hacked' \in Seq(Entries)
      /\ Added(e) \/ \E k \in DOMAIN hacked : Renewed(e, k)
  BY PushIs
<1>2. e.type \in {"stream", "dgram"}
  BY DEF Entries, Types
<1>3. CASE e.type = "stream"
  <2>1. limits' = limits
    BY <1>3
  <2> QED BY <1>1, <1>3, <2>1 DEF Registered, Typed
<1>4. CASE e.type = "dgram"
  <2>1. /\ limits' \in Seq(LimitRecs)
        /\ AddedLimit(m) \/ \E j \in DOMAIN limits : RenewedLimit(m, j)
    BY <1>4, SetLimitIs
  <2>2. ASSUME Added(e), NEW j \in DOMAIN limits, RenewedLimit(m, j) PROVE FALSE
    <3>1. PICK i \in DOMAIN hacked : SameKey(hacked[i], limits[j])
      BY DEF LimitsInv
    <3>2. SameRequest(e, hacked[i])
      BY <1>4, <2>2, <3>1 DEF SameKey, SameRequest, RenewedLimit, LimitFor
    <3> QED BY <2>2, <3>2 DEF Added, Requested
  <2>3. ASSUME NEW k \in DOMAIN hacked, Renewed(e, k), AddedLimit(m) PROVE FALSE
    <3>1. SameRequest(e, hacked[k])
      BY <2>3 DEF Renewed
    <3>2. PICK j \in DOMAIN limits : SameKey(hacked[k], limits[j])
      BY <1>4, <3>1 DEF LimitsInv, SameRequest
    <3>3. j \in Limited(m.s, m.dst, m.name)
      BY <3>1, <3>2 DEF SameKey, SameRequest, Limited, LimitFor
    <3> QED BY <2>3, <3>3 DEF AddedLimit
  <2> QED BY <1>1, <1>4, <2>1, <2>2, <2>3 DEF Registered
<1> QED BY <1>2, <1>3, <1>4

(* What a registration does not change. *)
Steady ==
  /\ UNCHANGED <<setup, nodes, known>> /\ asked \subseteq asked'
  /\ \A s \in Sockets : sock'[s].type = sock[s].type

EntryOK(x) ==
  /\ x.type = sock[x.s].type
  /\ Meant(x.dst, x.name) /\ Unblocked(x.type, x.dst)
  /\ [dst |-> x.dst, name |-> x.name] \in asked
  /\ x.type = "dgram" => x.udp.at = "route" /\ x.udp.fam = x.dst.fam /\ x.udp.n # 0
  /\ x.type = "stream" => x.udp = NoAddress

LEMMA EntriesOK == Redirected <=> \A i \in DOMAIN hacked : EntryOK(hacked[i])
BY DEF Redirected, EntryOK

LEMMA EntryStays ==
  ASSUME Steady, NEW x, x.s \in Sockets, EntryOK(x)
  PROVE  EntryOK(x)'
<1>1. Meant(x.dst, x.name)'
  BY DEF Steady, EntryOK, Meant, Fresh, IsDummy
<1>2. Unblocked(x.type, x.dst)'
  BY DEF Steady, EntryOK, Unblocked, ShouldBlock, IsUdpAllowedLoopback, IsLoopback, IsDummy
<1>3. sock'[x.s].type = sock[x.s].type /\ [dst |-> x.dst, name |-> x.name] \in asked'
  BY DEF Steady, EntryOK
<1> QED BY <1>1, <1>2, <1>3 DEF EntryOK

LEMMA RegisterHacked ==
  ASSUME Typed, HackedInv, Steady, NEW e \in Entries, RouteOf(e), EntryOK(e)',
         hacked' \in Seq(Entries), Added(e) \/ \E k \in DOMAIN hacked : Renewed(e, k)
  PROVE  HackedInv'
<1>1. ASSUME NEW i \in DOMAIN hacked, NEW x, x = hacked[i] PROVE EntryOK(x)'
  <2>1. EntryOK(x) /\ x.s \in Sockets
    BY <1>1, EntriesOK, EntryTypes DEF HackedInv
  <2> QED BY <2>1, EntryStays
<1>2. \A i \in DOMAIN hacked' : hacked'[i] = e \/ \E k \in DOMAIN hacked : hacked'[i] = hacked[k]
  BY DEF Added, Renewed, Fronted, Replaced
<1>3. \A i \in DOMAIN hacked' : \A x : x = hacked'[i] => EntryOK(x)'
  BY <1>1, <1>2
<1>4. Redirected'
  <2>1. SUFFICES ASSUME NEW i \in DOMAIN hacked', NEW x, x = hacked'[i] PROVE EntryOK(x)'
    BY DEF Redirected, EntryOK
  <2> QED BY <1>3, <2>1
<1>5. CASE Added(e)
  <2>1. Requested(e) = {} /\ Fronted(hacked, hacked', e)
    BY <1>5 DEF Added
  <2>2. \A i \in DOMAIN hacked : /\ ~SameRequest(e, hacked[i]) /\ ~SameRequest(hacked[i], e)
                                 /\ e.type = "dgram" => hacked[i].udp.n # e.udp.n
                                 /\ hacked[i].type = "dgram" => hacked[i].udp.n # e.udp.n
    <3>1. SUFFICES ASSUME NEW i \in DOMAIN hacked
                   PROVE  /\ ~SameRequest(e, hacked[i]) /\ ~SameRequest(hacked[i], e)
                          /\ e.type = "dgram" => hacked[i].udp.n # e.udp.n
                          /\ hacked[i].type = "dgram" => hacked[i].udp.n # e.udp.n
      OBVIOUS
    <3>2. ~SameRequest(e, hacked[i])
      BY <2>1 DEF Requested
    <3>3. e.type = "dgram" => hacked[i].udp.n # e.udp.n
      BY <2>1 DEF RouteOf
    <3>4. e.type # "dgram" => e.udp.n = 0
      BY NoAddressIs DEF RouteOf, Entries, Types
    <3>5. hacked[i].type = "dgram" => hacked[i].udp.n # 0
      BY DEF HackedInv, Redirected
    <3>6. ~SameRequest(hacked[i], e)
      BY <3>2 DEF SameRequest
    <3> QED BY <3>2, <3>3, <3>4, <3>5, <3>6
  <2>3. SUFFICES ASSUME NEW i \in DOMAIN hacked', NEW j \in DOMAIN hacked'
                 PROVE  /\ SameRequest(hacked'[i], hacked'[j]) => i = j
                        /\ hacked'[i].type = "dgram" /\ hacked'[i].udp.n = hacked'[j].udp.n => i = j
    BY <1>4 DEF HackedInv, Distinct, SameRequest
  <2>4. (i = 1 /\ hacked'[i] = e) \/ (i - 1 \in DOMAIN hacked /\ hacked'[i] = hacked[i - 1])
    BY <2>1 DEF Fronted
  <2>5. (j = 1 /\ hacked'[j] = e) \/ (j - 1 \in DOMAIN hacked /\ hacked'[j] = hacked[j - 1])
    BY <2>1 DEF Fronted
  <2>6. CASE i - 1 \in DOMAIN hacked /\ hacked'[i] = hacked[i - 1] /\ j - 1 \in DOMAIN hacked /\ hacked'[j] = hacked[j - 1]
    <3>1. PICK p, q \in DOMAIN hacked : p = i - 1 /\ q = j - 1
      BY <2>6
    <3>2. /\ SameRequest(hacked[p], hacked[q]) => p = q
          /\ hacked[p].type = "dgram" /\ hacked[p].udp.n = hacked[q].udp.n => p = q
      BY DEF HackedInv, Distinct
    <3>3. i \in Int /\ j \in Int
      <4>1. DOMAIN hacked' \in SUBSET Int
        BY FirstOf
      <4> QED BY <4>1
    <3>4. p = q => i = j
      BY <3>1, <3>3
    <3> QED BY <2>6, <3>1, <3>2, <3>4
  <2>7. CASE i = 1 /\ hacked'[i] = e /\ j - 1 \in DOMAIN hacked /\ hacked'[j] = hacked[j - 1]
    <3>1. PICK q \in DOMAIN hacked : q = j - 1
      BY <2>7
    <3>2. ~SameRequest(hacked'[i], hacked'[j]) /\ (hacked'[i].type = "dgram" => hacked'[i].udp.n # hacked'[j].udp.n)
      BY <2>2, <2>7, <3>1
    <3> QED BY <3>2
  <2>8. CASE j = 1 /\ hacked'[j] = e /\ i - 1 \in DOMAIN hacked /\ hacked'[i] = hacked[i - 1]
    <3>1. PICK p \in DOMAIN hacked : p = i - 1
      BY <2>8
    <3>2. ~SameRequest(hacked'[i], hacked'[j]) /\ (hacked'[i].type = "dgram" => hacked'[i].udp.n # hacked'[j].udp.n)
      BY <2>2, <2>8, <3>1
    <3> QED BY <3>2
  <2> QED BY <2>4, <2>5, <2>6, <2>7, <2>8
<1>6. CASE \E k \in DOMAIN hacked : Renewed(e, k)
  <2>1. PICK k \in DOMAIN hacked : Renewed(e, k)
    BY <1>6
  <2>2. /\ DOMAIN hacked' = DOMAIN hacked /\ hacked'[k] = e
        /\ \A i \in DOMAIN hacked : i # k => hacked'[i] = hacked[i]
    BY <2>1 DEF Renewed, Replaced
  <2>3. e.s = hacked[k].s /\ e.type = hacked[k].type /\ e.dst = hacked[k].dst /\ e.name = hacked[k].name
    BY <2>1 DEF Renewed, SameRequest
  <2>4. e.udp = hacked[k].udp
    BY <2>1 DEF Renewed, Requested, RouteOf
  <2>5. \A i \in DOMAIN hacked : /\ hacked'[i].s = hacked[i].s /\ hacked'[i].type = hacked[i].type
                                 /\ hacked'[i].dst = hacked[i].dst /\ hacked'[i].name = hacked[i].name
                                 /\ hacked'[i].udp = hacked[i].udp
    BY <2>2, <2>3, <2>4
  <2>6. Distinct'
    BY <2>2, <2>5 DEF HackedInv, Distinct, SameRequest
  <2> QED BY <1>4, <2>6 DEF HackedInv
<1> QED BY <1>5, <1>6

(* The limits and the requests keep their correspondence and their order. *)
LimitOK(m) == m.max = MaxPayload(m.name, m.dst.fam = "v6")
Paired ==
  /\ \A j \in DOMAIN limits : \E i \in DOMAIN hacked : SameKey(hacked[i], limits[j])
  /\ \A i \in DOMAIN hacked : hacked[i].type = "dgram" =>
       \E j \in DOMAIN limits : SameKey(hacked[i], limits[j])
Ordered ==
  \A i, k \in DOMAIN hacked, j, l \in DOMAIN limits :
    SameKey(hacked[i], limits[j]) /\ SameKey(hacked[k], limits[l]) /\ i <= k => j <= l
LEMMA LimitParts == LimitsInv <=> (\A j \in DOMAIN limits : LimitOK(limits[j])) /\ Paired /\ Ordered
BY DEF LimitsInv, LimitOK, Paired, Ordered

LEMMA LimitsStay ==
  ASSUME setup' = setup, LimitsInv, NEW m, LimitOK(m),
         \A j \in DOMAIN limits' : limits'[j] = m \/ \E k \in DOMAIN limits : limits'[j] = limits[k]
  PROVE  \A j \in DOMAIN limits' : \A x : x = limits'[j] => LimitOK(x)'
<1>1. \A j \in DOMAIN limits : \A x : x = limits[j] => LimitOK(x)
  BY LimitParts
<1>2. \A x : LimitOK(x) => LimitOK(x)'
  BY DEF LimitOK, MaxPayload, Socks5HeaderSize
<1> QED BY <1>1, <1>2

(* Where an entry of the lengthened list was before. *)
LEMMA BothAdded ==
  ASSUME Typed, LimitsInv, NEW e \in Entries, NEW m \in LimitRecs, LimitFor(e, m), e.type = "dgram",
         Added(e), AddedLimit(m), hacked' \in Seq(Entries), limits' \in Seq(LimitRecs)
  PROVE  Paired' /\ Ordered'
<1>1. Fronted(hacked, hacked', e) /\ Fronted(limits, limits', m)
  BY DEF Added, AddedLimit
<1>2. SameKey(e, m)
  BY DEF SameKey, LimitFor
<1>3. \A i \in DOMAIN hacked : ~SameKey(hacked[i], m)
  BY DEF Added, Requested, SameRequest, SameKey, LimitFor
<1>4. \A j \in DOMAIN limits : ~SameKey(e, limits[j])
  BY DEF AddedLimit, Limited, SameKey, LimitFor
<1>5. Paired /\ Ordered
  BY LimitParts
<1>6. /\ DOMAIN hacked' \in SUBSET (Nat \ {0}) /\ DOMAIN limits' \in SUBSET (Nat \ {0})
  BY FirstOf
<1>7. Paired'
  <2>1. ASSUME NEW j \in DOMAIN limits' PROVE \E i \in DOMAIN hacked' : SameKey(hacked'[i], limits'[j])
    <3>1. CASE j = 1
      BY <1>1, <1>2, <3>1 DEF Fronted
    <3>2. CASE j # 1
      <4>1. PICK b \in DOMAIN limits : limits'[j] = limits[b]
        BY <1>1, <3>2 DEF Fronted
      <4>2. PICK a \in DOMAIN hacked : SameKey(hacked[a], limits[b])
        BY <1>5 DEF Paired
      <4>3. a + 1 \in DOMAIN hacked' /\ hacked'[a + 1] = hacked[a]
        BY <1>1 DEF Fronted
      <4> QED BY <4>1, <4>2, <4>3
    <3> QED BY <3>1, <3>2
  <2>2. ASSUME NEW i \in DOMAIN hacked', hacked'[i].type = "dgram"
        PROVE \E j \in DOMAIN limits' : SameKey(hacked'[i], limits'[j])
    <3>1. CASE i = 1
      BY <1>1, <1>2, <3>1 DEF Fronted
    <3>2. CASE i # 1
      <4>1. PICK a \in DOMAIN hacked : hacked'[i] = hacked[a]
        BY <1>1, <3>2 DEF Fronted
      <4>2. PICK b \in DOMAIN limits : SameKey(hacked[a], limits[b])
        BY <1>5, <2>2, <4>1 DEF Paired
      <4>3. b + 1 \in DOMAIN limits' /\ limits'[b + 1] = limits[b]
        BY <1>1 DEF Fronted
      <4> QED BY <4>1, <4>2, <4>3
    <3> QED BY <3>1, <3>2
  <2> QED BY <2>1, <2>2 DEF Paired, SameKey
<1>8. Ordered'
  <2>1. SUFFICES ASSUME NEW i \in DOMAIN hacked', NEW k \in DOMAIN hacked',
                        NEW j \in DOMAIN limits', NEW l \in DOMAIN limits',
                        SameKey(hacked'[i], limits'[j]), SameKey(hacked'[k], limits'[l]), i <= k
                 PROVE  j <= l
    BY DEF Ordered, SameKey
  <2>2. i \in Nat /\ k \in Nat /\ j \in Nat /\ l \in Nat /\ i >= 1 /\ j >= 1 /\ k >= 1 /\ l >= 1
    BY <1>6
  <2>3. (i = 1 /\ hacked'[i] = e) \/ (i # 1 /\ i - 1 \in DOMAIN hacked /\ hacked'[i] = hacked[i - 1])
    BY <1>1 DEF Fronted
  <2>4. (k = 1 /\ hacked'[k] = e) \/ (k # 1 /\ k - 1 \in DOMAIN hacked /\ hacked'[k] = hacked[k - 1])
    BY <1>1 DEF Fronted
  <2>5. (j = 1 /\ limits'[j] = m) \/ (j # 1 /\ j - 1 \in DOMAIN limits /\ limits'[j] = limits[j - 1])
    BY <1>1 DEF Fronted
  <2>6. (l = 1 /\ limits'[l] = m) \/ (l # 1 /\ l - 1 \in DOMAIN limits /\ limits'[l] = limits[l - 1])
    BY <1>1 DEF Fronted
  <2>7. CASE i = 1
    <3>1. j = 1
      BY <1>4, <2>1, <2>3, <2>5, <2>7
    <3> QED BY <2>2, <3>1
  <2>8. CASE i # 1
    <3>1. k # 1
      BY <2>1, <2>2, <2>8
    <3>2. j # 1 /\ l # 1
      BY <1>3, <2>1, <2>3, <2>4, <2>5, <2>6, <2>8, <3>1
    <3>3. PICK a, b \in DOMAIN hacked : a = i - 1 /\ b = k - 1
      BY <2>3, <2>4, <2>8, <3>1
    <3>4. PICK c, d \in DOMAIN limits : c = j - 1 /\ d = l - 1
      BY <2>5, <2>6, <3>2
    <3>5. SameKey(hacked[a], limits[c]) /\ SameKey(hacked[b], limits[d])
      BY <2>1, <2>3, <2>4, <2>5, <2>6, <2>8, <3>1, <3>2, <3>3, <3>4
    <3>6. a <= b
      BY <2>1, <2>2, <3>3
    <3>7. c <= d
      BY <1>5, <3>5, <3>6 DEF Ordered
    <3> QED BY <2>2, <3>4, <3>7
  <2> QED BY <2>7, <2>8
<1> QED BY <1>7, <1>8

LEMMA BothRenewed ==
  ASSUME Typed, LimitsInv, NEW e \in Entries, NEW m \in LimitRecs, LimitFor(e, m), e.type = "dgram",
         NEW k \in DOMAIN hacked, NEW j \in DOMAIN limits, Renewed(e, k), RenewedLimit(m, j)
  PROVE  Paired' /\ Ordered'
<1>1. /\ DOMAIN hacked' = DOMAIN hacked /\ DOMAIN limits' = DOMAIN limits
      /\ hacked'[k] = e /\ limits'[j] = m
      /\ \A i \in DOMAIN hacked : i # k => hacked'[i] = hacked[i]
      /\ \A i \in DOMAIN limits : i # j => limits'[i] = limits[i]
  BY DEF Renewed, RenewedLimit, Replaced
<1>2. \A i \in DOMAIN hacked : /\ hacked'[i].type = hacked[i].type
                               /\ hacked'[i].s = hacked[i].s /\ hacked'[i].dst = hacked[i].dst
                               /\ hacked'[i].name = hacked[i].name
  BY <1>1 DEF Renewed, SameRequest
<1>3. \A i \in DOMAIN limits : /\ limits'[i].s = limits[i].s /\ limits'[i].dst = limits[i].dst
                               /\ limits'[i].name = limits[i].name
  BY <1>1 DEF RenewedLimit
<1>4. Paired /\ Ordered
  BY LimitParts
<1>5. \A a \in DOMAIN hacked, b \in DOMAIN limits : SameKey(hacked[a], limits[b]) <=> SameKey(hacked'[a], limits'[b])
  BY <1>2, <1>3 DEF SameKey
<1>6. Paired'
  <2>1. /\ \A b \in DOMAIN limits' : \E i \in DOMAIN hacked' : SameKey(hacked'[i], limits'[b])
        /\ \A i \in DOMAIN hacked' : hacked'[i].type = "dgram" =>
             \E b \in DOMAIN limits' : SameKey(hacked'[i], limits'[b])
    BY <1>1, <1>2, <1>4, <1>5 DEF Paired
  <2> QED BY <2>1 DEF Paired, SameKey
<1>7. Ordered'
  <2>1. \A a, b \in DOMAIN hacked', c, d \in DOMAIN limits' :
          SameKey(hacked'[a], limits'[c]) /\ SameKey(hacked'[b], limits'[d]) /\ a <= b => c <= d
    BY <1>1, <1>4, <1>5 DEF Ordered
  <2> QED BY <2>1 DEF Ordered, SameKey
<1> QED BY <1>6, <1>7

LEMMA StreamRegistered ==
  ASSUME Typed, LimitsInv, NEW e \in Entries, e.type = "stream", limits' = limits,
         hacked' \in Seq(Entries), Added(e) \/ \E k \in DOMAIN hacked : Renewed(e, k)
  PROVE  Paired' /\ Ordered'
<1>1. Paired /\ Ordered
  BY LimitParts
<1>2. \A x : ~SameKey(e, x)
  BY DEF SameKey
<1>3. CASE Added(e)
  <2>1. Fronted(hacked, hacked', e)
    BY <1>3 DEF Added
  <2>2. DOMAIN hacked' \in SUBSET (Nat \ {0})
    BY FirstOf
  <2>3. \A i \in DOMAIN hacked' : hacked'[i] = e \/ (i - 1 \in DOMAIN hacked /\ hacked'[i] = hacked[i - 1])
    BY <2>1 DEF Fronted
  <2>4. Paired'
    <3>1. \A j \in DOMAIN limits : \E i \in DOMAIN hacked' : SameKey(hacked'[i], limits[j])
      BY <1>1, <2>1 DEF Paired, Fronted
    <3>2. \A i \in DOMAIN hacked' : hacked'[i].type = "dgram" => \E j \in DOMAIN limits : SameKey(hacked'[i], limits[j])
      BY <1>1, <2>3 DEF Paired
    <3> QED BY <3>1, <3>2 DEF Paired, SameKey
  <2>5. Ordered'
    <3>1. SUFFICES ASSUME NEW i \in DOMAIN hacked', NEW k \in DOMAIN hacked',
                          NEW j \in DOMAIN limits, NEW l \in DOMAIN limits,
                          SameKey(hacked'[i], limits[j]), SameKey(hacked'[k], limits[l]), i <= k
                   PROVE  j <= l
      BY DEF Ordered, SameKey
    <3>2. PICK a, b \in DOMAIN hacked : a = i - 1 /\ b = k - 1 /\ hacked'[i] = hacked[a] /\ hacked'[k] = hacked[b]
      BY <1>2, <2>3, <3>1
    <3>3. a <= b
      BY <2>2, <3>1, <3>2
    <3> QED BY <1>1, <3>1, <3>2, <3>3 DEF Ordered
  <2> QED BY <2>4, <2>5
<1>4. CASE \E k \in DOMAIN hacked : Renewed(e, k)
  <2>1. PICK k \in DOMAIN hacked : Renewed(e, k)
    BY <1>4
  <2>2. /\ DOMAIN hacked' = DOMAIN hacked
        /\ \A i \in DOMAIN hacked : /\ hacked'[i].type = hacked[i].type
                                    /\ hacked'[i].s = hacked[i].s /\ hacked'[i].dst = hacked[i].dst
                                    /\ hacked'[i].name = hacked[i].name
    BY <2>1 DEF Renewed, Replaced, SameRequest
  <2>3. Paired'
    BY <1>1, <2>2 DEF Paired, SameKey
  <2>4. Ordered'
    BY <1>1, <2>2 DEF Ordered, SameKey
  <2> QED BY <2>3, <2>4
<1> QED BY <1>3, <1>4

LEMMA RegisterLimits ==
  ASSUME Typed, LimitsInv, setup' = setup, NEW e \in Entries, NEW m \in LimitRecs, LimitFor(e, m),
         hacked' \in Seq(Entries), limits' \in Seq(LimitRecs), Registered(e, m)
  PROVE  LimitsInv'
<1>1. Paired' /\ Ordered'
  BY BothAdded, BothRenewed, StreamRegistered DEF Registered
<1>2. LimitOK(m)
  BY DEF LimitOK, LimitFor
<1>3. \A j \in DOMAIN limits' : limits'[j] = m \/ \E k \in DOMAIN limits : limits'[j] = limits[k]
  <2>1. CASE limits' = limits
    BY <2>1
  <2>2. CASE AddedLimit(m)
    BY <2>2 DEF AddedLimit, Fronted
  <2>3. CASE \E j \in DOMAIN limits : RenewedLimit(m, j)
    BY <2>3 DEF RenewedLimit, Replaced
  <2> QED BY <2>1, <2>2, <2>3 DEF Registered
<1>4. \A j \in DOMAIN limits' : \A x : x = limits'[j] => LimitOK(x)'
  BY <1>2, <1>3, LimitsStay
<1> QED BY <1>1, <1>4 DEF LimitsInv, LimitOK, Paired, Ordered

-----------------------------------------------------------------------------
(* What the lists say of one socket, and when they go on saying it. *)
LeastLimit(s, j) ==
  /\ limits[j].s = s /\ limits[j].connected
  /\ \A k \in DOMAIN limits : limits[k].s = s /\ limits[k].connected => j <= k
LeastEntry(s, i) == hacked[i].s = s /\ \A k \in DOMAIN hacked : hacked[k].s = s => i <= k
KeepsEntries(s) ==
  \A i \in DOMAIN hacked : hacked[i].s = s => \E k \in DOMAIN hacked' : hacked'[k] = hacked[i]
KeepsLimit(s) ==
  \A j \in DOMAIN limits : LeastLimit(s, j) => \E k \in DOMAIN limits' : LeastLimit(s, k)' /\ limits'[k] = limits[j]
KeepsFirst(s) ==
  \A i \in DOMAIN hacked : LeastEntry(s, i) => \E k \in DOMAIN hacked' : LeastEntry(s, k)' /\ hacked'[k] = hacked[i]

LEMMA KeptSocket ==
  ASSUME UNCHANGED <<setup, known>>, NEW s, sock'[s] = sock[s], PeerOK(s), ShownOK(s),
         KeepsEntries(s), KeepsLimit(s), KeepsFirst(s) \/ sock[s].type = "dgram"
  PROVE  PeerOK(s)' /\ ShownOK(s)'
<1>1. ASSUME NEW i \in DOMAIN hacked, Hooked(s, i)
      PROVE  \E k \in DOMAIN hacked' : Hooked(s, k)' /\ hacked'[k] = hacked[i]
  <2>1. PICK k \in DOMAIN hacked' : hacked'[k] = hacked[i]
    BY <1>1 DEF Hooked, KeepsEntries
  <2>2. Hooked(s, k)'
    BY <1>1, <2>1 DEF Hooked
  <2> QED BY <2>1, <2>2
<1>2. ASSUME NEW i \in DOMAIN hacked, NEW j \in DOMAIN limits, Leads(s, i, j)
      PROVE  \E k \in DOMAIN hacked', l \in DOMAIN limits' : Leads(s, k, l)'
  <2>1. Hooked(s, i) /\ SameKey(hacked[i], limits[j]) /\ LeastLimit(s, j)
    BY <1>2 DEF Leads, LeastLimit, Hooked, SameKey
  <2>2. PICK k \in DOMAIN hacked' : Hooked(s, k)' /\ hacked'[k] = hacked[i]
    BY <1>1, <2>1
  <2>3. PICK l \in DOMAIN limits' : LeastLimit(s, l)' /\ limits'[l] = limits[j]
    BY <2>1 DEF KeepsLimit
  <2>4. Leads(s, k, l)'
    BY <2>1, <2>2, <2>3 DEF Leads, LeastLimit, SameKey
  <2> QED BY <2>4
<1>3. PeerOK(s)'
  <2>1. SUFFICES ASSUME sock[s].type = "dgram", sock[s].peer # NoAddress PROVE PeerOK(s)'
    BY DEF PeerOK
  <2>2. /\ sock[s].peer.fam # "none" /\ sock[s].peer.at \notin {"none", "prc"}
        /\ Direct("dgram", sock[s].peer) /\ Unblocked("dgram", sock[s].peer)
        /\ IsDummy(sock[s].peer) => \E k \in known : k.addr = sock[s].peer
        /\ sock[s].peer.at = "route" => \E i \in DOMAIN hacked : Hooked(s, i)
        /\ sock[s].peer.at = "route" /\ ~sock[s].again =>
             \E i \in DOMAIN hacked, j \in DOMAIN limits : Leads(s, i, j)
    BY <2>1 DEF PeerOK
  <2>3. /\ sock'[s].peer.at = "route" => \E i \in DOMAIN hacked' : Hooked(s, i)'
        /\ sock'[s].peer.at = "route" /\ ~sock'[s].again =>
             \E i \in DOMAIN hacked', j \in DOMAIN limits' : Leads(s, i, j)'
    BY <1>1, <1>2, <2>2
  <2>4. /\ Direct("dgram", sock[s].peer)' /\ Unblocked("dgram", sock[s].peer)'
        /\ IsDummy(sock'[s].peer) => \E k \in known' : k.addr = sock'[s].peer
    BY <2>2 DEF Direct, Unblocked, ShouldBlock, IsUdpAllowedLoopback, IsLoopback, IsDummy
  <2>5. sock'[s].peer.fam # "none" /\ sock'[s].peer.at \notin {"none", "prc"}
    BY <2>2
  <2> QED BY <2>3, <2>4, <2>5 DEF PeerOK, IsDummy
<1>4. ShownOK(s)'
  <2>1. SUFFICES ASSUME sock[s].type = "stream", sock[s].peer.at = "prc", ~sock[s].again PROVE ShownOK(s)'
    BY DEF ShownOK
  <2>2. PICK i \in DOMAIN hacked : LeastEntry(s, i) /\ hacked[i].dst = sock[s].want
    BY <2>1 DEF ShownOK, LeastEntry
  <2>3. PICK k \in DOMAIN hacked' : LeastEntry(s, k)' /\ hacked'[k] = hacked[i]
    BY <2>1, <2>2 DEF KeepsFirst
  <2> QED BY <2>2, <2>3 DEF ShownOK, LeastEntry
<1> QED BY <1>3, <1>4

LEMMA AddedKeeps ==
  ASSUME Typed, NEW e \in Entries, NEW s, hacked' \in Seq(Entries), Fronted(hacked, hacked', e)
  PROVE  KeepsEntries(s) /\ (s # e.s => KeepsFirst(s))
<1>1. KeepsEntries(s)
  BY DEF KeepsEntries, Fronted
<1>2. ASSUME s # e.s, NEW i \in DOMAIN hacked, LeastEntry(s, i)
      PROVE  \E k \in DOMAIN hacked' : LeastEntry(s, k)' /\ hacked'[k] = hacked[i]
  <2>1. DOMAIN hacked' \in SUBSET (Nat \ {0}) /\ DOMAIN hacked \in SUBSET (Nat \ {0})
    BY FirstOf DEF Typed
  <2>2. i + 1 \in DOMAIN hacked' /\ hacked'[i + 1] = hacked[i]
    BY DEF Fronted
  <2>3. ASSUME NEW k \in DOMAIN hacked', hacked'[k].s = s PROVE i + 1 <= k
    <3>1. PICK b \in DOMAIN hacked : b = k - 1 /\ hacked'[k] = hacked[b]
      BY <1>2, <2>3 DEF Fronted
    <3>2. i <= b
      BY <1>2, <2>3, <3>1 DEF LeastEntry
    <3> QED BY <2>1, <3>1, <3>2
  <2>4. LeastEntry(s, i + 1)'
    BY <1>2, <2>2, <2>3 DEF LeastEntry
  <2> QED BY <2>2, <2>4
<1> QED BY <1>1, <1>2 DEF KeepsFirst

LEMMA AddedKeepsLimit ==
  ASSUME Typed, NEW m \in LimitRecs, NEW s, limits' \in Seq(LimitRecs), Fronted(limits, limits', m),
         s # m.s \/ ~m.connected
  PROVE  KeepsLimit(s)
<1>1. ASSUME NEW j \in DOMAIN limits, LeastLimit(s, j)
      PROVE  \E k \in DOMAIN limits' : LeastLimit(s, k)' /\ limits'[k] = limits[j]
  <2>1. DOMAIN limits' \in SUBSET (Nat \ {0}) /\ DOMAIN limits \in SUBSET (Nat \ {0})
    BY FirstOf DEF Typed
  <2>2. j + 1 \in DOMAIN limits' /\ limits'[j + 1] = limits[j]
    BY DEF Fronted
  <2>3. ASSUME NEW k \in DOMAIN limits', limits'[k].s = s, limits'[k].connected PROVE j + 1 <= k
    <3>1. PICK b \in DOMAIN limits : b = k - 1 /\ limits'[k] = limits[b]
      BY <1>1, <2>3 DEF Fronted
    <3>2. j <= b
      BY <1>1, <2>3, <3>1 DEF LeastLimit
    <3> QED BY <2>1, <3>1, <3>2
  <2>4. LeastLimit(s, j + 1)'
    BY <1>1, <2>2, <2>3 DEF LeastLimit
  <2> QED BY <2>2, <2>4
<1> QED BY <1>1 DEF KeepsLimit

LEMMA RenewedKeeps ==
  ASSUME Typed, NEW e, NEW k \in DOMAIN hacked, Renewed(e, k), NEW s, s # e.s
  PROVE  KeepsEntries(s) /\ KeepsFirst(s)
<1>1. /\ DOMAIN hacked' = DOMAIN hacked /\ hacked'[k] = e /\ hacked[k].s = e.s
      /\ \A i \in DOMAIN hacked : i # k => hacked'[i] = hacked[i]
  BY DEF Renewed, Replaced, SameRequest
<1>2. KeepsEntries(s)
  BY <1>1 DEF KeepsEntries
<1>3. ASSUME NEW i \in DOMAIN hacked, LeastEntry(s, i) PROVE LeastEntry(s, i)' /\ hacked'[i] = hacked[i]
  BY <1>1, <1>3 DEF LeastEntry
<1> QED BY <1>1, <1>2, <1>3 DEF KeepsFirst

LEMMA RenewedKeepsLimit ==
  ASSUME Typed, NEW m, NEW k \in DOMAIN limits, RenewedLimit(m, k), NEW s, s # m.s
  PROVE  KeepsLimit(s)
<1>1. /\ DOMAIN limits' = DOMAIN limits /\ limits'[k] = m /\ limits[k].s = m.s
      /\ \A i \in DOMAIN limits : i # k => limits'[i] = limits[i]
  BY DEF RenewedLimit, Replaced
<1>2. ASSUME NEW i \in DOMAIN limits, LeastLimit(s, i) PROVE LeastLimit(s, i)' /\ limits'[i] = limits[i]
  BY <1>1, <1>2 DEF LeastLimit
<1> QED BY <1>1, <1>2 DEF KeepsLimit

(* Every other socket keeps what the lists say of it. *)
LEMMA OthersKept ==
  ASSUME Typed, SocketsInv, UNCHANGED <<setup, known>>, NEW e \in Entries, NEW m \in LimitRecs, LimitFor(e, m),
         hacked' \in Seq(Entries), limits' \in Seq(LimitRecs), Registered(e, m),
         NEW s \in Sockets, s # e.s, sock'[s] = sock[s]
  PROVE  PeerOK(s)' /\ ShownOK(s)'
<1>1. PeerOK(s) /\ ShownOK(s)
  BY SocketParts
<1>2. m.s = e.s
  BY DEF LimitFor
<1>3. KeepsEntries(s) /\ KeepsFirst(s)
  BY AddedKeeps, RenewedKeeps DEF Registered, Added
<1>4. KeepsLimit(s)
  <2>1. CASE limits' = limits
    BY <2>1 DEF KeepsLimit, LeastLimit
  <2>2. CASE AddedLimit(m)
    BY <1>2, <2>2, AddedKeepsLimit DEF AddedLimit
  <2>3. CASE \E j \in DOMAIN limits : RenewedLimit(m, j)
    BY <1>2, <2>3, RenewedKeepsLimit
  <2> QED BY <2>1, <2>2, <2>3 DEF Registered
<1> QED BY <1>1, <1>3, <1>4, KeptSocket

(* The socket itself, connected: its request and its limit come first,     *)
(* unless it was connected back to an earlier destination.                 *)
LEMMA ConnectedFirst ==
  ASSUME Typed, HackedInv, LimitsInv, NEW e \in Entries, NEW m \in LimitRecs, LimitFor(e, m), m.connected,
         hacked' \in Seq(Entries), limits' \in Seq(LimitRecs), Registered(e, m),
         ~\E i \in DOMAIN hacked : i > 1 /\ hacked[i].s = e.s /\ hacked[i].dst = e.dst
  PROVE  /\ 1 \in DOMAIN hacked' /\ hacked'[1] = e
         /\ e.type = "dgram" => 1 \in DOMAIN limits' /\ limits'[1] = m
<1>1. DOMAIN hacked \in SUBSET (Nat \ {0}) /\ DOMAIN limits \in SUBSET (Nat \ {0})
  BY FirstOf DEF Typed
<1>2. \A k \in DOMAIN hacked : Renewed(e, k) => k = 1 /\ 1 \in DOMAIN hacked' /\ hacked'[1] = e
  BY <1>1 DEF Renewed, Replaced, SameRequest
<1>3. 1 \in DOMAIN hacked' /\ hacked'[1] = e
  BY <1>2 DEF Registered, Added, Fronted
<1>4. ASSUME e.type = "dgram" PROVE 1 \in DOMAIN limits' /\ limits'[1] = m
  <2>1. CASE AddedLimit(m)
    BY <2>1 DEF AddedLimit, Fronted
  <2>2. CASE \E k \in DOMAIN hacked, j \in DOMAIN limits : Renewed(e, k) /\ RenewedLimit(m, j)
    <3>1. PICK k \in DOMAIN hacked, j \in DOMAIN limits : Renewed(e, k) /\ RenewedLimit(m, j)
      BY <2>2
    <3>2. k = 1
      BY <1>2, <3>1
    <3>3. SameKey(hacked[1], limits[j])
      BY <1>4, <3>1, <3>2 DEF Renewed, RenewedLimit, SameRequest, SameKey, LimitFor
    <3>4. Ordered /\ Paired
      BY LimitParts
    <3>5. 1 \in DOMAIN limits
      <4>1. DOMAIN limits = 1..Len(limits) /\ Len(limits) \in Nat
        BY LenProperties DEF Typed
      <4> QED BY <3>1, <4>1
    <3>6. PICK i \in DOMAIN hacked : SameKey(hacked[i], limits[1])
      BY <3>4, <3>5 DEF Paired
    <3>7. 1 <= i
      BY <1>1
    <3>8. j <= 1
      BY <3>2, <3>3, <3>4, <3>5, <3>6, <3>7 DEF Ordered
    <3>9. j = 1
      BY <1>1, <3>1, <3>8
    <3> QED BY <3>1, <3>9 DEF RenewedLimit, Replaced
  <2> QED BY <1>4, <2>1, <2>2 DEF Registered
<1> QED BY <1>3, <1>4

LEMMA ConnectedSocket ==
  ASSUME Typed, HackedInv, LimitsInv, NEW e \in Entries, NEW m \in LimitRecs, LimitFor(e, m), m.connected,
         hacked' \in Seq(Entries), limits' \in Seq(LimitRecs), Registered(e, m), RouteOf(e),
         e.dst.fam \in {"v4", "v6"},
         NEW w \in Socks, sock'[e.s] = w, w.type = e.type,
         w.peer \in {IF e.type = "dgram" THEN e.udp ELSE Prc(e.dst), NoAddress}, w.want = e.dst,
         w.again <=> sock[e.s].again \/ \E i \in DOMAIN hacked : i > 1 /\ hacked[i].s = e.s /\ hacked[i].dst = e.dst
  PROVE  PeerOK(e.s)' /\ ShownOK(e.s)'
<1>1. CASE w.peer = NoAddress
  BY <1>1, NoAddressIs DEF PeerOK, ShownOK
<1>2. ~w.again => /\ 1 \in DOMAIN hacked' /\ hacked'[1] = e
                  /\ e.type = "dgram" => 1 \in DOMAIN limits' /\ limits'[1] = m
  BY ConnectedFirst
<1>3. DOMAIN hacked' \in SUBSET (Nat \ {0}) /\ DOMAIN limits' \in SUBSET (Nat \ {0})
  BY FirstOf
<1>4. CASE w.peer # NoAddress /\ e.type = "dgram"
  <2>1. w.peer = e.udp /\ e.udp.at = "route" /\ e.udp.fam = e.dst.fam
    BY <1>4 DEF RouteOf
  <2>2. PICK k \in DOMAIN hacked' : hacked'[k] = e
    BY DEF Registered, Added, Fronted, Renewed, Replaced
  <2>3. Hooked(e.s, k)'
    BY <2>1, <2>2 DEF Hooked
  <2>4. ASSUME ~w.again PROVE Leads(e.s, 1, 1)' /\ 1 \in DOMAIN hacked' /\ 1 \in DOMAIN limits'
    <3>1. 1 \in DOMAIN hacked' /\ hacked'[1] = e /\ 1 \in DOMAIN limits' /\ limits'[1] = m
      BY <1>2, <1>4, <2>4
    <3>2. Hooked(e.s, 1)' /\ SameKey(hacked'[1], limits'[1])
      BY <1>4, <2>1, <3>1 DEF Hooked, SameKey, LimitFor
    <3>3. \A x \in DOMAIN limits' : 1 <= x
      BY <1>3
    <3> QED BY <3>1, <3>2, <3>3 DEF Leads, SameKey
  <2>5. w.peer.fam # "none" /\ w.peer.at \notin {"none", "prc"} /\ ~IsDummy(w.peer)
    BY <2>1 DEF IsDummy
  <2>6. Direct("dgram", w.peer)'
    BY <2>1 DEF Direct
  <2>7. Unblocked("dgram", w.peer)'
    BY <2>1 DEF Unblocked, ShouldBlock, IsUdpAllowedLoopback, IsLoopback, IsDummy
  <2>8. PeerOK(e.s)'
    BY <2>2, <2>3, <2>4, <2>5, <2>6, <2>7 DEF PeerOK, Direct, Unblocked, ShouldBlock, IsUdpAllowedLoopback, IsLoopback, IsDummy
  <2>9. ShownOK(e.s)'
    BY <1>4 DEF ShownOK
  <2> QED BY <2>8, <2>9
<1>5. CASE e.type = "stream"
  <2>1. PeerOK(e.s)'
    BY <1>5 DEF PeerOK
  <2>2. ASSUME ~w.again PROVE LeastEntry(e.s, 1)' /\ 1 \in DOMAIN hacked' /\ hacked'[1].dst = w.want
    BY <1>2, <1>3, <2>2 DEF LeastEntry
  <2>3. ShownOK(e.s)'
    BY <2>2 DEF ShownOK, LeastEntry
  <2> QED BY <2>1, <2>3
<1>6. e.type \in {"stream", "dgram"}
  BY DEF Entries, Types
<1> QED BY <1>1, <1>4, <1>5, <1>6

-----------------------------------------------------------------------------
(* A registration that the service took. *)
Registers(t, c, e, m) ==
  /\ c = call[t] /\ c.st \in {"connect", "send"} /\ Return(t)
  /\ e = Entry(c) /\ hacked' = push(e)
  /\ limits' = IF e.type = "dgram" THEN SetUDPMaxPayload(m) ELSE limits
  /\ asked' = asked \cup {[dst |-> c.dst, name |-> c.name]}
  /\ UNCHANGED <<setup, nodes, top, known, up, log>> /\ link' = "good"
  /\ \A s \in Sockets : sock'[s].type = sock[s].type

LEMMA AskedFor ==
  ASSUME HooksInv, NEW t \in Threads, NEW c \in Calls, c = call[t], c.st \in {"connect", "send"}
  PROVE  /\ c.s \in Sockets /\ Meant(c.dst, c.name) /\ Unblocked(sock[c.s].type, c.dst)
         /\ c.st = "send" => sock[c.s].type = "dgram"
         /\ c.dst \in Addresses /\ c.name \in Names /\ c.size \in Nat
<1>1. Asks(c)
  BY DEF HooksInv, Pending
<1> QED BY <1>1 DEF Asks, Calls

LEMMA RegisterLists ==
  ASSUME HooksInv, NEW t \in Threads, NEW c \in Calls, NEW e, NEW b \in BOOLEAN, NEW m, m = Limit(c, b),
         Registers(t, c, e, m)
  PROVE  /\ e \in Entries /\ Request(c, e) /\ RouteOf(e)
         /\ m \in LimitRecs /\ LimitFor(e, m) /\ m.connected = b
         /\ hacked' \in Seq(Entries) /\ limits' \in Seq(LimitRecs) /\ Registered(e, m)
         /\ HackedInv' /\ LimitsInv'
<1>1. Typed /\ HackedInv /\ LimitsInv
  BY DEF HooksInv
<1>2. c.s \in Sockets /\ Meant(c.dst, c.name) /\ Unblocked(sock[c.s].type, c.dst)
  BY AskedFor DEF Registers
<1>3. e \in Entries /\ Request(c, e) /\ RouteOf(e)
  BY <1>1, <1>2, EntryIs DEF Registers
<1>4. m \in LimitRecs /\ LimitFor(e, m) /\ m.connected = b
  BY <1>1, <1>2, <1>3, LimitMade
<1>5. hacked' \in Seq(Entries) /\ limits' \in Seq(LimitRecs) /\ Registered(e, m)
  BY <1>1, <1>3, <1>4, RegisteredIs DEF Registers
<1>6. Steady /\ setup' = setup
  BY DEF Registers, Steady
<1>7. EntryOK(e)'
  <2>1. e.s = c.s /\ e.type = sock[c.s].type /\ e.dst = c.dst /\ e.name = c.name
    BY <1>3 DEF Request
  <2>2. Meant(c.dst, c.name)'
    BY <1>2 DEF Registers, Meant, Fresh, IsDummy
  <2>3. Unblocked(e.type, c.dst)'
    BY <1>2, <2>1 DEF Registers, Unblocked, ShouldBlock, IsUdpAllowedLoopback, IsLoopback, IsDummy
  <2>4. [dst |-> c.dst, name |-> c.name] \in asked' /\ sock'[c.s].type = sock[c.s].type
    BY <1>2 DEF Registers
  <2> QED BY <1>3, <2>1, <2>2, <2>3, <2>4 DEF EntryOK, RouteOf
<1>8. Added(e) \/ \E k \in DOMAIN hacked : Renewed(e, k)
  BY <1>5 DEF Registered
<1>9. HackedInv'
  BY <1>1, <1>3, <1>5, <1>6, <1>7, <1>8, RegisterHacked
<1>10. LimitsInv'
  BY <1>1, <1>3, <1>4, <1>5, <1>6, RegisterLimits
<1> QED BY <1>3, <1>4, <1>5, <1>9, <1>10

LEMMA RegisterKeeps ==
  ASSUME HooksInv, NEW t \in Threads, NEW c \in Calls, NEW e, NEW b \in BOOLEAN, NEW m, m = Limit(c, b),
         Registers(t, c, e, m), sock' \in [Sockets -> Socks], CalmPassed, SocketsInv'
  PROVE  HooksInv'
<1>1. /\ hacked' \in Seq(Entries) /\ limits' \in Seq(LimitRecs)
      /\ HackedInv' /\ LimitsInv'
  BY RegisterLists
<1>2. Typed /\ UNCHANGED <<setup, nodes, top, known, up, log>> /\ link' = "good"
  BY DEF HooksInv, Registers
<1>3. c.s \in Sockets /\ Meant(c.dst, c.name) /\ c.dst \in Addresses /\ c.name \in Names
  BY AskedFor DEF Registers
<1>4. call' \in [Threads -> Calls] /\ call'[t] = Idle /\ \A u \in Threads : u # t => call'[u] = call[u]
  BY <1>2, IdleCall DEF Registers, Return, Typed
<1>5. PICK r : r = [dst |-> c.dst, name |-> c.name]
  OBVIOUS
<1>6. asked' = asked \cup {r} /\ r \in [dst : Addresses, name : Names] /\ r.dst = c.dst /\ r.name = c.name
  BY <1>3, <1>5 DEF Registers
<1>7. Typed'
  <2>1. passed' \in SUBSET Leavings
    BY <1>2 DEF Typed, CalmPassed
  <2>2. asked' \in SUBSET [dst : Addresses, name : Names]
    BY <1>2, <1>6 DEF Typed
  <2> QED BY <1>1, <1>2, <1>4, <2>1, <2>2 DEF Typed
<1>8. \A d, n : Meant(d, n) => Meant(d, n)'
  BY <1>2 DEF Meant, Fresh, IsDummy
<1>9. NamesInv'
  <2>1. Looking'
    BY <1>2, <1>4, IdleCall DEF HooksInv, NamesInv, Looking
  <2> QED BY <1>2, <2>1 DEF HooksInv, NamesInv, Counted, Noted, Fresh, Back
<1>10. Pending'
  <2>1. SUFFICES ASSUME NEW u \in Threads, NEW d \in Calls, d = call'[u] PROVE Asks(d)'
    BY DEF Pending
  <2>2. CASE u = t
    BY <1>4, <2>1, <2>2, IdleCall DEF Asks
  <2>3. CASE u # t
    <3>1. Asks(d)
      BY <1>4, <2>1, <2>3 DEF HooksInv, Pending
    <3>2. d.s \in Sockets => sock'[d.s].type = sock[d.s].type
      BY DEF Registers
    <3> QED BY <1>2, <1>8, <3>1, <3>2 DEF Asks, Unblocked, ShouldBlock, IsUdpAllowedLoopback, IsLoopback, IsDummy
  <2> QED BY <2>2, <2>3
<1>11. AskedInv'
  BY <1>3, <1>6, <1>8 DEF HooksInv, AskedInv
<1>12. PassedInv'
  <2>1. setup' = setup /\ asked \subseteq asked'
    BY <1>2, <1>6
  <2>2. \A p \in passed' : LeaksNot(p) /\ Roomy(p)
    BY PassedParts DEF HooksInv, CalmPassed
  <2>3. \A p \in passed' : LeaksNot(p)' /\ Roomy(p)'
    BY <2>1, <2>2, PassedStays
  <2> QED BY <2>3 DEF PassedInv, NoLeak, PayloadFits, LeaksNot, Roomy, Direct, Unblocked
<1>13. LogInv'
  BY <1>2 DEF HooksInv, LogInv, LogOK
<1> QED BY <1>1, <1>7, <1>9, <1>10, <1>11, <1>12, <1>13 DEF HooksInv

(* What the decision leaves direct may go directly. *)
LEMMA Bypassed ==
  ASSUME NEW d, NEW n, Meant(d, n), CanHackIt(d, n) = "bypass", NEW type
  PROVE  Direct(type, d) /\ ~IsDummy(d)
<1>1. ~ShouldRedirect(d, n) /\ n = NoHost /\ d.fam # "v6" /\ Stays(d)
  BY DEF CanHackIt
<1>2. d.fam = "v4" /\ ~IsDummy(d) /\ d.at # "route"
  BY <1>1 DEF Meant
<1>3. d.at = "zero" \/ (setup.proxy # "none" /\ ~setup.lan /\ d.at \in {"loop", "lan", "dns"})
  BY <1>1, <1>2 DEF Stays, IsLoopback, IsDummy
<1>4. d.at = "dns" => ~(setup.remote /\ setup.redirect)
  BY <1>1, <1>3 DEF ShouldRedirect
<1> QED BY <1>2, <1>3, <1>4 DEF Direct

LEMMA BypassReachable ==
  ASSUME HooksInv, NEW t \in Threads, NEW c \in Calls, c = call[t], c.st \in {"connect", "send"},
         CanHackIt(c.dst, c.name) = "bypass"
  PROVE  Reachable(c.s, c.dst)
<1>1. /\ c.s \in Sockets /\ Meant(c.dst, c.name) /\ Unblocked(sock[c.s].type, c.dst)
  BY AskedFor
<1>2. Direct(sock[c.s].type, c.dst) /\ ~IsDummy(c.dst)
  BY <1>1, Bypassed
<1> QED BY <1>1, <1>2 DEF Reachable, Meant

LEMMA EnsuredIs ==
  ASSUME Typed PROVE Ensured \in {"none", "good", "dead"}
BY DEF Typed, Ensured

(* A call that ends without a registration. *)
LEMMA ReturnCalm ==
  ASSUME HooksInv, NEW t \in Threads, Return(t), UNCHANGED <<setup, nodes, top, known, hacked, limits, up, asked, log>>,
         link' \in {"none", "good", "dead"}, CalmSocks, CalmPassed
  PROVE  CalmStep
<1>1. Typed /\ LogInv
  BY DEF HooksInv
<1>2. CalmCalls
  BY <1>1, IdleCall, CallSet DEF Return
<1>3. CalmLog
  BY <1>1 DEF CalmLog, LogInv, Typed
<1> QED BY <1>1, <1>2, <1>3 DEF CalmStep, Typed

LEMMA HackConnectKeeps ==
  ASSUME HooksInv, NEW t \in Threads, HackConnect(t)
  PROVE  HooksInv'
<1>1. Typed /\ HackedInv /\ LimitsInv /\ SocketsInv
  BY DEF HooksInv
<1>2. PICK c \in Calls : c = call[t]
  BY <1>1 DEF Typed
<1>3. c.st = "connect" /\ Return(t) /\ UNCHANGED <<setup, nodes, top, known, up, log>>
  BY <1>2 DEF HackConnect, names
<1>4. /\ c.s \in Sockets /\ Meant(c.dst, c.name) /\ Unblocked(sock[c.s].type, c.dst)
      /\ c.dst \in Addresses /\ c.name \in Names
  BY <1>2, <1>3, AskedFor
<1>5. CASE /\ link' = Disconnected /\ UNCHANGED <<sock, lists, asked, passed>>
  <2>1. CalmStep
    BY <1>3, <1>5, ReturnCalm DEF lists, CalmSocks, CalmPassed, Disconnected
  <2> QED BY <2>1, CalmKeeps
<1>6. CASE /\ Ensured = "good" /\ CanHackIt(c.dst, c.name) = "bypass"
           /\ link' = "good" /\ Trampoline(c.s, c.dst, c.dst, "direct", NoHost)
           /\ UNCHANGED <<lists, asked>>
  <2>1. Reachable(c.s, c.dst)
    BY <1>2, <1>3, <1>6, BypassReachable
  <2>2. CalmSocks /\ CalmPassed
    BY <1>1, <1>4, <1>6, <2>1, DirectCalm
  <2>3. CalmStep
    BY <1>3, <1>6, <2>2, ReturnCalm DEF lists
  <2> QED BY <2>3, CalmKeeps
<1>7. PICK e : e = Entry(c)
  OBVIOUS
<1>9. CASE /\ link' = "good"
           /\ asked' = asked \cup {[dst |-> c.dst, name |-> c.name]}
           /\ hacked' = push(e)
           /\ limits' = IF e.type = "dgram" THEN SetUDPMaxPayload(Limit(c, TRUE)) ELSE limits
           /\ Trampoline(c.s, c.dst, IF e.type = "dgram" THEN e.udp ELSE Prc(c.dst), "prc", c.name)
  <2>1. PICK m : m = Limit(c, TRUE)
    OBVIOUS
  <2>2. e \in Entries /\ Request(c, e) /\ RouteOf(e)
    BY <1>1, <1>4, <1>7, EntryIs
  <2>3. PICK to : to = IF e.type = "dgram" THEN e.udp ELSE Prc(c.dst)
    OBVIOUS
  <2>4. to \in Addresses
    <3>1. e.udp \in Addresses
      BY <2>2 DEF Entries
    <3>2. Prc(c.dst) \in Addresses
      BY <1>4 DEF Prc, Address, Addresses, Places
    <3> QED BY <2>3, <3>1, <3>2
  <2>5. Trampoline(c.s, c.dst, to, "prc", c.name)
    BY <1>9, <2>3
  <2>6. /\ passed' = passed \cup {Passed(c.s, c.dst, "prc", 0, c.name)}
        /\ \E w \in Socks :
             /\ sock' = [sock EXCEPT ![c.s] = w] /\ w.type = sock[c.s].type
             /\ w.peer \in {to, NoAddress} /\ w.want = c.dst
             /\ w.again <=> sock[c.s].again \/ ("prc" = "prc" /\ \E i \in DOMAIN hacked : i > 1 /\ hacked[i].s = c.s /\ hacked[i].dst = c.dst)
    BY <1>1, <1>4, <2>4, <2>5, TrampolineIs
  <2>7. PICK w \in Socks :
             /\ sock' = [sock EXCEPT ![c.s] = w] /\ w.type = sock[c.s].type
             /\ w.peer \in {to, NoAddress} /\ w.want = c.dst
             /\ w.again <=> sock[c.s].again \/ \E i \in DOMAIN hacked : i > 1 /\ hacked[i].s = c.s /\ hacked[i].dst = c.dst
    BY <2>6
  <2>8. /\ sock' \in [Sockets -> Socks] /\ sock'[c.s] = w
        /\ \A s \in Sockets : s # c.s => sock'[s] = sock[s]
    BY <1>1, <1>4, <2>7 DEF Typed
  <2>9. \A s \in Sockets : sock'[s].type = sock[s].type
    BY <2>7, <2>8
  <2>10. Registers(t, c, e, m)
    BY <1>2, <1>3, <1>7, <1>9, <2>1, <2>9 DEF Registers
  <2>11. /\ m \in LimitRecs /\ LimitFor(e, m) /\ m.connected = TRUE
         /\ hacked' \in Seq(Entries) /\ limits' \in Seq(LimitRecs) /\ Registered(e, m)
    BY <2>1, <2>10, RegisterLists
  <2>12. e.s = c.s /\ e.type = sock[c.s].type /\ e.dst = c.dst /\ e.name = c.name
    BY <2>2 DEF Request
  <2>13. SocketsInv'
    <3>1. SUFFICES ASSUME NEW s \in Sockets PROVE PeerOK(s)' /\ ShownOK(s)'
      BY DEF SocketsInv, Peers, Shown, PeerOK, ShownOK
    <3>2. CASE s # c.s
      BY <1>1, <1>3, <2>2, <2>8, <2>11, <2>12, <3>2, OthersKept
    <3>3. CASE s = c.s
      <4>1. e.dst.fam \in {"v4", "v6"}
        BY <1>4, <2>12 DEF Meant
      <4>2. w.type = e.type /\ w.want = e.dst /\ w.peer \in {IF e.type = "dgram" THEN e.udp ELSE Prc(e.dst), NoAddress}
        BY <2>3, <2>7, <2>12
      <4>3. w.again <=> sock[e.s].again \/ \E i \in DOMAIN hacked : i > 1 /\ hacked[i].s = e.s /\ hacked[i].dst = e.dst
        BY <2>7, <2>12
      <4>4. sock'[e.s] = w
        BY <2>8, <2>12
      <4>5. PeerOK(e.s)' /\ ShownOK(e.s)'
        BY <1>1, <2>2, <2>11, <4>1, <4>2, <4>3, <4>4, ConnectedSocket
      <4> QED BY <2>12, <3>3, <4>5
    <3> QED BY <3>2, <3>3
  <2>14. CalmPassed
    <3>1. PICK p : p = Passed(c.s, c.dst, "prc", 0, c.name)
      OBVIOUS
    <3>2. /\ p \in Leavings /\ p.type = sock[c.s].type /\ p.dst = c.dst /\ p.via = "prc" /\ p.size = 0
          /\ p.name = c.name
      BY <1>1, <1>4, <3>1, PassedIs
    <3>3. LeaksNot(p)
      BY <1>4, <3>2 DEF LeaksNot
    <3>4. Roomy(p)
      <4>1. c.name # NoHost => HostLength[c.name] \in 1..255
        BY <1>4, HooksAssumption DEF Names
      <4>2. Socks5HeaderSize(c.name) \in 0..262
        BY <4>1 DEF Socks5HeaderSize
      <4>3. 0 + (IF c.dst.fam = "v6" THEN 22 ELSE Socks5HeaderSize(c.name)) <= NoLimit
        BY <4>2 DEF NoLimit
      <4> QED BY <3>2, <4>3 DEF Roomy
    <3> QED BY <2>6, <3>1, <3>2, <3>3, <3>4 DEF CalmPassed
  <2> QED BY <2>1, <2>8, <2>10, <2>13, <2>14, RegisterKeeps
<1>10. CASE /\ link' = "good" /\ UNCHANGED <<sock, lists, asked, passed>>
  <2>1. CalmStep
    BY <1>3, <1>10, ReturnCalm DEF lists, CalmSocks, CalmPassed
  <2> QED BY <2>1, CalmKeeps
<1>11. CASE /\ link' \in {Disconnected, "dead"} /\ UNCHANGED <<sock, lists, asked, passed>>
  <2>1. CalmStep
    BY <1>3, <1>11, ReturnCalm DEF lists, CalmSocks, CalmPassed, Disconnected
  <2> QED BY <2>1, CalmKeeps
<1> QED BY <1>2, <1>5, <1>6, <1>7, <1>9, <1>10, <1>11 DEF HackConnect

LEMMA HackSendToKeeps ==
  ASSUME HooksInv, NEW t \in Threads, HackSendTo(t)
  PROVE  HooksInv'
<1>1. Typed /\ HackedInv /\ LimitsInv /\ SocketsInv
  BY DEF HooksInv
<1>2. PICK c \in Calls : c = call[t]
  BY <1>1 DEF Typed
<1>3. c.st = "send" /\ Return(t) /\ UNCHANGED <<setup, nodes, top, known, sock, up, log>>
  BY <1>2 DEF HackSendTo, names
<1>4. /\ c.s \in Sockets /\ Meant(c.dst, c.name) /\ Unblocked(sock[c.s].type, c.dst)
      /\ c.dst \in Addresses /\ c.name \in Names /\ c.size \in Nat /\ sock[c.s].type = "dgram"
  BY <1>2, <1>3, AskedFor
<1>5. Unblocked("dgram", c.dst) /\ CalmSocks /\ link \in {"none", "good", "dead"}
  BY <1>1, <1>3, <1>4 DEF CalmSocks, Typed
<1>6. CASE /\ IsUDPReqHacked(c.s, c.dst, c.name)
           /\ SendHacked(c.s, c.dst, c.name, c.size) /\ UNCHANGED <<lists, asked, link>>
  <2>1. CalmPassed
    BY <1>1, <1>4, <1>5, <1>6, SendHackedCalm
  <2>2. CalmStep
    BY <1>3, <1>5, <1>6, <2>1, ReturnCalm DEF lists
  <2> QED BY <2>2, CalmKeeps
<1>7. CASE link' = Ensured /\ UNCHANGED <<lists, asked, passed>>
  <2>1. link' \in {"none", "good", "dead"}
    BY <1>1, <1>7, EnsuredIs
  <2>2. CalmStep
    BY <1>3, <1>5, <1>7, <2>1, ReturnCalm DEF lists, CalmPassed
  <2> QED BY <2>2, CalmKeeps
<1>8. CASE /\ link' = "good" /\ CanHackIt(c.dst, c.name) = "bypass"
           /\ Sent(c.s, c.dst, "direct", c.size, NoHost) /\ UNCHANGED <<lists, asked>>
  <2>1. Reachable(c.s, c.dst)
    BY <1>2, <1>3, <1>8, BypassReachable
  <2>2. Direct("dgram", c.dst)
    BY <1>4, <2>1 DEF Reachable
  <2>3. CalmPassed
    BY <1>1, <1>4, <1>5, <1>8, <2>2, SentCalm DEF Names
  <2>4. CalmStep
    BY <1>3, <1>5, <1>8, <2>3, ReturnCalm DEF lists
  <2> QED BY <2>4, CalmKeeps
<1>9. PICK e : e = Entry(c)
  OBVIOUS
<1>10. CASE /\ ~IsUDPReqHacked(c.s, c.dst, c.name) /\ link' = "good"
            /\ asked' = asked \cup {[dst |-> c.dst, name |-> c.name]}
            /\ hacked' = push(e)
            /\ limits' = SetUDPMaxPayload(Limit(c, FALSE))
            /\ IF c.size <= MaxPayload(c.name, c.dst.fam = "v6")
                 THEN Sent(c.s, c.dst, "prc", c.size, c.name) ELSE UNCHANGED passed
  <2>1. PICK m : m = Limit(c, FALSE)
    OBVIOUS
  <2>2. e \in Entries /\ Request(c, e) /\ RouteOf(e)
    BY <1>1, <1>4, <1>9, EntryIs
  <2>3. e.s = c.s /\ e.type = "dgram" /\ e.dst = c.dst /\ e.name = c.name
    BY <1>4, <2>2 DEF Request
  <2>4. Registers(t, c, e, m)
    BY <1>2, <1>3, <1>9, <1>10, <2>1, <2>3 DEF Registers
  <2>5. /\ m \in LimitRecs /\ LimitFor(e, m) /\ m.connected = FALSE
        /\ hacked' \in Seq(Entries) /\ limits' \in Seq(LimitRecs) /\ Registered(e, m)
    BY <2>1, <2>4, RegisterLists
  <2>6. \A k \in DOMAIN hacked : ~Renewed(e, k)
    BY <1>10, <2>3 DEF Renewed, SameRequest, IsUDPReqHacked, Routes
  <2>7. Fronted(hacked, hacked', e) /\ Fronted(limits, limits', m)
    BY <2>3, <2>5, <2>6 DEF Registered, Added, AddedLimit
  <2>8. SocketsInv'
    <3>1. SUFFICES ASSUME NEW s \in Sockets PROVE PeerOK(s)' /\ ShownOK(s)'
      BY DEF SocketsInv, Peers, Shown, PeerOK, ShownOK
    <3>2. CASE s # c.s
      BY <1>1, <1>3, <2>2, <2>3, <2>5, <3>2, OthersKept
    <3>3. CASE s = c.s
      <4>1. KeepsEntries(s)
        BY <1>1, <2>2, <2>5, <2>7, AddedKeeps
      <4>2. KeepsLimit(s)
        BY <1>1, <2>5, <2>7, AddedKeepsLimit
      <4>3. PeerOK(s) /\ ShownOK(s)
        BY <1>1, SocketParts
      <4> QED BY <1>3, <1>4, <3>3, <4>1, <4>2, <4>3, KeptSocket
    <3> QED BY <3>2, <3>3
  <2>9. CalmPassed
    <3>1. CASE c.size <= MaxPayload(c.name, c.dst.fam = "v6")
      <4>1. Sent(c.s, c.dst, "prc", c.size, c.name)
        BY <1>10, <3>1
      <4>2. setup.socks => c.size + (IF c.dst.fam = "v6" THEN 22 ELSE Socks5HeaderSize(c.name)) <= NoLimit
        BY <1>4, <3>1, RoomFor
      <4> QED BY <1>1, <1>4, <1>5, <4>1, <4>2, SentCalm
    <3>2. CASE ~(c.size <= MaxPayload(c.name, c.dst.fam = "v6"))
      BY <1>10, <3>2 DEF CalmPassed
    <3> QED BY <3>1, <3>2
  <2>10. sock' \in [Sockets -> Socks]
    BY <1>1, <1>3 DEF Typed
  <2> QED BY <2>1, <2>4, <2>8, <2>9, <2>10, RegisterKeeps
<1>11. CASE link' = "good" /\ UNCHANGED <<lists, asked, passed>>
  <2>1. CalmStep
    BY <1>3, <1>5, <1>11, ReturnCalm DEF lists, CalmPassed
  <2> QED BY <2>1, CalmKeeps
<1>12. CASE link' \in {Disconnected, "dead"} /\ UNCHANGED <<lists, asked, passed>>
  <2>1. CalmStep
    BY <1>3, <1>5, <1>12, ReturnCalm DEF lists, CalmPassed, Disconnected
  <2> QED BY <2>1, CalmKeeps
<1> QED BY <1>2, <1>6, <1>7, <1>8, <1>9, <1>10, <1>11, <1>12 DEF HackSendTo

-----------------------------------------------------------------------------
(* Closing a socket: what stays of the lists, and where it was before. *)
Thinned(old, new, K, f) ==
  /\ f \in [DOMAIN new -> K]
  /\ \A n \in DOMAIN new : new[n] = old[f[n]]
  /\ \A k \in K : \E n \in DOMAIN new : f[n] = k
  /\ \A a, b \in DOMAIN new : (a <= b <=> f[a] <= f[b]) /\ (f[a] = f[b] => a = b)

LEMMA OnlyThins ==
  ASSUME NEW S, NEW list \in Seq(S), NEW K \in SUBSET DOMAIN list, NEW new, new = Only(list, K)
  PROVE  new \in Seq(S) /\ \E f : Thinned(list, new, K, f)
<1>1. /\ new \in Seq(S)
      /\ \A n \in DOMAIN new : Nth(K, n) \in K /\ new[n] = list[Nth(K, n)]
      /\ \A k \in K : \E n \in DOMAIN new : Nth(K, n) = k
      /\ \A m, n \in DOMAIN new : Nth(K, m) = Nth(K, n) => m = n
  BY OnlyKept
<1>2. PICK N \in Nat : DOMAIN list = 1..N
  BY LenProperties
<1>3. DOMAIN new = 1..Cardinality(K)
  BY DEF Only
<1>4. \A a, b \in DOMAIN new : a <= b <=> Nth(K, a) <= Nth(K, b)
  <2>1. K \in SUBSET (1..N)
    BY <1>2
  <2> QED BY <1>2, <1>3, <2>1, NthOrdered
<1>5. PICK f : f = [n \in DOMAIN new |-> Nth(K, n)]
  OBVIOUS
<1>6. f \in [DOMAIN new -> K] /\ \A n \in DOMAIN new : f[n] = Nth(K, n)
  BY <1>1, <1>5
<1>7. Thinned(list, new, K, f)
  BY <1>1, <1>4, <1>6 DEF Thinned
<1> QED BY <1>1, <1>7

(* The positions of the other sockets. *)
OtherEntries(q) == {i \in DOMAIN hacked : hacked[i].s # q}
OtherLimits(q)  == {i \in DOMAIN limits : limits[i].s # q}

LEMMA CloseHacked ==
  ASSUME Typed, HackedInv, Steady, NEW q, NEW f, Thinned(hacked, hacked', OtherEntries(q), f)
  PROVE  HackedInv'
<1>1. \A n \in DOMAIN hacked' : f[n] \in DOMAIN hacked /\ hacked'[n] = hacked[f[n]]
  BY DEF Thinned, OtherEntries
<1>2. Redirected'
  <2>1. SUFFICES ASSUME NEW n \in DOMAIN hacked', NEW x, x = hacked'[n] PROVE EntryOK(x)'
    BY DEF Redirected, EntryOK
  <2>2. PICK i \in DOMAIN hacked : x = hacked[i]
    BY <1>1, <2>1
  <2>3. EntryOK(x) /\ x.s \in Sockets
    BY <2>2, EntriesOK, EntryTypes DEF HackedInv
  <2> QED BY <2>3, EntryStays
<1>3. Distinct'
  <2>1. SUFFICES ASSUME NEW a \in DOMAIN hacked', NEW b \in DOMAIN hacked'
                 PROVE  /\ SameRequest(hacked'[a], hacked'[b]) => a = b
                        /\ hacked'[a].type = "dgram" /\ hacked'[a].udp.n = hacked'[b].udp.n => a = b
    BY DEF Distinct, SameRequest
  <2>2. PICK i, j \in DOMAIN hacked : i = f[a] /\ j = f[b] /\ hacked'[a] = hacked[i] /\ hacked'[b] = hacked[j]
    BY <1>1
  <2>3. i = j => a = b
    BY <2>2 DEF Thinned
  <2>4. /\ SameRequest(hacked[i], hacked[j]) => i = j
        /\ hacked[i].type = "dgram" /\ hacked[i].udp.n = hacked[j].udp.n => i = j
    BY DEF HackedInv, Distinct
  <2> QED BY <2>2, <2>3, <2>4
<1> QED BY <1>2, <1>3 DEF HackedInv

LEMMA CloseLimits ==
  ASSUME Typed, LimitsInv, setup' = setup, NEW q, NEW f, Thinned(hacked, hacked', OtherEntries(q), f),
         NEW g, Thinned(limits, limits', OtherLimits(q), g)
  PROVE  LimitsInv'
<1>1. \A n \in DOMAIN hacked' : f[n] \in DOMAIN hacked /\ hacked'[n] = hacked[f[n]] /\ hacked[f[n]].s # q
  BY DEF Thinned, OtherEntries
<1>2. \A n \in DOMAIN limits' : g[n] \in DOMAIN limits /\ limits'[n] = limits[g[n]] /\ limits[g[n]].s # q
  BY DEF Thinned, OtherLimits
<1>3. \A i \in DOMAIN hacked : hacked[i].s # q => \E n \in DOMAIN hacked' : f[n] = i
  BY DEF Thinned, OtherEntries
<1>4. \A j \in DOMAIN limits : limits[j].s # q => \E n \in DOMAIN limits' : g[n] = j
  BY DEF Thinned, OtherLimits
<1>5. Paired /\ Ordered
  BY LimitParts
<1>6. \A j \in DOMAIN limits' : \A x : x = limits'[j] => LimitOK(x)'
  <2>1. \A j \in DOMAIN limits : \A x : x = limits[j] => LimitOK(x)
    BY LimitParts
  <2>2. \A x : LimitOK(x) => LimitOK(x)'
    BY DEF LimitOK, MaxPayload, Socks5HeaderSize
  <2> QED BY <1>2, <2>1, <2>2
<1>7. Paired'
  <2>1. ASSUME NEW b \in DOMAIN limits' PROVE \E a \in DOMAIN hacked' : SameKey(hacked'[a], limits'[b])
    <3>1. PICK j \in DOMAIN limits : limits'[b] = limits[j] /\ limits[j].s # q
      BY <1>2
    <3>2. PICK i \in DOMAIN hacked : SameKey(hacked[i], limits[j])
      BY <1>5 DEF Paired
    <3>3. PICK a \in DOMAIN hacked' : f[a] = i
      BY <1>3, <3>1, <3>2 DEF SameKey
    <3> QED BY <1>1, <3>1, <3>2, <3>3
  <2>2. ASSUME NEW a \in DOMAIN hacked', hacked'[a].type = "dgram"
        PROVE \E b \in DOMAIN limits' : SameKey(hacked'[a], limits'[b])
    <3>1. PICK i \in DOMAIN hacked : hacked'[a] = hacked[i] /\ hacked[i].s # q
      BY <1>1
    <3>2. PICK j \in DOMAIN limits : SameKey(hacked[i], limits[j])
      BY <1>5, <2>2, <3>1 DEF Paired
    <3>3. PICK b \in DOMAIN limits' : g[b] = j
      BY <1>4, <3>1, <3>2 DEF SameKey
    <3> QED BY <1>2, <3>1, <3>2, <3>3
  <2> QED BY <2>1, <2>2 DEF Paired, SameKey
<1>8. Ordered'
  <2>1. SUFFICES ASSUME NEW i \in DOMAIN hacked', NEW k \in DOMAIN hacked',
                        NEW j \in DOMAIN limits', NEW l \in DOMAIN limits',
                        SameKey(hacked'[i], limits'[j]), SameKey(hacked'[k], limits'[l]), i <= k
                 PROVE  j <= l
    BY DEF Ordered, SameKey
  <2>2. SameKey(hacked[f[i]], limits[g[j]]) /\ SameKey(hacked[f[k]], limits[g[l]])
    BY <1>1, <1>2, <2>1
  <2>3. f[i] <= f[k]
    BY <2>1 DEF Thinned
  <2>4. g[j] <= g[l]
    BY <1>1, <1>2, <1>5, <2>2, <2>3 DEF Ordered
  <2> QED BY <2>4 DEF Thinned
<1> QED BY <1>6, <1>7, <1>8 DEF LimitsInv, LimitOK, Paired, Ordered

LEMMA CloseKeepsOthers ==
  ASSUME Typed, NEW q, NEW f, Thinned(hacked, hacked', OtherEntries(q), f),
         NEW g, Thinned(limits, limits', OtherLimits(q), g), NEW s, s # q
  PROVE  KeepsEntries(s) /\ KeepsFirst(s) /\ KeepsLimit(s)
<1>1. \A n \in DOMAIN hacked' : f[n] \in DOMAIN hacked /\ hacked'[n] = hacked[f[n]]
  BY DEF Thinned, OtherEntries
<1>2. \A n \in DOMAIN limits' : g[n] \in DOMAIN limits /\ limits'[n] = limits[g[n]]
  BY DEF Thinned, OtherLimits
<1>3. \A i \in DOMAIN hacked : hacked[i].s = s => \E n \in DOMAIN hacked' : f[n] = i
  BY DEF Thinned, OtherEntries
<1>4. \A j \in DOMAIN limits : limits[j].s = s => \E n \in DOMAIN limits' : g[n] = j
  BY DEF Thinned, OtherLimits
<1>5. KeepsEntries(s)
  BY <1>1, <1>3 DEF KeepsEntries
<1>6. ASSUME NEW i \in DOMAIN hacked, LeastEntry(s, i)
      PROVE  \E k \in DOMAIN hacked' : LeastEntry(s, k)' /\ hacked'[k] = hacked[i]
  <2>1. PICK k \in DOMAIN hacked' : f[k] = i
    BY <1>3, <1>6 DEF LeastEntry
  <2>2. hacked'[k] = hacked[i]
    BY <1>1, <2>1
  <2>3. ASSUME NEW b \in DOMAIN hacked', hacked'[b].s = s PROVE k <= b
    <3>1. f[k] <= f[b]
      BY <1>1, <1>6, <2>1, <2>3 DEF LeastEntry
    <3> QED BY <3>1 DEF Thinned
  <2>4. LeastEntry(s, k)'
    BY <1>6, <2>2, <2>3 DEF LeastEntry
  <2> QED BY <2>2, <2>4
<1>7. ASSUME NEW j \in DOMAIN limits, LeastLimit(s, j)
      PROVE  \E k \in DOMAIN limits' : LeastLimit(s, k)' /\ limits'[k] = limits[j]
  <2>1. PICK k \in DOMAIN limits' : g[k] = j
    BY <1>4, <1>7 DEF LeastLimit
  <2>2. limits'[k] = limits[j]
    BY <1>2, <2>1
  <2>3. ASSUME NEW b \in DOMAIN limits', limits'[b].s = s, limits'[b].connected PROVE k <= b
    <3>1. g[k] <= g[b]
      BY <1>2, <1>7, <2>1, <2>3 DEF LeastLimit
    <3> QED BY <3>1 DEF Thinned
  <2>4. LeastLimit(s, k)'
    BY <1>7, <2>2, <2>3 DEF LeastLimit
  <2> QED BY <2>2, <2>4
<1> QED BY <1>5, <1>6, <1>7 DEF KeepsFirst, KeepsLimit

LEMMA CloseSocketKeeps ==
  ASSUME HooksInv, NEW q \in Sockets, CloseSocket(q)
  PROVE  HooksInv'
<1>1. Typed /\ HackedInv /\ LimitsInv /\ SocketsInv
  BY DEF HooksInv
<1>2. UNCHANGED <<setup, nodes, top, known, call, link, up, asked, passed, log>>
  BY DEF CloseSocket, names
<1>3. hacked' = Only(hacked, OtherEntries(q)) /\ limits' = Only(limits, OtherLimits(q))
  BY DEF CloseSocket, OtherEntries, OtherLimits
<1>4. hacked' \in Seq(Entries) /\ \E f : Thinned(hacked, hacked', OtherEntries(q), f)
  <2>1. hacked \in Seq(Entries) /\ OtherEntries(q) \in SUBSET DOMAIN hacked
    BY <1>1 DEF Typed, OtherEntries
  <2> QED BY <1>3, <2>1, OnlyThins
<1>5. limits' \in Seq(LimitRecs) /\ \E g : Thinned(limits, limits', OtherLimits(q), g)
  <2>1. limits \in Seq(LimitRecs) /\ OtherLimits(q) \in SUBSET DOMAIN limits
    BY <1>1 DEF Typed, OtherLimits
  <2> QED BY <1>3, <2>1, OnlyThins
<1>6. PICK w : w = Opened(sock[q].type)
  OBVIOUS
<1>7. w \in Socks /\ w.type = sock[q].type /\ w.peer = NoAddress
  <2>1. sock[q].type \in Types
    BY <1>1 DEF Typed, Socks
  <2> QED BY <1>6, <2>1, NoAddressIs DEF Opened, Socks
<1>8. /\ sock' \in [Sockets -> Socks] /\ sock'[q] = w
      /\ \A s \in Sockets : s # q => sock'[s] = sock[s]
  BY <1>1, <1>6, <1>7 DEF CloseSocket, Typed
<1>9. \A s \in Sockets : sock'[s].type = sock[s].type
  BY <1>7, <1>8
<1>10. Steady
  BY <1>2, <1>9 DEF Steady
<1>11. PICK f : Thinned(hacked, hacked', OtherEntries(q), f)
  BY <1>4
<1>12. PICK g : Thinned(limits, limits', OtherLimits(q), g)
  BY <1>5
<1>13. HackedInv' /\ LimitsInv'
  BY <1>1, <1>2, <1>10, <1>11, <1>12, CloseHacked, CloseLimits
<1>14. SocketsInv'
  <2>1. SUFFICES ASSUME NEW s \in Sockets PROVE PeerOK(s)' /\ ShownOK(s)'
    BY DEF SocketsInv, Peers, Shown, PeerOK, ShownOK
  <2>2. CASE s = q
    BY <1>7, <1>8, <2>2, NoAddressIs DEF PeerOK, ShownOK
  <2>3. CASE s # q
    <3>1. KeepsEntries(s) /\ KeepsFirst(s) /\ KeepsLimit(s)
      BY <1>1, <1>11, <1>12, <2>3, CloseKeepsOthers
    <3>2. PeerOK(s) /\ ShownOK(s)
      BY <1>1, SocketParts
    <3> QED BY <1>2, <1>8, <2>3, <3>1, <3>2, KeptSocket
  <2> QED BY <2>2, <2>3
<1>15. Typed'
  BY <1>1, <1>2, <1>4, <1>5, <1>8 DEF Typed
<1>16. NamesInv'
  BY <1>2 DEF HooksInv, NamesInv, Counted, Noted, Looking, Fresh, Back
<1>17. Pending'
  <2>1. SUFFICES ASSUME NEW u \in Threads, NEW d \in Calls, d = call'[u] PROVE Asks(d)'
    BY DEF Pending
  <2>2. Asks(d)
    BY <1>2, <2>1 DEF HooksInv, Pending
  <2>3. d.s \in Sockets => sock'[d.s].type = sock[d.s].type
    BY <1>9
  <2> QED BY <1>2, <2>2, <2>3 DEF Asks, Meant, Fresh, Unblocked, ShouldBlock, IsUdpAllowedLoopback, IsLoopback, IsDummy
<1>18. AskedInv'
  BY <1>2 DEF HooksInv, AskedInv, Meant, Fresh, IsDummy
<1>19. PassedInv'
  <2>1. \A p \in passed' : LeaksNot(p)' /\ Roomy(p)'
    BY <1>2, PassedParts, PassedStays DEF HooksInv
  <2> QED BY <2>1 DEF PassedInv, NoLeak, PayloadFits, LeaksNot, Roomy, Direct, Unblocked
<1>20. LogInv'
  BY <1>2 DEF HooksInv, LogInv, LogOK
<1> QED BY <1>13, <1>14, <1>15, <1>16, <1>17, <1>18, <1>19, <1>20 DEF HooksInv

-----------------------------------------------------------------------------
(* The start. *)
LEMMA HooksInit ==
  ASSUME Init
  PROVE  HooksInv
<1>1. setup \in Setups /\ IsSetup(setup)
  BY HooksAssumption DEF Init
<1>2. /\ nodes = <<>> /\ hacked = <<>> /\ limits = <<>> /\ known = {} /\ asked = {} /\ passed = {}
      /\ top = setup.top /\ link = "none" /\ up = TRUE
  BY DEF Init
<1>3. DOMAIN nodes = {} /\ DOMAIN hacked = {} /\ DOMAIN limits = {}
  BY <1>2
<1>4. sock \in [Sockets -> Socks] /\ \A s \in Sockets : sock[s].peer = NoAddress
  <2>1. \A s \in Sockets : setup.types[s] \in Types
    BY <1>1 DEF IsSetup, Types
  <2>2. \A y \in Types : Opened(y) \in Socks /\ Opened(y).peer = NoAddress
    BY NoAddressIs DEF Opened, Socks
  <2>3. sock = [s \in Sockets |-> Opened(setup.types[s])]
    BY DEF Init
  <2> QED BY <2>1, <2>2, <2>3
<1>5. call \in [Threads -> Calls] /\ \A t \in Threads : call[t] = Idle
  BY IdleCall DEF Init
<1>6. PICK E : E = [i \in 1..Capacity |-> Unused]
  OBVIOUS
<1>7. log = [now |-> 0, start |-> 0, count |-> 0, entries |-> E, lines |-> {}]
  BY <1>6 DEF Init
<1>8. E \in [1..Capacity -> Slots] /\ \A i \in 1..Capacity : E[i].used = FALSE
  <2>1. Unused \in Slots /\ Unused.used = FALSE
    BY NoAddressIs DEF Unused, Slots
  <2> QED BY <1>6, <2>1
<1>9. log \in Logs
  BY <1>7, <1>8 DEF Logs
<1>10. LogInv
  <2>1. log.count = 0 /\ log.start = 0 /\ log.now = 0 /\ log.lines = {} /\ log.entries = E
    BY <1>7
  <2>2. IsFiniteSet({}) /\ Cardinality({}) = 0
    BY FS_EmptySet
  <2>3. {l \in log.lines : l.window = log.start} = {}
    BY <2>1
  <2>4. \A i, j \in 1..Capacity :
          log.entries[i].used /\ log.entries[j].used /\ log.entries[i].dst = log.entries[j].dst => i = j
    BY <1>8, <2>1
  <2>5. 0 <= MaxPerInterval
    BY HooksAssumption
  <2> QED BY <2>1, <2>2, <2>3, <2>4, <2>5 DEF LogInv, LogOK
<1>11. Typed
  <2>1. top \in 0..DummyRange
    BY <1>1, <1>2 DEF IsSetup
  <2>2. nodes \in Seq(Nodes) /\ hacked \in Seq(Entries) /\ limits \in Seq(LimitRecs)
    BY <1>2
  <2> QED BY <1>1, <1>2, <1>4, <1>5, <1>9, <2>1, <2>2 DEF Typed
<1>12. NamesInv
  BY <1>2, <1>3, <1>5, IdleCall DEF NamesInv, Counted, Noted, Looking
<1>13. Pending
  BY <1>5, IdleCall DEF Pending, Asks
<1>14. AskedInv /\ HackedInv /\ LimitsInv
  BY <1>2, <1>3 DEF AskedInv, HackedInv, Redirected, Distinct, LimitsInv
<1>15. SocketsInv
  BY <1>4, NoAddressIs DEF SocketsInv, Peers, Shown
<1>16. PassedInv
  BY <1>2 DEF PassedInv, NoLeak, PayloadFits
<1> QED BY <1>10, <1>11, <1>12, <1>13, <1>14, <1>15, <1>16 DEF HooksInv

LEMMA HooksStep ==
  ASSUME HooksInv, [Next]_hvars
  PROVE  HooksInv'
<1>1. CASE UNCHANGED hvars
  <2>1. CalmStep
    BY <1>1, CallKept DEF HooksInv, Typed, LogInv, hvars, CalmStep, CalmSocks, CalmPassed, CalmLog
  <2> QED BY <2>1, CalmKeeps
<1>2. ASSUME NEW t \in Threads, NEW h \in Hosts, NEW fam \in setup.families, Resolve(t, h, fam) PROVE HooksInv'
  BY <1>2, ResolveNames, GrowsKeeps DEF HooksInv
<1>3. ASSUME NEW t \in Threads, GetDummyIP(t) PROVE HooksInv'
  BY <1>3, GetDummyIPNames, GrowsKeeps DEF HooksInv
<1>4. ASSUME NEW t \in Threads, GetDummyIPv6(t) PROVE HooksInv'
  BY <1>4, GetDummyIPv6Names, GrowsKeeps DEF HooksInv
<1>5. ASSUME NEW t \in Threads, HackConnect(t) PROVE HooksInv'
  BY <1>5, HackConnectKeeps
<1>6. ASSUME NEW t \in Threads, HackSendTo(t) PROVE HooksInv'
  BY <1>6, HackSendToKeeps
<1>7. ASSUME NEW t \in Threads, NEW s \in Sockets, NEW d \in Targets(s), Connect(t, s, d) PROVE HooksInv'
  BY <1>7, ConnectCalm, CalmKeeps
<1>8. ASSUME NEW t \in Threads, NEW s \in Sockets, NEW size \in setup.sizes,
             NEW d \in Targets(s) \cup {NoAddress}, SendTo(t, s, d, size) PROVE HooksInv'
  BY <1>8, SendToCalm, CalmKeeps
<1>9. ASSUME NEW s \in Sockets, CloseSocket(s) PROVE HooksInv'
  BY <1>9, CloseSocketKeeps
<1>10. CASE Service
  BY <1>10, ServiceCalm, CalmKeeps
<1>11. CASE Tick
  BY <1>11, TickCalm, CalmKeeps
<1> QED BY <1>1, <1>2, <1>3, <1>4, <1>5, <1>6, <1>7, <1>8, <1>9, <1>10, <1>11 DEF Next

-----------------------------------------------------------------------------
LEMMA HooksTyped ==
  ASSUME HooksInv
  PROVE  HooksTypeOK
<1>1. Typed /\ HackedInv /\ LimitsInv
  BY DEF HooksInv
<1>2. \A i \in DOMAIN nodes : nodes[i].host \in Hosts /\ nodes[i].n \in 0..DummyRange
  BY <1>1, NodeTypes DEF Nodes
<1>3. \A i \in DOMAIN hacked : hacked[i].s \in Sockets /\ hacked[i].type = sock[hacked[i].s].type
  BY <1>1, EntryTypes DEF HackedInv, Redirected
<1>4. ASSUME NEW j \in DOMAIN limits PROVE limits[j].max \in 0..NoLimit /\ sock[limits[j].s].type = "dgram"
  <2>1. PICK i \in DOMAIN hacked : SameKey(hacked[i], limits[j])
    BY <1>1 DEF LimitsInv
  <2>2. sock[limits[j].s].type = "dgram"
    BY <1>3, <2>1 DEF SameKey
  <2>3. limits[j] \in LimitRecs
    BY <1>1, LimitTypes
  <2>4. PICK X : X = 0..NoLimit
    OBVIOUS
  <2>5. limits[j].max \in X
    BY <2>3, <2>4 DEF LimitRecs
  <2> QED BY <2>2, <2>4, <2>5
<1>5. \A t \in Threads : call[t].st \in {"idle", "insert", "six", "connect", "send"}
  BY <1>1 DEF Typed, Calls
<1> QED BY <1>1, <1>2, <1>3, <1>4, <1>5 DEF HooksTypeOK, Typed

LEMMA PeerIsHidden ==
  ASSUME HooksInv
  PROVE  PeerHidden
<1>1. Typed /\ HackedInv /\ SocketsInv
  BY DEF HooksInv
<1>2. SUFFICES ASSUME NEW s \in Sockets, sock[s].type = "stream", sock[s].peer.at = "prc", ~sock[s].again
               PROVE  PeerName(s) = sock[s].want
  BY DEF PeerHidden
<1>3. PICK i \in DOMAIN hacked : hacked[i].s = s /\ hacked[i].dst = sock[s].want
                                 /\ \A k \in DOMAIN hacked : hacked[k].s = s => i <= k
  BY <1>1, <1>2 DEF SocketsInv, Shown
<1>4. PICK I : I = {k \in DOMAIN hacked : hacked[k].s = s}
  OBVIOUS
<1>5. I \in SUBSET DOMAIN hacked /\ i \in I /\ GetInfo(s) = Found(I)
  BY <1>3, <1>4 DEF GetInfo
<1>6. PICK f \in I : Found(I) = hacked[f] /\ f <= i
  BY <1>1, <1>5, FoundIn
<1>7. f = i
  <2>1. i <= f
    BY <1>3, <1>4, <1>6
  <2>2. DOMAIN hacked \in SUBSET (Nat \ {0})
    BY <1>1, FirstOf DEF Typed
  <2> QED BY <1>5, <1>6, <2>1, <2>2
<1>8. hacked[i].type = "stream"
  BY <1>1, <1>2, <1>3 DEF HackedInv, Redirected
<1> QED BY <1>3, <1>5, <1>6, <1>7, <1>8 DEF PeerName

LEMMA RequestsAreTrue ==
  ASSUME HooksInv
  PROVE  RequestsTrue
<1>1. AnswersMapBack
  BY KnownName DEF HooksInv, AnswersMapBack, Fresh
<1>2. NamesTrue
  BY DEF HooksInv, NamesTrue, AskedInv, Meant, Fresh
<1> QED BY <1>1, <1>2 DEF RequestsTrue, HooksInv, PassedInv

LEMMA CallsAreRouted ==
  ASSUME HooksInv
  PROVE  HooksTypeOK /\ NoLeak /\ PeerHidden /\ RouteNotRegistered /\ LogSpaced
<1>1. RouteNotRegistered
  BY DEF HooksInv, AskedInv, Meant, RouteNotRegistered
<1>2. LogSpaced
  BY DEF HooksInv, LogInv, LogOK, LogSpaced
<1> QED BY <1>1, <1>2, HooksTyped, PeerIsHidden DEF HooksInv, PassedInv

(* The end of a connect. *)
LEMMA ConnectEnds ==
  ASSUME HooksInv, Next, NEW t \in Threads, call[t].st = "connect", call'[t].st = "idle",
         link = "dead"
  PROVE  link' # "dead"
<1>1. call \in [Threads -> Calls]
  BY DEF HooksInv, Typed
<1>2. \A u \in Threads : \A c : call' = [call EXCEPT ![u] = c] => u = t \/ call'[t] = call[t]
  BY <1>1
<1>3. call' # call
  OBVIOUS
<1>4. ASSUME NEW u \in Threads, NEW c, call' = [call EXCEPT ![u] = c], call[u].st # "connect" PROVE FALSE
  BY <1>2, <1>4
<1>5. ASSUME NEW u \in Threads, NEW h \in Hosts, NEW fam \in setup.families, Resolve(u, h, fam) PROVE FALSE
  <2>1. call[u].st = "idle" /\ (call' = call \/ \E c : call' = [call EXCEPT ![u] = c])
    BY <1>5 DEF Resolve
  <2> QED BY <1>3, <1>4, <2>1
<1>6. ASSUME NEW u \in Threads, GetDummyIP(u) PROVE FALSE
  <2>1. call[u].st = "insert" /\ \E c : call' = [call EXCEPT ![u] = c]
    BY <1>6 DEF GetDummyIP
  <2> QED BY <1>4, <2>1
<1>7. ASSUME NEW u \in Threads, GetDummyIPv6(u) PROVE FALSE
  <2>1. call[u].st = "six" /\ \E c : call' = [call EXCEPT ![u] = c]
    BY <1>7 DEF GetDummyIPv6
  <2> QED BY <1>4, <2>1
<1>8. ASSUME NEW u \in Threads, HackConnect(u) PROVE link' # "dead"
  <2>1. Ensured # "good"
    BY DEF Ensured
  <2> QED BY <1>8, <2>1 DEF HackConnect, Disconnected
<1>9. ASSUME NEW u \in Threads, HackSendTo(u) PROVE FALSE
  <2>1. call[u].st = "send" /\ \E c : call' = [call EXCEPT ![u] = c]
    BY <1>9 DEF HackSendTo, Return
  <2> QED BY <1>4, <2>1
<1>10. ASSUME NEW u \in Threads, NEW s \in Sockets, NEW d, Connect(u, s, d) PROVE FALSE
  <2>1. call[u].st = "idle" /\ (call' = call \/ \E c : call' = [call EXCEPT ![u] = c])
    BY <1>10 DEF Connect
  <2> QED BY <1>3, <1>4, <2>1
<1>11. ASSUME NEW u \in Threads, NEW s \in Sockets, NEW d, NEW size, SendTo(u, s, d, size) PROVE FALSE
  <2>1. call[u].st = "idle" /\ (call' = call \/ \E c : call' = [call EXCEPT ![u] = c])
    BY <1>11 DEF SendTo
  <2> QED BY <1>3, <1>4, <2>1
<1>12. ~Service /\ ~Tick /\ \A s \in Sockets : ~CloseSocket(s)
  BY <1>3 DEF Service, Tick, CloseSocket
<1> QED BY <1>5, <1>6, <1>7, <1>8, <1>9, <1>10, <1>11, <1>12 DEF Next

(* What the service is asked for is what the program meant, for any        *)
(* threads, sockets, names and settings: an address that was handed out    *)
(* leads back to its name (CDummyDNS), the name goes into the request      *)
(* (HackConnect, HackSendTo), and a datagram that was accepted leaves room *)
(* for its header (SetUDPMaxPayload).                                      *)
THEOREM RequestsHold == Spec => []RequestsTrue
<1>1. Init => HooksInv
  BY HooksInit
<1>2. HooksInv /\ [Next]_hvars => HooksInv'
  BY HooksStep
<1>3. HooksInv => RequestsTrue
  BY RequestsAreTrue
<1> QED BY <1>1, <1>2, <1>3, PTL DEF Spec

(* Every call goes where the settings say, for any threads, sockets and    *)
(* settings: nothing that is to be proxied or blocked leaves directly      *)
(* (CanHackIt), getpeername shows the destination, the route of the        *)
(* service is never registered, the log is spaced (CUdpBlockLogLimiter),   *)
(* and a connect never leaves the dead pipe it found (HackConnect).        *)
THEOREM CallsHold == Spec => CallsRouted
<1>1. Init => HooksInv
  BY HooksInit
<1>2. HooksInv /\ [Next]_hvars => HooksInv'
  BY HooksStep
<1>3. HooksInv => HooksTypeOK /\ NoLeak /\ PeerHidden /\ RouteNotRegistered /\ LogSpaced
  BY CallsAreRouted
<1>4. HooksInv /\ [Next]_hvars
      => [\A t \in Threads : call[t].st = "connect" /\ call'[t].st = "idle" /\ link = "dead"
             => link' # "dead"]_hvars
  BY ConnectEnds
<1> QED BY <1>1, <1>2, <1>3, <1>4, PTL DEF Spec, CallsRouted, ConnectReopens

-----------------------------------------------------------------------------
(* Launcher.                                                               *)

(* What the constants stand for: a launch is of one of the four kinds, and *)
(* an attachment is tried at least once.                                   *)
Launches ==
  /\ Attempts \in Nat \ {0}
  /\ \A r \in Requests : r.kind \in {"invalid", "shortcut", "package", "program"}

-----------------------------------------------------------------------------
(* The inductive invariant: what is known at each stage of the one process *)
(* that a launch starts.                                                   *)

Before == {"begin", "create", "elevate", "activate", "helper"}
During == {"inject", "resume", "authorize", "freeze", "attach", "thaw", "wait",
           "helperInject", "helperResume"}

Fields == {"how", "alive", "frozen", "hooked", "attached"}
IsProcess(p) ==
  /\ p = [f \in Fields |-> p[f]]
  /\ p.alive \in BOOLEAN /\ p.frozen \in BOOLEAN /\ p.hooked \in BOOLEAN /\ p.attached \in BOOLEAN

Fits(p) ==
  /\ IsProcess(p) /\ p.alive
  /\ stage \in {"inject", "resume"} => p.how = "create"
  /\ stage \in {"helperInject", "helperResume"} => p.how = "elevated"
  /\ stage \in During \ {"inject", "resume", "helperInject", "helperResume"} =>
        p.how \in {"activate", "found"}
  /\ stage = "resume" => p.hooked \/ ~request.strict
  /\ stage = "helperResume" => p.hooked
  /\ stage \in {"authorize", "freeze", "wait"} => ~p.frozen
  /\ stage \notin {"thaw", "wait"} => ~p.attached
  /\ stage = "thaw" /\ p.attached => p.hooked

Ended(p) ==
  /\ IsProcess(p) /\ p.how \in {"create", "activate", "found", "elevated"}
  /\ ~stuck /\ p.alive => ~p.frozen
  /\ verdict = "SUCCESS" => p.alive /\ (p.hooked \/ (p.how = "create" /\ ~request.strict))
  /\ verdict # "SUCCESS" /\ ~stuck /\ p.how \in {"create", "elevated"} => ~p.alive

LInv ==
  /\ request \in Requests /\ stage \in Before \cup During \cup {"end"} /\ stuck \in BOOLEAN
  /\ (verdict # "none") = (stage = "end")
  /\ tries \in 0..Attempts
  /\ stage \in Before \cup {"authorize", "freeze"} => tries = 0
  /\ stage = "attach" => tries < Attempts
  /\ stage \in Before => target = <<>>
  /\ stage \in During => \E p : target = <<p>> /\ Fits(p)
  /\ stage = "end" => \/ target = <<>> /\ verdict # "SUCCESS"
                      \/ \E p : target = <<p>> /\ Ended(p)

-----------------------------------------------------------------------------
(* The only process of a launch, and a change of one of its fields. *)
LEMMA OnlyOne ==
  ASSUME NEW p, target = <<p>>
  PROVE  Len(target) = 1 /\ target[1] = p /\ Now = p
BY DEF Now

LEMMA ChangeOne ==
  ASSUME NEW p, target = <<p>>, IsProcess(p), NEW f \in Fields \ {"how"}, NEW v \in BOOLEAN
  PROVE  \E q : /\ Change(f, v) = <<q>> /\ IsProcess(q) /\ q[f] = v
                /\ \A g \in Fields \ {f} : q[g] = p[g]
<1>1. PICK q : q = [p EXCEPT ![f] = v]
  OBVIOUS
<1>2. IsProcess(q) /\ q[f] = v /\ \A g \in Fields \ {f} : q[g] = p[g]
  BY <1>1 DEF IsProcess, Fields
<1>3. Change(f, v) = <<q>>
  <2>1. Change(f, v) = [target EXCEPT ![1] = q]
    BY <1>1, OnlyOne DEF Change
  <2>2. target \in Seq({p}) /\ DOMAIN target = {1}
    OBVIOUS
  <2>3. [target EXCEPT ![1] = q] = <<q>>
    BY <2>2
  <2> QED BY <2>1, <2>3
<1> QED BY <1>2, <1>3

(* The three changes the steps make. *)
LEMMA KilledOne ==
  ASSUME NEW p, target = <<p>>, IsProcess(p)
  PROVE  \E q : Killed = <<q>> /\ IsProcess(q) /\ ~q.alive /\ q.how = p.how
<1>1. "alive" \in Fields \ {"how"} /\ FALSE \in BOOLEAN
  BY DEF Fields
<1>2. PICK q : /\ Change("alive", FALSE) = <<q>> /\ IsProcess(q) /\ q["alive"] = FALSE
               /\ \A g \in Fields \ {"alive"} : q[g] = p[g]
  BY <1>1, ChangeOne
<1> QED BY <1>2 DEF Killed, Fields

LEMMA Changes ==
  ASSUME NEW p, target = <<p>>, IsProcess(p), NEW v \in BOOLEAN
  PROVE  /\ \E q : /\ Change("frozen", v) = <<q>> /\ IsProcess(q) /\ q.frozen = v /\ q.how = p.how
                   /\ q.alive = p.alive /\ q.hooked = p.hooked /\ q.attached = p.attached
         /\ \E q : /\ Change("hooked", v) = <<q>> /\ IsProcess(q) /\ q.hooked = v /\ q.how = p.how
                   /\ q.alive = p.alive /\ q.frozen = p.frozen /\ q.attached = p.attached
<1>1. PICK q : /\ Change("frozen", v) = <<q>> /\ IsProcess(q) /\ q["frozen"] = v
               /\ \A g \in Fields \ {"frozen"} : q[g] = p[g]
  <2>1. "frozen" \in Fields \ {"how"}
    BY DEF Fields
  <2> QED BY <2>1, ChangeOne
<1>2. PICK r : /\ Change("hooked", v) = <<r>> /\ IsProcess(r) /\ r["hooked"] = v
               /\ \A g \in Fields \ {"hooked"} : r[g] = p[g]
  <2>1. "hooked" \in Fields \ {"how"}
    BY DEF Fields
  <2> QED BY <2>1, ChangeOne
<1> QED BY <1>1, <1>2 DEF Fields

LEMMA NewOne ==
  ASSUME NEW how, NEW frozen \in BOOLEAN, NEW hooked \in BOOLEAN, target = <<>>
  PROVE  \E q : /\ Append(target, Process(how, frozen, hooked)) = <<q>> /\ IsProcess(q) /\ q.alive
                /\ q.how = how /\ q.frozen = frozen /\ q.hooked = hooked /\ ~q.attached
<1>1. PICK q : q = Process(how, frozen, hooked)
  OBVIOUS
<1>2. IsProcess(q) /\ q.alive /\ q.how = how /\ q.frozen = frozen /\ q.hooked = hooked /\ ~q.attached
  BY <1>1 DEF Process, IsProcess, Fields
<1>3. Append(target, q) = <<q>>
  OBVIOUS
<1> QED BY <1>1, <1>2, <1>3

LEMMA Outcomes ==
  ASSUME NEW step
  PROVE  May(step) \subseteq BOOLEAN
BY DEF May

LEMMA Translated ==
  ASSUME NEW code \in {"INVALID_TARGET", "INJECTION_FAILED", "CREATE_FAILED", "INVALID_REQUEST",
                       "NOT_ELEVATED", "RESUME_FAILED", "killed"}
  PROVE  Translate(code) \notin {"SUCCESS", "none"} /\ Translate("SUCCESS") = "SUCCESS"
BY DEF Translate

-----------------------------------------------------------------------------
(* The four ways a step leaves the launch. *)

LEMMA GoesBefore ==
  ASSUME LInv, NEW s \in Before, Go(s), stage \in Before,
         UNCHANGED <<request, tries, target, stuck>>
  PROVE  LInv'
BY DEF LInv, Go, Before, During

LEMMA GoesDuring ==
  ASSUME LInv, NEW s \in During, Go(s), stage # "end", request' = request, stuck' = stuck,
         tries' \in 0..Attempts, s \in {"authorize", "freeze"} => tries' = 0,
         s = "attach" => tries' < Attempts,
         NEW q, target' = <<q>>, Fits(q)'
  PROVE  LInv'
BY DEF LInv, Go, Before, During

LEMMA EndsWithNone ==
  ASSUME LInv, NEW r, Finish(r), r \notin {"none", "SUCCESS"}, stage \in Before,
         stuck' \in BOOLEAN, UNCHANGED <<request, tries, target>>
  PROVE  LInv'
BY DEF LInv, Finish, Before, During

LEMMA EndsWithOne ==
  ASSUME LInv, NEW r, Finish(r), r # "none", stuck' \in BOOLEAN,
         UNCHANGED <<request, tries>>, NEW q, target' = <<q>>, Ended(q)'
  PROVE  LInv'
BY DEF LInv, Finish, Before, During

-----------------------------------------------------------------------------
(* The steps. *)

LEMMA InitHolds == Launches /\ LaunchInit => LInv
<1> SUFFICES ASSUME Launches, LaunchInit PROVE LInv
  OBVIOUS
<1>1. tries = 0 /\ tries \in 0..Attempts
  BY DEF Launches, LaunchInit
<1> QED BY <1>1 DEF LaunchInit, LInv, Before, During

LEMMA BeginStep == Launches /\ LInv /\ LaunchAndProxyApp => LInv'
<1> SUFFICES ASSUME Launches, LInv, LaunchAndProxyApp PROVE LInv'
  OBVIOUS
<1>0. stage = "begin" /\ UNCHANGED <<request, tries, target, stuck>> /\ stuck' \in BOOLEAN
  BY DEF LaunchAndProxyApp, LInv
<1>1. request.kind \in {"invalid", "shortcut", "package", "program"}
  BY DEF LInv, Launches
<1>2. \/ Finish("INVALID_TARGET") \/ Go("activate") \/ Go("elevate") \/ Go("create")
  BY <1>1 DEF LaunchAndProxyApp
<1> QED BY <1>0, <1>2, GoesBefore, EndsWithNone DEF Before

LEMMA CreateStep == LInv /\ Create => LInv'
<1> SUFFICES ASSUME LInv, Create PROVE LInv'
  OBVIOUS
<1>0. stage = "create" /\ request' = request /\ tries' = tries /\ stuck' = stuck
  BY DEF Create
<1>1. target = <<>> /\ stage \in Before /\ tries = 0 /\ stuck \in BOOLEAN /\ tries \in 0..Attempts
  BY <1>0 DEF LInv, Before
<1>2. CASE Started("create") /\ Go("inject")
  <2>1. PICK q : target' = <<q>> /\ IsProcess(q) /\ q.alive /\ q.how = "create" /\ ~q.attached
    BY <1>1, <1>2, NewOne DEF Started
  <2>2. Fits(q)'
    BY <1>2, <2>1 DEF Fits, Go, During
  <2> QED BY <1>0, <1>1, <1>2, <2>1, <2>2, GoesDuring DEF During, Before
<1>3. CASE target' = target /\ (Go("elevate") \/ Go("activate") \/ Finish("CREATE_PROCESS_FAILED"))
  BY <1>0, <1>1, <1>3, GoesBefore, EndsWithNone DEF Before
<1> QED BY <1>2, <1>3 DEF Create

(* A process of a launch under way, and the stage it is at. *)
LEMMA UnderWay ==
  ASSUME LInv, stage \in During
  PROVE  /\ \E p : target = <<p>> /\ Now = p /\ Fits(p) /\ IsProcess(p) /\ p.alive
         /\ stage # "end" /\ tries \in 0..Attempts /\ stuck \in BOOLEAN
BY OnlyOne DEF LInv, Fits, During, Before

LEMMA InjectStep == LInv /\ Inject => LInv'
<1> SUFFICES ASSUME LInv, Inject PROVE LInv'
  OBVIOUS
<1>0. stage = "inject" /\ request' = request /\ tries' = tries /\ stuck' = stuck
  BY DEF Inject
<1>1. PICK p : target = <<p>> /\ ~p.attached /\ IsProcess(p) /\ p.alive /\ p.how = "create"
  BY <1>0, UnderWay DEF During, Fits
<1>2. tries \in 0..Attempts /\ stuck \in BOOLEAN
  BY DEF LInv
<1>3. PICK ok \in BOOLEAN : IF GivesUp(ok) THEN target' = Killed /\ Finish("INJECTION_FAILED")
                            ELSE target' = Change("hooked", ok) /\ Go("resume")
  BY Outcomes DEF Inject
<1>4. CASE GivesUp(ok)
  <2>1. PICK q : target' = <<q>> /\ IsProcess(q) /\ ~q.alive /\ q.how = p.how
    BY <1>1, <1>3, <1>4, KilledOne
  <2>2. Ended(q)'
    BY <1>1, <1>3, <1>4, <2>1 DEF Ended, Finish
  <2> QED BY <1>0, <1>2, <1>3, <1>4, <2>1, <2>2, EndsWithOne
<1>5. CASE ~GivesUp(ok)
  <2>1. PICK q : /\ target' = <<q>> /\ IsProcess(q) /\ q.alive /\ q.how = p.how
                 /\ q.hooked = ok /\ ~q.attached
    BY <1>1, <1>3, <1>5, Changes
  <2>2. Fits(q)'
    BY <1>0, <1>1, <1>3, <1>5, <2>1 DEF Fits, Go, GivesUp, During
  <2> QED BY <1>0, <1>2, <1>3, <1>5, <2>1, <2>2, GoesDuring DEF During
<1> QED BY <1>4, <1>5

LEMMA ResumeStep == LInv /\ Resume => LInv'
<1> SUFFICES ASSUME LInv, Resume PROVE LInv'
  OBVIOUS
<1>0. stage = "resume" /\ request' = request /\ tries' = tries /\ stuck' = stuck
  BY DEF Resume
<1>1. PICK p : /\ target = <<p>> /\ IsProcess(p) /\ p.alive /\ p.how = "create"
               /\ p.hooked \/ ~request.strict
  BY <1>0, UnderWay DEF During, Fits
<1>2. tries \in 0..Attempts /\ stuck \in BOOLEAN
  BY DEF LInv
<1>3. PICK ok \in BOOLEAN : IF ok THEN target' = Change("frozen", FALSE) /\ Finish("SUCCESS")
                            ELSE target' = EndFrozen /\ Finish("CREATE_PROCESS_FAILED")
  BY Outcomes DEF Resume
<1>4. CASE ok
  <2>1. PICK q : target' = <<q>> /\ IsProcess(q) /\ q.alive /\ q.how = p.how /\ q.hooked = p.hooked /\ ~q.frozen
    <3>1. FALSE \in BOOLEAN
      OBVIOUS
    <3>2. \E q : /\ Change("frozen", FALSE) = <<q>> /\ IsProcess(q) /\ q.frozen = FALSE /\ q.how = p.how
                 /\ q.alive = p.alive /\ q.hooked = p.hooked /\ q.attached = p.attached
      BY <1>1, <3>1, Changes, ZenonT(60)
    <3> QED BY <1>1, <1>3, <1>4, <3>2
  <2>2. Ended(q)'
    BY <1>0, <1>1, <1>3, <1>4, <2>1 DEF Ended, Finish
  <2> QED BY <1>0, <1>2, <1>3, <1>4, <2>1, <2>2, EndsWithOne
<1>5. CASE ~ok
  <2>1. PICK q : target' = <<q>> /\ IsProcess(q) /\ ~q.alive /\ q.how = p.how
    BY <1>1, <1>3, <1>5, KilledOne DEF EndFrozen
  <2>2. Ended(q)'
    BY <1>1, <1>3, <1>5, <2>1 DEF Ended, Finish
  <2> QED BY <1>0, <1>2, <1>3, <1>5, <2>1, <2>2, EndsWithOne
<1> QED BY <1>4, <1>5

LEMMA ActivateStep == LInv /\ ActivatePackagedApp => LInv'
<1> SUFFICES ASSUME LInv, ActivatePackagedApp PROVE LInv'
  OBVIOUS
<1>0. stage = "activate" /\ request' = request /\ tries' = tries /\ stuck' = stuck
  BY DEF ActivatePackagedApp
<1>1. target = <<>> /\ stage \in Before /\ tries = 0 /\ stuck \in BOOLEAN /\ tries \in 0..Attempts
  BY <1>0 DEF LInv, Before
<1>2. CASE \E old : /\ target' = Append(target, Process(IF old = "none" THEN "activate" ELSE "found",
                                                       FALSE, old = "hooked"))
                    /\ Go("authorize")
  <2>1. PICK how \in {"activate", "found"}, frozen \in BOOLEAN, hooked \in BOOLEAN :
           target' = Append(target, Process(how, frozen, hooked)) /\ ~frozen /\ Go("authorize")
    BY <1>2
  <2>2. PICK q : target' = <<q>> /\ IsProcess(q) /\ q.alive /\ q.how = how /\ ~q.frozen /\ ~q.attached
    BY <1>1, <2>1, NewOne
  <2>3. Fits(q)'
    BY <2>1, <2>2 DEF Fits, Go, During
  <2> QED BY <1>0, <1>1, <2>1, <2>2, <2>3, GoesDuring DEF During, Before
<1>3. CASE target' = target /\ AfterPackaged("CREATE_PROCESS_FAILED")
  <2>1. Finish("CREATE_PROCESS_FAILED") \/ Go("elevate") \/ Go("create")
    BY <1>3 DEF AfterPackaged
  <2> QED BY <1>0, <1>1, <1>3, <2>1, GoesBefore, EndsWithNone DEF Before
<1> QED BY <1>2, <1>3 DEF ActivatePackagedApp

(* A packaged application that was activated is never started again. *)
LEMMA PackagedEnds ==
  ASSUME NEW r \in {"SUCCESS", "PACKAGED_INJECTION_FAILED"}, AfterPackaged(r)
  PROVE  Finish(r)
BY DEF AfterPackaged

LEMMA AuthorizeStep == LInv /\ Authorize => LInv'
<1> SUFFICES ASSUME LInv, Authorize PROVE LInv'
  OBVIOUS
<1>0. stage = "authorize" /\ UNCHANGED <<request, tries, target, stuck>>
  BY DEF Authorize
<1>1. PICK p : /\ target = <<p>> /\ Now = p /\ IsProcess(p) /\ p.alive
               /\ p.how \in {"activate", "found"} /\ ~p.frozen /\ ~p.attached
  BY <1>0, UnderWay DEF During, Fits
<1>2. tries \in 0..Attempts /\ stuck \in BOOLEAN /\ tries = 0
  BY <1>0 DEF LInv
<1>3. CASE AfterPackaged("PACKAGED_INJECTION_FAILED")
  <2>1. Finish("PACKAGED_INJECTION_FAILED")
    BY <1>3, PackagedEnds
  <2>2. Ended(p)'
    BY <1>1, <2>1 DEF Ended, Finish
  <2> QED BY <1>0, <1>1, <1>2, <2>1, <2>2, EndsWithOne
<1>4. CASE Now.hooked /\ AfterPackaged("SUCCESS")
  <2>1. Finish("SUCCESS")
    BY <1>4, PackagedEnds
  <2>2. Ended(p)'
    BY <1>1, <1>4, <2>1 DEF Ended, Finish
  <2> QED BY <1>0, <1>1, <1>2, <2>1, <2>2, EndsWithOne
<1>5. CASE Go("freeze")
  <2>1. Fits(p)'
    BY <1>1, <1>5 DEF Fits, Go, During
  <2> QED BY <1>0, <1>1, <1>2, <1>5, <2>1, GoesDuring DEF During
<1> QED BY <1>3, <1>4, <1>5 DEF Authorize

LEMMA FreezeStep == Launches /\ LInv /\ Freeze => LInv'
<1> SUFFICES ASSUME Launches, LInv, Freeze PROVE LInv'
  OBVIOUS
<1>0. stage = "freeze" /\ request' = request /\ tries' = tries /\ stuck' = stuck /\ Go("attach")
  BY DEF Freeze
<1>1. PICK p : /\ target = <<p>> /\ IsProcess(p) /\ p.alive /\ p.how \in {"activate", "found"}
               /\ ~p.attached
  BY <1>0, UnderWay DEF During, Fits
<1>2. tries \in 0..Attempts /\ stuck \in BOOLEAN /\ tries = 0 /\ tries < Attempts
  BY <1>0 DEF LInv, Launches
<1>3. PICK ok \in BOOLEAN : target' = Change("frozen", ok)
  BY Outcomes DEF Freeze
<1>4. PICK q : target' = <<q>> /\ IsProcess(q) /\ q.alive /\ q.how = p.how /\ ~q.attached
  BY <1>1, <1>3, Changes
<1>5. Fits(q)'
  BY <1>0, <1>1, <1>4 DEF Fits, Go, During
<1> QED BY <1>0, <1>2, <1>4, <1>5, GoesDuring DEF During

LEMMA AttachStep == Launches /\ LInv /\ Attach => LInv'
<1> SUFFICES ASSUME Launches, LInv, Attach PROVE LInv'
  OBVIOUS
<1>0. stage = "attach" /\ request' = request /\ tries' = tries + 1 /\ stuck' = stuck
  BY DEF Attach
<1>1. PICK p : target = <<p>> /\ IsProcess(p) /\ p.alive /\ p.how \in {"activate", "found"} /\ Fits(p)
  BY <1>0, UnderWay DEF During, Fits
<1>2. tries \in 0..Attempts /\ stuck \in BOOLEAN /\ tries < Attempts /\ Attempts \in Int
  BY <1>0 DEF LInv, Launches
<1>3. tries' \in 0..Attempts
  BY <1>0, <1>2
<1>4. PICK ok \in BOOLEAN :
        /\ target' = IF ok THEN [target EXCEPT ![Len(target)] = [@ EXCEPT !.hooked = TRUE, !.attached = TRUE]]
                     ELSE target
        /\ IF ok \/ LastTry(tries') THEN Go("thaw") ELSE Go("attach")
  BY Outcomes DEF Attach
<1>5. CASE ok
  <2>1. PICK q : q = [p EXCEPT !.hooked = TRUE, !.attached = TRUE]
    OBVIOUS
  <2>2. IsProcess(q) /\ q.alive /\ q.how = p.how /\ q.hooked
    BY <1>1, <2>1 DEF IsProcess, Fields
  <2>3. target' = [target EXCEPT ![1] = q]
    BY <1>1, <1>4, <1>5, <2>1, OnlyOne
  <2>4. target \in Seq({p}) /\ DOMAIN target = {1}
    BY <1>1
  <2>5. target' = <<q>>
    BY <2>3, <2>4
  <2>6. Go("thaw")
    BY <1>4, <1>5
  <2>7. Fits(q)'
    BY <1>1, <2>2, <2>6 DEF Fits, Go, During
  <2> QED BY <1>0, <1>3, <2>5, <2>6, <2>7, GoesDuring DEF During
<1>6. CASE ~ok /\ LastTry(tries')
  <2>1. target' = <<p>> /\ Go("thaw")
    BY <1>1, <1>4, <1>6
  <2>2. p.attached => p.hooked
    BY <1>0, <1>1 DEF Fits
  <2>3. Fits(p)'
    BY <1>1, <2>1, <2>2 DEF Fits, Go, During
  <2> QED BY <1>0, <1>3, <2>1, <2>3, GoesDuring DEF During
<1>7. CASE ~ok /\ ~LastTry(tries')
  <2>1. target' = <<p>> /\ Go("attach")
    BY <1>1, <1>4, <1>7
  <2>2. tries' < Attempts
    BY <1>0, <1>2, <1>7 DEF LastTry
  <2>3. Fits(p)'
    BY <1>0, <1>1, <2>1 DEF Fits, Go, During
  <2> QED BY <1>0, <1>3, <2>1, <2>2, <2>3, GoesDuring DEF During
<1> QED BY <1>5, <1>6, <1>7

(* What is thawed, and what a failed resume leaves. *)
LEMMA ThawStep == LInv /\ Thaw => LInv'
<1> SUFFICES ASSUME LInv, Thaw PROVE LInv'
  OBVIOUS
<1>0. stage = "thaw" /\ request' = request /\ tries' = tries
  BY DEF Thaw
<1>1. PICK p : /\ target = <<p>> /\ Now = p /\ IsProcess(p) /\ p.alive
               /\ p.how \in {"activate", "found"} /\ (p.attached => p.hooked)
  BY <1>0, UnderWay DEF During, Fits
<1>2. tries \in 0..Attempts /\ stuck \in BOOLEAN
  BY DEF LInv
<1>3. CASE /\ target' = Change("frozen", FALSE) /\ stuck' = stuck
           /\ IF Now.attached /\ request.remote THEN Go("wait")
              ELSE AfterPackaged(IF Now.attached THEN "SUCCESS" ELSE "PACKAGED_INJECTION_FAILED")
  <2>1. PICK q : /\ target' = <<q>> /\ IsProcess(q) /\ ~q.frozen /\ q.how = p.how /\ q.alive
                 /\ q.hooked = p.hooked /\ q.attached = p.attached
    <3>1. FALSE \in BOOLEAN
      OBVIOUS
    <3>2. \E q : /\ Change("frozen", FALSE) = <<q>> /\ IsProcess(q) /\ q.frozen = FALSE /\ q.how = p.how
                 /\ q.alive = p.alive /\ q.hooked = p.hooked /\ q.attached = p.attached
      BY <1>1, <3>1, Changes, ZenonT(60)
    <3> QED BY <1>1, <1>3, <3>2
  <2>2. CASE Now.attached /\ request.remote
    <3>1. Go("wait")
      BY <1>3, <2>2
    <3>2. Fits(q)'
      BY <1>1, <2>1, <3>1 DEF Fits, Go, During
    <3> QED BY <1>0, <1>2, <1>3, <2>1, <3>1, <3>2, GoesDuring DEF During
  <2>3. CASE ~(Now.attached /\ request.remote) /\ Now.attached
    <3>1. Finish("SUCCESS")
      BY <1>3, <2>3, PackagedEnds
    <3>2. Ended(q)'
      BY <1>1, <2>1, <2>3, <3>1 DEF Ended, Finish
    <3> QED BY <1>0, <1>2, <1>3, <2>1, <3>1, <3>2, EndsWithOne
  <2>4. CASE ~Now.attached
    <3>1. Finish("PACKAGED_INJECTION_FAILED")
      BY <1>3, <2>4, PackagedEnds
    <3>2. Ended(q)'
      BY <1>1, <2>1, <3>1 DEF Ended, Finish
    <3> QED BY <1>0, <1>2, <1>3, <2>1, <3>1, <3>2, EndsWithOne
  <2> QED BY <2>2, <2>3, <2>4
<1>4. CASE Retried /\ AfterPackaged("PACKAGED_INJECTION_FAILED")
  <2>1. PICK again \in BOOLEAN : target' = Change("frozen", ~again) /\ stuck' = ~again
    BY <1>4, Outcomes DEF Retried
  <2>2. PICK b \in BOOLEAN : target' = Change("frozen", b) /\ stuck' = b
    BY <2>1
  <2>3. PICK q : target' = <<q>> /\ IsProcess(q) /\ q.frozen = b /\ q.how = p.how
    BY <1>1, <2>2, Changes
  <2>4. Finish("PACKAGED_INJECTION_FAILED")
    BY <1>4, PackagedEnds
  <2>5. Ended(q)'
    BY <1>1, <2>2, <2>3, <2>4 DEF Ended, Finish, IsProcess
  <2> QED BY <1>0, <1>2, <2>2, <2>3, <2>4, <2>5, EndsWithOne
<1> QED BY <1>3, <1>4 DEF Thaw

LEMMA WaitStep == LInv /\ Wait => LInv'
<1> SUFFICES ASSUME LInv, Wait PROVE LInv'
  OBVIOUS
<1>0. stage = "wait" /\ request' = request /\ tries' = tries /\ stuck' = stuck
  BY DEF Wait
<1>1. PICK p : /\ target = <<p>> /\ IsProcess(p) /\ p.alive
               /\ p.how \in {"activate", "found"} /\ ~p.frozen
  BY <1>0, UnderWay DEF During, Fits
<1>2. stuck \in BOOLEAN
  BY DEF LInv
<1>3. PICK report \in {"succeeded", "failed", "none"} :
        /\ target' = Change("hooked", report # "failed")
        /\ AfterPackaged(IF report = "succeeded" THEN "SUCCESS" ELSE "PACKAGED_INJECTION_FAILED")
  BY DEF Wait
<1>4. PICK b \in BOOLEAN : target' = Change("hooked", b) /\ (report = "succeeded" => b)
  BY <1>3
<1>5. PICK q : /\ target' = <<q>> /\ IsProcess(q) /\ q.hooked = b /\ q.how = p.how
               /\ q.alive /\ ~q.frozen
  BY <1>1, <1>4, Changes
<1>6. PICK r \in {"SUCCESS", "PACKAGED_INJECTION_FAILED"} :
        AfterPackaged(r) /\ (r = "SUCCESS" => report = "succeeded")
  BY <1>3
<1>7. Finish(r)
  BY <1>6, PackagedEnds
<1>8. Ended(q)'
  BY <1>1, <1>4, <1>5, <1>6, <1>7 DEF Ended, Finish
<1> QED BY <1>0, <1>2, <1>5, <1>6, <1>7, <1>8, EndsWithOne

LEMMA ShellStep == LInv /\ ShellExecute => LInv'
<1> SUFFICES ASSUME LInv, ShellExecute PROVE LInv'
  OBVIOUS
<1>0. stage = "elevate" /\ UNCHANGED <<request, tries, target, stuck>> /\ stuck' \in BOOLEAN
  BY DEF ShellExecute, LInv
<1>1. Go("helper") \/ Finish("UAC_CANCELLED") \/ Finish("ELEVATED_HELPER_FAILED")
  BY DEF ShellExecute
<1> QED BY <1>0, <1>1, GoesBefore, EndsWithNone DEF Before

LEMMA HelperStartsStep == LInv /\ HelperStarts => LInv'
<1> SUFFICES ASSUME LInv, HelperStarts PROVE LInv'
  OBVIOUS
<1>0. stage = "helper" /\ request' = request /\ tries' = tries /\ stuck' = stuck
  BY DEF HelperStarts
<1>1. target = <<>> /\ stage \in Before /\ stuck \in BOOLEAN /\ tries \in 0..Attempts
  BY <1>0 DEF LInv, Before
<1>2. CASE Started("elevated") /\ Go("helperInject")
  <2>1. PICK q : target' = <<q>> /\ IsProcess(q) /\ q.alive /\ q.how = "elevated" /\ ~q.attached
    BY <1>1, <1>2, NewOne DEF Started
  <2>2. Fits(q)'
    BY <1>2, <2>1 DEF Fits, Go, During
  <2> QED BY <1>0, <1>1, <1>2, <2>1, <2>2, GoesDuring DEF During, Before
<1>3. CASE \E code \in {"INVALID_REQUEST", "NOT_ELEVATED", "INVALID_TARGET", "CREATE_FAILED"} :
              Finish(Translate(code)) /\ target' = target
  <2>1. PICK code \in {"INVALID_REQUEST", "NOT_ELEVATED", "INVALID_TARGET", "CREATE_FAILED"} :
           Finish(Translate(code)) /\ target' = target
    BY <1>3
  <2>2. Translate(code) \notin {"SUCCESS", "none"}
    BY Translated
  <2> QED BY <1>0, <1>1, <2>1, <2>2, EndsWithNone
<1> QED BY <1>2, <1>3 DEF HelperStarts

LEMMA HelperInjectsStep == LInv /\ HelperInjects => LInv'
<1> SUFFICES ASSUME LInv, HelperInjects PROVE LInv'
  OBVIOUS
<1>0. stage = "helperInject" /\ request' = request /\ tries' = tries /\ stuck' = stuck
  BY DEF HelperInjects
<1>1. PICK p : /\ target = <<p>> /\ IsProcess(p) /\ p.alive /\ p.how = "elevated" /\ ~p.attached
  BY <1>0, UnderWay DEF During, Fits
<1>2. tries \in 0..Attempts /\ stuck \in BOOLEAN
  BY DEF LInv
<1>3. CASE target' = Change("hooked", TRUE) /\ Go("helperResume")
  <2>1. PICK q : /\ target' = <<q>> /\ IsProcess(q) /\ q.hooked /\ q.how = p.how /\ q.alive /\ ~q.attached
    <3>1. TRUE \in BOOLEAN
      OBVIOUS
    <3>2. \E q : /\ Change("hooked", TRUE) = <<q>> /\ IsProcess(q) /\ q.hooked = TRUE /\ q.how = p.how
                 /\ q.alive = p.alive /\ q.frozen = p.frozen /\ q.attached = p.attached
      BY <1>1, <3>1, Changes, ZenonT(60)
    <3> QED BY <1>1, <1>3, <3>2
  <2>2. Fits(q)'
    BY <1>1, <1>3, <2>1 DEF Fits, Go, During
  <2> QED BY <1>0, <1>2, <1>3, <2>1, <2>2, GoesDuring DEF During
<1>4. CASE target' = HelperKills /\ Finish(Translate("INJECTION_FAILED"))
  <2>1. PICK q : target' = <<q>> /\ IsProcess(q) /\ ~q.alive /\ q.how = p.how
    BY <1>1, <1>4, KilledOne DEF HelperKills
  <2>2. Translate("INJECTION_FAILED") \notin {"SUCCESS", "none"}
    BY Translated
  <2>3. Ended(q)'
    BY <1>1, <1>4, <2>1, <2>2 DEF Ended, Finish
  <2> QED BY <1>0, <1>2, <1>4, <2>1, <2>2, <2>3, EndsWithOne
<1> QED BY <1>3, <1>4 DEF HelperInjects

LEMMA HelperResumesStep == LInv /\ HelperResumes => LInv'
<1> SUFFICES ASSUME LInv, HelperResumes PROVE LInv'
  OBVIOUS
<1>0. stage = "helperResume" /\ request' = request /\ tries' = tries /\ stuck' = stuck
  BY DEF HelperResumes
<1>1. PICK p : /\ target = <<p>> /\ IsProcess(p) /\ p.alive /\ p.how = "elevated" /\ p.hooked
  BY <1>0, UnderWay DEF During, Fits
<1>2. tries \in 0..Attempts /\ stuck \in BOOLEAN
  BY DEF LInv
<1>3. CASE target' = Change("frozen", FALSE) /\ Finish(Translate("SUCCESS"))
  <2>1. PICK q : /\ target' = <<q>> /\ IsProcess(q) /\ q.hooked /\ q.how = p.how /\ q.alive /\ ~q.frozen
    <3>1. FALSE \in BOOLEAN
      OBVIOUS
    <3>2. \E q : /\ Change("frozen", FALSE) = <<q>> /\ IsProcess(q) /\ q.frozen = FALSE /\ q.how = p.how
                 /\ q.alive = p.alive /\ q.hooked = p.hooked /\ q.attached = p.attached
      BY <1>1, <3>1, Changes, ZenonT(60)
    <3> QED BY <1>1, <1>3, <3>2
  <2>2. Translate("SUCCESS") = "SUCCESS"
    BY DEF Translate
  <2>3. Ended(q)'
    BY <1>1, <1>3, <2>1, <2>2 DEF Ended, Finish
  <2> QED BY <1>0, <1>2, <1>3, <2>1, <2>2, <2>3, EndsWithOne
<1>4. CASE target' = HelperKills /\ Finish(Translate("RESUME_FAILED"))
  <2>1. PICK q : target' = <<q>> /\ IsProcess(q) /\ ~q.alive /\ q.how = p.how
    BY <1>1, <1>4, KilledOne DEF HelperKills
  <2>2. Translate("RESUME_FAILED") \notin {"SUCCESS", "none"}
    BY Translated
  <2>3. Ended(q)'
    BY <1>1, <1>4, <2>1, <2>2 DEF Ended, Finish
  <2> QED BY <1>0, <1>2, <1>4, <2>1, <2>2, <2>3, EndsWithOne
<1> QED BY <1>3, <1>4 DEF HelperResumes

LEMMA HelperDiesStep == LInv /\ HelperDies => LInv'
<1> SUFFICES ASSUME LInv, HelperDies PROVE LInv'
  OBVIOUS
<1>0. /\ stage \in {"helper", "helperInject", "helperResume"} /\ UNCHANGED <<request, tries, target>>
      /\ stuck' = (stage # "helper") /\ stuck' \in BOOLEAN /\ Finish(Translate("killed"))
  BY DEF HelperDies
<1>1. Translate("killed") \notin {"SUCCESS", "none"}
  BY Translated
<1>2. CASE stage = "helper"
  BY <1>0, <1>1, <1>2, EndsWithNone DEF Before
<1>3. CASE stage # "helper"
  <2>1. PICK p : target = <<p>> /\ IsProcess(p) /\ p.how = "elevated"
    BY <1>0, <1>3, UnderWay DEF During, Fits
  <2>2. stuck'
    BY <1>0, <1>3
  <2>3. Ended(p)'
    BY <1>0, <1>1, <2>1, <2>2 DEF Ended, Finish
  <2> QED BY <1>0, <1>1, <2>1, <2>3, EndsWithOne
<1> QED BY <1>2, <1>3

LEMMA StepHolds == Launches /\ LInv /\ [LaunchNext]_lvars => LInv'
<1> SUFFICES ASSUME Launches, LInv, [LaunchNext]_lvars PROVE LInv'
  OBVIOUS
<1>1. CASE UNCHANGED lvars
  BY <1>1 DEF lvars, LInv, Fits, Ended
<1> QED BY <1>1, BeginStep, CreateStep, InjectStep, ResumeStep, ActivateStep, AuthorizeStep,
           FreezeStep, AttachStep, ThawStep, WaitStep, ShellStep, HelperStartsStep,
           HelperInjectsStep, HelperResumesStep, HelperDiesStep DEF LaunchNext

(* A launch is sound, however its steps fail and fall back on each other    *)
(* (LaunchAndProxyApp, LaunchPackagedAppById, LaunchElevatedAndProxy,       *)
(* ElevatedLaunch): the program is started at most once, what a failed      *)
(* launch created is gone, nothing is left suspended, and success means     *)
(* proxied unless the launch was allowed to go on without.                  *)
THEOREM LaunchHolds == ASSUME Launches PROVE LaunchSpec => []LaunchSound
<1>1. LaunchInit => LInv
  BY InitHolds
<1>2. LInv /\ [LaunchNext]_lvars => LInv'
  BY StepHolds
<1>3. LInv => LaunchSound
  <2> SUFFICES ASSUME LInv PROVE LaunchSound
    OBVIOUS
  <2>1. CASE target = <<>>
    BY <2>1 DEF LInv, During, LaunchSound, LaunchTypeOK, StartsOnce, FailureLeavesNone,
       NoneLeftFrozen, SuccessIsHooked
  <2>2. CASE \E p : target = <<p>> /\ ((stage \in During /\ Fits(p)) \/ (stage = "end" /\ Ended(p)))
    <3>1. PICK p : target = <<p>> /\ ((stage \in During /\ Fits(p)) \/ (stage = "end" /\ Ended(p)))
      BY <2>2
    <3>2. DOMAIN target = {1} /\ target[1] = p /\ Len(target) = 1 /\ Now = p
      BY <3>1 DEF Now
    <3>3. p.how \in {"create", "activate", "found", "elevated"}
      BY <3>1 DEF Fits, Ended, During
    <3>4. LaunchTypeOK /\ StartsOnce
      BY <3>2, <3>3 DEF LInv, LaunchTypeOK, StartsOnce
    <3>5. stage # "end" \/ Ended(p)
      BY <3>1 DEF During
    <3>6. FailureLeavesNone /\ NoneLeftFrozen
      BY <3>2, <3>5 DEF Ended, FailureLeavesNone, NoneLeftFrozen
    <3>7. SuccessIsHooked
      BY <3>2, <3>5 DEF LInv, Ended, SuccessIsHooked
    <3> QED BY <3>4, <3>6, <3>7 DEF LaunchSound
  <2>3. CASE stage \in Before
    BY <2>1, <2>3 DEF LInv
  <2>4. CASE stage \in During
    <3>1. PICK p : target = <<p>> /\ Fits(p)
      BY <2>4 DEF LInv
    <3>2. \E q : target = <<q>> /\ ((stage \in During /\ Fits(q)) \/ (stage = "end" /\ Ended(q)))
      BY <2>4, <3>1, Zenon
    <3> QED BY <2>2, <3>2
  <2>5. CASE stage = "end"
    <3>1. target = <<>> \/ \E p : target = <<p>> /\ Ended(p)
      BY <2>5 DEF LInv
    <3> QED BY <2>1, <2>2, <2>5, <3>1
  <2> QED BY <2>3, <2>4, <2>5 DEF LInv
<1> QED BY <1>1, <1>2, <1>3, PTL DEF LaunchSpec

-----------------------------------------------------------------------------
(* What the switch's state is made of.                                      *)
Modes == {"decrypt", "quic"}
FlagSet == [modes : SUBSET Modes, stream : BOOLEAN, gen : Nat, session : Nat, hasty : BOOLEAN, torn : BOOLEAN]
ModuleSet == [monitoring : BOOLEAN, runtime : {"none", "sound", "sick"}, view : BOOLEAN]
CmdSet == [at : {"idle", "start", "spawn", "store", "stop", "stopping"}, modes : SUBSET Modes]
DogSet == [gen : Nat, at : {"sleep", "ask", "act", "stop"}]

(* A generation has at most one watchdog, and one at most is acting.        *)
Pack(D, g) ==
  /\ D \subseteq DogSet
  /\ \A d \in D : d.gen <= g
  /\ \A d, e \in D : d.gen = e.gen \/ (d.at = "stop" /\ e.at = "stop") => d = e

(* Who holds the lock is in the middle of something.                        *)
LockInv ==
  /\ lock \in Callers \cup {Free, Dog} /\ cmd \in [Callers -> CmdSet]
  /\ \A c \in Callers : cmd[c].at # "idle" <=> lock = c
  /\ lock = Dog <=> \E d \in dogs : d.at = "stop"

(* A start past its query has the module monitoring and, before the thread  *)
(* is there, no watchdog of its generation; a stop past its first step and  *)
(* a watchdog that acts have switched the session off.                      *)
MiddleInv ==
  /\ \A c \in Callers :
       /\ cmd[c].at \in {"spawn", "store"} => rt.monitoring
       /\ cmd[c].at = "spawn" => \A d \in dogs : d.gen # flags.gen
       /\ cmd[c].at = "stopping" => ~flags.stream
  /\ lock = Dog => ~flags.stream

(* A session that is on: the module monitors, its watchdog is there, and a  *)
(* watchdog of this generation is its own.                                  *)
SessionInv ==
  /\ flags.modes # {} => flags.stream
  /\ flags.stream /\ ~flags.torn => rt.monitoring
  /\ flags.stream /\ ~flags.torn /\ ~flags.hasty /\ (\A c \in Callers : cmd[c].at \notin {"spawn", "store"})
       => \E d \in dogs : d.gen = flags.gen
  /\ flags.stream /\ (\A c \in Callers : cmd[c].at # "store")
       => \A d \in dogs : d.gen = flags.gen => flags.session = flags.gen

MonInv ==
  /\ flags \in FlagSet /\ flags.session <= flags.gen /\ rt \in ModuleSet /\ ViewExcludes
  /\ Pack(dogs, flags.gen) /\ LockInv /\ MiddleInv /\ SessionInv

(* What the changes of the flags and of the module leave.                   *)
LEMMA NextGeneration ==
  ASSUME NEW f \in FlagSet, NEW g, g = [f EXCEPT !.gen = @ + 1]
  PROVE  /\ g \in FlagSet /\ g.modes = f.modes /\ g.gen = f.gen + 1 /\ g.session = f.session
         /\ (g.stream <=> f.stream) /\ (g.torn <=> f.torn) /\ (g.hasty <=> f.hasty)
         /\ g.gen \in Nat /\ f.gen \in Nat /\ f.session \in Nat
BY DEF FlagSet

LEMMA SwitchedOffFields ==
  ASSUME NEW f \in FlagSet
  PROVE  /\ SwitchedOff(f) \in FlagSet /\ SwitchedOff(f).modes = {} /\ ~SwitchedOff(f).stream
         /\ SwitchedOff(f).gen = f.gen + 1 /\ SwitchedOff(f).session = f.session
         /\ SwitchedOff(f).gen \in Nat /\ f.gen \in Nat /\ f.session \in Nat
<1>1. /\ Off(f) \in FlagSet /\ Off(f).modes = {} /\ ~Off(f).stream
      /\ Off(f).gen = f.gen /\ Off(f).session = f.session
  BY DEF Off, FlagSet
<1> DEFINE o == Off(f)
<1>2. SwitchedOff(f) = [o EXCEPT !.gen = @ + 1] /\ o \in FlagSet
  BY <1>1 DEF SwitchedOff
<1> HIDE DEF o
<1>3. /\ SwitchedOff(f) \in FlagSet /\ SwitchedOff(f).modes = o.modes /\ SwitchedOff(f).gen = o.gen + 1
      /\ SwitchedOff(f).session = o.session /\ (SwitchedOff(f).stream <=> o.stream)
      /\ SwitchedOff(f).gen \in Nat /\ o.gen \in Nat /\ o.session \in Nat
  BY <1>2, NextGeneration
<1> QED  BY <1>1, <1>3 DEF o

LEMMA PackGrows ==
  ASSUME NEW D, NEW g \in Nat, NEW k \in Nat, Pack(D, g), g < k
  PROVE  Pack(D, k) /\ \A d \in D : d.gen # k
<1>1. \A d \in D : d.gen \in Nat /\ d.gen <= g
  BY DEF Pack, DogSet
<1>2. \A d \in D : d.gen <= k /\ d.gen # k
  BY <1>1
<1> QED  BY <1>2 DEF Pack

LEMMA CommandStep ==
  ASSUME MonInv, NEW c \in Callers, NEW w \in {"start", "stop"}, NEW m \in SUBSET Modes, Command(c, w, m)
  PROVE  MonInv'
<1>0. MonInv /\ Free \notin Callers /\ Dog \notin Callers /\ Free # Dog
  BY MonAssumption DEF Free, Dog
<1>1. flags' \in FlagSet /\ flags'.session <= flags'.gen /\ rt' \in ModuleSet /\ ViewExcludes'
  BY <1>0 DEF MonInv, Command, FlagSet, ModuleSet, ViewExcludes, LockInv, CmdSet
<1>2. Pack(dogs', flags'.gen)
  BY <1>0 DEF MonInv, Command, Pack, FlagSet, DogSet, LockInv, CmdSet
<1>3. LockInv'
  BY <1>0 DEF MonInv, Command, LockInv, CmdSet, Pack, DogSet
<1>4. MiddleInv'
  BY <1>0 DEF MonInv, Command, MiddleInv, LockInv, Pack, CmdSet, FlagSet, DogSet, ModuleSet
<1>5. SessionInv'
  BY <1>0 DEF MonInv, Command, SessionInv, MiddleInv, LockInv, Pack, CmdSet, FlagSet, DogSet, ModuleSet
<1> QED  BY <1>1, <1>2, <1>3, <1>4, <1>5 DEF MonInv

LEMMA RefusedStep ==
  ASSUME MonInv, NEW c \in Callers, StartRefused(c)
  PROVE  MonInv'
<1>0. MonInv /\ Free \notin Callers /\ Dog \notin Callers /\ Free # Dog
  BY MonAssumption DEF Free, Dog
<1>1. flags' \in FlagSet /\ flags'.session <= flags'.gen /\ rt' \in ModuleSet /\ ViewExcludes'
  BY <1>0 DEF MonInv, StartRefused, Done, FlagSet, ModuleSet, ViewExcludes, LockInv, CmdSet
<1>2. Pack(dogs', flags'.gen)
  BY <1>0 DEF MonInv, StartRefused, Done, Pack, FlagSet, DogSet, LockInv, CmdSet
<1>3. LockInv'
  BY <1>0 DEF MonInv, StartRefused, Done, LockInv, CmdSet, Pack, DogSet
<1>4. MiddleInv'
  BY <1>0 DEF MonInv, StartRefused, Done, MiddleInv, LockInv, Pack, CmdSet, FlagSet, DogSet, ModuleSet
<1>5. SessionInv'
  BY <1>0 DEF MonInv, StartRefused, Done, SessionInv, MiddleInv, LockInv, Pack, CmdSet, FlagSet, DogSet, ModuleSet
<1> QED  BY <1>1, <1>2, <1>3, <1>4, <1>5 DEF MonInv

LEMMA QueryStep ==
  ASSUME MonInv, NEW c \in Callers, StartQuery(c)
  PROVE  MonInv'
<1>0. MonInv /\ Free \notin Callers /\ Dog \notin Callers /\ Free # Dog
  BY MonAssumption DEF Free, Dog
<1>a. flags \in FlagSet /\ rt \in ModuleSet /\ cmd[c].at = "start" /\ dogs' = dogs /\ lock = c
  BY <1>0 DEF MonInv, StartQuery, LockInv
<1>b. \/ flags' = SwitchedOff(flags) /\ Done(c) /\ rt' \in ModuleSet /\ ViewExcludes'
      \/ flags' = [flags EXCEPT !.gen = @ + 1] /\ Goes(c, "spawn") /\ rt' \in ModuleSet /\ rt'.monitoring /\ ~rt'.view
  BY <1>0 DEF MonInv, StartQuery, AnalysisStart, MayStart, StartFailed, Fails, ViewExcludes, ModuleSet
<1>1. CASE flags' = SwitchedOff(flags) /\ Done(c) /\ rt' \in ModuleSet /\ ViewExcludes'
  <2>1. /\ flags' \in FlagSet /\ flags'.modes = {} /\ ~flags'.stream /\ flags'.gen = flags.gen + 1
        /\ flags'.session = flags.session /\ flags'.gen \in Nat /\ flags.gen \in Nat /\ flags.session \in Nat
    BY <1>1, <1>a, SwitchedOffFields
  <2>2. flags'.session <= flags'.gen /\ Pack(dogs', flags'.gen)
    BY <1>0, <1>a, <2>1, PackGrows DEF MonInv
  <2>3. LockInv'
    BY <1>0, <1>1, <1>a DEF MonInv, LockInv, Done, CmdSet, Pack, DogSet
  <2>4. MiddleInv' /\ SessionInv'
    BY <1>0, <1>1, <1>a, <2>1 DEF MonInv, MiddleInv, SessionInv, LockInv, Done
  <2> QED  BY <1>1, <2>1, <2>2, <2>3, <2>4 DEF MonInv
<1>2. CASE flags' = [flags EXCEPT !.gen = @ + 1] /\ Goes(c, "spawn") /\ rt' \in ModuleSet /\ rt'.monitoring /\ ~rt'.view
  <2>1. /\ flags' \in FlagSet /\ flags'.modes = flags.modes /\ (flags'.stream <=> flags.stream)
        /\ flags'.gen = flags.gen + 1 /\ flags'.session = flags.session
        /\ flags'.gen \in Nat /\ flags.gen \in Nat /\ flags.session \in Nat
    BY <1>2, <1>a, NextGeneration
  <2>2. flags'.session <= flags'.gen /\ Pack(dogs', flags'.gen) /\ \A d \in dogs' : d.gen # flags'.gen
    BY <1>0, <1>a, <2>1, PackGrows DEF MonInv
  <2>3. LockInv' /\ cmd'[c].at = "spawn" /\ \A b \in Callers : b # c => cmd'[b].at = "idle"
    BY <1>0, <1>2, <1>a DEF MonInv, LockInv, Goes, CmdSet, Pack, DogSet
  <2>4. MiddleInv' /\ SessionInv'
    BY <1>0, <1>2, <1>a, <2>1, <2>2, <2>3 DEF MonInv, MiddleInv, SessionInv, LockInv, Goes
  <2> QED  BY <1>2, <2>1, <2>2, <2>3, <2>4 DEF MonInv, ViewExcludes
<1> QED  BY <1>1, <1>2, <1>b

LEMMA SpawnStep ==
  ASSUME MonInv, NEW c \in Callers, StartSpawn(c)
  PROVE  MonInv'
<1>0. MonInv /\ Free \notin Callers /\ Dog \notin Callers /\ Free # Dog
  BY MonAssumption DEF Free, Dog
<1>1. flags' \in FlagSet /\ flags'.session <= flags'.gen /\ rt' \in ModuleSet /\ ViewExcludes'
  BY <1>0 DEF MonInv, StartSpawn, Done, Goes, AnalysisStop, FlagSet, ModuleSet, ViewExcludes, LockInv, CmdSet
<1>2. Pack(dogs', flags'.gen)
  <2>1. flags'.gen = flags.gen /\ flags.gen \in Nat /\ Pack(dogs, flags.gen) /\ \A d \in dogs : d.gen # flags.gen
    BY <1>0 DEF MonInv, MiddleInv, StartSpawn, FlagSet
  <2>2. CASE dogs' = dogs
    BY <2>1, <2>2
  <2>3. CASE dogs' = dogs \cup {[gen |-> flags.gen, at |-> "sleep"]}
    BY <2>1, <2>3 DEF Pack, DogSet
  <2> QED  BY <2>2, <2>3 DEF StartSpawn
<1>3. LockInv'
  BY <1>0 DEF MonInv, StartSpawn, Done, Goes, AnalysisStop, LockInv, CmdSet, Pack, DogSet
<1>4. MiddleInv'
  BY <1>0 DEF MonInv, StartSpawn, Done, Goes, AnalysisStop, MiddleInv, LockInv, Pack, CmdSet, FlagSet, DogSet, ModuleSet
<1>5. SessionInv'
  BY <1>0 DEF MonInv, StartSpawn, Done, Goes, AnalysisStop, SessionInv, MiddleInv, LockInv, Pack, CmdSet, FlagSet, DogSet, ModuleSet
<1> QED  BY <1>1, <1>2, <1>3, <1>4, <1>5 DEF MonInv

LEMMA StoreStep ==
  ASSUME MonInv, NEW c \in Callers, StartStore(c)
  PROVE  MonInv'
<1>0. MonInv /\ Free \notin Callers /\ Dog \notin Callers /\ Free # Dog
  BY MonAssumption DEF Free, Dog
<1>1. flags' \in FlagSet /\ flags'.session <= flags'.gen /\ rt' \in ModuleSet /\ ViewExcludes'
  <2>1. /\ flags \in FlagSet /\ cmd[c].modes \in SUBSET Modes /\ rt' = rt
        /\ flags' = [flags EXCEPT !.modes = cmd[c].modes, !.stream = TRUE, !.session = flags.gen,
                                  !.hasty = ~\E d \in dogs : d.gen = flags.gen, !.torn = FALSE]
    BY <1>0 DEF MonInv, LockInv, StartStore, CmdSet
  <2>2. flags' \in FlagSet /\ flags'.session <= flags'.gen
    <3> DEFINE hurried == ~\E d \in dogs : d.gen = flags.gen
    <3>1. hurried \in BOOLEAN
      OBVIOUS
    <3> HIDE DEF hurried
    <3>2. flags.gen \in Nat /\ flags' = [flags EXCEPT !.modes = cmd[c].modes, !.stream = TRUE,
                              !.session = flags.gen, !.hasty = hurried, !.torn = FALSE]
      BY <2>1 DEF FlagSet, hurried
    <3>3. flags'.session = flags.gen /\ flags'.gen = flags.gen
      BY <2>1, <3>2 DEF FlagSet
    <3>4. flags' \in FlagSet
      BY <2>1, <3>1, <3>2 DEF FlagSet
    <3> QED  BY <3>2, <3>3, <3>4
  <2> QED  BY <1>0, <2>1, <2>2 DEF MonInv, ViewExcludes
<1>2. Pack(dogs', flags'.gen)
  BY <1>0 DEF MonInv, StartStore, Done, Pack, FlagSet, DogSet, LockInv, CmdSet
<1>3. LockInv'
  BY <1>0 DEF MonInv, StartStore, Done, LockInv, CmdSet, Pack, DogSet
<1>4. MiddleInv'
  BY <1>0 DEF MonInv, StartStore, Done, MiddleInv, LockInv, Pack, CmdSet, FlagSet, DogSet, ModuleSet
<1>5. SessionInv'
  BY <1>0 DEF MonInv, StartStore, Done, SessionInv, MiddleInv, LockInv, Pack, CmdSet, FlagSet, DogSet, ModuleSet
<1> QED  BY <1>1, <1>2, <1>3, <1>4, <1>5 DEF MonInv

LEMMA StopFlagsStep ==
  ASSUME MonInv, NEW c \in Callers, StopFlags(c)
  PROVE  MonInv'
<1>0. MonInv /\ Free \notin Callers /\ Dog \notin Callers /\ Free # Dog
  BY MonAssumption DEF Free, Dog
<1>1. flags' \in FlagSet /\ flags'.session <= flags'.gen /\ rt' \in ModuleSet /\ ViewExcludes'
  BY <1>0, SwitchedOffFields DEF MonInv, StopFlags, ViewExcludes
<1>2. Pack(dogs', flags'.gen)
  BY <1>0 DEF MonInv, StopFlags, Goes, SwitchedOff, Off, Pack, FlagSet, DogSet, LockInv, CmdSet
<1>3. LockInv'
  BY <1>0 DEF MonInv, StopFlags, Goes, SwitchedOff, Off, LockInv, CmdSet, Pack, DogSet
<1>4. MiddleInv'
  BY <1>0 DEF MonInv, StopFlags, Goes, SwitchedOff, Off, MiddleInv, LockInv, Pack, CmdSet, FlagSet, DogSet, ModuleSet
<1>5. SessionInv'
  BY <1>0 DEF MonInv, StopFlags, Goes, SwitchedOff, Off, SessionInv, MiddleInv, LockInv, Pack, CmdSet, FlagSet, DogSet, ModuleSet
<1> QED  BY <1>1, <1>2, <1>3, <1>4, <1>5 DEF MonInv

LEMMA StopQueryStep ==
  ASSUME MonInv, NEW c \in Callers, StopQuery(c)
  PROVE  MonInv'
<1>0. MonInv /\ Free \notin Callers /\ Dog \notin Callers /\ Free # Dog
  BY MonAssumption DEF Free, Dog
<1>1. flags' \in FlagSet /\ flags'.session <= flags'.gen /\ rt' \in ModuleSet /\ ViewExcludes'
  <2>1. rt' \in ModuleSet /\ ViewExcludes'
    BY <1>0 DEF MonInv, StopQuery, AnalysisStop, ModuleSet, ViewExcludes
  <2>2. flags' \in {flags, SwitchedOff(flags)}
    BY DEF StopQuery, Fails
  <2> QED  BY <1>0, <2>1, <2>2, SwitchedOffFields DEF MonInv
<1>2. Pack(dogs', flags'.gen)
  BY <1>0 DEF MonInv, StopQuery, AnalysisStop, Done, Fails, SwitchedOff, Off, Pack, FlagSet, DogSet, LockInv, CmdSet
<1>3. LockInv'
  BY <1>0 DEF MonInv, StopQuery, AnalysisStop, Done, Fails, SwitchedOff, Off, LockInv, CmdSet, Pack, DogSet
<1>4. MiddleInv'
  BY <1>0 DEF MonInv, StopQuery, AnalysisStop, Done, Fails, SwitchedOff, Off, MiddleInv, LockInv, Pack, CmdSet, FlagSet, DogSet, ModuleSet
<1>5. SessionInv'
  BY <1>0 DEF MonInv, StopQuery, AnalysisStop, Done, Fails, SwitchedOff, Off, SessionInv, MiddleInv, LockInv, Pack, CmdSet, FlagSet, DogSet, ModuleSet
<1> QED  BY <1>1, <1>2, <1>3, <1>4, <1>5 DEF MonInv

LEMMA LooksStep ==
  ASSUME MonInv, NEW d \in dogs, DogLooks(d)
  PROVE  MonInv'
<1>0. MonInv /\ Free \notin Callers /\ Dog \notin Callers /\ Free # Dog
  BY MonAssumption DEF Free, Dog
<1>1. flags' \in FlagSet /\ flags'.session <= flags'.gen /\ rt' \in ModuleSet /\ ViewExcludes'
  BY <1>0 DEF MonInv, DogLooks, Moves, Current, FlagSet, ModuleSet, ViewExcludes, LockInv, CmdSet
<1>2. Pack(dogs', flags'.gen)
  BY <1>0 DEF MonInv, DogLooks, Moves, Current, Pack, FlagSet, DogSet, LockInv, CmdSet
<1>3. LockInv'
  BY <1>0 DEF MonInv, DogLooks, Moves, Current, LockInv, CmdSet, Pack, DogSet
<1>4. MiddleInv'
  BY <1>0 DEF MonInv, DogLooks, Moves, Current, MiddleInv, LockInv, Pack, CmdSet, FlagSet, DogSet, ModuleSet
<1>5. SessionInv'
  <2>1. d \in DogSet /\ flags' = flags /\ rt' = rt /\ cmd' = cmd
    BY <1>0 DEF MonInv, Pack, DogLooks
  <2>2. \/ \E at : dogs' = (dogs \ {d}) \cup {[d EXCEPT !.at = at]}
        \/ dogs' = dogs \ {d} /\ ~(flags.gen = d.gen /\ flags.stream)
    BY DEF DogLooks, Moves, Current
  <2>3. CASE dogs' = dogs \ {d} /\ ~(flags.gen = d.gen /\ flags.stream)
    BY <1>0, <2>1, <2>3 DEF MonInv, SessionInv
  <2>4. ASSUME NEW at, dogs' = (dogs \ {d}) \cup {[d EXCEPT !.at = at]}  PROVE SessionInv'
    <3>1. [d EXCEPT !.at = at].gen = d.gen
      BY <2>1 DEF DogSet
    <3>2. \A g : (\E e \in dogs' : e.gen = g) <=> (\E e \in dogs : e.gen = g)
      BY <2>4, <3>1
    <3> QED  BY <1>0, <2>1, <2>4, <3>1, <3>2 DEF MonInv, SessionInv
  <2> QED  BY <2>2, <2>3, <2>4
<1> QED  BY <1>1, <1>2, <1>3, <1>4, <1>5 DEF MonInv

LEMMA AsksStep ==
  ASSUME MonInv, NEW d \in dogs, DogAsks(d)
  PROVE  MonInv'
<1>0. MonInv /\ Free \notin Callers /\ Dog \notin Callers /\ Free # Dog
  BY MonAssumption DEF Free, Dog
<1>1. flags' \in FlagSet /\ flags'.session <= flags'.gen /\ rt' \in ModuleSet /\ ViewExcludes'
  BY <1>0 DEF MonInv, DogAsks, Moves, AfterStatus, FlagSet, ModuleSet, ViewExcludes, LockInv, CmdSet
<1>2. Pack(dogs', flags'.gen)
  BY <1>0 DEF MonInv, DogAsks, Moves, AfterStatus, Pack, FlagSet, DogSet, LockInv, CmdSet
<1>3. LockInv'
  BY <1>0 DEF MonInv, DogAsks, Moves, AfterStatus, LockInv, CmdSet, Pack, DogSet
<1>4. MiddleInv'
  BY <1>0 DEF MonInv, DogAsks, Moves, AfterStatus, MiddleInv, LockInv, Pack, CmdSet, FlagSet, DogSet, ModuleSet
<1>5. SessionInv'
  <2>1. d \in DogSet /\ flags' = flags /\ rt' = rt /\ cmd' = cmd
    BY <1>0 DEF MonInv, Pack, DogAsks
  <2>2. \/ \E at : dogs' = (dogs \ {d}) \cup {[d EXCEPT !.at = at]}
        \/ dogs' = dogs \ {d} /\ ~(flags.gen = d.gen /\ flags.stream)
    BY DEF DogAsks, Moves, AfterStatus
  <2>3. CASE dogs' = dogs \ {d} /\ ~(flags.gen = d.gen /\ flags.stream)
    BY <1>0, <2>1, <2>3 DEF MonInv, SessionInv
  <2>4. ASSUME NEW at, dogs' = (dogs \ {d}) \cup {[d EXCEPT !.at = at]}  PROVE SessionInv'
    <3>1. [d EXCEPT !.at = at].gen = d.gen
      BY <2>1 DEF DogSet
    <3>2. \A g : (\E e \in dogs' : e.gen = g) <=> (\E e \in dogs : e.gen = g)
      BY <2>4, <3>1
    <3> QED  BY <1>0, <2>1, <2>4, <3>1, <3>2 DEF MonInv, SessionInv
  <2> QED  BY <2>2, <2>3, <2>4
<1> QED  BY <1>1, <1>2, <1>3, <1>4, <1>5 DEF MonInv

LEMMA ActsStep ==
  ASSUME MonInv, NEW d \in dogs, DogActs(d)
  PROVE  MonInv'
<1>0. MonInv /\ Free \notin Callers /\ Dog \notin Callers /\ Free # Dog
  BY MonAssumption DEF Free, Dog
<1>a. d \in DogSet /\ d.at = "act" /\ flags \in FlagSet /\ lock = Free /\ rt' = rt /\ cmd' = cmd
  BY <1>0 DEF MonInv, Pack, DogActs, MayEnter
<1>1. CASE StillCurrent(d)
  <2>0. flags' = SwitchedOff(flags) /\ lock' = Dog /\ dogs' = (dogs \ {d}) \cup {[d EXCEPT !.at = "stop"]}
    BY <1>1 DEF DogActs, Moves
  <2>1. /\ flags' \in FlagSet /\ flags'.modes = {} /\ ~flags'.stream /\ flags'.gen = flags.gen + 1
        /\ flags'.session = flags.session /\ flags'.gen \in Nat /\ flags.gen \in Nat /\ flags.session \in Nat
    BY <2>0, <1>a, SwitchedOffFields
  <2>2. Pack(dogs, flags'.gen) /\ \A e \in dogs : e.at # "stop"
    BY <1>0, <1>a, <2>1, PackGrows DEF MonInv, LockInv
  <2>3. Pack(dogs', flags'.gen)
    BY <1>a, <2>0, <2>2 DEF Pack, DogSet
  <2>4. LockInv'
    <3>1. [d EXCEPT !.at = "stop"] \in dogs' /\ [d EXCEPT !.at = "stop"].at = "stop"
      BY <1>a, <2>0 DEF DogSet
    <3> QED  BY <1>0, <1>a, <2>0, <3>1 DEF MonInv, LockInv
  <2>5. MiddleInv' /\ SessionInv'
    BY <1>0, <1>a, <2>0, <2>1 DEF MonInv, MiddleInv, SessionInv, LockInv
  <2> QED  BY <1>0, <1>a, <2>1, <2>3, <2>4, <2>5 DEF MonInv, ViewExcludes
<1>2. CASE ~StillCurrent(d)
  <2>0. flags' = flags /\ lock' = lock /\ dogs' = dogs \ {d} /\ ~(flags.gen = d.gen /\ flags.stream)
    BY <1>2 DEF DogActs, Moves, StillCurrent, Current
  <2>1. Pack(dogs', flags'.gen) /\ LockInv'
    BY <1>0, <1>a, <2>0 DEF MonInv, Pack, LockInv
  <2>2. MiddleInv' /\ SessionInv'
    BY <1>0, <1>a, <2>0 DEF MonInv, MiddleInv, SessionInv, LockInv
  <2> QED  BY <1>0, <1>a, <2>0, <2>1, <2>2 DEF MonInv, ViewExcludes
<1> QED  BY <1>1, <1>2

LEMMA StopsStep ==
  ASSUME MonInv, NEW d \in dogs, DogStops(d)
  PROVE  MonInv'
<1>0. MonInv /\ Free \notin Callers /\ Dog \notin Callers /\ Free # Dog
  BY MonAssumption DEF Free, Dog
<1>1. flags' \in FlagSet /\ flags'.session <= flags'.gen /\ rt' \in ModuleSet /\ ViewExcludes'
  BY <1>0 DEF MonInv, DogStops, Moves, AnalysisStop, FlagSet, ModuleSet, ViewExcludes, LockInv, CmdSet
<1>2. Pack(dogs', flags'.gen)
  BY <1>0 DEF MonInv, DogStops, Moves, AnalysisStop, Pack, FlagSet, DogSet, LockInv, CmdSet
<1>3. LockInv'
  BY <1>0 DEF MonInv, DogStops, Moves, AnalysisStop, LockInv, CmdSet, Pack, DogSet
<1>4. MiddleInv'
  BY <1>0 DEF MonInv, DogStops, Moves, AnalysisStop, MiddleInv, LockInv, Pack, CmdSet, FlagSet, DogSet, ModuleSet
<1>5. SessionInv'
  BY <1>0 DEF MonInv, DogStops, Moves, AnalysisStop, SessionInv, MiddleInv, LockInv, Pack, CmdSet, FlagSet, DogSet, ModuleSet
<1> QED  BY <1>1, <1>2, <1>3, <1>4, <1>5 DEF MonInv

LEMMA OtherStep ==
  ASSUME MonInv, ShutdownProtocol \/ ProtocolRuntime \/ Sickens \/ RecordingView \/ UNCHANGED monVars
  PROVE  MonInv'
<1>0. MonInv /\ Free \notin Callers /\ Dog \notin Callers /\ Free # Dog
  BY MonAssumption DEF Free, Dog
<1>1. flags' \in FlagSet /\ flags'.session <= flags'.gen /\ rt' \in ModuleSet /\ ViewExcludes'
  <2>1. flags' = flags \/ flags' = [flags EXCEPT !.modes = @ \ {"quic"}]
    BY DEF ShutdownProtocol, ProtocolRuntime, Sickens, RecordingView, monVars
  <2>2. rt' \in ModuleSet /\ ViewExcludes'
    BY <1>0 DEF MonInv, ShutdownProtocol, ProtocolRuntime, Sickens, RecordingView, monVars, ModuleSet, ViewExcludes
  <2> QED  BY <1>0, <2>1, <2>2 DEF MonInv, FlagSet
<1>2. Pack(dogs', flags'.gen)
  BY <1>0 DEF MonInv, ShutdownProtocol, ProtocolRuntime, Sickens, RecordingView, monVars, Pack, FlagSet, DogSet, LockInv, CmdSet
<1>3. LockInv'
  BY <1>0 DEF MonInv, ShutdownProtocol, ProtocolRuntime, Sickens, RecordingView, monVars, LockInv, CmdSet, Pack, DogSet
<1>4. MiddleInv'
  BY <1>0 DEF MonInv, ShutdownProtocol, ProtocolRuntime, Sickens, RecordingView, monVars, MiddleInv, LockInv, Pack, CmdSet, FlagSet, DogSet, ModuleSet
<1>5. SessionInv'
  BY <1>0 DEF MonInv, ShutdownProtocol, ProtocolRuntime, Sickens, RecordingView, monVars, SessionInv, MiddleInv, LockInv, Pack, CmdSet, FlagSet, DogSet, ModuleSet
<1> QED  BY <1>1, <1>2, <1>3, <1>4, <1>5 DEF MonInv

LEMMA MonKept ==
  ASSUME MonInv, [MonNext]_monVars
  PROVE  MonInv'
<1>1. CASE UNCHANGED monVars
  BY <1>1, OtherStep
<1>2. CASE ShutdownProtocol \/ ProtocolRuntime \/ Sickens \/ RecordingView
  BY <1>2, OtherStep
<1>3. ASSUME NEW c \in Callers,
             \/ \E modes \in SUBSET {"decrypt", "quic"} : Command(c, "start", modes)
             \/ Command(c, "stop", {})
      PROVE  MonInv'
  BY <1>3, CommandStep DEF Modes
<1>4. ASSUME NEW c \in Callers,
             StartRefused(c) \/ StartQuery(c) \/ StartSpawn(c) \/ StartStore(c) \/ StopFlags(c) \/ StopQuery(c)
      PROVE  MonInv'
  BY <1>4, RefusedStep, QueryStep, SpawnStep, StoreStep, StopFlagsStep, StopQueryStep
<1>5. ASSUME NEW d \in dogs, DogLooks(d) \/ DogAsks(d) \/ DogActs(d) \/ DogStops(d)
      PROVE  MonInv'
  BY <1>5, LooksStep, AsksStep, ActsStep, StopsStep
<1> QED  BY <1>1, <1>2, <1>3, <1>4, <1>5 DEF MonNext

LEMMA MonStarts == MonInit => MonInv
<1> SUFFICES ASSUME MonInit  PROVE MonInv
  OBVIOUS
<1>0. Free \notin Callers /\ Dog \notin Callers /\ Free # Dog
  BY MonAssumption DEF Free, Dog
<1>1. flags \in FlagSet /\ flags.session <= flags.gen /\ rt \in ModuleSet /\ ViewExcludes
  BY DEF MonInit, FlagSet, ModuleSet, ViewExcludes
<1>2. Pack(dogs, flags.gen) /\ LockInv
  BY <1>0 DEF MonInit, Pack, LockInv, CmdSet
<1>3. MiddleInv /\ SessionInv
  BY <1>0 DEF MonInit, MiddleInv, SessionInv
<1> QED  BY <1>1, <1>2, <1>3 DEF MonInv

(* What is seen of the invariant between commands, and of a watchdog that   *)
(* acts.                                                                    *)
LEMMA MonShows ==
  ASSUME MonInv
  PROVE  MonitorTypeOK /\ FlagsFollow /\ Watched /\ ViewExcludes
<1>0. Free \notin Callers /\ Dog \notin Callers /\ Free # Dog
  BY MonAssumption DEF Free, Dog
<1>1. MonitorTypeOK /\ ViewExcludes
  BY DEF MonInv, LockInv, MonitorTypeOK
<1>2. FlagsFollow
  BY DEF MonInv, SessionInv, FlagsFollow
<1>3. Watched
  <2> SUFFICES ASSUME lock = Free, flags.stream, ~flags.torn, ~flags.hasty
               PROVE  \E d \in dogs : d.gen = flags.gen
    BY DEF Watched
  <2>1. \A c \in Callers : cmd[c].at = "idle"
    BY <1>0 DEF MonInv, LockInv
  <2> QED  BY <2>1 DEF MonInv, SessionInv
<1> QED  BY <1>1, <1>2, <1>3

LEMMA OwnSession ==
  ASSUME MonInv, [MonNext]_monVars, NEW d \in dogs, d.at = "act", [d EXCEPT !.at = "stop"] \in dogs'
  PROVE  d.gen = flags.session
<1> DEFINE e == [d EXCEPT !.at = "stop"]
<1>0. Free \notin Callers /\ Dog \notin Callers /\ Free # Dog
  BY MonAssumption DEF Free, Dog
<1>1. Pack(dogs, flags.gen) /\ d \in DogSet
  BY DEF MonInv, Pack
<1>2. e.gen = d.gen /\ e.at = "stop" /\ e \notin dogs
  BY <1>1 DEF Pack, DogSet
<1> HIDE DEF e
<1>3. PICK f \in dogs : \E at : Moves(f, at) /\ (at = "stop" => DogActs(f)) /\ at \in {"ask", "act", "sleep", "stop", "end"}
  <2>1. ASSUME NEW c \in Callers,
               \/ \E modes \in SUBSET {"decrypt", "quic"} : Command(c, "start", modes)
               \/ Command(c, "stop", {})
               \/ StartRefused(c) \/ StartQuery(c) \/ StartSpawn(c) \/ StartStore(c) \/ StopFlags(c) \/ StopQuery(c)
        PROVE  e \notin dogs'
    BY <1>2, <2>1 DEF Command, StartRefused, StartQuery, StartSpawn, StartStore, StopFlags, StopQuery
  <2>2. CASE ShutdownProtocol \/ ProtocolRuntime \/ Sickens \/ RecordingView \/ UNCHANGED monVars
    BY <1>2, <2>2 DEF ShutdownProtocol, ProtocolRuntime, Sickens, RecordingView, monVars, e
  <2>3. CASE \E f \in dogs : DogLooks(f) \/ DogAsks(f) \/ DogActs(f) \/ DogStops(f)
    BY <2>3 DEF DogLooks, DogAsks, DogActs, DogStops, AfterStatus
  <2> QED  BY <2>1, <2>2, <2>3 DEF MonNext, e
<1>4. PICK at : Moves(f, at) /\ (at = "stop" => DogActs(f)) /\ at \in {"ask", "act", "sleep", "stop", "end"}
  BY <1>3
<1>5. e = [f EXCEPT !.at = at] /\ at # "end"
  BY <1>2, <1>4 DEF Moves, e
<1>6. f \in DogSet /\ at = "stop" /\ f.gen = d.gen
  BY <1>1, <1>2, <1>5 DEF Pack, DogSet
<1>7. DogActs(f) /\ f = d
  BY <1>1, <1>4, <1>6 DEF Pack
<1>8. lock = Free /\ Current(d)
  <2>1. CASE ~StillCurrent(d)
    <3>1. e \notin dogs'
      BY <1>2, <1>7, <2>1 DEF DogActs, Moves
    <3> QED  BY <3>1 DEF e
  <2> QED  BY <1>7, <2>1 DEF DogActs, MayEnter, StillCurrent
<1>9. \A c \in Callers : cmd[c].at = "idle"
  BY <1>0, <1>8 DEF MonInv, LockInv
<1> QED  BY <1>8, <1>9 DEF MonInv, SessionInv, Current

(* The switch of the monitor: between commands the host intercepts only     *)
(* what the module monitors, a session that is on has its watchdog, which   *)
(* ends its own session and no other whatever was stopped and started while *)
(* it waited for the lock, and no recording is read while the module        *)
(* monitors (QueryProtocol, MitmBridge.cpp).                                *)
THEOREM SwitchHolds == MonSpec => SwitchSound
<1>1. MonInit => MonInv
  BY MonStarts
<1>2. MonInv /\ [MonNext]_monVars => MonInv'
  BY MonKept
<1>3. MonInv => MonitorTypeOK /\ FlagsFollow /\ Watched /\ ViewExcludes
  BY MonShows
<1>4. MonInv /\ [MonNext]_monVars =>
        [\A d \in dogs : d.at = "act" /\ [d EXCEPT !.at = "stop"] \in dogs' => d.gen = flags.session]_monVars
  BY OwnSession
<1> QED  BY <1>1, <1>2, <1>3, <1>4, PTL DEF MonSpec, SwitchSound, OwnSessionOnly
=============================================================================
