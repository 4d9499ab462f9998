-------------------------- MODULE ReceptionProofs ---------------------------
(* Proofs about Reception, for any number of processes, handles, ports and
   destinations. *)
EXTENDS Reception, ListProofs

(* A port that is still announced is bound again only where nothing fails: no
   process ends, the pipe works, and no socket is closed while it connects. *)
SoundScopes ==
    \A s \in Scopes : s.reuse => ~s.exit /\ ~s.fail /\ ~s.cancel

-----------------------------------------------------------------------------
(* The inductive invariant. *)

(* A socket that is open belongs to a running process and has a generation. *)
Proper ==
    \A p \in Procs, h \in Handles :
        IF sock[p][h].at = "closed" THEN sock[p][h] = Closed
        ELSE /\ born[p] # 0 /\ sock[p][h].gen \in 1..clock
             /\ sock[p][h].port \in Ports /\ sock[p][h].dest \in Dests

(* Who holds which port: open sockets, announcements, requests, connections. *)
Key(c) == <<c.id, c.port>>
OpenKeys == {k \in Ids \X Ports :
                /\ IsOpen(k[1]) /\ sock[k[1][1]][k[1][3]].port = k[2]}
Held == OpenKeys
        \cup {Key(registered[i].client) : i \in DOMAIN registered}
        \cup {Key(backlog[i]) : i \in DOMAIN backlog}
        \cup {Key(c) : c \in pipe}
        \cup {Key(t.conn) : t \in tasks}
Own(S) == \A k, l \in S : k[1] = l[1] <=> k[2] = l[2]
Fresh(S, n) == \A k \in S : k[1][4] <= n
PortsOwned == Own(Held) /\ Fresh(Held, clock)

(* A request of an open socket is the one it waits for. *)
Asking ==
    \A r \in pipe : IsOpen(r.id) =>
        /\ sock[r.id[1]][r.id[3]].at = "asking" /\ Client(r.id[1], r.id[3]) = r

(* A socket is announced, and waits to be accepted, once. *)
Once ==
    /\ \A i, j \in DOMAIN registered :
          registered[i].client.id = registered[j].client.id => i = j
    /\ \A i, j \in DOMAIN backlog : backlog[i].id = backlog[j].id => i = j

(* The announcement of c is there and has not aged. *)
Ready(c) == \E j \in DOMAIN registered : registered[j] = [client |-> c, age |-> 0]
Announcing ==
    \A p \in Procs, h \in Handles :
        sock[p][h].at = "announced" => Ready(Client(p, h))

(* What is known of a connection that waits to be accepted. *)
WaitsWell(c) ==
    /\ \A j \in DOMAIN registered :
          registered[j].client.id = c.id => registered[j].client = c
    /\ \A r \in pipe : r.id # c.id
    /\ IsOpen(c.id) => /\ sock[c.id[1]][c.id[3]].at \in {"connected", "cut"}
                       /\ Client(c.id[1], c.id[3]) = c
                       /\ Ready(c)
Waiting == \A i \in DOMAIN backlog : WaitsWell(backlog[i])

(* m_HackedSocket has a socket's announcements under its handle. *)
TableOwn ==
    \A p \in Procs, h \in Handles : \A i \in DOMAIN table[p][h] :
        table[p][h][i].id[1] = p /\ table[p][h][i].id[3] = h

(* Where ports are used again at once, what is announced belongs to an open
   socket, which knows of it. *)
Orderly ==
    scope.reuse =>
        /\ ~scope.exit /\ ~scope.fail /\ ~scope.cancel
        /\ \A r \in pipe : IsOpen(r.id)
        /\ \A i \in DOMAIN registered :
              /\ IsOpen(registered[i].client.id)
              /\ table[registered[i].client.id[1]][registered[i].client.id[3]] # <<>>
        /\ \A p \in Procs, h \in Handles : \A i \in DOMAIN table[p][h] :
              table[p][h][i].id = <<p, born[p], h, sock[p][h].gen>>

IInv == /\ TypeOK /\ Proper /\ PortsOwned /\ Asking /\ Once /\ Announcing /\ Waiting
        /\ TableOwn /\ Orderly /\ PairedRight

(* Steps that open no socket, that close none, and that redirect none. *)
NoneNew ==
    \A p \in Procs, h \in Handles : sock'[p][h].at # "closed" =>
        /\ sock[p][h].at # "closed" /\ born'[p] = born[p]
        /\ sock'[p][h].port = sock[p][h].port /\ sock'[p][h].gen = sock[p][h].gen
NoneClosed ==
    \A p \in Procs, h \in Handles : sock[p][h].at # "closed" => sock'[p][h].at # "closed"
SameDests ==
    \A p \in Procs, h \in Handles :
        sock'[p][h].at # "closed" => sock'[p][h].dest = sock[p][h].dest

-----------------------------------------------------------------------------
(* Lemmas about the operators. *)

LEMMA ClientType ==
    ASSUME TypeOK, Proper, NEW p \in Procs, NEW h \in Handles, sock[p][h].at # "closed"
    PROVE  /\ Client(p, h) \in Clients /\ Client(p, h).id = <<p, born[p], h, sock[p][h].gen>>
           /\ IsOpen(Client(p, h).id) /\ Key(Client(p, h)) \in OpenKeys
<1>1. /\ born[p] \in 1..MaxGen /\ sock[p][h].gen \in 1..MaxGen
      /\ sock[p][h].port \in Ports /\ sock[p][h].dest \in Dests
  BY ReceptionAssumption DEF TypeOK, Proper, Sockets
<1>2. <<p, born[p], h, sock[p][h].gen>> \in Ids
  BY <1>1 DEF Ids
<1>3. Client(p, h) \in Clients /\ Client(p, h).id = <<p, born[p], h, sock[p][h].gen>>
  BY <1>1, <1>2 DEF Client, Clients
<1>4. IsOpen(Client(p, h).id)
  BY <1>3 DEF IsOpen
<1>5. Key(Client(p, h)) = <<<<p, born[p], h, sock[p][h].gen>>, sock[p][h].port>>
  BY DEF Key, Client
<1>6. Key(Client(p, h)) \in OpenKeys
  BY <1>1, <1>2, <1>3, <1>4, <1>5 DEF OpenKeys
<1> QED BY <1>3, <1>4, <1>6

LEMMA IdType ==
    ASSUME NEW c \in Clients
    PROVE  /\ c.id \in Ids /\ c.port \in Ports /\ c.dest \in Dests
           /\ c.id[1] \in Procs /\ c.id[2] \in 1..MaxGen /\ c.id[3] \in Handles
           /\ c.id[4] \in 1..MaxGen /\ c.id = <<c.id[1], c.id[2], c.id[3], c.id[4]>>
           /\ c = [id |-> c.id, port |-> c.port, dest |-> c.dest]
BY DEF Clients, Ids

LEMMA Steady ==
    ASSUME TypeOK, NoneNew
    PROVE  /\ \A id \in Ids : IsOpen(id)' => IsOpen(id)
           /\ NoneClosed => \A id \in Ids : IsOpen(id) => IsOpen(id)'
           /\ OpenKeys' \subseteq OpenKeys
           /\ SameDests => \A p \in Procs, h \in Handles :
                 sock'[p][h].at # "closed" => Client(p, h)' = Client(p, h)
<1>1. \A id \in Ids : IsOpen(id)' => IsOpen(id)
  BY DEF NoneNew, IsOpen, Ids
<1>2. NoneClosed => \A id \in Ids : IsOpen(id) => IsOpen(id)'
  BY DEF NoneNew, NoneClosed, IsOpen, Ids
<1>3. \A id \in Ids : IsOpen(id)' =>
         sock'[id[1]][id[3]].port = sock[id[1]][id[3]].port
  BY DEF NoneNew, IsOpen, Ids
<1>4. OpenKeys' \subseteq OpenKeys
  BY <1>1, <1>3 DEF OpenKeys
<1>5. SameDests => \A p \in Procs, h \in Handles :
         sock'[p][h].at # "closed" => Client(p, h)' = Client(p, h)
  BY DEF NoneNew, SameDests, Client
<1> QED BY <1>1, <1>2, <1>4, <1>5

(* Ports stay owned when nobody new holds one. *)
LEMMA Shrink ==
    ASSUME PortsOwned, Held' \subseteq Held, clock \in Nat, clock' \in Nat, clock <= clock',
           \A k \in Held : k[1][4] \in Nat
    PROVE  PortsOwned'
<1>1. \A k \in Held' : k \in Held
  OBVIOUS
<1>2. Own(Held)'
  BY <1>1 DEF PortsOwned, Own
<1>3. \A k \in Held' : k[1][4] <= clock'
  <2>1. \A k \in Held : k[1][4] <= clock /\ k[1][4] \in Nat
    BY DEF PortsOwned, Fresh
  <2>2. \A n \in Nat : n <= clock => n <= clock'
    OBVIOUS
  <2> QED BY <1>1, <2>1, <2>2, Zenon
<1> QED BY <1>2, <1>3 DEF PortsOwned, Fresh

LEMMA ListTypes ==
    ASSUME TypeOK
    PROVE  /\ \A i \in DOMAIN registered :
                 /\ registered[i] \in [client : Clients, age : 0..(Expiry + 1)]
                 /\ registered[i].client \in Clients /\ registered[i].age \in 0..(Expiry + 1)
                 /\ registered[i] = [client |-> registered[i].client, age |-> registered[i].age]
           /\ \A i \in DOMAIN backlog : backlog[i] \in Clients
           /\ \A t \in tasks : t.client \in Clients /\ t.conn \in Clients
           /\ \A c \in pipe : c \in Clients
           /\ DOMAIN registered = 1..Len(registered) /\ Len(registered) \in Nat
           /\ DOMAIN backlog = 1..Len(backlog) /\ Len(backlog) \in Nat
<1>1. /\ DOMAIN registered = 1..Len(registered) /\ Len(registered) \in Nat
      /\ DOMAIN backlog = 1..Len(backlog) /\ Len(backlog) \in Nat
  BY LenProperties DEF TypeOK
<1>2. \A i \in DOMAIN registered : registered[i] \in [client : Clients, age : 0..(Expiry + 1)]
  BY <1>1, ElementOfSeq DEF TypeOK
<1>3. \A i \in DOMAIN backlog : backlog[i] \in Clients
  BY <1>1, ElementOfSeq DEF TypeOK
<1> QED BY <1>1, <1>2, <1>3 DEF TypeOK

LEMMA HeldType ==
    ASSUME TypeOK
    PROVE  \A k \in Held : k \in Ids \X Ports /\ k[1][4] \in Nat /\ k[1] \in Ids
<1>1. \A k \in Ids \X Ports : k[1][4] \in Nat /\ k[1] \in Ids
  BY DEF Ids
<1>2. \A c \in Clients : Key(c) \in Ids \X Ports
  BY DEF Clients, Key
<1> QED BY <1>1, <1>2, ListTypes DEF Held, OpenKeys, TypeOK

(* The announcements that are left after some were erased. *)
LEMMA ErasedSome ==
    ASSUME TypeOK, NEW K \in SUBSET DOMAIN registered, registered' = Only(registered, K)
    PROVE  /\ registered' \in Seq([client : Clients, age : 0..(Expiry + 1)])
           /\ \A n \in DOMAIN registered' : \E i \in K : registered'[n] = registered[i]
           /\ \A i \in K : \E n \in DOMAIN registered' : registered'[n] = registered[i]
           /\ Once => \A m, n \in DOMAIN registered' :
                 registered'[m].client.id = registered'[n].client.id => m = n
<1>1. registered \in Seq([client : Clients, age : 0..(Expiry + 1)])
  BY DEF TypeOK
<1>2. /\ Only(registered, K) \in Seq([client : Clients, age : 0..(Expiry + 1)])
      /\ \A n \in DOMAIN Only(registered, K) :
            Nth(K, n) \in K /\ Only(registered, K)[n] = registered[Nth(K, n)]
      /\ \A k \in K : \E n \in DOMAIN Only(registered, K) : Nth(K, n) = k
      /\ \A m, n \in DOMAIN Only(registered, K) : Nth(K, m) = Nth(K, n) => m = n
  BY <1>1, OnlyKept
<1>3. Once => \A m, n \in DOMAIN registered' :
         registered'[m].client.id = registered'[n].client.id => m = n
  BY <1>2 DEF Once
<1> QED BY <1>2, <1>3

(* The sockets whose connections the centre closes. *)
LEMMA CutSome ==
    ASSUME TypeOK, NEW conns, sock' = Cut(conns), born' = born
    PROVE  /\ sock' \in [Procs -> [Handles -> Sockets]]
           /\ NoneNew /\ NoneClosed /\ SameDests
           /\ \A p \in Procs, h \in Handles :
                 \/ sock'[p][h] = sock[p][h]
                 \/ sock[p][h].at = "connected" /\ sock'[p][h] = [sock[p][h] EXCEPT !.at = "cut"]
<1>1. ASSUME NEW p \in Procs, NEW h \in Handles
      PROVE  /\ sock[p][h] \in Sockets /\ sock'[p][h] \in Sockets
             /\ \/ sock'[p][h] = sock[p][h]
                \/ sock[p][h].at = "connected" /\ sock'[p][h] = [sock[p][h] EXCEPT !.at = "cut"]
  <2>1. sock'[p][h] = IF sock[p][h].at = "connected" /\ Client(p, h) \in conns
                      THEN [sock[p][h] EXCEPT !.at = "cut"] ELSE sock[p][h]
    BY DEF Cut
  <2>2. sock[p][h] \in Sockets
    BY DEF TypeOK
  <2>3. [sock[p][h] EXCEPT !.at = "cut"] \in Sockets
    BY <2>2 DEF Sockets
  <2> QED BY <2>1, <2>2, <2>3
<1>2. sock' \in [Procs -> [Handles -> Sockets]]
  BY <1>1 DEF Cut
<1>3. NoneNew /\ NoneClosed /\ SameDests
  <2>1. ASSUME NEW p \in Procs, NEW h \in Handles
        PROVE  /\ sock'[p][h].port = sock[p][h].port /\ sock'[p][h].gen = sock[p][h].gen
               /\ sock'[p][h].dest = sock[p][h].dest
               /\ sock'[p][h].at = "closed" <=> sock[p][h].at = "closed"
    <3>1. CASE sock'[p][h] = sock[p][h]
      BY <3>1
    <3>2. CASE sock[p][h].at = "connected" /\ sock'[p][h] = [sock[p][h] EXCEPT !.at = "cut"]
      BY <1>1, <3>2 DEF Sockets
    <3> QED BY <1>1, <3>1, <3>2
  <2> QED BY <2>1 DEF NoneNew, NoneClosed, SameDests
<1> QED BY <1>1, <1>2, <1>3

(* What carries over where no socket is opened or redirected. *)
LEMMA AskingKept ==
    ASSUME TypeOK, Asking, NoneNew, SameDests, pipe' \subseteq pipe,
           \A p \in Procs, h \in Handles :
              sock[p][h].at = "asking" => sock'[p][h].at \in {"asking", "closed"}
    PROVE  Asking'
<1> SUFFICES ASSUME NEW r \in pipe', IsOpen(r.id)'
             PROVE  /\ sock'[r.id[1]][r.id[3]].at = "asking"
                    /\ Client(r.id[1], r.id[3])' = r
  BY DEF Asking
<1>1. r \in pipe /\ r.id \in Ids /\ r.id[1] \in Procs /\ r.id[3] \in Handles
  BY ListTypes, IdType
<1>2. IsOpen(r.id) /\ sock'[r.id[1]][r.id[3]].at # "closed"
  BY <1>1, Steady DEF IsOpen
<1>3. sock[r.id[1]][r.id[3]].at = "asking" /\ Client(r.id[1], r.id[3]) = r
  BY <1>1, <1>2 DEF Asking
<1>4. Client(r.id[1], r.id[3])' = Client(r.id[1], r.id[3])
  BY <1>1, <1>2, Steady
<1> QED BY <1>1, <1>2, <1>3, <1>4

LEMMA WaitingKept ==
    ASSUME TypeOK, Waiting, NoneNew, SameDests, pipe' \subseteq pipe,
           \A i \in DOMAIN backlog' : \E j \in DOMAIN backlog : backlog'[i] = backlog[j],
           \A i \in DOMAIN registered' :
              \/ \E j \in DOMAIN registered : registered'[i].client = registered[j].client
              \/ \A j \in DOMAIN backlog : registered'[i].client.id # backlog[j].id,
           \A p \in Procs, h \in Handles :
              sock[p][h].at \in {"connected", "cut"} =>
                 sock'[p][h].at \in {"connected", "cut", "closed"},
           \A i \in DOMAIN backlog' :
              IsOpen(backlog[i].id)' /\ Ready(backlog'[i]) => Ready(backlog[i])'
    PROVE  Waiting'
<1> SUFFICES ASSUME NEW i \in DOMAIN backlog' PROVE WaitsWell(backlog[i])'
  BY DEF Waiting
<1>0. PICK k \in DOMAIN backlog : backlog'[i] = backlog[k]
  OBVIOUS
<1>a. PICK c : c = backlog'[i]
  OBVIOUS
<1>1. c = backlog[k] /\ c \in Clients /\ WaitsWell(c)
  BY <1>0, <1>a, ListTypes DEF Waiting
<1>2. c.id \in Ids /\ c.id[1] \in Procs /\ c.id[3] \in Handles
  BY <1>1, IdType
<1>3. \A j \in DOMAIN registered' : registered'[j].client.id = c.id => registered'[j].client = c
  BY <1>1 DEF WaitsWell
<1>4. \A r \in pipe' : r.id # c.id
  BY <1>1 DEF WaitsWell
<1>5. ASSUME IsOpen(backlog[i].id)'
      PROVE  /\ sock'[c.id[1]][c.id[3]].at \in {"connected", "cut"}
             /\ Client(c.id[1], c.id[3])' = c
             /\ Ready(backlog[i])'
  <2>0. IsOpen(c.id)'
    BY <1>5, <1>a DEF IsOpen
  <2>1. IsOpen(c.id) /\ sock'[c.id[1]][c.id[3]].at # "closed"
    BY <1>2, <2>0, Steady DEF IsOpen
  <2>2. /\ sock[c.id[1]][c.id[3]].at \in {"connected", "cut"}
        /\ Client(c.id[1], c.id[3]) = c /\ Ready(c)
    BY <1>1, <2>1 DEF WaitsWell
  <2>3. Client(c.id[1], c.id[3])' = Client(c.id[1], c.id[3])
    BY <1>2, <2>1, Steady
  <2> QED BY <1>2, <1>5, <1>a, <2>1, <2>2, <2>3
<1>6. c = backlog'[i] /\ (c.id)' = c.id /\ c' = c
  BY <1>a
<1> QED BY <1>3, <1>4, <1>5, <1>6 DEF WaitsWell

-----------------------------------------------------------------------------
(* The actions. *)

LEMMA StartInv ==
    ASSUME IInv, NEW p \in Procs, Start(p)
    PROVE  IInv'
<1>1. TypeOK'
  BY ReceptionAssumption DEF IInv, TypeOK, Start, centre
<1>2. NoneNew /\ NoneClosed /\ SameDests
  BY DEF IInv, Proper, Start, NoneNew, NoneClosed, SameDests, TypeOK
<1>3. /\ \A id \in Ids : IsOpen(id)' <=> IsOpen(id)
      /\ OpenKeys' \subseteq OpenKeys
      /\ \A q \in Procs, h \in Handles : sock'[q][h].at # "closed" => Client(q, h)' = Client(q, h)
  BY <1>2, Steady DEF IInv
<1>4. Proper'
  BY ReceptionAssumption DEF IInv, Proper, Start, TypeOK
<1>5. PortsOwned'
  <2>1. Held' \subseteq Held
    BY <1>3 DEF Held, Start, centre
  <2> QED BY <2>1, Shrink, HeldType DEF IInv, Start, TypeOK
<1>6. Asking'
  BY <1>2, AskingKept DEF IInv, Start
<1>7. Once' /\ TableOwn' /\ PairedRight'
  BY DEF IInv, Once, TableOwn, PairedRight, Start, centre
<1>8. \A c : Ready(c)' <=> Ready(c)
  BY DEF Ready, Start, centre
<1>9. Announcing'
  BY <1>3, <1>8 DEF IInv, Announcing, Start
<1>10. Waiting'
  BY <1>2, <1>8, WaitingKept DEF IInv, Start, centre
<1>11. Orderly'
  <2> SUFFICES ASSUME scope.reuse PROVE Orderly'
    BY DEF Orderly, Start
  <2>1. \A r \in pipe' : IsOpen(r.id)'
    BY <1>3, ListTypes, IdType DEF IInv, Orderly, Start
  <2>2. \A i \in DOMAIN registered' :
           /\ IsOpen(registered[i].client.id)'
           /\ table'[registered'[i].client.id[1]][registered'[i].client.id[3]] # <<>>
    BY <1>3, ListTypes, IdType DEF IInv, Orderly, Start, centre
  <2>3. ASSUME NEW q \in Procs, NEW h \in Handles, NEW i \in DOMAIN table[q][h]
        PROVE  table[q][h][i].id = <<q, born'[q], h, sock[q][h].gen>>
    <3>1. table[q][h][i] \in Clients
      BY DEF IInv, TypeOK
    <3>2. table[q][h][i].id = <<q, born[q], h, sock[q][h].gen>>
      BY DEF IInv, Orderly
    <3>3. table[q][h][i].id[2] \in 1..MaxGen
      BY <3>1, IdType
    <3>4. born[q] # 0
      BY <3>2, <3>3
    <3> QED BY <3>2, <3>4 DEF Start, IInv, TypeOK
  <2> QED BY <2>1, <2>2, <2>3 DEF IInv, Orderly, Start, centre
<1> QED BY <1>1, <1>4, <1>5, <1>6, <1>7, <1>9, <1>10, <1>11 DEF IInv

LEMMA ExitInv ==
    ASSUME IInv, NEW p \in Procs, Exit(p)
    PROVE  IInv'
<1>0. Closed \in Sockets /\ Closed.at = "closed"
  BY ReceptionAssumption DEF Closed, Sockets
<1>1. TypeOK'
  BY <1>0, EmptySeq, ReceptionAssumption DEF IInv, TypeOK, Exit, centre
<1>2. NoneNew /\ SameDests
  BY <1>0 DEF IInv, Exit, NoneNew, SameDests, TypeOK
<1>3. OpenKeys' \subseteq OpenKeys
  BY <1>2, Steady DEF IInv
<1>4. Proper'
  BY <1>0 DEF IInv, Proper, Exit, TypeOK
<1>5. PortsOwned'
  <2>1. Held' \subseteq Held
    BY <1>3 DEF Held, Exit, centre
  <2> QED BY <2>1, Shrink, HeldType DEF IInv, Exit, TypeOK
<1>6. Asking'
  <2>1. \A q \in Procs, h \in Handles :
           sock[q][h].at = "asking" => sock'[q][h].at \in {"asking", "closed"}
    BY <1>0 DEF Exit, IInv, TypeOK
  <2> QED BY <1>2, <2>1, AskingKept DEF IInv, Exit
<1>7. Once' /\ PairedRight'
  BY DEF IInv, Once, PairedRight, Exit, centre
<1>8. TableOwn'
  BY DEF IInv, TableOwn, Exit, TypeOK
<1>9. \A c : Ready(c)' <=> Ready(c)
  BY DEF Ready, Exit, centre
<1>10. Announcing'
  <2>1. \A q \in Procs, h \in Handles : sock'[q][h].at # "closed" =>
           Client(q, h)' = Client(q, h) /\ sock'[q][h].at = sock[q][h].at
    BY <1>0, <1>2, Steady DEF Exit, IInv, TypeOK
  <2> QED BY <1>9, <2>1 DEF IInv, Announcing
<1>11. Waiting'
  <2>1. \A q \in Procs, h \in Handles :
           sock[q][h].at \in {"connected", "cut"} =>
              sock'[q][h].at \in {"connected", "cut", "closed"}
    BY <1>0 DEF Exit, IInv, TypeOK
  <2> QED BY <1>2, <1>9, <2>1, WaitingKept DEF IInv, Exit, centre
<1>12. Orderly'
  BY DEF IInv, Orderly, Exit
<1> QED BY <1>1, <1>4, <1>5, <1>6, <1>7, <1>8, <1>10, <1>11, <1>12 DEF IInv

(* A step of the centre that only closes connections and drops tasks. *)
LEMMA DropTasks ==
    ASSUME IInv, NEW gone, tasks' = tasks \ gone,
           NEW conns, sock' = Cut(conns),
           UNCHANGED <<born, clock, table, pipe, registered, backlog, scope>>
    PROVE  IInv'
<1>1. /\ sock' \in [Procs -> [Handles -> Sockets]]
      /\ NoneNew /\ NoneClosed /\ SameDests
      /\ \A p \in Procs, h \in Handles :
            \/ sock'[p][h] = sock[p][h]
            \/ sock[p][h].at = "connected" /\ sock'[p][h] = [sock[p][h] EXCEPT !.at = "cut"]
  BY CutSome DEF IInv
<1>2. TypeOK'
  BY <1>1 DEF IInv, TypeOK
<1>3. /\ \A id \in Ids : IsOpen(id)' <=> IsOpen(id)
      /\ OpenKeys' \subseteq OpenKeys
      /\ \A q \in Procs, h \in Handles : sock'[q][h].at # "closed" => Client(q, h)' = Client(q, h)
  BY <1>1, Steady DEF IInv
<1>4. \A p \in Procs, h \in Handles :
         /\ sock'[p][h].at \in {"connected", "cut"} <=> sock[p][h].at \in {"connected", "cut"}
         /\ sock'[p][h].at \notin {"connected", "cut"} => sock'[p][h] = sock[p][h]
         /\ sock'[p][h].port = sock[p][h].port /\ sock'[p][h].gen = sock[p][h].gen
         /\ sock'[p][h].dest = sock[p][h].dest
  <2> SUFFICES ASSUME NEW p \in Procs, NEW h \in Handles
               PROVE  /\ sock'[p][h].at \in {"connected", "cut"} <=>
                         sock[p][h].at \in {"connected", "cut"}
                      /\ sock'[p][h].at \notin {"connected", "cut"} => sock'[p][h] = sock[p][h]
                      /\ sock'[p][h].port = sock[p][h].port /\ sock'[p][h].gen = sock[p][h].gen
                      /\ sock'[p][h].dest = sock[p][h].dest
    OBVIOUS
  <2>1. CASE sock'[p][h] = sock[p][h]
    BY <2>1
  <2>2. CASE sock[p][h].at = "connected" /\ sock'[p][h] = [sock[p][h] EXCEPT !.at = "cut"]
    BY <2>2 DEF IInv, TypeOK, Sockets
  <2> QED BY <1>1, <2>1, <2>2
<1>5. Proper'
  BY <1>4 DEF IInv, Proper
<1>6. PortsOwned'
  <2>1. Held' \subseteq Held
    BY <1>3 DEF Held
  <2> QED BY <2>1, Shrink, HeldType DEF IInv, TypeOK
<1>7. Asking'
  BY <1>1, <1>4, AskingKept DEF IInv
<1>8. Once' /\ TableOwn' /\ PairedRight'
  BY DEF IInv, Once, TableOwn, PairedRight
<1>9. \A c : Ready(c)' <=> Ready(c)
  BY DEF Ready
<1>10. Announcing'
  BY <1>3, <1>4, <1>9 DEF IInv, Announcing
<1>11. Waiting'
  BY <1>1, <1>4, <1>9, WaitingKept DEF IInv
<1>12. Orderly'
  BY <1>3, <1>4, ListTypes, IdType DEF IInv, Orderly
<1> QED BY <1>2, <1>5, <1>6, <1>7, <1>8, <1>10, <1>11, <1>12 DEF IInv

LEMMA DeleteTaskInv ==
    ASSUME IInv, NEW t \in tasks, DeleteTask(t)
    PROVE  IInv'
BY DropTasks DEF DeleteTask

LEMMA AliveTimerInv ==
    ASSUME IInv, AliveTimer
    PROVE  IInv'
BY DropTasks DEF AliveTimer

LEMMA ConnectInv ==
    ASSUME IInv, NEW p \in Procs, NEW h \in Handles, Connect(p, h)
    PROVE  IInv'
<1> DEFINE c == Client(p, h)
<1>1. /\ sock[p][h].at = "announced" /\ sock[p][h] \in Sockets
      /\ c \in Clients /\ c.id = <<p, born[p], h, sock[p][h].gen>>
      /\ IsOpen(c.id) /\ Key(c) \in OpenKeys /\ Ready(c)
  BY ClientType DEF IInv, Connect, TypeOK, Announcing
<1>2. PICK at \in {"connected", "idle"} :
         /\ sock' = [sock EXCEPT ![p][h].at = at]
         /\ at = "connected" => backlog' = Append(backlog, c)
         /\ at = "idle" => backlog' = backlog /\ scope.fail
  BY DEF Connect
<1>3. UNCHANGED <<born, clock, table, pipe, registered, tasks, scope>>
  BY DEF Connect
<1>4. /\ sock' \in [Procs -> [Handles -> Sockets]]
      /\ \A q \in Procs, k \in Handles :
            /\ sock'[q][k].at = IF q = p /\ k = h THEN at ELSE sock[q][k].at
            /\ sock'[q][k].port = sock[q][k].port /\ sock'[q][k].gen = sock[q][k].gen
            /\ sock'[q][k].dest = sock[q][k].dest
            /\ q # p \/ k # h => sock'[q][k] = sock[q][k]
  BY <1>1, <1>2 DEF IInv, TypeOK, Sockets
<1>5. backlog' \in Seq(Clients)
  <2>1. backlog \in Seq(Clients) /\ Append(backlog, c) \in Seq(Clients)
    BY <1>1, AppendProperties DEF IInv, TypeOK
  <2> QED BY <1>2, <2>1
<1>6. TypeOK'
  BY <1>3, <1>4, <1>5 DEF IInv, TypeOK
<1>7. NoneNew /\ NoneClosed /\ SameDests
  BY <1>1, <1>3, <1>4 DEF NoneNew, NoneClosed, SameDests
<1>8. /\ \A id \in Ids : IsOpen(id)' <=> IsOpen(id)
      /\ OpenKeys' \subseteq OpenKeys
      /\ \A q \in Procs, k \in Handles : sock'[q][k].at # "closed" => Client(q, k)' = Client(q, k)
  BY <1>7, Steady DEF IInv
<1>9. Proper'
  BY <1>1, <1>3, <1>4 DEF IInv, Proper
<1>10. \A i \in DOMAIN backlog' : \/ i \in DOMAIN backlog /\ backlog'[i] = backlog[i]
                                  \/ at = "connected" /\ backlog'[i] = c /\ i = Len(backlog) + 1
  <2>1. backlog \in Seq(Clients) /\ c \in Clients
    BY <1>1 DEF IInv, TypeOK
  <2>2. /\ Len(backlog) \in Nat /\ DOMAIN backlog = 1..Len(backlog)
        /\ DOMAIN Append(backlog, c) = 1..(Len(backlog) + 1)
        /\ \A i \in 1..Len(backlog) : Append(backlog, c)[i] = backlog[i]
        /\ Append(backlog, c)[Len(backlog) + 1] = c
    <3> HIDE DEF c
    <3> QED BY <2>1, AppendProperties, LenProperties
  <2> QED BY <1>2, <2>2
<1>11. PortsOwned'
  <2>1. Held' \subseteq Held
    BY <1>1, <1>3, <1>8, <1>10 DEF Held
  <2> QED BY <1>3, <2>1, Shrink, HeldType DEF IInv, TypeOK
<1>12. \A r \in pipe : r.id # c.id
  BY <1>1 DEF IInv, Asking
<1>13. Asking'
  <2> SUFFICES ASSUME NEW r \in pipe, IsOpen(r.id)'
               PROVE  /\ sock'[r.id[1]][r.id[3]].at = "asking" /\ Client(r.id[1], r.id[3])' = r
    BY <1>3 DEF Asking
  <2>1. /\ r.id \in Ids /\ r.id[1] \in Procs /\ r.id[3] \in Handles
        /\ IsOpen(r.id) /\ sock'[r.id[1]][r.id[3]].at # "closed"
    BY <1>8, ListTypes, IdType DEF IInv, IsOpen
  <2>2. sock[r.id[1]][r.id[3]].at = "asking" /\ Client(r.id[1], r.id[3]) = r
    BY <2>1 DEF IInv, Asking
  <2> QED BY <1>1, <1>4, <1>8, <2>1, <2>2
<1>14. \A i \in DOMAIN backlog : backlog[i].id # c.id
  BY <1>1 DEF IInv, Waiting, WaitsWell
<1>15. Once'
  BY <1>3, <1>10, <1>14 DEF IInv, Once
<1>16. TableOwn' /\ PairedRight'
  BY <1>3 DEF IInv, TableOwn, PairedRight
<1>17. \A d : Ready(d)' <=> Ready(d)
  BY <1>3 DEF Ready
<1>18. Announcing'
  BY <1>4, <1>8, <1>17 DEF IInv, Announcing
<1>19. Waiting'
  <2> SUFFICES ASSUME NEW i \in DOMAIN backlog' PROVE WaitsWell(backlog[i])'
    BY DEF Waiting
  <2>1. CASE i \in DOMAIN backlog /\ backlog'[i] = backlog[i]
    <3>0. PICK d : d = backlog[i]
      OBVIOUS
    <3>1. d \in Clients /\ WaitsWell(d) /\ d.id # c.id
      BY <2>1, <3>0, <1>14, ListTypes DEF IInv, Waiting
    <3>2. d.id \in Ids /\ d.id[1] \in Procs /\ d.id[3] \in Handles /\ d.id[2] = d.id[2]
      BY <3>1, IdType
    <3>3. ASSUME IsOpen(d.id)
          PROVE  /\ sock'[d.id[1]][d.id[3]].at \in {"connected", "cut"}
                 /\ Client(d.id[1], d.id[3])' = d /\ Ready(d)'
      <4>1. /\ sock[d.id[1]][d.id[3]].at \in {"connected", "cut"}
            /\ Client(d.id[1], d.id[3]) = d /\ Ready(d)
        BY <3>1, <3>3 DEF WaitsWell
      <4>2. sock'[d.id[1]][d.id[3]].at = sock[d.id[1]][d.id[3]].at
        BY <1>1, <1>4, <3>2, <4>1
      <4>3. Client(d.id[1], d.id[3])' = Client(d.id[1], d.id[3])
        BY <1>8, <3>2, <4>1, <4>2
      <4> QED BY <1>17, <4>1, <4>2, <4>3
    <3>4. WaitsWell(d)'
      BY <1>3, <1>8, <3>1, <3>2, <3>3 DEF WaitsWell
    <3> QED BY <2>1, <3>0, <3>4
  <2>2. CASE at = "connected" /\ backlog'[i] = c
    <3>1. \A j \in DOMAIN registered : registered[j].client.id = c.id => registered[j].client = c
      BY <1>1 DEF IInv, Once, Ready
    <3>2. sock'[p][h].at = "connected" /\ Client(p, h)' = c /\ Ready(c)
      BY <1>1, <1>4, <1>8, <2>2
    <3> QED BY <1>1, <1>3, <1>12, <1>17, <2>2, <3>1, <3>2 DEF WaitsWell
  <2> QED BY <1>10, <2>1, <2>2
<1>20. Orderly'
  BY <1>3, <1>4, <1>8, ListTypes, IdType DEF IInv, Orderly
<1> QED BY <1>6, <1>9, <1>11, <1>13, <1>15, <1>16, <1>18, <1>19, <1>20 DEF IInv

LEMMA RestartInv ==
    ASSUME IInv, Restart
    PROVE  IInv'
<1>1. ASSUME NEW p \in Procs, NEW h \in Handles
      PROVE  /\ sock'[p][h] \in Sockets
             /\ sock'[p][h].at = CASE sock[p][h].at = "connected" -> "cut"
                                   [] sock[p][h].at \in {"asking", "announced"} -> "idle"
                                   [] OTHER -> sock[p][h].at
             /\ sock'[p][h].port = sock[p][h].port /\ sock'[p][h].gen = sock[p][h].gen
             /\ sock'[p][h].dest = sock[p][h].dest
             /\ sock'[p][h].at = "closed" => sock'[p][h] = sock[p][h]
  <2>1. sock[p][h] \in Sockets
    BY DEF IInv, TypeOK
  <2>2. sock'[p][h] =
          CASE sock[p][h].at = "connected" -> [sock[p][h] EXCEPT !.at = "cut"]
            [] sock[p][h].at \in {"asking", "announced"} -> [sock[p][h] EXCEPT !.at = "idle"]
            [] OTHER -> sock[p][h]
    BY DEF Restart
  <2>3. CASE sock[p][h].at = "connected"
    BY <2>1, <2>2, <2>3 DEF Sockets
  <2>4. CASE sock[p][h].at \in {"asking", "announced"}
    BY <2>1, <2>2, <2>4 DEF Sockets
  <2>5. CASE sock[p][h].at \notin {"connected", "asking", "announced"}
    BY <2>1, <2>2, <2>5
  <2> QED BY <2>3, <2>4, <2>5
<1>2. sock' \in [Procs -> [Handles -> Sockets]]
  BY <1>1 DEF Restart
<1>3. /\ registered' = <<>> /\ backlog' = <<>> /\ tasks' = {} /\ pipe' = {}
      /\ UNCHANGED <<born, clock, table, scope>>
  BY DEF Restart
<1>4. TypeOK'
  BY <1>2, <1>3, EmptySeq DEF IInv, TypeOK
<1>5. NoneNew
  BY <1>1, <1>3 DEF NoneNew
<1>6. Proper'
  BY <1>1, <1>3 DEF IInv, Proper
<1>7. PortsOwned'
  <2>1. OpenKeys' \subseteq OpenKeys
    BY <1>5, Steady DEF IInv
  <2>2. Held' \subseteq Held
    BY <1>3, <2>1 DEF Held
  <2> QED BY <1>3, <2>2, Shrink, HeldType DEF IInv, TypeOK
<1>8. Asking' /\ Once' /\ Waiting' /\ PairedRight'
  BY <1>3 DEF Asking, Once, Waiting, PairedRight
<1>9. TableOwn'
  BY <1>3 DEF IInv, TableOwn
<1>10. Announcing'
  BY <1>1 DEF Announcing
<1>11. Orderly'
  BY <1>1, <1>3 DEF IInv, Orderly
<1> QED BY <1>4, <1>6, <1>7, <1>8, <1>9, <1>10, <1>11 DEF IInv

LEMMA TickInv ==
    ASSUME IInv, Tick
    PROVE  IInv'
<1>1. /\ backlog = <<>> /\ \A p \in Procs, h \in Handles : sock[p][h].at # "announced"
      /\ UNCHANGED <<born, clock, sock, table, pipe, backlog, tasks, scope>>
  BY DEF Tick, app
<1>2. /\ registered' \in Seq([client : Clients, age : 0..(Expiry + 1)])
      /\ DOMAIN registered' = DOMAIN registered
      /\ \A i \in DOMAIN registered : registered'[i].client = registered[i].client
  <2> DEFINE R == [client : Clients, age : 0..(Expiry + 1)]
             f(i) == [registered[i] EXCEPT !.age = IF @ <= Expiry THEN @ + 1 ELSE @]
  <2>1. \A i \in DOMAIN registered : registered[i] \in R
    BY ListTypes DEF IInv
  <2>2. \A i \in DOMAIN registered : f(i) \in R /\ f(i).client = registered[i].client
    BY <2>1, ReceptionAssumption
  <2>3. registered' = [i \in 1..Len(registered) |-> f(i)] /\ Len(registered) \in Nat
        /\ DOMAIN registered = 1..Len(registered)
    BY ListTypes DEF Tick, IInv
  <2>4. [i \in 1..Len(registered) |-> f(i)] \in Seq(R)
    BY <2>2, <2>3, IsASeq
  <2> QED BY <2>2, <2>3, <2>4
<1>3. TypeOK'
  BY <1>1, <1>2 DEF IInv, TypeOK
<1>4. OpenKeys' = OpenKeys /\ \A id : IsOpen(id)' <=> IsOpen(id)
  BY <1>1 DEF OpenKeys, IsOpen
<1>5. PortsOwned'
  <2>1. Held' \subseteq Held
    BY <1>1, <1>2, <1>4 DEF Held
  <2> QED BY <1>1, <2>1, Shrink, HeldType DEF IInv, TypeOK
<1>6. Proper' /\ TableOwn' /\ PairedRight'
  BY <1>1 DEF IInv, Proper, TableOwn, PairedRight
<1>7. Asking'
  BY <1>1, <1>4 DEF IInv, Asking, Client
<1>8. Once'
  BY <1>1, <1>2 DEF IInv, Once
<1>9. Announcing' /\ Waiting'
  BY <1>1 DEF Announcing, Waiting
<1>10. Orderly'
  BY <1>1, <1>2, <1>4 DEF IInv, Orderly
<1> QED BY <1>3, <1>5, <1>6, <1>7, <1>8, <1>9, <1>10 DEF IInv

(* A step that erases announcements, none of which an open socket needs, and may
   close sockets, connections or tasks. *)
Fewer(K) ==
    /\ registered' \in Seq([client : Clients, age : 0..(Expiry + 1)])
    /\ \A n \in DOMAIN registered' : \E i \in K : registered'[n] = registered[i]
    /\ \A i \in K : \E n \in DOMAIN registered' : registered'[n] = registered[i]
    /\ \A m, n \in DOMAIN registered' :
          registered'[m].client.id = registered'[n].client.id => m = n

LEMMA CheckTimerInv ==
    ASSUME IInv, CheckTimer
    PROVE  IInv'
<1> DEFINE K == {i \in DOMAIN registered : ~Old(registered[i])}
<1>1. UNCHANGED <<born, clock, sock, table, pipe, backlog, tasks, scope>>
  BY DEF CheckTimer, app
<1>2. Fewer(K)
  BY ErasedSome, ZenonT(60) DEF CheckTimer, Fewer, IInv
<1>3. TypeOK'
  BY <1>1, <1>2 DEF IInv, TypeOK, Fewer
<1>4. NoneNew /\ NoneClosed /\ SameDests
  BY <1>1 DEF NoneNew, NoneClosed, SameDests
<1>5. OpenKeys' = OpenKeys /\ \A id : IsOpen(id)' <=> IsOpen(id)
  BY <1>1 DEF OpenKeys, IsOpen
<1>6. PortsOwned'
  <2>1. Held' \subseteq Held
    BY <1>1, <1>2, <1>5 DEF Held, Fewer
  <2> QED BY <1>1, <2>1, Shrink, HeldType DEF IInv, TypeOK
<1>7. Proper' /\ TableOwn' /\ PairedRight'
  BY <1>1 DEF IInv, Proper, TableOwn, PairedRight
<1>8. Asking'
  BY <1>1, <1>4, AskingKept DEF IInv
<1>9. Once'
  BY <1>1, <1>2 DEF IInv, Once, Fewer
<1>10. \A c : Ready(c) => Ready(c)'
  <2>1. ASSUME NEW c, NEW j \in DOMAIN registered, registered[j] = [client |-> c, age |-> 0]
        PROVE  Ready(c)'
    <3>1. j \in K
      BY <2>1, ReceptionAssumption DEF Old
    <3> QED BY <1>2, <2>1, <3>1 DEF Fewer, Ready
  <2> QED BY <2>1 DEF Ready
<1>11. Announcing'
  BY <1>1, <1>10 DEF IInv, Announcing, Client
<1>12. Waiting'
  BY <1>1, <1>2, <1>4, <1>10, WaitingKept DEF IInv, Fewer
<1>13. Orderly'
  BY <1>1, <1>2, <1>5 DEF IInv, Orderly, Fewer
<1> QED BY <1>3, <1>6, <1>7, <1>8, <1>9, <1>11, <1>12, <1>13 DEF IInv

LEMMA CloseSocketInv ==
    ASSUME IInv, NEW p \in Procs, NEW h \in Handles, NEW reached \in {TRUE, ~scope.fail},
           CloseSocket(p, h, reached)
    PROVE  IInv'
<1> DEFINE erases == table[p][h] # <<>> /\ reached
           K == {i \in DOMAIN registered : erases => registered[i].client.id # Head(table[p][h]).id}
<1>0. Closed \in Sockets /\ Closed.at = "closed"
  BY ReceptionAssumption DEF Closed, Sockets
<1>1. UNCHANGED <<born, clock, pipe, backlog, tasks, scope>>
  BY DEF CloseSocket
<1>2. Fewer(K)
  <2>1. CASE erases
    <3>1. registered' = Only(registered, {i \in DOMAIN registered :
                                registered[i].client.id # Head(table[p][h]).id})
      BY <2>1 DEF CloseSocket, Unregistered
    <3>2. K = {i \in DOMAIN registered : registered[i].client.id # Head(table[p][h]).id}
      BY <2>1
    <3>3. registered' = Only(registered, K) /\ K \in SUBSET DOMAIN registered
      BY <3>1, <3>2
    <3> HIDE DEF K
    <3> QED BY <3>3, ErasedSome DEF Fewer, IInv
  <2>2. CASE ~erases
    <3>1. registered' = registered
      BY <2>2 DEF CloseSocket
    <3>2. K = DOMAIN registered
      BY <2>2
    <3> QED BY <3>1, <3>2 DEF Fewer, IInv, TypeOK, Once
  <2> QED BY <2>1, <2>2
<1>3. /\ sock' \in [Procs -> [Handles -> Sockets]]
      /\ sock'[p][h] = Closed
      /\ table' \in [Procs -> [Handles -> Seq(Clients)]]
      /\ table'[p][h] = <<>>
      /\ \A q \in Procs, k \in Handles : q # p \/ k # h =>
            sock'[q][k] = sock[q][k] /\ table'[q][k] = table[q][k]
  BY <1>0, EmptySeq DEF CloseSocket, IInv, TypeOK
<1>4. TypeOK'
  BY <1>1, <1>2, <1>3 DEF IInv, TypeOK, Fewer
<1>5. NoneNew /\ SameDests
  BY <1>0, <1>1, <1>3 DEF NoneNew, SameDests
<1>6. /\ \A id \in Ids : IsOpen(id)' => IsOpen(id) /\ (id[1] # p \/ id[3] # h)
      /\ \A id \in Ids : IsOpen(id) /\ (id[1] # p \/ id[3] # h) => IsOpen(id)'
      /\ OpenKeys' \subseteq OpenKeys
      /\ \A q \in Procs, k \in Handles : sock'[q][k].at # "closed" => Client(q, k)' = Client(q, k)
  <2>1. \A id \in Ids : IsOpen(id)' => id[1] # p \/ id[3] # h
    BY <1>0, <1>3 DEF IsOpen
  <2>2. \A id \in Ids : IsOpen(id) /\ (id[1] # p \/ id[3] # h) => IsOpen(id)'
    BY <1>1, <1>3 DEF IsOpen, Ids
  <2> QED BY <1>5, <2>1, <2>2, Steady DEF IInv
<1>7. Proper'
  <2> SUFFICES ASSUME NEW q \in Procs, NEW k \in Handles
               PROVE  IF sock'[q][k].at = "closed" THEN sock'[q][k] = Closed
                      ELSE /\ born'[q] # 0 /\ sock'[q][k].gen \in 1..clock'
                           /\ sock'[q][k].port \in Ports /\ sock'[q][k].dest \in Dests
    BY DEF Proper
  <2>1. CASE q = p /\ k = h
    BY <1>0, <1>3, <2>1
  <2>2. CASE q # p \/ k # h
    <3>1. sock'[q][k] = sock[q][k]
      BY <1>3, <2>2
    <3>2. born' = born /\ clock' = clock
      BY <1>1
    <3>3. IF sock[q][k].at = "closed" THEN sock[q][k] = Closed
          ELSE /\ born[q] # 0 /\ sock[q][k].gen \in 1..clock
               /\ sock[q][k].port \in Ports /\ sock[q][k].dest \in Dests
      BY DEF IInv, Proper
    <3> QED BY <3>1, <3>2, <3>3
  <2> QED BY <2>1, <2>2
<1>8. PortsOwned'
  <2>1. Held' \subseteq Held
    BY <1>1, <1>2, <1>6 DEF Held, Fewer
  <2> QED BY <1>1, <2>1, Shrink, HeldType DEF IInv, TypeOK
<1>9. Asking'
  <2>1. \A q \in Procs, k \in Handles :
           sock[q][k].at = "asking" => sock'[q][k].at \in {"asking", "closed"}
    BY <1>0, <1>3
  <2> QED BY <1>1, <1>5, <2>1, AskingKept DEF IInv
<1>10. Once'
  BY <1>1, <1>2 DEF IInv, Once, Fewer
<1>11. TableOwn'
  <2> SUFFICES ASSUME NEW q \in Procs, NEW k \in Handles, NEW i \in DOMAIN table'[q][k]
               PROVE  table'[q][k][i].id[1] = q /\ table'[q][k][i].id[3] = k
    BY DEF TableOwn
  <2>1. q # p \/ k # h
    BY <1>3
  <2>2. table'[q][k] = table[q][k]
    BY <1>3, <2>1
  <2> QED BY <2>2 DEF IInv, TableOwn
<1>12. PairedRight'
  BY <1>1 DEF IInv, PairedRight
<1>13. erases => Head(table[p][h]).id[1] = p /\ Head(table[p][h]).id[3] = h
                 /\ Head(table[p][h]) = table[p][h][1] /\ 1 \in DOMAIN table[p][h]
  <2>1. table[p][h] \in Seq(Clients)
    BY DEF IInv, TypeOK
  <2>2. erases => 1 \in DOMAIN table[p][h] /\ Head(table[p][h]) = table[p][h][1]
    BY <2>1, EmptySeq, LenProperties, HeadTailProperties
  <2> QED BY <2>2 DEF IInv, TableOwn
<1>14. ASSUME NEW c, c.id[1] # p \/ c.id[3] # h, Ready(c) PROVE Ready(c)'
  <2>1. PICK j \in DOMAIN registered : registered[j] = [client |-> c, age |-> 0]
    BY <1>14 DEF Ready
  <2>2. j \in K
    BY <1>13, <1>14, <2>1
  <2> QED BY <1>2, <2>1, <2>2 DEF Fewer, Ready
<1>15. Announcing'
  <2> SUFFICES ASSUME NEW q \in Procs, NEW k \in Handles, sock'[q][k].at = "announced"
               PROVE  Ready(Client(q, k))'
    BY DEF Announcing
  <2>1. q # p \/ k # h
    BY <1>0, <1>3
  <2>2. sock[q][k].at = "announced" /\ Client(q, k)' = Client(q, k)
    BY <1>3, <1>6, <2>1
  <2>3. PICK c : c = Client(q, k)
    OBVIOUS
  <2>4. Ready(c) /\ c.id[1] = q /\ c.id[3] = k
    BY <2>2, <2>3 DEF IInv, Announcing, Client
  <2>5. Ready(c)'
    BY <1>14, <2>1, <2>4
  <2> QED BY <2>2, <2>3, <2>5
<1>16. Waiting'
  <2>1. ASSUME NEW i \in DOMAIN backlog', IsOpen(backlog[i].id)', Ready(backlog'[i])
        PROVE  Ready(backlog[i])'
    <3>1. PICK c : c = backlog[i]
      OBVIOUS
    <3>2. c \in Clients /\ c = backlog'[i] /\ IsOpen(c.id)' /\ Ready(c)
      BY <1>1, <2>1, <3>1, ListTypes DEF IInv
    <3>3. c.id[1] # p \/ c.id[3] # h
      BY <1>6, <3>2, IdType
    <3>4. Ready(c)'
      BY <1>14, <3>2, <3>3
    <3> QED BY <3>2, <3>4
  <2>2. \A q \in Procs, k \in Handles :
           sock[q][k].at \in {"connected", "cut"} =>
              sock'[q][k].at \in {"connected", "cut", "closed"}
    BY <1>0, <1>3
  <2> QED BY <1>1, <1>2, <1>5, <2>1, <2>2, WaitingKept DEF IInv, Fewer
<1>17. Orderly'
  <2> SUFFICES ASSUME scope.reuse PROVE Orderly'
    BY <1>1 DEF Orderly
  <2>1. ~scope.exit /\ ~scope.fail /\ ~scope.cancel /\ reached
    BY DEF IInv, Orderly
  <2>2. ASSUME NEW r \in pipe PROVE IsOpen(r.id)'
    <3>1. r.id \in Ids /\ r.id[1] \in Procs /\ r.id[3] \in Handles
      BY ListTypes, IdType DEF IInv
    <3>2. IsOpen(r.id) /\ sock[r.id[1]][r.id[3]].at = "asking"
      BY DEF IInv, Orderly, Asking
    <3>3. sock[p][h].at # "asking"
      BY <2>1 DEF CloseSocket
    <3> QED BY <1>6, <3>1, <3>2, <3>3
  <2>3. ASSUME NEW n \in DOMAIN registered'
        PROVE  /\ IsOpen(registered[n].client.id)'
               /\ table'[registered'[n].client.id[1]][registered'[n].client.id[3]] # <<>>
    <3>1. PICK i \in K : registered'[n] = registered[i]
      BY <1>2 DEF Fewer
    <3>2. PICK id : id = registered[i].client.id
      OBVIOUS
    <3>3. /\ id \in Ids /\ id[1] \in Procs /\ id[3] \in Handles
          /\ id = <<id[1], id[2], id[3], id[4]>>
      BY <3>2, ListTypes, IdType DEF IInv
    <3>4. IsOpen(id) /\ table[id[1]][id[3]] # <<>>
      BY <3>2 DEF IInv, Orderly
    <3>5. id[1] # p \/ id[3] # h
      <4>1. SUFFICES ASSUME id[1] = p, id[3] = h PROVE FALSE
        OBVIOUS
      <4>2. erases
        BY <2>1, <3>4, <4>1
      <4>3. Head(table[p][h]).id = <<p, born[p], h, sock[p][h].gen>>
        BY <1>13, <4>2 DEF IInv, Orderly
      <4>4. id = <<p, born[p], h, sock[p][h].gen>>
        BY <3>3, <3>4, <4>1 DEF IsOpen
      <4> QED BY <3>2, <4>2, <4>3, <4>4
    <3>6. IsOpen(id)' /\ table'[id[1]][id[3]] # <<>>
      BY <1>3, <1>6, <3>3, <3>4, <3>5
    <3> QED BY <3>1, <3>2, <3>6
  <2>4. ASSUME NEW q \in Procs, NEW k \in Handles, NEW i \in DOMAIN table'[q][k]
        PROVE  table'[q][k][i].id = <<q, born'[q], k, sock'[q][k].gen>>
    <3>1. q # p \/ k # h
      BY <1>3
    <3>2. table'[q][k] = table[q][k] /\ sock'[q][k] = sock[q][k]
      BY <1>3, <3>1
    <3> QED BY <1>1, <3>2 DEF IInv, Orderly
  <2> QED BY <1>1, <2>1, <2>2, <2>3, <2>4 DEF Orderly
<1> QED BY <1>4, <1>7, <1>8, <1>9, <1>10, <1>11, <1>12, <1>15, <1>16, <1>17 DEF IInv

(* The announcements that are left after OnAccept took one. *)
LEMMA RemovedOne ==
    ASSUME TypeOK, Once, NEW m \in DOMAIN registered, registered' = RemoveAt(registered, m)
    PROVE  Fewer(DOMAIN registered \ {m})
<1> DEFINE R == [client : Clients, age : 0..(Expiry + 1)]
           n == Len(registered)
           a == SubSeq(registered, 1, m - 1)
           b == SubSeq(registered, m + 1, n)
<1>1. n \in Nat /\ DOMAIN registered = 1..n /\ m \in 1..n /\ registered \in Seq(R)
  BY LenProperties DEF TypeOK
<1>2. \A i \in 1..n : registered[i] \in R
  BY <1>1, ElementOfSeq
<1>3. a \in Seq(R) /\ Len(a) = m - 1 /\ \A i \in 1..(m - 1) : a[i] = registered[i]
  BY <1>1, <1>2, SubSeqProperties
<1>4. b \in Seq(R) /\ Len(b) = n - m /\ \A i \in 1..(n - m) : b[i] = registered[m + i]
  <2> HIDE DEF R, n
  <2>1. /\ Len(registered) = n /\ m + 1 \in 1..(n + 1) /\ n \in m..n
        /\ n - (m + 1) + 1 = n - m /\ \A i \in (m + 1)..n : registered[i] \in R
    BY <1>1, <1>2 DEF n
  <2>2. b \in Seq(R) /\ Len(b) = n - m
    BY <1>1, <2>1, SubSeqProperties
  <2>3. \A i \in 1..(n - m) : b[i] = registered[m + i]
    BY <1>1, <2>1, SubSeqProperties
  <2> QED BY <2>2, <2>3
<1>5. registered' = a \o b
  BY DEF RemoveAt
<1> HIDE DEF R, n, a, b
<1>6. /\ a \o b \in Seq(R) /\ Len(a \o b) = n - 1
      /\ \A i \in 1..(n - 1) : (a \o b)[i] = IF i < m THEN registered[i] ELSE registered[i + 1]
  <2>1. a \o b \in Seq(R) /\ Len(a \o b) = n - 1
    <3>1. a \o b \in Seq(R) /\ Len(a \o b) = Len(a) + Len(b)
      BY <1>3, <1>4, ConcatProperties
    <3>2. (m - 1) + (n - m) = n - 1
      BY <1>1
    <3> QED BY <1>3, <1>4, <3>1, <3>2
  <2>2. \A i \in 1..(n - 1) : (a \o b)[i] = IF i <= Len(a) THEN a[i] ELSE b[i - Len(a)]
    BY <1>1, <1>3, <1>4, ConcatProperties
  <2>3. ASSUME NEW i \in 1..(n - 1)
        PROVE  (a \o b)[i] = IF i < m THEN registered[i] ELSE registered[i + 1]
    <3>1. CASE i < m
      BY <1>1, <1>3, <2>2, <3>1
    <3>2. CASE ~(i < m)
      <4>1. i - (m - 1) \in 1..(n - m) /\ m + (i - (m - 1)) = i + 1 /\ ~(i <= m - 1)
        BY <1>1, <3>2
      <4> QED BY <1>3, <1>4, <2>2, <3>2, <4>1
    <3> QED BY <3>1, <3>2
  <2> QED BY <2>1, <2>3
<1>7. DOMAIN registered' = 1..(n - 1) /\ registered' \in Seq(R)
  BY <1>5, <1>6, LenProperties
<1>8. \A i \in 1..(n - 1) : registered'[i] = IF i < m THEN registered[i] ELSE registered[i + 1]
  BY <1>5, <1>6
<1>9. \A i \in DOMAIN registered' : \E j \in DOMAIN registered \ {m} : registered'[i] = registered[j]
  <2> SUFFICES ASSUME NEW i \in 1..(n - 1)
               PROVE  \E j \in (1..n) \ {m} : registered'[i] = registered[j]
    BY <1>1, <1>7
  <2>1. CASE i < m
    BY <1>1, <1>8, <2>1
  <2>2. CASE ~(i < m)
    <3>1. i + 1 \in (1..n) \ {m} /\ registered'[i] = registered[i + 1]
      BY <1>1, <1>8, <2>2
    <3> QED BY <3>1
  <2> QED BY <2>1, <2>2
<1>10. \A j \in DOMAIN registered \ {m} : \E i \in DOMAIN registered' : registered'[i] = registered[j]
  <2> SUFFICES ASSUME NEW j \in (1..n) \ {m}
               PROVE  \E i \in 1..(n - 1) : registered'[i] = registered[j]
    BY <1>1, <1>7
  <2>1. CASE j < m
    BY <1>1, <1>8, <2>1
  <2>2. CASE ~(j < m)
    <3>1. j - 1 \in 1..(n - 1) /\ ~(j - 1 < m) /\ (j - 1) + 1 = j
      BY <1>1, <2>2
    <3>2. registered'[j - 1] = registered[j]
      BY <1>8, <3>1
    <3> QED BY <3>1, <3>2
  <2> QED BY <2>1, <2>2
<1>11. \A i, j \in DOMAIN registered' :
          registered'[i].client.id = registered'[j].client.id => i = j
  <2> SUFFICES ASSUME NEW i \in 1..(n - 1), NEW j \in 1..(n - 1),
                      registered'[i].client.id = registered'[j].client.id
               PROVE  i = j
    BY <1>7
  <2> DEFINE up(k) == IF k < m THEN k ELSE k + 1
  <2>1. \A k \in 1..(n - 1) : up(k) \in 1..n /\ registered'[k] = registered[up(k)]
    BY <1>1, <1>8
  <2>2. up(i) = up(j)
    <3> HIDE DEF up
    <3> QED BY <1>1, <2>1 DEF Once
  <2> QED BY <1>1, <2>2
<1> QED BY <1>7, <1>9, <1>10, <1>11 DEF Fewer, R

LEMMA OnAcceptInv ==
    ASSUME IInv, NEW known \in BOOLEAN, NEW served \in BOOLEAN, OnAccept(known, served)
    PROVE  IInv'
<1>1. PICK c : c = Head(backlog)
  OBVIOUS
<1>2. /\ backlog # <<>> /\ backlog' = Tail(backlog) /\ (served => known)
      /\ known => Matches(c) # {} /\ registered' = RemoveAt(registered, FirstMatch(c))
      /\ ~known => registered' = registered
      /\ ~served => tasks' = tasks /\ sock' = Cut({c})
      /\ served => /\ sock' = sock
                   /\ tasks' = tasks \cup {[client |-> registered[FirstMatch(c)].client, conn |-> c]}
      /\ UNCHANGED <<born, clock, table, pipe, scope>>
  BY <1>1 DEF OnAccept
<1>3. /\ backlog \in Seq(Clients) /\ Len(backlog) \in Nat /\ Len(backlog) >= 1
      /\ c = backlog[1] /\ 1 \in DOMAIN backlog /\ c \in Clients
  BY <1>1, <1>2, EmptySeq, LenProperties, HeadTailProperties, ElementOfSeq DEF IInv, TypeOK
<1>4. /\ backlog' \in Seq(Clients)
      /\ \A i \in DOMAIN backlog' : i + 1 \in DOMAIN backlog /\ backlog'[i] = backlog[i + 1]
                                    /\ i + 1 # 1
  BY <1>2, <1>3, HeadTailProperties, LenProperties
<1>5. WaitsWell(c) /\ Key(c) \in Held
  BY <1>3 DEF IInv, Waiting, Held
<1>6. ASSUME known
      PROVE  /\ FirstMatch(c) \in DOMAIN registered
             /\ registered[FirstMatch(c)].client = c
  <2>1. ASSUME NEW i \in Matches(c) PROVE i \in DOMAIN registered /\ registered[i].client = c
    <3>1. i \in DOMAIN registered /\ registered[i].client.port = c.port
      BY DEF Matches
    <3>2. Key(registered[i].client) \in Held
      BY <3>1 DEF Held
    <3>3. registered[i].client.id = c.id
      BY <1>5, <3>1, <3>2 DEF IInv, PortsOwned, Own, Key
    <3> QED BY <1>5, <3>1, <3>3 DEF WaitsWell
  <2>2. \A i, j \in Matches(c) : i = j
    BY <2>1 DEF IInv, Once
  <2>3. \A i \in Matches(c) : i \in Nat
    BY ListTypes DEF IInv, Matches
  <2>4. \E i \in Matches(c) : \A j \in Matches(c) : i <= j
    BY <1>2, <1>6, <2>2, <2>3
  <2>5. FirstMatch(c) \in Matches(c)
    BY <2>4 DEF FirstMatch
  <2> QED BY <2>1, <2>5
<1>7. PICK K \in SUBSET DOMAIN registered :
         /\ Fewer(K)
         /\ \A i \in DOMAIN registered : registered[i].client.id # c.id => i \in K
  <2>1. CASE known
    <3>1. Fewer(DOMAIN registered \ {FirstMatch(c)})
      BY <1>2, <1>6, <2>1, RemovedOne DEF IInv
    <3> QED BY <1>6, <2>1, <3>1
  <2>2. CASE ~known
    <3>1. Fewer(DOMAIN registered)
      BY <1>2, <2>2 DEF Fewer, IInv, TypeOK, Once
    <3> QED BY <3>1
  <2> QED BY <2>1, <2>2
<1>8. /\ sock' \in [Procs -> [Handles -> Sockets]]
      /\ NoneNew /\ NoneClosed /\ SameDests
      /\ \A p \in Procs, h \in Handles :
            \/ sock'[p][h] = sock[p][h]
            \/ sock[p][h].at = "connected" /\ sock'[p][h] = [sock[p][h] EXCEPT !.at = "cut"]
  <2>1. CASE served
    BY <1>2, <2>1 DEF IInv, TypeOK, NoneNew, NoneClosed, SameDests
  <2>2. CASE ~served
    BY <1>2, <2>2, CutSome DEF IInv
  <2> QED BY <2>1, <2>2
<1>9. tasks' \subseteq [client : Clients, conn : Clients] /\ PairedRight'
      /\ \A t \in tasks' : t \in tasks \/ t.conn = c
  BY <1>2, <1>3, <1>6 DEF IInv, TypeOK, PairedRight
<1>10. TypeOK'
  BY <1>2, <1>4, <1>7, <1>8, <1>9 DEF IInv, TypeOK, Fewer
<1>11. /\ \A id \in Ids : IsOpen(id)' <=> IsOpen(id)
       /\ OpenKeys' \subseteq OpenKeys
       /\ \A q \in Procs, h \in Handles : sock'[q][h].at # "closed" => Client(q, h)' = Client(q, h)
  BY <1>8, Steady DEF IInv
<1>12. ASSUME NEW p \in Procs, NEW h \in Handles
       PROVE  /\ sock'[p][h].at \in {"connected", "cut"} <=> sock[p][h].at \in {"connected", "cut"}
              /\ sock'[p][h].at \notin {"connected", "cut"} => sock'[p][h] = sock[p][h]
              /\ sock'[p][h].port = sock[p][h].port /\ sock'[p][h].gen = sock[p][h].gen
              /\ sock'[p][h].dest = sock[p][h].dest
  <2>1. CASE sock'[p][h] = sock[p][h]
    BY <2>1
  <2>2. CASE sock[p][h].at = "connected" /\ sock'[p][h] = [sock[p][h] EXCEPT !.at = "cut"]
    BY <2>2 DEF IInv, TypeOK, Sockets
  <2> QED BY <1>8, <2>1, <2>2
<1>13. Proper'
  BY <1>2, <1>12 DEF IInv, Proper
<1>14. PortsOwned'
  <2>1. Held' \subseteq Held
    BY <1>2, <1>4, <1>5, <1>7, <1>9, <1>11 DEF Held, Fewer
  <2> QED BY <1>2, <2>1, Shrink, HeldType DEF IInv, TypeOK
<1>15. Asking'
  BY <1>2, <1>8, <1>12, AskingKept DEF IInv
<1>16. \A i \in DOMAIN backlog' : backlog'[i].id # c.id
  BY <1>3, <1>4 DEF IInv, Once
<1>17. Once'
  <2>1. \A i, j \in DOMAIN backlog' : backlog'[i].id = backlog'[j].id => i = j
    <3> SUFFICES ASSUME NEW i \in DOMAIN backlog', NEW j \in DOMAIN backlog',
                        backlog'[i].id = backlog'[j].id
                 PROVE  i = j
      OBVIOUS
    <3>1. i + 1 = j + 1
      BY <1>4 DEF IInv, Once
    <3>2. i \in Nat /\ j \in Nat
      BY <1>4, LenProperties
    <3> QED BY <3>1, <3>2
  <2> QED BY <1>7, <2>1 DEF Once, Fewer
<1>18. TableOwn'
  BY <1>2 DEF IInv, TableOwn
<1>19. ASSUME NEW d, d.id # c.id, Ready(d) PROVE Ready(d)'
  <2>1. PICK j \in DOMAIN registered : registered[j] = [client |-> d, age |-> 0]
    BY <1>19 DEF Ready
  <2>2. j \in K
    BY <1>7, <1>19, <2>1
  <2> QED BY <1>7, <2>1, <2>2 DEF Fewer, Ready
<1>20. Announcing'
  <2> SUFFICES ASSUME NEW p \in Procs, NEW h \in Handles, sock'[p][h].at = "announced"
               PROVE  Ready(Client(p, h))'
    BY DEF Announcing
  <2>1. sock[p][h].at = "announced" /\ Client(p, h)' = Client(p, h)
    BY <1>11, <1>12
  <2>2. PICK d : d = Client(p, h)
    OBVIOUS
  <2>3. Ready(d) /\ d.id = <<p, born[p], h, sock[p][h].gen>>
    BY <2>1, <2>2 DEF IInv, Announcing, Client
  <2>4. d.id # c.id
    <3>1. SUFFICES ASSUME d.id = c.id PROVE FALSE
      OBVIOUS
    <3>2. IsOpen(c.id) /\ c.id[1] = p /\ c.id[3] = h
      BY <2>1, <2>3, <3>1 DEF IsOpen
    <3> QED BY <1>5, <2>1, <3>2 DEF WaitsWell
  <2>5. Ready(d)'
    BY <1>19, <2>3, <2>4
  <2> QED BY <2>1, <2>2, <2>5
<1>21. Waiting'
  <2>1. ASSUME NEW i \in DOMAIN backlog', IsOpen(backlog[i].id)', Ready(backlog'[i])
        PROVE  Ready(backlog[i])'
    <3>1. PICK d : d = backlog'[i]
      OBVIOUS
    <3>2. Ready(d)'
      BY <1>16, <1>19, <2>1, <3>1
    <3> QED BY <3>1, <3>2
  <2>2. \A i \in DOMAIN backlog' : \E j \in DOMAIN backlog : backlog'[i] = backlog[j]
    BY <1>4
  <2>3. \A i \in DOMAIN registered' :
           \E j \in DOMAIN registered : registered'[i].client = registered[j].client
    BY <1>7 DEF Fewer
  <2> QED BY <1>2, <1>8, <1>12, <2>1, <2>2, <2>3, WaitingKept DEF IInv
<1>22. Orderly'
  <2> SUFFICES ASSUME scope.reuse PROVE Orderly'
    BY <1>2 DEF Orderly
  <2>1. \A r \in pipe : IsOpen(r.id)'
    BY <1>11, ListTypes, IdType DEF IInv, Orderly
  <2>2. ASSUME NEW n \in DOMAIN registered'
        PROVE  /\ IsOpen(registered[n].client.id)'
               /\ table'[registered'[n].client.id[1]][registered'[n].client.id[3]] # <<>>
    <3>1. PICK i \in DOMAIN registered : registered'[n] = registered[i]
      BY <1>7 DEF Fewer
    <3>2. PICK id : id = registered[i].client.id
      OBVIOUS
    <3>3. id \in Ids /\ IsOpen(id) /\ table[id[1]][id[3]] # <<>>
      BY <3>2, ListTypes, IdType DEF IInv, Orderly
    <3>4. IsOpen(id)'
      BY <1>11, <3>3
    <3> QED BY <1>2, <3>1, <3>2, <3>3, <3>4
  <2>3. \A p \in Procs, h \in Handles : \A i \in DOMAIN table'[p][h] :
           table'[p][h][i].id = <<p, born'[p], h, sock'[p][h].gen>>
    BY <1>2, <1>12 DEF IInv, Orderly
  <2> QED BY <1>2, <2>1, <2>2, <2>3 DEF IInv, Orderly
<1> QED BY <1>9, <1>10, <1>13, <1>14, <1>15, <1>17, <1>18, <1>20, <1>21, <1>22 DEF IInv

(* RegisterTCPClient: what c announced before is replaced. *)
LEMMA AnnouncedOnce ==
    ASSUME TypeOK, Once, NEW c \in Clients
    PROVE  LET R == Announced(registered, c) a == [client |-> c, age |-> 0] IN
           /\ R \in Seq([client : Clients, age : 0..(Expiry + 1)])
           /\ \A n \in DOMAIN R :
                 R[n] = a \/ \E i \in DOMAIN registered :
                                registered[i].client.id # c.id /\ R[n] = registered[i]
           /\ \A i \in DOMAIN registered :
                 registered[i].client.id # c.id => \E n \in DOMAIN R : R[n] = registered[i]
           /\ \E n \in DOMAIN R : R[n] = a
           /\ \A m, n \in DOMAIN R : R[m].client.id = R[n].client.id => m = n
<1> DEFINE E == [client : Clients, age : 0..(Expiry + 1)]
           a == [client |-> c, age |-> 0]
           old == {i \in DOMAIN registered : registered[i].client.id = c.id}
           R == Announced(registered, c)
<1>1. a \in E /\ a.client = c
  BY ReceptionAssumption
<1>2. registered \in Seq(E) /\ Len(registered) \in Nat /\ DOMAIN registered = 1..Len(registered)
  BY LenProperties DEF TypeOK
<1>3. CASE old = {}
  <2>1. R = Append(registered, a)
    BY <1>3 DEF Announced
  <2> HIDE DEF R, a, E
  <2>2. /\ R \in Seq(E) /\ DOMAIN R = 1..(Len(registered) + 1)
        /\ \A i \in 1..Len(registered) : R[i] = registered[i]
        /\ R[Len(registered) + 1] = a
    BY <1>1, <1>2, <2>1, AppendProperties, LenProperties
  <2>3. \A i \in DOMAIN registered : registered[i].client.id # c.id
    BY <1>3
  <2>4. \A n \in DOMAIN R : \/ R[n] = a /\ n = Len(registered) + 1
                            \/ n \in DOMAIN registered /\ R[n] = registered[n]
    BY <1>2, <2>2
  <2>5. \A m, n \in DOMAIN R : R[m].client.id = R[n].client.id => m = n
    BY <1>1, <2>3, <2>4 DEF Once
  <2> QED BY <1>2, <2>2, <2>3, <2>4, <2>5 DEF R, a, E
<1>4. CASE old # {}
  <2>1. PICK x \in DOMAIN registered : registered[x].client.id = c.id
    BY <1>4
  <2>2. old = {x}
    BY <2>1 DEF Once
  <2>3. (CHOOSE i \in old : \A j \in old : i <= j) = x
    BY <1>2, <2>1, <2>2
  <2>4. R = [registered EXCEPT ![x] = a]
    BY <1>4, <2>3 DEF Announced
  <2> HIDE DEF R, a, E
  <2>5. R \in Seq(E) /\ DOMAIN R = DOMAIN registered
    BY <1>1, <1>2, <2>1, <2>4, ExceptSeq
  <2>6. R[x] = a /\ \A n \in DOMAIN registered : n # x => R[n] = registered[n]
    BY <2>1, <2>4
  <2>7. \A n \in DOMAIN registered : n # x => registered[n].client.id # c.id
    BY <2>1 DEF Once
  <2>8. \A m, n \in DOMAIN R : R[m].client.id = R[n].client.id => m = n
    BY <1>1, <2>5, <2>6, <2>7 DEF Once
  <2> QED BY <2>1, <2>5, <2>6, <2>7, <2>8 DEF R, a, E
<1> QED BY <1>3, <1>4

LEMMA PushOwn ==
    ASSUME NEW list \in Seq(Clients), NEW c \in Clients
    PROVE  /\ Push(list, c) \in Seq(Clients) /\ Push(list, c) # <<>>
           /\ \A n \in DOMAIN Push(list, c) :
                 Push(list, c)[n] = c \/ \E i \in DOMAIN list : Push(list, c)[n] = list[i]
<1> DEFINE same == {i \in DOMAIN list : list[i].port = c.port /\ list[i].dest = c.dest}
<1>1. Len(list) \in Nat /\ DOMAIN list = 1..Len(list)
  BY LenProperties
<1>2. CASE same = {}
  <2>1. Push(list, c) = <<c>> \o list
    BY <1>2 DEF Push
  <2>2. <<c>> \in Seq(Clients) /\ Len(<<c>>) = 1 /\ <<c>>[1] = c
    OBVIOUS
  <2>3. /\ <<c>> \o list \in Seq(Clients) /\ Len(<<c>> \o list) = 1 + Len(list)
        /\ \A i \in 1..(1 + Len(list)) :
              (<<c>> \o list)[i] = IF i <= 1 THEN <<c>>[i] ELSE list[i - 1]
    BY <2>2, ConcatProperties
  <2>4. DOMAIN Push(list, c) = 1..(1 + Len(list))
    BY <2>1, <2>3, LenProperties
  <2>5. \A i \in 1..(1 + Len(list)) :
           Push(list, c)[i] = c \/ (i - 1 \in DOMAIN list /\ Push(list, c)[i] = list[i - 1])
    BY <1>1, <2>1, <2>2, <2>3
  <2>6. Push(list, c) # <<>>
    BY <1>1, <2>1, <2>3
  <2> QED BY <2>1, <2>3, <2>4, <2>5, <2>6
<1>3. CASE same # {}
  <2>1. PICK x : x = CHOOSE i \in same : \A j \in same : i <= j
    OBVIOUS
  <2>2. Push(list, c) = [list EXCEPT ![x] = c]
    BY <1>3, <2>1 DEF Push
  <2>3. list # <<>>
    BY <1>3
  <2> HIDE DEF same
  <2>4. /\ DOMAIN Push(list, c) = DOMAIN list
        /\ \A n \in DOMAIN list : Push(list, c)[n] = c \/ Push(list, c)[n] = list[n]
    BY <2>2
  <2>5. \A n \in 1..Len(list) : Push(list, c)[n] \in Clients
    BY <1>1, <2>4, ElementOfSeq
  <2>6. Push(list, c) = [n \in 1..Len(list) |-> Push(list, c)[n]]
    BY <1>1, <2>2
  <2>7. Push(list, c) \in Seq(Clients)
    BY <1>1, <2>5, <2>6, IsASeq
  <2>8. Push(list, c) # <<>>
    BY <1>1, <2>3, <2>4
  <2> QED BY <2>4, <2>7, <2>8
<1> QED BY <1>2, <1>3

LEMMA RegisterClientInv ==
    ASSUME IInv, NEW c \in pipe, RegisterClient(c)
    PROVE  IInv'
<1> DEFINE p == c.id[1]
           h == c.id[3]
<1>1. /\ c \in Clients /\ c.id \in Ids /\ p \in Procs /\ h \in Handles
      /\ c.id = <<p, c.id[2], h, c.id[4]>>
  BY ListTypes, IdType DEF IInv
<1>2. PICK ok \in {TRUE, ~scope.fail} : Answered(c, ok /\ ~Refused(c))
  BY DEF RegisterClient
<1> DEFINE done == ok /\ ~Refused(c)
<1>3. /\ pipe' = pipe \ {c} /\ UNCHANGED <<born, clock, backlog, tasks, scope>>
      /\ Refused(c) => registered' = registered
      /\ ~Refused(c) => registered' = Announced(registered, c)
  BY DEF RegisterClient
<1>4. IsOpen(c.id) => /\ sock[p][h].at = "asking" /\ Client(p, h) = c
                      /\ sock' = [sock EXCEPT ![p][h].at = IF done THEN "announced" ELSE "idle"]
  BY <1>2 DEF IInv, Asking, Answered
<1>5. ~IsOpen(c.id) => sock' = sock
  BY <1>2 DEF Answered
<1>6. /\ sock' \in [Procs -> [Handles -> Sockets]]
      /\ \A q \in Procs, k \in Handles :
            /\ sock'[q][k].port = sock[q][k].port /\ sock'[q][k].gen = sock[q][k].gen
            /\ sock'[q][k].dest = sock[q][k].dest
            /\ \/ sock'[q][k] = sock[q][k]
               \/ /\ q = p /\ k = h /\ IsOpen(c.id) /\ sock[q][k].at = "asking"
                  /\ sock'[q][k].at \in {"announced", "idle"}
                  /\ sock'[q][k].at = "announced" => done
  <2>1. CASE ~IsOpen(c.id)
    BY <1>5, <2>1 DEF IInv, TypeOK
  <2>2. CASE IsOpen(c.id)
    <3>1. PICK at \in {"announced", "idle"} :
             sock' = [sock EXCEPT ![p][h].at = at] /\ (at = "announced" => done)
      BY <1>4, <2>2
    <3>2. sock[p][h] \in Sockets
      BY <1>1 DEF IInv, TypeOK
    <3>3. [sock[p][h] EXCEPT !.at = at] \in Sockets
      BY <3>2 DEF Sockets
    <3> QED BY <1>1, <1>4, <2>2, <3>1, <3>2, <3>3 DEF IInv, TypeOK, Sockets
  <2> QED BY <2>1, <2>2
<1>7. /\ registered' \in Seq([client : Clients, age : 0..(Expiry + 1)])
      /\ \A n \in DOMAIN registered' :
            \/ registered'[n] = [client |-> c, age |-> 0] /\ ~Refused(c)
            \/ \E i \in DOMAIN registered : registered'[n] = registered[i]
      /\ \A i \in DOMAIN registered :
            registered[i].client.id # c.id =>
               \E n \in DOMAIN registered' : registered'[n] = registered[i]
      /\ ~Refused(c) => \E n \in DOMAIN registered' : registered'[n] = [client |-> c, age |-> 0]
      /\ \A m, n \in DOMAIN registered' :
            registered'[m].client.id = registered'[n].client.id => m = n
  <2>1. CASE Refused(c)
    BY <1>3, <2>1 DEF IInv, TypeOK, Once
  <2>2. CASE ~Refused(c)
    <3>1. registered' = Announced(registered, c)
      BY <1>3, <2>2
    <3>2. LET R == Announced(registered, c) a == [client |-> c, age |-> 0] IN
          /\ R \in Seq([client : Clients, age : 0..(Expiry + 1)])
          /\ \A n \in DOMAIN R :
                R[n] = a \/ \E i \in DOMAIN registered :
                               registered[i].client.id # c.id /\ R[n] = registered[i]
          /\ \A i \in DOMAIN registered :
                registered[i].client.id # c.id => \E n \in DOMAIN R : R[n] = registered[i]
          /\ \E n \in DOMAIN R : R[n] = a
          /\ \A m, n \in DOMAIN R : R[m].client.id = R[n].client.id => m = n
      BY <1>1, AnnouncedOnce DEF IInv
    <3> QED BY <2>2, <3>1, <3>2
  <2> QED BY <2>1, <2>2
<1>8. /\ table' \in [Procs -> [Handles -> Seq(Clients)]]
      /\ \A q \in Procs, k \in Handles : \A n \in DOMAIN table'[q][k] :
            \/ \E i \in DOMAIN table[q][k] : table'[q][k][n] = table[q][k][i]
            \/ q = p /\ k = h /\ table'[q][k][n] = c
      /\ \A q \in Procs, k \in Handles : table[q][k] # <<>> => table'[q][k] # <<>>
      /\ Runs(c.id) /\ done => table'[p][h] # <<>>
  <2>1. CASE Runs(c.id) /\ done
    <3>1. table' = [table EXCEPT ![p][h] = Push(@, c)]
      BY <1>2, <2>1 DEF Answered
    <3>2. table[p][h] \in Seq(Clients)
      BY <1>1 DEF IInv, TypeOK
    <3>3. table'[p][h] = Push(table[p][h], c)
      BY <1>1, <3>1 DEF IInv, TypeOK
    <3>4. \A q \in Procs, k \in Handles : q # p \/ k # h => table'[q][k] = table[q][k]
      BY <1>1, <3>1 DEF IInv, TypeOK
    <3>5. /\ table'[p][h] \in Seq(Clients) /\ table'[p][h] # <<>>
          /\ \A n \in DOMAIN table'[p][h] :
                table'[p][h][n] = c \/ \E i \in DOMAIN table[p][h] : table'[p][h][n] = table[p][h][i]
      <4>1. PICK list \in Seq(Clients) : list = table[p][h]
        BY <3>2
      <4>2. /\ Push(list, c) \in Seq(Clients) /\ Push(list, c) # <<>>
            /\ \A n \in DOMAIN Push(list, c) :
                  Push(list, c)[n] = c \/ \E i \in DOMAIN list : Push(list, c)[n] = list[i]
        BY <1>1, PushOwn
      <4>3. PICK t : t = table'[p][h]
        OBVIOUS
      <4>4. t = Push(list, c)
        BY <3>3, <4>1, <4>3
      <4>5. /\ t \in Seq(Clients) /\ t # <<>>
            /\ \A n \in DOMAIN t : t[n] = c \/ \E i \in DOMAIN list : t[n] = list[i]
        BY <4>2, <4>4
      <4> QED BY <4>1, <4>3, <4>5
    <3>6. table' \in [Procs -> [Handles -> Seq(Clients)]]
      <4>1. Push(table[p][h], c) \in Seq(Clients)
        BY <3>3, <3>5
      <4> QED BY <1>1, <3>1, <4>1 DEF IInv, TypeOK
    <3>7. ASSUME NEW q \in Procs, NEW k \in Handles
          PROVE  /\ \A n \in DOMAIN table'[q][k] :
                       \/ \E i \in DOMAIN table[q][k] : table'[q][k][n] = table[q][k][i]
                       \/ q = p /\ k = h /\ table'[q][k][n] = c
                 /\ table[q][k] # <<>> => table'[q][k] # <<>>
      <4>1. CASE q = p /\ k = h
        BY <3>5, <4>1
      <4>2. CASE q # p \/ k # h
        <5>1. table'[q][k] = table[q][k]
          BY <3>4, <4>2
        <5> QED BY <5>1
      <4> QED BY <4>1, <4>2
    <3> QED BY <3>5, <3>6, <3>7
  <2>2. CASE ~(Runs(c.id) /\ done)
    <3>1. table' = table
      BY <1>2, <2>2 DEF Answered
    <3> QED BY <2>2, <3>1 DEF IInv, TypeOK
  <2> QED BY <2>1, <2>2
<1> HIDE DEF done
<1>9. TypeOK'
  BY <1>3, <1>6, <1>7, <1>8 DEF IInv, TypeOK
<1>10. NoneNew /\ NoneClosed /\ SameDests
  BY <1>3, <1>6 DEF NoneNew, NoneClosed, SameDests
<1>11. /\ \A id \in Ids : IsOpen(id)' <=> IsOpen(id)
       /\ OpenKeys' \subseteq OpenKeys
       /\ \A q \in Procs, k \in Handles : sock'[q][k].at # "closed" => Client(q, k)' = Client(q, k)
  BY <1>10, Steady DEF IInv
<1>12. Proper'
  BY <1>3, <1>6 DEF IInv, Proper
<1>13. PortsOwned'
  <2>1. Held' \subseteq Held
    BY <1>3, <1>7, <1>11 DEF Held
  <2> QED BY <1>3, <2>1, Shrink, HeldType DEF IInv, TypeOK
<1>14. Asking'
  <2> SUFFICES ASSUME NEW r \in pipe, r # c, IsOpen(r.id)'
               PROVE  /\ sock'[r.id[1]][r.id[3]].at = "asking" /\ Client(r.id[1], r.id[3])' = r
    BY <1>3 DEF Asking
  <2>1. /\ r.id \in Ids /\ r.id[1] \in Procs /\ r.id[3] \in Handles
        /\ IsOpen(r.id) /\ sock'[r.id[1]][r.id[3]].at # "closed"
    BY <1>11, ListTypes, IdType DEF IInv, IsOpen
  <2>2. sock[r.id[1]][r.id[3]].at = "asking" /\ Client(r.id[1], r.id[3]) = r
    BY <2>1 DEF IInv, Asking
  <2>3. Client(r.id[1], r.id[3])' = r
    BY <1>11, <2>1, <2>2
  <2>4. ~(IsOpen(c.id) /\ r.id[1] = p /\ r.id[3] = h)
    BY <1>4, <2>2
  <2>5. sock'[r.id[1]][r.id[3]] = sock[r.id[1]][r.id[3]]
    BY <1>6, <2>1, <2>4
  <2> QED BY <2>2, <2>3, <2>5
<1>15. Once'
  BY <1>3, <1>7 DEF IInv, Once
<1>16. TableOwn'
  BY <1>8 DEF IInv, TableOwn
<1>17. PairedRight'
  BY <1>3 DEF IInv, PairedRight
<1>18. \A d : d.id # c.id /\ Ready(d) => Ready(d)'
  BY <1>7 DEF Ready
<1>19. Announcing'
  <2> SUFFICES ASSUME NEW q \in Procs, NEW k \in Handles, sock'[q][k].at = "announced"
               PROVE  Ready(Client(q, k))'
    BY DEF Announcing
  <2>1. Client(q, k)' = Client(q, k)
    BY <1>11
  <2>2. CASE sock'[q][k] = sock[q][k]
    <3>1. PICK d : d = Client(q, k)
      OBVIOUS
    <3>2. Ready(d) /\ d.id = <<q, born[q], k, sock[q][k].gen>> /\ sock[q][k].at = "announced"
      BY <2>2, <3>1 DEF IInv, Announcing, Client
    <3>3. d.id # c.id
      <4>1. SUFFICES ASSUME d.id = c.id PROVE FALSE
        OBVIOUS
      <4>2. p = q /\ h = k /\ IsOpen(c.id)
        BY <3>2, <4>1 DEF IsOpen
      <4> QED BY <1>4, <3>2, <4>2
    <3>4. Ready(d)'
      BY <1>18, <3>2, <3>3
    <3> QED BY <2>1, <3>1, <3>4
  <2>3. CASE q = p /\ k = h /\ IsOpen(c.id) /\ done
    <3>1. Client(q, k) = c /\ ~Refused(c)
      BY <1>4, <2>3 DEF done
    <3>2. Ready(c)'
      BY <1>7, <3>1 DEF Ready
    <3> QED BY <2>1, <3>1, <3>2
  <2> QED BY <1>6, <2>2, <2>3
<1>20. Waiting'
  <2>0. \A j \in DOMAIN backlog : backlog[j].id # c.id
    BY DEF IInv, Waiting, WaitsWell
  <2>1. ASSUME NEW i \in DOMAIN backlog', IsOpen(backlog[i].id)', Ready(backlog'[i])
        PROVE  Ready(backlog[i])'
    <3>1. PICK d : d = backlog'[i]
      OBVIOUS
    <3>2. Ready(d)'
      BY <1>3, <1>18, <2>0, <2>1, <3>1
    <3> QED BY <3>1, <3>2
  <2>2. \A i \in DOMAIN registered' :
           \/ \E j \in DOMAIN registered : registered'[i].client = registered[j].client
           \/ \A j \in DOMAIN backlog : registered'[i].client.id # backlog[j].id
    BY <1>7, <2>0
  <2>3. \A q \in Procs, k \in Handles :
           sock[q][k].at \in {"connected", "cut"} =>
              sock'[q][k].at \in {"connected", "cut", "closed"}
    BY <1>6
  <2> QED BY <1>3, <1>10, <2>1, <2>2, <2>3, WaitingKept DEF IInv
<1>21. Orderly'
  <2> SUFFICES ASSUME scope.reuse PROVE Orderly'
    BY <1>3 DEF Orderly
  <2>1. ~scope.exit /\ ~scope.fail /\ ~scope.cancel /\ IsOpen(c.id)
    BY DEF IInv, Orderly
  <2>2. Runs(c.id) /\ done /\ born[p] = c.id[2] /\ c.id[4] = sock[p][h].gen
    BY <2>1 DEF IsOpen, Runs, Refused, done
  <2>3. \A r \in pipe' : IsOpen(r.id)'
    BY <1>3, <1>11, ListTypes, IdType DEF IInv, Orderly
  <2>4. ASSUME NEW n \in DOMAIN registered'
        PROVE  /\ IsOpen(registered[n].client.id)'
               /\ table'[registered'[n].client.id[1]][registered'[n].client.id[3]] # <<>>
    <3>1. CASE registered'[n] = [client |-> c, age |-> 0]
      <4>1. IsOpen(c.id)' /\ table'[p][h] # <<>>
        BY <1>1, <1>8, <1>11, <2>1, <2>2
      <4> QED BY <3>1, <4>1
    <3>2. CASE \E i \in DOMAIN registered : registered'[n] = registered[i]
      <4>1. PICK i \in DOMAIN registered : registered'[n] = registered[i]
        BY <3>2
      <4>2. PICK id : id = registered[i].client.id
        OBVIOUS
      <4>3. /\ id \in Ids /\ IsOpen(id) /\ table[id[1]][id[3]] # <<>>
            /\ id[1] \in Procs /\ id[3] \in Handles
        BY <4>2, ListTypes, IdType DEF IInv, Orderly
      <4>4. IsOpen(id)' /\ table'[id[1]][id[3]] # <<>>
        BY <1>8, <1>11, <4>3
      <4> QED BY <4>1, <4>2, <4>4
    <3> QED BY <1>7, <3>1, <3>2
  <2>5. ASSUME NEW q \in Procs, NEW k \in Handles, NEW i \in DOMAIN table'[q][k]
        PROVE  table'[q][k][i].id = <<q, born'[q], k, sock'[q][k].gen>>
    <3>1. CASE \E j \in DOMAIN table[q][k] : table'[q][k][i] = table[q][k][j]
      BY <1>3, <1>6, <3>1 DEF IInv, Orderly
    <3>2. CASE q = p /\ k = h /\ table'[q][k][i] = c
      BY <1>1, <1>3, <1>6, <2>2, <3>2
    <3> QED BY <1>8, <3>1, <3>2
  <2> QED BY <1>3, <2>1, <2>3, <2>4, <2>5 DEF Orderly
<1> QED BY <1>9, <1>12, <1>13, <1>14, <1>15, <1>16, <1>17, <1>19, <1>20, <1>21 DEF IInv

(* A socket that has its port asks again, perhaps for another destination. *)
LEMMA AskAgainInv ==
    ASSUME IInv, NEW p \in Procs, NEW h \in Handles, NEW d \in Dests,
           sock[p][h].at = "idle", clock' = clock,
           Ask(p, h, d, sock[p][h].port, sock[p][h].gen),
           UNCHANGED <<born, table, centre, scope>>
    PROVE  IInv'
<1>1. PICK c : c = [id |-> <<p, born[p], h, sock[p][h].gen>>, port |-> sock[p][h].port, dest |-> d]
  OBVIOUS
<1>2. PICK at \in {"asking", "idle"} :
         /\ sock' = [sock EXCEPT ![p][h] = [at |-> at, port |-> sock[p][h].port,
                                            gen |-> sock[p][h].gen, dest |-> d]]
         /\ at = "asking" => pipe' = pipe \cup {c}
         /\ at = "idle" => pipe' = pipe /\ scope.fail
  BY <1>1 DEF Ask
<1>3. UNCHANGED <<born, clock, table, registered, backlog, tasks, scope>>
  BY DEF centre
<1>4. /\ Client(p, h) \in Clients /\ Client(p, h).id = c.id /\ Client(p, h).port = c.port
      /\ IsOpen(c.id) /\ Key(c) \in OpenKeys
  BY <1>1, ClientType DEF IInv, Client, Key
<1>5. c \in Clients /\ c.id[1] = p /\ c.id[3] = h /\ c.id \in Ids
  BY <1>1, <1>4 DEF Clients
<1>6. /\ sock' \in [Procs -> [Handles -> Sockets]]
      /\ sock'[p][h] = [at |-> at, port |-> sock[p][h].port, gen |-> sock[p][h].gen, dest |-> d]
      /\ \A q \in Procs, k \in Handles : q # p \/ k # h => sock'[q][k] = sock[q][k]
  <2>1. sock[p][h] \in Sockets
    BY DEF IInv, TypeOK
  <2>2. [at |-> at, port |-> sock[p][h].port, gen |-> sock[p][h].gen, dest |-> d] \in Sockets
    BY <2>1 DEF Sockets
  <2> QED BY <1>2, <2>2 DEF IInv, TypeOK
<1>7. pipe' \subseteq pipe \cup {c} /\ pipe' \subseteq Clients
  BY <1>2, <1>5 DEF IInv, TypeOK
<1>8. TypeOK'
  BY <1>3, <1>6, <1>7 DEF IInv, TypeOK
<1>9. NoneNew /\ NoneClosed
  <2>1. ASSUME NEW q \in Procs, NEW k \in Handles
        PROVE  /\ sock'[q][k].port = sock[q][k].port /\ sock'[q][k].gen = sock[q][k].gen
               /\ sock'[q][k].at = "closed" <=> sock[q][k].at = "closed"
    <3>1. CASE q = p /\ k = h
      BY <1>6, <3>1
    <3>2. CASE q # p \/ k # h
      BY <1>6, <3>2
    <3> QED BY <3>1, <3>2
  <2> QED BY <1>3, <2>1 DEF NoneNew, NoneClosed
<1>10. /\ \A id \in Ids : IsOpen(id)' <=> IsOpen(id)
       /\ OpenKeys' \subseteq OpenKeys
  BY <1>9, Steady DEF IInv
<1>11. \A q \in Procs, k \in Handles : q # p \/ k # h => Client(q, k)' = Client(q, k)
  BY <1>3, <1>6 DEF Client
<1>12. Proper'
  <2> SUFFICES ASSUME NEW q \in Procs, NEW k \in Handles
               PROVE  IF sock'[q][k].at = "closed" THEN sock'[q][k] = Closed
                      ELSE /\ born'[q] # 0 /\ sock'[q][k].gen \in 1..clock'
                           /\ sock'[q][k].port \in Ports /\ sock'[q][k].dest \in Dests
    BY DEF Proper
  <2>1. CASE q = p /\ k = h
    BY <1>3, <1>6, <2>1 DEF IInv, Proper
  <2>2. CASE q # p \/ k # h
    BY <1>3, <1>6, <2>2 DEF IInv, Proper
  <2> QED BY <2>1, <2>2
<1>13. PortsOwned'
  <2>1. Held' \subseteq Held
    BY <1>3, <1>4, <1>7, <1>10 DEF Held
  <2> QED BY <1>3, <2>1, Shrink, HeldType DEF IInv, TypeOK
<1>14. Asking'
  <2> SUFFICES ASSUME NEW r \in pipe', IsOpen(r.id)'
               PROVE  /\ sock'[r.id[1]][r.id[3]].at = "asking" /\ Client(r.id[1], r.id[3])' = r
    BY DEF Asking
  <2>1. CASE r \in pipe
    <3>1. r.id \in Ids /\ r.id[1] \in Procs /\ r.id[3] \in Handles /\ IsOpen(r.id)
      BY <1>10, <2>1, ListTypes, IdType DEF IInv
    <3>2. sock[r.id[1]][r.id[3]].at = "asking" /\ Client(r.id[1], r.id[3]) = r
      BY <2>1, <3>1 DEF IInv, Asking
    <3>3. r.id[1] # p \/ r.id[3] # h
      BY <3>2
    <3> QED BY <1>6, <1>11, <3>1, <3>2, <3>3
  <2>2. CASE r = c /\ at = "asking"
    <3>1. Client(p, h)' = c
      BY <1>1, <1>3, <1>6 DEF Client
    <3> QED BY <1>5, <1>6, <2>2, <3>1
  <2> QED BY <1>2, <2>1, <2>2
<1>15. Once' /\ TableOwn' /\ PairedRight'
  BY <1>3 DEF IInv, Once, TableOwn, PairedRight
<1>16. \A x : Ready(x)' <=> Ready(x)
  BY <1>3 DEF Ready
<1>17. Announcing'
  <2> SUFFICES ASSUME NEW q \in Procs, NEW k \in Handles, sock'[q][k].at = "announced"
               PROVE  Ready(Client(q, k))'
    BY DEF Announcing
  <2>1. q # p \/ k # h
    BY <1>6
  <2> QED BY <1>6, <1>11, <1>16, <2>1 DEF IInv, Announcing
<1>18. Waiting'
  <2> SUFFICES ASSUME NEW i \in DOMAIN backlog PROVE WaitsWell(backlog[i])'
    BY <1>3 DEF Waiting
  <2>1. PICK x : x = backlog[i]
    OBVIOUS
  <2>2. x \in Clients /\ WaitsWell(x) /\ x = backlog'[i]
    BY <1>3, <2>1, ListTypes DEF IInv, Waiting
  <2>3. x.id \in Ids /\ x.id[1] \in Procs /\ x.id[3] \in Handles
    BY <2>2, IdType
  <2>4. x.id # c.id
    BY <1>4, <1>5, <2>2 DEF WaitsWell
  <2>5. ASSUME IsOpen(x.id)
        PROVE  /\ sock'[x.id[1]][x.id[3]].at \in {"connected", "cut"}
               /\ Client(x.id[1], x.id[3])' = x /\ Ready(x)'
    <3>1. /\ sock[x.id[1]][x.id[3]].at \in {"connected", "cut"}
          /\ Client(x.id[1], x.id[3]) = x /\ Ready(x)
      BY <2>2, <2>5 DEF WaitsWell
    <3>2. x.id[1] # p \/ x.id[3] # h
      BY <3>1
    <3> QED BY <1>6, <1>11, <1>16, <2>3, <3>1, <3>2
  <2>6. WaitsWell(x)'
    BY <1>3, <1>7, <1>10, <2>2, <2>3, <2>4, <2>5 DEF WaitsWell
  <2> QED BY <2>2, <2>6
<1>19. Orderly'
  <2> SUFFICES ASSUME scope.reuse PROVE Orderly'
    BY <1>3 DEF Orderly
  <2>1. \A r \in pipe' : IsOpen(r.id)'
    BY <1>4, <1>5, <1>7, <1>10, ListTypes, IdType DEF IInv, Orderly
  <2>2. \A i \in DOMAIN registered :
           /\ IsOpen(registered[i].client.id)'
           /\ table[registered[i].client.id[1]][registered[i].client.id[3]] # <<>>
    BY <1>3, <1>10, ListTypes, IdType DEF IInv, Orderly
  <2>3. \A q \in Procs, k \in Handles : sock'[q][k].gen = sock[q][k].gen
    BY <1>6
  <2> QED BY <1>3, <2>1, <2>2, <2>3 DEF IInv, Orderly
<1> QED BY <1>8, <1>12, <1>13, <1>14, <1>15, <1>17, <1>18, <1>19 DEF IInv

(* A port that is free is held by nobody. *)
LEMMA FreeNotHeld ==
    ASSUME IInv, NEW q \in Ports, Free(q)
    PROVE  \A k \in Held : k[2] # q
<1>1. \A k \in OpenKeys : k[2] # q
  BY DEF OpenKeys, Free, Ids
<1>2. \A i \in DOMAIN backlog : Key(backlog[i])[2] # q
  BY DEF Free, Key
<1>3. \A t \in tasks : Key(t.conn)[2] # q
  BY DEF Free, Key
<1>4. ASSUME NEW c \in Clients, IsOpen(c.id), Key(c) \in Held PROVE c.port # q
  <2>1. /\ c.id \in Ids /\ c.id[1] \in Procs /\ c.id[3] \in Handles
        /\ c.id = <<c.id[1], c.id[2], c.id[3], c.id[4]>>
    BY IdType
  <2>2. /\ sock[c.id[1]][c.id[3]].at # "closed" /\ born[c.id[1]] = c.id[2]
        /\ sock[c.id[1]][c.id[3]].gen = c.id[4]
    BY <1>4 DEF IsOpen
  <2>3. PICK x : x = Client(c.id[1], c.id[3])
    OBVIOUS
  <2>4. x.id = c.id /\ Key(x) \in OpenKeys
    BY <2>1, <2>2, <2>3, ClientType DEF IInv
  <2>5. Key(x) \in Held /\ Key(x)[2] # q
    BY <1>1, <2>4 DEF Held
  <2>6. c.port = x.port
    BY <1>4, <2>4, <2>5 DEF IInv, PortsOwned, Own, Key
  <2> QED BY <2>5, <2>6 DEF Key
<1>5. \A i \in DOMAIN registered : Key(registered[i].client)[2] # q
  <2>1. CASE scope.reuse
    <3>1. \A i \in DOMAIN registered :
             /\ registered[i].client \in Clients /\ IsOpen(registered[i].client.id)
             /\ Key(registered[i].client) \in Held
      BY <2>1, ListTypes DEF IInv, Orderly, Held
    <3> QED BY <1>4, <3>1 DEF Key
  <2>2. CASE ~scope.reuse
    BY <2>2 DEF Free, Key
  <2> QED BY <2>1, <2>2
<1>6. \A r \in pipe : Key(r)[2] # q
  <2>1. CASE scope.reuse
    <3>1. \A r \in pipe : r \in Clients /\ IsOpen(r.id) /\ Key(r) \in Held
      BY <2>1, ListTypes DEF IInv, Orderly, Held
    <3> QED BY <1>4, <3>1 DEF Key
  <2>2. CASE ~scope.reuse
    BY <2>2 DEF Free, Key
  <2> QED BY <2>1, <2>2
<1> QED BY <1>1, <1>2, <1>3, <1>5, <1>6 DEF Held

(* A new socket binds a free port and asks. *)
LEMMA AskFirstInv ==
    ASSUME IInv, NEW p \in Procs, NEW h \in Handles, NEW d \in Dests, NEW q \in Ports,
           born[p] # 0, sock[p][h].at = "closed", clock < MaxGen, clock' = clock + 1, Free(q),
           Ask(p, h, d, q, clock + 1),
           UNCHANGED <<born, table, centre, scope>>
    PROVE  IInv'
<1>1. PICK g \in 1..MaxGen : g = clock + 1 /\ clock \in Nat /\ clock' = g
  BY ReceptionAssumption DEF IInv, TypeOK
<1>2. PICK c : c = [id |-> <<p, born[p], h, g>>, port |-> q, dest |-> d]
  OBVIOUS
<1>3. PICK at \in {"asking", "idle"} :
         /\ sock' = [sock EXCEPT ![p][h] = [at |-> at, port |-> q, gen |-> g, dest |-> d]]
         /\ at = "asking" => pipe' = pipe \cup {c}
         /\ at = "idle" => pipe' = pipe /\ scope.fail
  BY <1>1, <1>2 DEF Ask
<1>4. UNCHANGED <<born, table, registered, backlog, tasks, scope>>
  BY DEF centre
<1>5. /\ c \in Clients /\ c.id \in Ids /\ c.id = <<p, born[p], h, g>> /\ c.port = q
      /\ c.id[1] = p /\ c.id[2] = born[p] /\ c.id[3] = h /\ c.id[4] = g
  <2>1. born[p] \in 1..MaxGen
    BY ReceptionAssumption DEF IInv, TypeOK
  <2> QED BY <1>2, <2>1 DEF Clients, Ids
<1>6. /\ sock' \in [Procs -> [Handles -> Sockets]]
      /\ sock'[p][h] = [at |-> at, port |-> q, gen |-> g, dest |-> d]
      /\ \A r \in Procs, k \in Handles : r # p \/ k # h => sock'[r][k] = sock[r][k]
  <2>1. [at |-> at, port |-> q, gen |-> g, dest |-> d] \in Sockets
    BY <1>1 DEF Sockets
  <2> QED BY <1>3, <2>1 DEF IInv, TypeOK
<1>7. pipe' \subseteq pipe \cup {c} /\ pipe' \subseteq Clients
  BY <1>3, <1>5 DEF IInv, TypeOK
<1>8. TypeOK'
  BY <1>1, <1>4, <1>6, <1>7 DEF IInv, TypeOK
<1>9. ASSUME NEW id \in Ids
      PROVE  /\ IsOpen(id)' => IsOpen(id) \/ id = c.id
             /\ IsOpen(id) => (id[1] # p \/ id[3] # h) /\ IsOpen(id)'
             /\ id = c.id => IsOpen(id)'
             /\ IsOpen(id)' /\ id # c.id => id[1] # p \/ id[3] # h
  <2>1. id[1] \in Procs /\ id[3] \in Handles /\ id = <<id[1], id[2], id[3], id[4]>>
    BY DEF Ids
  <2>2. CASE id[1] = p /\ id[3] = h
    BY <1>4, <1>5, <1>6, <2>1, <2>2 DEF IsOpen
  <2>3. CASE id[1] # p \/ id[3] # h
    <3>1. sock'[id[1]][id[3]] = sock[id[1]][id[3]]
      BY <1>6, <2>1, <2>3
    <3> QED BY <1>4, <1>5, <2>3, <3>1 DEF IsOpen
  <2> QED BY <2>2, <2>3
<1>10. OpenKeys' \subseteq OpenKeys \cup {Key(c)}
  <2> SUFFICES ASSUME NEW k \in OpenKeys' PROVE k \in OpenKeys \/ k = Key(c)
    OBVIOUS
  <2>1. /\ k \in Ids \X Ports /\ k[1] \in Ids /\ k[1][1] \in Procs /\ k[1][3] \in Handles
        /\ k = <<k[1], k[2]>>
    BY DEF OpenKeys, Ids
  <2>2. IsOpen(k[1])' /\ sock'[k[1][1]][k[1][3]].port = k[2]
    BY DEF OpenKeys
  <2>3. CASE k[1] = c.id
    BY <1>5, <1>6, <2>1, <2>2, <2>3 DEF Key
  <2>4. CASE k[1] # c.id
    <3>1. IsOpen(k[1]) /\ (k[1][1] # p \/ k[1][3] # h)
      BY <1>9, <2>1, <2>2, <2>4
    <3>2. sock'[k[1][1]][k[1][3]] = sock[k[1][1]][k[1][3]]
      BY <1>6, <2>1, <3>1
    <3> QED BY <2>1, <2>2, <3>1, <3>2 DEF OpenKeys
  <2> QED BY <2>3, <2>4
<1>11. \A k \in Held : k[1][4] \in Nat /\ k[1][4] <= clock /\ k[1] # c.id /\ k[2] # q
  BY <1>1, <1>5, HeldType, FreeNotHeld DEF IInv, PortsOwned, Fresh
<1>12. \A x \in pipe : x.id # c.id
  <2>1. \A x \in pipe : Key(x) \in Held /\ Key(x)[1] = x.id
    BY DEF Held, Key
  <2> QED BY <1>11, <2>1
<1>13. \A i \in DOMAIN backlog : backlog[i].id # c.id
  <2>1. \A i \in DOMAIN backlog : Key(backlog[i]) \in Held /\ Key(backlog[i])[1] = backlog[i].id
    BY DEF Held, Key
  <2> QED BY <1>11, <2>1
<1>14. PortsOwned'
  <2>1. Held' \subseteq Held \cup {Key(c)}
    BY <1>4, <1>7, <1>10 DEF Held
  <2>2. Key(c)[1] = c.id /\ Key(c)[2] = q /\ Key(c)[1][4] = g
    BY <1>5 DEF Key
  <2>3. Own(Held)'
    <3>1. \A k, l \in Held \cup {Key(c)} : k[1] = l[1] <=> k[2] = l[2]
      BY <1>11, <2>2 DEF IInv, PortsOwned, Own
    <3> QED BY <2>1, <3>1 DEF Own
  <2>4. \A k \in Held \cup {Key(c)} : k[1][4] <= g
    BY <1>1, <1>11, <2>2
  <2>5. Fresh(Held, clock)'
    BY <1>1, <2>1, <2>4 DEF Fresh
  <2> QED BY <2>3, <2>5 DEF PortsOwned
<1>15. Proper'
  <2> SUFFICES ASSUME NEW r \in Procs, NEW k \in Handles
               PROVE  IF sock'[r][k].at = "closed" THEN sock'[r][k] = Closed
                      ELSE /\ born'[r] # 0 /\ sock'[r][k].gen \in 1..clock'
                           /\ sock'[r][k].port \in Ports /\ sock'[r][k].dest \in Dests
    BY DEF Proper
  <2>1. CASE r = p /\ k = h
    BY <1>1, <1>4, <1>6, <2>1
  <2>2. CASE r # p \/ k # h
    <3>1. sock'[r][k] = sock[r][k]
      BY <1>6, <2>2
    <3>2. sock[r][k].gen \in 1..clock => sock[r][k].gen \in 1..clock'
      BY <1>1
    <3> QED BY <1>4, <3>1, <3>2 DEF IInv, Proper
  <2> QED BY <2>1, <2>2
<1>16. \A r \in Procs, k \in Handles : r # p \/ k # h => Client(r, k)' = Client(r, k)
  BY <1>4, <1>6 DEF Client
<1>17. Asking'
  <2> SUFFICES ASSUME NEW r \in pipe', IsOpen(r.id)'
               PROVE  /\ sock'[r.id[1]][r.id[3]].at = "asking" /\ Client(r.id[1], r.id[3])' = r
    BY DEF Asking
  <2>1. CASE r \in pipe
    <3>1. r.id \in Ids /\ r.id[1] \in Procs /\ r.id[3] \in Handles
      BY <2>1, ListTypes, IdType DEF IInv
    <3>2. IsOpen(r.id) /\ (r.id[1] # p \/ r.id[3] # h)
      BY <1>9, <1>12, <2>1, <3>1
    <3>3. sock[r.id[1]][r.id[3]].at = "asking" /\ Client(r.id[1], r.id[3]) = r
      BY <2>1, <3>2 DEF IInv, Asking
    <3> QED BY <1>6, <1>16, <3>1, <3>2, <3>3
  <2>2. CASE r = c /\ at = "asking"
    <3>1. Client(p, h)' = c
      BY <1>2, <1>4, <1>6 DEF Client
    <3> QED BY <1>5, <1>6, <2>2, <3>1
  <2> QED BY <1>3, <2>1, <2>2
<1>18. Once' /\ TableOwn' /\ PairedRight'
  BY <1>4 DEF IInv, Once, TableOwn, PairedRight
<1>19. \A x : Ready(x)' <=> Ready(x)
  BY <1>4 DEF Ready
<1>20. Announcing'
  <2> SUFFICES ASSUME NEW r \in Procs, NEW k \in Handles, sock'[r][k].at = "announced"
               PROVE  Ready(Client(r, k))'
    BY DEF Announcing
  <2>1. r # p \/ k # h
    BY <1>6
  <2> QED BY <1>6, <1>16, <1>19, <2>1 DEF IInv, Announcing
<1>21. Waiting'
  <2> SUFFICES ASSUME NEW i \in DOMAIN backlog PROVE WaitsWell(backlog[i])'
    BY <1>4 DEF Waiting
  <2>1. PICK x : x = backlog[i]
    OBVIOUS
  <2>2. x \in Clients /\ WaitsWell(x) /\ x = backlog'[i] /\ x.id # c.id
    BY <1>4, <1>13, <2>1, ListTypes DEF IInv, Waiting
  <2>3. x.id \in Ids /\ x.id[1] \in Procs /\ x.id[3] \in Handles
    BY <2>2, IdType
  <2>4. ASSUME IsOpen(x.id)'
        PROVE  /\ sock'[x.id[1]][x.id[3]].at \in {"connected", "cut"}
               /\ Client(x.id[1], x.id[3])' = x /\ Ready(x)'
    <3>1. IsOpen(x.id) /\ (x.id[1] # p \/ x.id[3] # h)
      BY <1>9, <2>2, <2>3, <2>4
    <3>2. /\ sock[x.id[1]][x.id[3]].at \in {"connected", "cut"}
          /\ Client(x.id[1], x.id[3]) = x /\ Ready(x)
      BY <2>2, <3>1 DEF WaitsWell
    <3> QED BY <1>6, <1>16, <1>19, <2>3, <3>1, <3>2
  <2>5. WaitsWell(x)'
    BY <1>4, <1>7, <2>2, <2>4 DEF WaitsWell
  <2> QED BY <2>2, <2>5
<1>22. Orderly'
  <2> SUFFICES ASSUME scope.reuse PROVE Orderly'
    BY <1>4 DEF Orderly
  <2>1. \A r \in pipe' : IsOpen(r.id)'
    <3>1. \A r \in pipe : r.id \in Ids /\ IsOpen(r.id)
      BY ListTypes, IdType DEF IInv, Orderly
    <3>2. IsOpen(c.id)'
      BY <1>5, <1>9
    <3> QED BY <1>7, <1>9, <3>1, <3>2
  <2>2. \A i \in DOMAIN registered :
           /\ IsOpen(registered[i].client.id)'
           /\ table[registered[i].client.id[1]][registered[i].client.id[3]] # <<>>
    <3>1. \A i \in DOMAIN registered :
             /\ registered[i].client.id \in Ids /\ IsOpen(registered[i].client.id)
             /\ table[registered[i].client.id[1]][registered[i].client.id[3]] # <<>>
      BY ListTypes, IdType DEF IInv, Orderly
    <3> QED BY <1>4, <1>9, <3>1
  <2>3. ASSUME NEW r \in Procs, NEW k \in Handles, NEW i \in DOMAIN table[r][k]
        PROVE  table[r][k][i].id = <<r, born[r], k, sock'[r][k].gen>>
    <3>1. table[r][k][i].id = <<r, born[r], k, sock[r][k].gen>>
      BY DEF IInv, Orderly
    <3>2. r # p \/ k # h
      <4>1. SUFFICES ASSUME r = p, k = h PROVE FALSE
        OBVIOUS
      <4>2. sock[r][k].gen = 0
        BY <4>1 DEF IInv, Proper, Closed
      <4>3. table[r][k][i] \in Clients
        BY DEF IInv, TypeOK
      <4>4. table[r][k][i].id[4] \in 1..MaxGen
        BY <4>3, IdType
      <4> QED BY <3>1, <4>2, <4>4
    <3> QED BY <1>6, <3>1, <3>2
  <2> QED BY <1>4, <2>1, <2>2, <2>3 DEF IInv, Orderly
<1> QED BY <1>8, <1>14, <1>15, <1>17, <1>18, <1>20, <1>21, <1>22 DEF IInv

LEMMA HackConnectInv ==
    ASSUME IInv, NEW p \in Procs, NEW h \in Handles, NEW d \in scope.dests, HackConnect(p, h, d)
    PROVE  IInv'
<1>1. d \in Dests
  BY ReceptionAssumption DEF IInv, TypeOK
<1>2. CASE /\ sock[p][h].at = "closed" /\ clock < MaxGen /\ clock' = clock + 1
           /\ \E q \in {q \in Ports : Free(q)} : Ask(p, h, d, q, clock + 1)
  <2>1. PICK q \in Ports : Free(q) /\ Ask(p, h, d, q, clock + 1)
    BY <1>2
  <2> QED BY <1>1, <1>2, <2>1, AskFirstInv DEF HackConnect
<1>3. CASE /\ sock[p][h].at = "idle" /\ clock' = clock
           /\ Ask(p, h, d, sock[p][h].port, sock[p][h].gen)
  BY <1>1, <1>3, AskAgainInv DEF HackConnect
<1> QED BY <1>2, <1>3 DEF HackConnect

-----------------------------------------------------------------------------
(* The theorems. *)

LEMMA InitInv ==
    ASSUME SoundScopes, Init
    PROVE  IInv
<1>1. Closed \in Sockets /\ Closed.at = "closed" /\ Closed.gen = 0
  BY ReceptionAssumption DEF Closed, Sockets
<1>2. \A p \in Procs, h \in Handles : sock[p][h] = Closed /\ table[p][h] = <<>>
  BY DEF Init
<1>3. TypeOK
  BY <1>1, EmptySeq, ReceptionAssumption DEF Init, TypeOK
<1>4. Proper /\ Announcing
  BY <1>1, <1>2 DEF Proper, Announcing
<1>5. PortsOwned
  <2>1. OpenKeys = {}
    BY <1>1, <1>2 DEF OpenKeys, IsOpen, Ids
  <2>2. Held = {}
    BY <2>1 DEF Held, Init
  <2> QED BY <2>2 DEF PortsOwned, Own, Fresh
<1>6. Asking /\ Once /\ Waiting /\ PairedRight
  BY DEF Init, Asking, Once, Waiting, PairedRight
<1>7. TableOwn
  BY <1>2 DEF TableOwn
<1>8. Orderly
  BY <1>2 DEF Orderly, Init, SoundScopes
<1> QED BY <1>3, <1>4, <1>5, <1>6, <1>7, <1>8 DEF IInv

LEMMA NextInv ==
    ASSUME IInv, [Next]_vars
    PROVE  IInv'
<1>1. CASE UNCHANGED vars
  <2>1. UNCHANGED <<born, clock, sock, table, pipe, registered, backlog, tasks, scope>>
    BY <1>1 DEF vars, app, centre
  <2>2. TypeOK' /\ Proper' /\ Once' /\ TableOwn' /\ PairedRight'
    BY <2>1 DEF IInv, TypeOK, Proper, Once, TableOwn, PairedRight
  <2>3. /\ \A id : IsOpen(id)' <=> IsOpen(id)
        /\ \A p, h : Client(p, h)' = Client(p, h)
        /\ \A c : Ready(c)' <=> Ready(c)
    BY <2>1 DEF IsOpen, Client, Ready
  <2>4. PortsOwned'
    <3>1. OpenKeys' = OpenKeys
      BY <2>1, <2>3 DEF OpenKeys
    <3>2. Held' = Held
      BY <2>1, <3>1 DEF Held
    <3> QED BY <2>1, <3>2 DEF IInv, PortsOwned, Own, Fresh
  <2>5. Asking' /\ Announcing'
    BY <2>1, <2>3 DEF IInv, Asking, Announcing
  <2>6. Waiting'
    BY <2>1, <2>3 DEF IInv, Waiting, WaitsWell
  <2>7. Orderly'
    BY <2>1, <2>3 DEF IInv, Orderly
  <2> QED BY <2>2, <2>4, <2>5, <2>6, <2>7 DEF IInv
<1>2. ASSUME NEW p \in Procs, Start(p) PROVE IInv'
  BY <1>2, StartInv
<1>3. ASSUME NEW p \in Procs, Exit(p) PROVE IInv'
  BY <1>3, ExitInv
<1>4. ASSUME NEW p \in Procs, NEW h \in Handles, NEW d \in scope.dests, HackConnect(p, h, d)
      PROVE  IInv'
  BY <1>4, HackConnectInv
<1>5. ASSUME NEW p \in Procs, NEW h \in Handles, Connect(p, h) PROVE IInv'
  BY <1>5, ConnectInv
<1>6. ASSUME NEW p \in Procs, NEW h \in Handles, NEW reached \in {TRUE, ~scope.fail},
             CloseSocket(p, h, reached)
      PROVE  IInv'
  BY <1>6, CloseSocketInv
<1>7. ASSUME NEW c \in pipe, RegisterClient(c) PROVE IInv'
  BY <1>7, RegisterClientInv
<1>8. ASSUME NEW known \in BOOLEAN, NEW served \in BOOLEAN, OnAccept(known, served) PROVE IInv'
  BY <1>8, OnAcceptInv
<1>9. ASSUME NEW t \in tasks, DeleteTask(t) PROVE IInv'
  BY <1>9, DeleteTaskInv
<1>10. CASE AliveTimer
  BY <1>10, AliveTimerInv
<1>11. CASE Tick
  BY <1>11, TickInv
<1>12. CASE CheckTimer
  BY <1>12, CheckTimerInv
<1>13. CASE Restart
  BY <1>13, RestartInv
<1> QED BY <1>1, <1>2, <1>3, <1>4, <1>5, <1>6, <1>7, <1>8, <1>9, <1>10, <1>11, <1>12, <1>13
        DEF Next

(* An open connection that waits finds its own announcement first. *)
LEMMA InvPairs ==
    ASSUME IInv
    PROVE  PairingSound
<1>1. ASSUME NEW i \in DOMAIN backlog, IsOpen(backlog[i].id)
      PROVE  /\ Matches(backlog[i]) # {}
             /\ registered[FirstMatch(backlog[i])].client = backlog[i]
  <2>1. PICK c \in Clients : c = backlog[i]
    BY ListTypes DEF IInv
  <2>2. WaitsWell(c) /\ IsOpen(c.id) /\ Key(c) \in Held
    BY <1>1, <2>1 DEF IInv, Waiting, Held
  <2>3. PICK j \in DOMAIN registered : registered[j].client = c
    BY <2>2 DEF WaitsWell, Ready
  <2>4. \A m \in Matches(c) : registered[m].client.id = c.id
    <3> SUFFICES ASSUME NEW m \in Matches(c) PROVE registered[m].client.id = c.id
      OBVIOUS
    <3>1. /\ m \in DOMAIN registered /\ Key(registered[m].client) \in Held
          /\ registered[m].client.port = c.port
      BY DEF Matches, Held
    <3> QED BY <2>2, <3>1 DEF IInv, PortsOwned, Own, Key
  <2>5. j \in Nat /\ Matches(c) = {j}
    BY <2>3, <2>4, ListTypes DEF IInv, Once, Matches
  <2>6. FirstMatch(c) = j
    BY <2>5 DEF FirstMatch
  <2> QED BY <2>1, <2>3, <2>5, <2>6
<1> QED BY <1>1 DEF IInv, PairingSound, NeverForeign

(* The inductive invariant holds throughout. *)
LEMMA Inductive ==
    ASSUME SoundScopes
    PROVE  Spec => []IInv
<1>1. Init => IInv
  BY InitInv
<1>2. IInv /\ [Next]_vars => IInv'
  BY NextInv
<1> QED BY <1>1, <1>2, PTL DEF Spec

(* Every accepted connection goes where its own socket asked to go, and none
   that waits is refused or mistaken for another on its port, in any
   interleaving of any number of processes, failures and restarts in which no
   port is bound again while a socket that is gone is announced with it. *)
THEOREM Pairing ==
    ASSUME SoundScopes
    PROVE  Spec => []PairingSound
<1>1. IInv => PairingSound
  BY InvPairs
<1> QED BY <1>1, Inductive, PTL

(* TIMER_IS_TASK_ALIVE ends no task whose application still runs, although it
   only looks at the process id and creation time of the announcement. *)
THEOREM SweepOnlyDead ==
    ASSUME SoundScopes
    PROVE  Spec => OnlyDeadSwept
<1>1. IInv /\ [Next]_vars =>
         [\A t \in tasks \ tasks' : AliveTimer => ~IsOpen(t.conn.id)]_vars
  <2> SUFFICES ASSUME IInv, NEW t \in tasks \ tasks', AliveTimer PROVE ~IsOpen(t.conn.id)
    OBVIOUS
  <2>1. t \in Orphans
    BY DEF AliveTimer
  <2>2. ~Runs(t.client.id) /\ t.client = t.conn
    BY <2>1 DEF Orphans, IInv, PairedRight
  <2> QED BY <2>2 DEF Runs, IsOpen
<1> QED BY <1>1, Inductive, PTL DEF Spec, OnlyDeadSwept
=============================================================================
