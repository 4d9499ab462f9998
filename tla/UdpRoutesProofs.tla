-------------------------- MODULE UdpRoutesProofs --------------------------
(* Theorems about UdpRoutes: the routes of a socket are sound and replies find
   their way, for any number of sockets, threads, destinations and ports. *)
EXTENDS UdpRoutes, ListProofs

-----------------------------------------------------------------------------
(* The inductive invariant.  What it says of the tasks is said of any list of
   tasks, since OnNewTask first drops closed tasks and then works on the rest. *)

Task == [h : Handles, gen : 1..MaxGen, routes : Seq(Route)]

(* A task's routes are open together or closed together (CloseTask). *)
Whole(ts) ==
    \A j \in DOMAIN ts : \A a, b \in DOMAIN ts[j].routes :
        ts[j].routes[a].open => ts[j].routes[b].open

(* An open route has its loopback port for itself (CreateUDPSocket). *)
PortsApart(ts) ==
    \A j, m \in DOMAIN ts : \A a \in Open(ts[j]), b \in Open(ts[m]) :
        ts[j].routes[a].port = ts[m].routes[b].port => j = m /\ a = b

(* OneRoutePerDestination, for any list of tasks. *)
OneRoute(ts) ==
    \A j, m \in DOMAIN ts : \A a \in Open(ts[j]), b \in Open(ts[m]) :
        /\ ts[j].h = ts[m].h /\ ts[j].gen = ts[m].gen
        /\ ts[j].routes[a].dest = ts[m].routes[b].dest
        => j = m /\ a = b

(* Routes that share an association can be told apart by a reply. *)
Apart(ts) ==
    \A j \in DOMAIN ts : \A a, b \in DOMAIN ts[j].routes : a # b =>
        /\ ts[j].routes[a].dest # ts[j].routes[b].dest
        /\ CanShareAssociation(ts[j].routes[a].dest, ts[j].routes[b].dest)
        /\ ~scope.apply => ~ts[j].routes[a].redir

(* While the redirection stands, a route is what its destination demands. *)
Demanded(ts) == ~scope.apply =>
    \A j \in DOMAIN ts : \A i \in DOMAIN ts[j].routes :
        /\ ts[j].routes[i].redir <=> ShouldRedirect(ts[j].routes[i].dest)
        /\ ts[j].routes[i].target = ProxyDestination(ts[j].routes[i].dest, ts[j].routes[i].redir)

TasksInv(ts) == Whole(ts) /\ PortsApart(ts) /\ OneRoute(ts) /\ Apart(ts) /\ Demanded(ts)

(* A socket that a thread is using has a generation. *)
InUse == \A x \in Threads : thread[x].at # "idle" => gen[thread[x].h] # 0

(* An open route of a socket to a destination at a port. *)
RouteIn(ts, h, g, d, p) ==
    \E j \in DOMAIN ts : \E i \in DOMAIN ts[j].routes :
        /\ ts[j].h = h /\ ts[j].gen = g /\ ts[j].routes[i].open
        /\ ts[j].routes[i].dest = d /\ ts[j].routes[i].port = p

(* The ports in the hook's table, and those that threads are about to use. *)
TableGood ==
    \A h \in Handles, d \in Dests :
        table[h][d] # NoPort => RouteIn(tasks, h, gen[h], d, table[h][d])
Sendable(x) == thread[x].at \in {"registered", "send"}
ThreadsGood ==
    \A x \in Threads : Sendable(x) =>
        RouteIn(tasks, thread[x].h, gen[thread[x].h], thread[x].d, thread[x].port)

(* A port state names a socket with an open route there. *)
Honest(ts, ps) == \A p \in Ports : \A o \in ps[p] : \E d : RouteIn(ts, o[1], o[2], d, p)

(* Replies of a list of tasks go to the sockets the tasks were made for. *)
OwnedBy(ts) ==
    \A j \in DOMAIN ts : \A i \in Open(ts[j]) :
        ts[j].routes[i].app = <<ts[j].h, ts[j].gen>>

(* What a task closed by the proxy process would spoil is claimed only where
   none is. *)
RInv ==
    /\ TypeOK /\ InUse /\ TasksInv(tasks)
    /\ ~scope.lose => TableGood /\ ThreadsGood /\ Honest(tasks, portState) /\ OwnedBy(tasks)

-----------------------------------------------------------------------------
(* The fields of tasks and routes. *)
LEMMA TaskShape ==
    ASSUME NEW ts \in Seq(Task), NEW j \in DOMAIN ts
    PROVE  /\ ts[j] \in Task
           /\ ts[j].h \in Handles /\ ts[j].gen \in 1..MaxGen /\ ts[j].routes \in Seq(Route)
           /\ DOMAIN ts[j].routes = 1..Len(ts[j].routes) /\ Len(ts[j].routes) \in Nat
           /\ ts[j] = [h |-> ts[j].h, gen |-> ts[j].gen, routes |-> ts[j].routes]
           /\ \A i \in DOMAIN ts[j].routes : ts[j].routes[i] \in Route
<1>1. ts[j] \in Task
  BY ElementOfSeq, LenProperties
<1>2. /\ ts[j].h \in Handles /\ ts[j].gen \in 1..MaxGen /\ ts[j].routes \in Seq(Route)
      /\ ts[j] = [h |-> ts[j].h, gen |-> ts[j].gen, routes |-> ts[j].routes]
  BY <1>1 DEF Task
<1>3. DOMAIN ts[j].routes = 1..Len(ts[j].routes) /\ Len(ts[j].routes) \in Nat
  BY <1>2, LenProperties
<1>4. \A i \in DOMAIN ts[j].routes : ts[j].routes[i] \in Route
  BY <1>2, <1>3, ElementOfSeq
<1> QED BY <1>1, <1>2, <1>3, <1>4

LEMMA Dropping ==
    ASSUME NEW ts \in Seq(Task), NEW K \in SUBSET DOMAIN ts, NEW us, us = Only(ts, K),
           \A j \in DOMAIN ts : j \notin K => Open(ts[j]) = {}
    PROVE  /\ us \in Seq(Task)
           /\ TasksInv(ts) => TasksInv(us)
           /\ \A h, g, d, p : RouteIn(ts, h, g, d, p) => RouteIn(us, h, g, d, p)
           /\ \A n \in DOMAIN us : \E j \in K : us[n] = ts[j]
<1>1. PICK f : f = [n \in DOMAIN us |-> Nth(K, n)]
  OBVIOUS
<1>2. /\ us \in Seq(Task)
      /\ \A n \in DOMAIN us : f[n] \in K /\ us[n] = ts[f[n]]
      /\ \A k \in K : \E n \in DOMAIN us : f[n] = k
      /\ \A m, n \in DOMAIN us : f[m] = f[n] => m = n
  BY <1>1, OnlyKept
<1>3. \A n \in DOMAIN us : f[n] \in DOMAIN ts /\ us[n] = ts[f[n]]
  BY <1>2
<1>4. ASSUME TasksInv(ts) PROVE TasksInv(us)
  <2>1. Whole(us)
    BY <1>3, <1>4 DEF TasksInv, Whole
  <2>2. PortsApart(us)
    <3> SUFFICES ASSUME NEW j \in DOMAIN us, NEW m \in DOMAIN us,
                        NEW a \in Open(us[j]), NEW b \in Open(us[m]),
                        us[j].routes[a].port = us[m].routes[b].port
                 PROVE  j = m /\ a = b
      BY DEF PortsApart
    <3>1. f[j] = f[m] /\ a = b
      BY <1>3, <1>4 DEF TasksInv, PortsApart
    <3> QED BY <1>2, <3>1
  <2>3. OneRoute(us)
    <3> SUFFICES ASSUME NEW j \in DOMAIN us, NEW m \in DOMAIN us,
                        NEW a \in Open(us[j]), NEW b \in Open(us[m]),
                        us[j].h = us[m].h, us[j].gen = us[m].gen,
                        us[j].routes[a].dest = us[m].routes[b].dest
                 PROVE  j = m /\ a = b
      BY DEF OneRoute
    <3>1. f[j] = f[m] /\ a = b
      BY <1>3, <1>4 DEF TasksInv, OneRoute
    <3> QED BY <1>2, <3>1
  <2>4. Apart(us)
    BY <1>3, <1>4 DEF TasksInv, Apart
  <2>5. Demanded(us)
    BY <1>3, <1>4 DEF TasksInv, Demanded
  <2> QED BY <2>1, <2>2, <2>3, <2>4, <2>5 DEF TasksInv
<1>5. ASSUME NEW h, NEW g, NEW d, NEW p, RouteIn(ts, h, g, d, p) PROVE RouteIn(us, h, g, d, p)
  <2>1. PICK j \in DOMAIN ts : \E i \in DOMAIN ts[j].routes :
            /\ ts[j].h = h /\ ts[j].gen = g /\ ts[j].routes[i].open
            /\ ts[j].routes[i].dest = d /\ ts[j].routes[i].port = p
    BY <1>5 DEF RouteIn
  <2>2. j \in K
    BY <2>1 DEF Open
  <2> QED BY <1>2, <2>1, <2>2 DEF RouteIn
<1> QED BY <1>2, <1>4, <1>5

(* The same tasks with the same routes; a task may have been closed. *)
Altered(ts, us) ==
    /\ DOMAIN us = DOMAIN ts
    /\ \A j \in DOMAIN ts :
          /\ us[j].h = ts[j].h /\ us[j].gen = ts[j].gen
          /\ DOMAIN us[j].routes = DOMAIN ts[j].routes
          /\ \/ \A i \in DOMAIN ts[j].routes : us[j].routes[i].open <=> ts[j].routes[i].open
             \/ \A i \in DOMAIN ts[j].routes : ~us[j].routes[i].open
          /\ \A i \in DOMAIN ts[j].routes :
                /\ us[j].routes[i].dest = ts[j].routes[i].dest
                /\ us[j].routes[i].port = ts[j].routes[i].port
                /\ us[j].routes[i].target = ts[j].routes[i].target
                /\ ~scope.apply => us[j].routes[i].redir = ts[j].routes[i].redir

LEMMA Altering ==
    ASSUME NEW ts, NEW us, Altered(ts, us), TasksInv(ts)
    PROVE  TasksInv(us)
<1>1. ASSUME NEW j \in DOMAIN us PROVE Open(us[j]) \subseteq Open(ts[j])
  BY DEF Altered, Open
<1>2. Whole(us)
  BY DEF TasksInv, Altered, Whole
<1>3. PortsApart(us)
  <2> SUFFICES ASSUME NEW j \in DOMAIN us, NEW m \in DOMAIN us,
                      NEW a \in Open(us[j]), NEW b \in Open(us[m]),
                      us[j].routes[a].port = us[m].routes[b].port
               PROVE  j = m /\ a = b
    BY DEF PortsApart
  <2>1. a \in Open(ts[j]) /\ b \in Open(ts[m]) /\ j \in DOMAIN ts /\ m \in DOMAIN ts
    BY <1>1 DEF Altered
  <2>2. ts[j].routes[a].port = ts[m].routes[b].port
    BY <2>1 DEF Altered, Open
  <2> QED BY <2>1, <2>2 DEF TasksInv, PortsApart
<1>4. OneRoute(us)
  <2> SUFFICES ASSUME NEW j \in DOMAIN us, NEW m \in DOMAIN us,
                      NEW a \in Open(us[j]), NEW b \in Open(us[m]),
                      us[j].h = us[m].h, us[j].gen = us[m].gen,
                      us[j].routes[a].dest = us[m].routes[b].dest
               PROVE  j = m /\ a = b
    BY DEF OneRoute
  <2>1. a \in Open(ts[j]) /\ b \in Open(ts[m]) /\ j \in DOMAIN ts /\ m \in DOMAIN ts
    BY <1>1 DEF Altered
  <2>2. /\ ts[j].h = ts[m].h /\ ts[j].gen = ts[m].gen
        /\ ts[j].routes[a].dest = ts[m].routes[b].dest
    BY <2>1 DEF Altered, Open
  <2> QED BY <2>1, <2>2 DEF TasksInv, OneRoute
<1>5. Apart(us)
  BY DEF TasksInv, Altered, Apart
<1>6. Demanded(us)
  BY DEF TasksInv, Altered, Demanded
<1> QED BY <1>2, <1>3, <1>4, <1>5, <1>6 DEF TasksInv

(* One route more, at place i of task j; everything else is as it was. *)
Grown(ts, us, j, i, r) ==
    /\ j \in DOMAIN us /\ i \in DOMAIN us[j].routes /\ us[j].routes[i] = r
    /\ \A m \in DOMAIN us : \A a \in DOMAIN us[m].routes : (m # j \/ a # i) =>
          /\ m \in DOMAIN ts /\ a \in DOMAIN ts[m].routes
          /\ us[m].routes[a] = ts[m].routes[a]
          /\ us[m].h = ts[m].h /\ us[m].gen = ts[m].gen
    /\ \A m \in DOMAIN ts :
          /\ m \in DOMAIN us /\ us[m].h = ts[m].h /\ us[m].gen = ts[m].gen
          /\ \A a \in DOMAIN ts[m].routes :
                a \in DOMAIN us[m].routes /\ us[m].routes[a] = ts[m].routes[a]

(* The tasks of a socket are open and have no route to a destination. *)
Unserved(ts, h, g, d) ==
    \A m \in DOMAIN ts : ts[m].h = h /\ ts[m].gen = g =>
        \A a \in DOMAIN ts[m].routes : ts[m].routes[a].open /\ ts[m].routes[a].dest # d

PortFree(ts, p) == \A m \in DOMAIN ts : \A a \in Open(ts[m]) : ts[m].routes[a].port # p

(* A route the other routes of its task can be told from. *)
Welcome(k, i) ==
    \A a \in DOMAIN k.routes : a # i =>
        /\ ~k.routes[a].redir /\ ~k.routes[i].redir
        /\ CanShareAssociation(k.routes[a].dest, k.routes[i].dest)

AsDemanded(r) ==
    r.open /\ (r.redir <=> ShouldRedirect(r.dest)) /\ r.target = ProxyDestination(r.dest, r.redir)

(* A new route disturbs nobody when its socket has no route to its destination
   and no closed task, its port is free, and its task may take it. *)
LEMMA Growing ==
    ASSUME NEW ts, NEW us, NEW h, NEW g, NEW r, NEW j, NEW i,
           TasksInv(ts), Grown(ts, us, j, i, r), us[j].h = h, us[j].gen = g, AsDemanded(r),
           Unserved(ts, h, g, r.dest), PortFree(ts, r.port), Welcome(us[j], i)
    PROVE  /\ TasksInv(us) /\ RouteIn(us, h, g, r.dest, r.port)
           /\ \A hh, gg, dd, pp : RouteIn(ts, hh, gg, dd, pp) => RouteIn(us, hh, gg, dd, pp)
<1>1. PICK d, p : d = r.dest /\ p = r.port
  OBVIOUS
<1>2. /\ r.open /\ r.dest = d /\ r.port = p /\ (r.redir <=> ShouldRedirect(d))
      /\ r.target = ProxyDestination(d, r.redir)
  BY <1>1 DEF AsDemanded
<1>3. Grown(ts, us, j, i, r)
  OBVIOUS
<1>0. /\ \A m \in DOMAIN ts : ts[m].h = h /\ ts[m].gen = g =>
            \A a \in DOMAIN ts[m].routes : ts[m].routes[a].open /\ ts[m].routes[a].dest # d
      /\ \A m \in DOMAIN ts : \A a \in Open(ts[m]) : ts[m].routes[a].port # p
      /\ \A a \in DOMAIN us[j].routes : a # i =>
            /\ ~us[j].routes[a].redir /\ ~r.redir
            /\ CanShareAssociation(us[j].routes[a].dest, d)
  BY <1>1, <1>3 DEF Unserved, PortFree, Welcome, Grown
<1>4. \A m \in DOMAIN us : \A a \in DOMAIN us[m].routes :
         \/ m = j /\ a = i /\ us[m].routes[a] = r
         \/ /\ m # j \/ a # i
            /\ m \in DOMAIN ts /\ a \in DOMAIN ts[m].routes
            /\ us[m].routes[a] = ts[m].routes[a]
            /\ us[m].h = ts[m].h /\ us[m].gen = ts[m].gen
  BY <1>3 DEF Grown
<1>5. Whole(us)
  <2> SUFFICES ASSUME NEW m \in DOMAIN us, NEW a \in DOMAIN us[m].routes,
                      NEW b \in DOMAIN us[m].routes, us[m].routes[a].open
               PROVE  us[m].routes[b].open
    BY DEF Whole
  <2>1. CASE m = j
    BY <1>0, <1>2, <1>4, <2>1
  <2>2. CASE m # j
    BY <1>4, <2>2 DEF TasksInv, Whole
  <2> QED BY <2>1, <2>2
<1>6. PortsApart(us)
  <2> SUFFICES ASSUME NEW m \in DOMAIN us, NEW n \in DOMAIN us,
                      NEW a \in Open(us[m]), NEW b \in Open(us[n]),
                      us[m].routes[a].port = us[n].routes[b].port
               PROVE  m = n /\ a = b
    BY DEF PortsApart
  <2>1. /\ a \in DOMAIN us[m].routes /\ b \in DOMAIN us[n].routes
        /\ us[m].routes[a].open /\ us[n].routes[b].open
    BY DEF Open
  <2>2. CASE (m # j \/ a # i) /\ (n # j \/ b # i)
    <3>1. /\ m \in DOMAIN ts /\ n \in DOMAIN ts /\ a \in Open(ts[m]) /\ b \in Open(ts[n])
          /\ ts[m].routes[a].port = ts[n].routes[b].port
      BY <1>4, <2>1, <2>2 DEF Open
    <3> QED BY <3>1 DEF TasksInv, PortsApart
  <2>3. CASE m = j /\ a = i /\ (n # j \/ b # i)
    BY <1>0, <1>2, <1>4, <2>1, <2>3 DEF Open
  <2>4. CASE n = j /\ b = i /\ (m # j \/ a # i)
    BY <1>0, <1>2, <1>4, <2>1, <2>4 DEF Open
  <2> QED BY <2>2, <2>3, <2>4
<1>7. OneRoute(us)
  <2> SUFFICES ASSUME NEW m \in DOMAIN us, NEW n \in DOMAIN us,
                      NEW a \in Open(us[m]), NEW b \in Open(us[n]),
                      us[m].h = us[n].h, us[m].gen = us[n].gen,
                      us[m].routes[a].dest = us[n].routes[b].dest
               PROVE  m = n /\ a = b
    BY DEF OneRoute
  <2>1. /\ a \in DOMAIN us[m].routes /\ b \in DOMAIN us[n].routes
        /\ us[m].routes[a].open /\ us[n].routes[b].open
    BY DEF Open
  <2>2. CASE (m # j \/ a # i) /\ (n # j \/ b # i)
    <3>1. /\ m \in DOMAIN ts /\ n \in DOMAIN ts /\ a \in Open(ts[m]) /\ b \in Open(ts[n])
          /\ ts[m].routes[a].dest = ts[n].routes[b].dest
          /\ ts[m].h = ts[n].h /\ ts[m].gen = ts[n].gen
      BY <1>4, <2>1, <2>2 DEF Open
    <3> QED BY <3>1 DEF TasksInv, OneRoute
  <2>3. CASE m = j /\ a = i /\ (n # j \/ b # i)
    BY <1>0, <1>2, <1>4, <2>1, <2>3
  <2>4. CASE n = j /\ b = i /\ (m # j \/ a # i)
    BY <1>0, <1>2, <1>4, <2>1, <2>4
  <2> QED BY <2>2, <2>3, <2>4
<1>8. Apart(us)
  <2> SUFFICES ASSUME NEW m \in DOMAIN us, NEW a \in DOMAIN us[m].routes,
                      NEW b \in DOMAIN us[m].routes, a # b
               PROVE  /\ us[m].routes[a].dest # us[m].routes[b].dest
                      /\ CanShareAssociation(us[m].routes[a].dest, us[m].routes[b].dest)
                      /\ ~scope.apply => ~us[m].routes[a].redir
    BY DEF Apart
  <2>1. CASE (m # j \/ a # i) /\ (m # j \/ b # i)
    BY <1>4, <2>1 DEF TasksInv, Apart
  <2>2. CASE m = j /\ a = i
    <3>1. /\ us[m].routes[b] = ts[m].routes[b] /\ m \in DOMAIN ts /\ b \in DOMAIN ts[m].routes
          /\ ts[m].h = h /\ ts[m].gen = g /\ us[m].routes[a] = r
      BY <1>4, <2>2
    <3> QED BY <1>0, <1>2, <2>2, <3>1 DEF CanShareAssociation
  <2>3. CASE m = j /\ b = i
    <3>1. /\ us[m].routes[a] = ts[m].routes[a] /\ m \in DOMAIN ts /\ a \in DOMAIN ts[m].routes
          /\ ts[m].h = h /\ ts[m].gen = g /\ us[m].routes[b] = r
      BY <1>4, <2>3
    <3> QED BY <1>0, <1>2, <2>3, <3>1
  <2> QED BY <2>1, <2>2, <2>3
<1>9. Demanded(us)
  <2> SUFFICES ASSUME ~scope.apply, NEW m \in DOMAIN us, NEW a \in DOMAIN us[m].routes
               PROVE  /\ us[m].routes[a].redir <=> ShouldRedirect(us[m].routes[a].dest)
                      /\ us[m].routes[a].target =
                            ProxyDestination(us[m].routes[a].dest, us[m].routes[a].redir)
    BY DEF Demanded
  <2>1. CASE m = j /\ a = i
    BY <1>0, <1>2, <1>4, <2>1
  <2>2. CASE m # j \/ a # i
    BY <1>4, <2>2 DEF TasksInv, Demanded
  <2> QED BY <2>1, <2>2
<1>10. RouteIn(us, h, g, r.dest, r.port)
  BY <1>2, <1>3 DEF Grown, RouteIn
<1>11. ASSUME NEW hh, NEW gg, NEW dd, NEW pp, RouteIn(ts, hh, gg, dd, pp)
       PROVE  RouteIn(us, hh, gg, dd, pp)
  BY <1>3, <1>11 DEF Grown, RouteIn
<1> QED BY <1>5, <1>6, <1>7, <1>8, <1>9, <1>10, <1>11 DEF TasksInv

-----------------------------------------------------------------------------
(* OnNewTask. *)

(* The tasks that stay when the closed ones of a socket are dropped. *)
LEMMA KeptTasks ==
    ASSUME tasks \in Seq(Task), TasksInv(tasks), NEW h, NEW g, NEW ts, ts = Kept(h, g)
    PROVE  /\ ts \in Seq(Task) /\ TasksInv(ts)
           /\ \A hh, gg, dd, pp : RouteIn(tasks, hh, gg, dd, pp) => RouteIn(ts, hh, gg, dd, pp)
           /\ \A n \in DOMAIN ts : \E j \in DOMAIN tasks : ts[n] = tasks[j]
           /\ \A n \in DOMAIN ts : ts[n].h = h /\ ts[n].gen = g =>
                 \A i \in DOMAIN ts[n].routes : ts[n].routes[i].open
           /\ OwnedBy(tasks) => OwnedBy(ts)
<1>1. PICK K \in SUBSET DOMAIN tasks : K = {j \in DOMAIN tasks : tasks[j] \notin Dropped(h, g)}
  OBVIOUS
<1>2. ts = Only(tasks, K)
  BY <1>1 DEF Kept
<1>3. ASSUME NEW j \in DOMAIN tasks PROVE tasks[j] \in ToSet(tasks)
  BY DEF ToSet
<1>4. \A j \in DOMAIN tasks : j \notin K => Open(tasks[j]) = {}
  BY <1>1 DEF Dropped, IsClosed, Open
<1>5. /\ ts \in Seq(Task) /\ TasksInv(ts)
      /\ \A hh, gg, dd, pp : RouteIn(tasks, hh, gg, dd, pp) => RouteIn(ts, hh, gg, dd, pp)
      /\ \A n \in DOMAIN ts : \E j \in K : ts[n] = tasks[j]
  BY <1>2, <1>4, Dropping
<1>6. ASSUME NEW n \in DOMAIN ts, ts[n].h = h, ts[n].gen = g, NEW i \in DOMAIN ts[n].routes
      PROVE  ts[n].routes[i].open
  <2>1. PICK j \in K : ts[n] = tasks[j]
    BY <1>5
  <2>2. ~IsClosed(ts[n])
    BY <1>1, <1>3, <1>6, <2>1 DEF Dropped, MatchesAssociation
  <2>3. PICK a \in DOMAIN ts[n].routes : ts[n].routes[a].open
    BY <2>2 DEF IsClosed
  <2> QED BY <1>5, <2>3 DEF TasksInv, Whole
<1>7. OwnedBy(tasks) => OwnedBy(ts)
  BY <1>5 DEF OwnedBy
<1> QED BY <1>5, <1>6, <1>7

(* The task chosen for a destination: the one with the route, which is open,
   or, when no task of the socket has one, a task that may take it. *)
LEMMA Choosing ==
    ASSUME NEW ts \in Seq(Task), NEW h, NEW g, NEW d, NEW redir, NEW j,
           \A n \in DOMAIN ts : ts[n].h = h /\ ts[n].gen = g =>
              \A i \in DOMAIN ts[n].routes : ts[n].routes[i].open,
           j = ChosenTask(ts, h, g, d, redir)
    PROVE  \/ /\ j \in DOMAIN ts /\ j # 0 /\ ts[j].h = h /\ ts[j].gen = g
              /\ Reusable(ts[j].routes, d) # {}
           \/ /\ \A n \in DOMAIN ts : ts[n].h = h /\ ts[n].gen = g =>
                    \A i \in DOMAIN ts[n].routes : ts[n].routes[i].dest # d
              /\ j # 0 => /\ j \in DOMAIN ts /\ ts[j].h = h /\ ts[j].gen = g
                          /\ CanAcceptRoute(ts[j], d, redir) /\ Reusable(ts[j].routes, d) = {}
<1>1. DOMAIN ts \subseteq Nat \ {0}
  BY LenProperties
<1>2. PICK mine \in SUBSET (Nat \ {0}) :
          mine = {n \in DOMAIN ts : MatchesAssociation(ts[n], h, g)}
  BY <1>1
<1>3. PICK own \in SUBSET (Nat \ {0}) : own = {n \in mine : HasRoute(ts[n], d)}
  OBVIOUS
<1>4. PICK share \in SUBSET (Nat \ {0}) : share = {n \in mine : CanAcceptRoute(ts[n], d, redir)}
  OBVIOUS
<1>5. j = IF First(own) # 0 THEN First(own) ELSE First(share)
  BY <1>2, <1>3, <1>4 DEF ChosenTask
<1>6. CASE own # {}
  <2>1. First(own) \in own
    BY <1>6, FirstIsLeast
  <2>2. j \in own /\ j # 0
    BY <1>5, <2>1
  <2>3. j \in DOMAIN ts /\ ts[j].h = h /\ ts[j].gen = g /\ HasRoute(ts[j], d)
    BY <1>2, <1>3, <2>2 DEF MatchesAssociation
  <2>4. PICK i \in DOMAIN ts[j].routes : ts[j].routes[i].dest = d
    BY <2>3 DEF HasRoute
  <2>5. i \in Reusable(ts[j].routes, d)
    BY <2>3, <2>4 DEF Reusable
  <2> QED BY <2>2, <2>3, <2>5
<1>7. CASE own = {}
  <2>1. First(own) = 0
    BY <1>7, FirstIsLeast
  <2>2. ASSUME NEW n \in DOMAIN ts, ts[n].h = h, ts[n].gen = g, NEW i \in DOMAIN ts[n].routes
        PROVE  ts[n].routes[i].dest # d
    BY <1>2, <1>3, <1>7, <2>2 DEF MatchesAssociation, HasRoute
  <2>3. ASSUME j # 0
        PROVE  /\ j \in DOMAIN ts /\ ts[j].h = h /\ ts[j].gen = g
               /\ CanAcceptRoute(ts[j], d, redir) /\ Reusable(ts[j].routes, d) = {}
    <3>1. j = First(share)
      BY <1>5, <2>1
    <3>2. share # {}
      BY <2>3, <3>1, FirstIsLeast
    <3>3. j \in share
      BY <3>1, <3>2, FirstIsLeast
    <3>4. j \in DOMAIN ts /\ ts[j].h = h /\ ts[j].gen = g /\ CanAcceptRoute(ts[j], d, redir)
      BY <1>2, <1>4, <3>3 DEF MatchesAssociation
    <3> QED BY <2>2, <3>4 DEF Reusable
  <2> QED BY <2>2, <2>3
<1> QED BY <1>6, <1>7

LEMMA NewRouteType ==
    ASSUME NEW h \in Handles, NEW g \in 1..MaxGen, NEW d \in Dests, NEW redir \in BOOLEAN,
           NEW p \in Ports
    PROVE  NewRoute(h, g, d, redir, p) \in Route
<1>1. g \in Nat
  BY RoutesAssumption
<1>2. ProxyDestination(d, redir) \in Dests \cup {Resolver}
  BY DEF ProxyDestination
<1> QED BY <1>1, <1>2 DEF NewRoute, Route

(* Route list rs for task j, and the tasks with it, when a live route to d is
   used again. *)
Reuses(ts, j, d, rs, us) ==
    /\ j \in DOMAIN ts /\ Reusable(ts[j].routes, d) # {}
    /\ \E h, g : \E redir \in BOOLEAN :
          (redir <=> ShouldRedirect(d)) /\ rs = AddRoute(ts[j].routes, h, g, d, redir, NoPort)
    /\ us = [ts EXCEPT ![j].routes = rs]

LEMMA ReuseRoute ==
    ASSUME NEW ts, NEW j, NEW d, NEW rs, NEW us,
           ts \in Seq(Task), TasksInv(ts), Reuses(ts, j, d, rs, us)
    PROVE  /\ us \in Seq(Task) /\ TasksInv(us) /\ PortOf(rs, d) \in Ports
           /\ RouteIn(us, ts[j].h, ts[j].gen, d, PortOf(rs, d))
           /\ \A hh, gg, dd, pp : RouteIn(ts, hh, gg, dd, pp) => RouteIn(us, hh, gg, dd, pp)
           /\ OwnedBy(ts) => OwnedBy(us)
<1>0. PICK h, g : \E redir \in BOOLEAN :
          (redir <=> ShouldRedirect(d)) /\ rs = AddRoute(ts[j].routes, h, g, d, redir, NoPort)
  BY DEF Reuses
<1>a. PICK redir \in BOOLEAN :
          (redir <=> ShouldRedirect(d)) /\ rs = AddRoute(ts[j].routes, h, g, d, redir, NoPort)
  BY <1>0
<1>b. /\ j \in DOMAIN ts /\ Reusable(ts[j].routes, d) # {}
      /\ us = [ts EXCEPT ![j].routes = rs]
  BY DEF Reuses
<1>1. PICK R : R = ts[j].routes
  OBVIOUS
<1>2. /\ R \in Seq(Route) /\ DOMAIN R = 1..Len(R) /\ Len(R) \in Nat
      /\ ts[j] = [h |-> ts[j].h, gen |-> ts[j].gen, routes |-> R] /\ ts[j] \in Task
      /\ \A i \in DOMAIN R : R[i] \in Route
  BY <1>b, <1>1, TaskShape
<1>3. rs = [i \in 1..Len(R) |-> IF i \in Reusable(R, d) THEN [R[i] EXCEPT !.redir = redir] ELSE R[i]]
  BY <1>a, <1>b, <1>1, <1>2 DEF AddRoute
<1>4. ASSUME NEW i \in DOMAIN R
      PROVE  /\ rs[i] \in Route /\ rs[i].dest = R[i].dest /\ rs[i].port = R[i].port
             /\ rs[i].target = R[i].target /\ rs[i].app = R[i].app /\ rs[i].open = R[i].open
             /\ rs[i].redir = R[i].redir \/ (rs[i].redir = redir /\ R[i].dest = d)
  <2>1. R[i] \in Route
    BY <1>2
  <2>2. CASE i \in Reusable(R, d)
    <3>1. rs[i] = [R[i] EXCEPT !.redir = redir]
      BY <1>2, <1>3, <2>2
    <3>2. R[i].dest = d
      BY <2>2 DEF Reusable
    <3> QED BY <1>a, <2>1, <3>1, <3>2 DEF Route
  <2>3. CASE i \notin Reusable(R, d)
    BY <1>2, <1>3, <2>1, <2>3
  <2> QED BY <2>2, <2>3
<1>5. rs \in Seq(Route) /\ DOMAIN rs = DOMAIN R
  <2>1. DOMAIN rs = 1..Len(R) /\ \A i \in 1..Len(R) : rs[i] \in Route
    BY <1>2, <1>3, <1>4
  <2>2. rs = [i \in 1..Len(R) |-> rs[i]]
    BY <1>3
  <2> QED BY <1>2, <2>1, <2>2, IsASeq
<1>6. /\ us \in Seq(Task) /\ DOMAIN us = DOMAIN ts
      /\ us[j].h = ts[j].h /\ us[j].gen = ts[j].gen /\ us[j].routes = rs
      /\ \A n \in DOMAIN ts : n # j => us[n] = ts[n]
  <2>1. PICK k : k = [h |-> ts[j].h, gen |-> ts[j].gen, routes |-> rs]
    OBVIOUS
  <2>2. k \in Task
    BY <1>2, <1>5, <2>1 DEF Task
  <2>3. us = [ts EXCEPT ![j] = k]
    <3>1. [ts[j] EXCEPT !.routes = rs] = k
      BY <1>b, <1>2, <2>1
    <3>2. us = [ts EXCEPT ![j] = [ts[j] EXCEPT !.routes = rs]]
      BY <1>b
    <3> QED BY <3>1, <3>2
  <2>4. j \in 1..Len(ts) /\ DOMAIN ts = 1..Len(ts)
    BY <1>b, LenProperties
  <2>5. us \in Seq(Task)
    BY <2>2, <2>3, <2>4, ExceptSeq
  <2> QED BY <1>b, <2>1, <2>3, <2>4, <2>5
<1>7. Altered(ts, us)
  <2>1. ASSUME NEW n \in DOMAIN ts, NEW i \in DOMAIN ts[n].routes
        PROVE  /\ us[n].routes[i].dest = ts[n].routes[i].dest
               /\ us[n].routes[i].port = ts[n].routes[i].port
               /\ us[n].routes[i].target = ts[n].routes[i].target
               /\ us[n].routes[i].open <=> ts[n].routes[i].open
    BY <1>1, <1>4, <1>6
  <2>2. ASSUME NEW n \in DOMAIN ts, NEW i \in DOMAIN ts[n].routes, ~scope.apply
        PROVE  us[n].routes[i].redir = ts[n].routes[i].redir
    <3>1. CASE n # j
      BY <1>6, <3>1
    <3>2. CASE n = j /\ rs[i].redir = R[i].redir
      BY <1>1, <1>6, <3>2
    <3>3. CASE n = j /\ rs[i].redir = redir /\ R[i].dest = d
      <4>1. R[i].redir <=> redir
        BY <1>a, <1>b, <1>1, <2>2, <3>3 DEF TasksInv, Demanded
      <4>2. R[i].redir \in BOOLEAN
        BY <1>1, <1>2, <3>3 DEF Route
      <4>3. R[i].redir = redir
        BY <4>1, <4>2
      <4> QED BY <1>1, <1>6, <3>3, <4>3
    <3> QED BY <1>1, <1>4, <3>1, <3>2, <3>3
  <2> QED BY <1>1, <1>5, <1>6, <2>1, <2>2 DEF Altered
<1>8. TasksInv(us)
  BY <1>7, Altering
<1>9. ASSUME NEW hh, NEW gg, NEW dd, NEW pp, RouteIn(ts, hh, gg, dd, pp)
      PROVE  RouteIn(us, hh, gg, dd, pp)
  <2>0. PICK n \in DOMAIN ts : \E i \in DOMAIN ts[n].routes :
            /\ ts[n].h = hh /\ ts[n].gen = gg /\ ts[n].routes[i].open
            /\ ts[n].routes[i].dest = dd /\ ts[n].routes[i].port = pp
    BY <1>9 DEF RouteIn
  <2>1. PICK i \in DOMAIN ts[n].routes :
            /\ ts[n].h = hh /\ ts[n].gen = gg /\ ts[n].routes[i].open
            /\ ts[n].routes[i].dest = dd /\ ts[n].routes[i].port = pp
    BY <2>0
  <2>2. /\ n \in DOMAIN us /\ i \in DOMAIN us[n].routes
        /\ us[n].h = hh /\ us[n].gen = gg /\ us[n].routes[i].open
        /\ us[n].routes[i].dest = dd /\ us[n].routes[i].port = pp
    <3>1. CASE n # j
      BY <1>6, <2>1, <3>1
    <3>2. CASE n = j
      BY <1>1, <1>4, <1>5, <1>6, <2>1, <3>2
    <3> QED BY <3>1, <3>2
  <2> QED BY <2>2 DEF RouteIn
<1>10. PortOf(rs, d) \in Ports /\ RouteIn(us, ts[j].h, ts[j].gen, d, PortOf(rs, d))
  <2>1. PICK i \in DOMAIN R : R[i].dest = d /\ R[i].open
    BY <1>b, <1>1 DEF Reusable
  <2>2. rs[i] \in ToSet(rs) /\ rs[i].dest = d /\ rs[i].open
    BY <1>4, <1>5, <2>1 DEF ToSet
  <2>3. PICK r \in ToSet(rs) : r.dest = d /\ r.open /\ PortOf(rs, d) = r.port
    BY <2>2 DEF PortOf
  <2>4. PICK a \in DOMAIN rs : rs[a] = r
    BY <2>3 DEF ToSet
  <2>5. r.port \in Ports
    BY <1>4, <1>5, <2>4 DEF Route
  <2> QED BY <1>b, <1>6, <2>3, <2>4, <2>5 DEF RouteIn
<1>11. ASSUME OwnedBy(ts) PROVE OwnedBy(us)
  <2> SUFFICES ASSUME NEW n \in DOMAIN us, NEW i \in Open(us[n])
               PROVE  us[n].routes[i].app = <<us[n].h, us[n].gen>>
    BY DEF OwnedBy
  <2>1. CASE n # j
    BY <1>6, <1>11, <2>1 DEF OwnedBy
  <2>2. CASE n = j
    <3>1. i \in DOMAIN R /\ rs[i].open /\ rs[i].app = R[i].app
      BY <1>4, <1>5, <1>6, <2>2 DEF Open
    <3>2. i \in Open(ts[j])
      BY <1>1, <1>4, <3>1 DEF Open
    <3> QED BY <1>1, <1>6, <1>11, <2>2, <3>1, <3>2 DEF OwnedBy
  <2> QED BY <2>1, <2>2
<1> QED BY <1>6, <1>8, <1>9, <1>10, <1>11

(* A route is added to a task of its socket, or to a new one. *)
LEMMA AddToTask ==
    ASSUME NEW ts \in Seq(Task), TasksInv(ts), NEW h \in Handles, NEW g \in 1..MaxGen,
           NEW d \in Dests, NEW redir \in BOOLEAN, redir <=> ShouldRedirect(d), NEW p \in Ports,
           Unserved(ts, h, g, d), PortFree(ts, p), NEW j, NEW us,
           \/ /\ j \in DOMAIN ts /\ ts[j].h = h /\ ts[j].gen = g
              /\ CanAcceptRoute(ts[j], d, redir)
              /\ us = [ts EXCEPT ![j].routes = AddRoute(@, h, g, d, redir, p)]
           \/ us = Append(ts, [h |-> h, gen |-> g, routes |-> AddRoute(<<>>, h, g, d, redir, p)])
    PROVE  /\ us \in Seq(Task) /\ TasksInv(us) /\ RouteIn(us, h, g, d, p)
           /\ \A hh, gg, dd, pp : RouteIn(ts, hh, gg, dd, pp) => RouteIn(us, hh, gg, dd, pp)
           /\ OwnedBy(ts) => OwnedBy(us)
<1>1. PICK r : r = NewRoute(h, g, d, redir, p)
  OBVIOUS
<1>2. /\ r \in Route /\ r.app = <<h, g>> /\ AsDemanded(r)
      /\ r.dest = d /\ r.port = p /\ r.redir = redir
  BY <1>1, NewRouteType DEF NewRoute, AsDemanded
<1>3. DOMAIN ts = 1..Len(ts) /\ Len(ts) \in Nat
  BY LenProperties
<1>4. ASSUME NEW R \in Seq(Route), \A i \in DOMAIN R : R[i].dest # d
      PROVE  AddRoute(R, h, g, d, redir, p) = Append(R, r)
  <2>1. Reusable(R, d) = {}
    BY <1>4 DEF Reusable
  <2>2. {i \in DOMAIN R : R[i].dest # d} = DOMAIN R
    BY <1>4
  <2>3. Only(R, DOMAIN R) = R
    BY OnlyAll
  <2> QED BY <1>1, <2>1, <2>2, <2>3 DEF AddRoute
<1>5. \E n, i : /\ us \in Seq(Task) /\ Grown(ts, us, n, i, r) /\ us[n].h = h /\ us[n].gen = g
               /\ Welcome(us[n], i)
  <2>1. CASE /\ j \in DOMAIN ts /\ ts[j].h = h /\ ts[j].gen = g
             /\ CanAcceptRoute(ts[j], d, redir)
             /\ us = [ts EXCEPT ![j].routes = AddRoute(@, h, g, d, redir, p)]
    <3>1. PICK R : R = ts[j].routes
      OBVIOUS
    <3>2. /\ R \in Seq(Route) /\ DOMAIN R = 1..Len(R) /\ Len(R) \in Nat /\ ts[j] \in Task
          /\ ts[j] = [h |-> ts[j].h, gen |-> ts[j].gen, routes |-> R]
      BY <2>1, <3>1, TaskShape
    <3>3. AddRoute(ts[j].routes, h, g, d, redir, p) = Append(R, r)
      BY <1>4, <2>1, <3>1, <3>2 DEF Unserved
    <3>4. PICK Q : Q = Append(R, r)
      OBVIOUS
    <3>5. /\ Q \in Seq(Route) /\ Len(Q) = Len(R) + 1 /\ DOMAIN Q = 1..(Len(R) + 1)
          /\ \A a \in 1..Len(R) : Q[a] = R[a]
          /\ Q[Len(R) + 1] = r
      BY <1>2, <3>2, <3>4, AppendProperties, LenProperties
    <3>6. PICK k : k = [h |-> ts[j].h, gen |-> ts[j].gen, routes |-> Q]
      OBVIOUS
    <3>7. k \in Task
      BY <3>2, <3>5, <3>6 DEF Task
    <3>8. [ts[j] EXCEPT !.routes = Q] = k
      BY <3>2, <3>6
    <3>9. us = [ts EXCEPT ![j] = [ts[j] EXCEPT !.routes = Q]]
      BY <2>1, <3>3, <3>4
    <3>10. us = [ts EXCEPT ![j] = k]
      BY <3>8, <3>9
    <3>11. us \in Seq(Task)
      <4>1. j \in 1..Len(ts)
        BY <1>3, <2>1
      <4> QED BY <3>7, <3>10, <4>1, ExceptSeq
    <3>12. /\ DOMAIN us = DOMAIN ts /\ \A n \in DOMAIN ts : n # j => us[n] = ts[n]
           /\ us[j].h = h /\ us[j].gen = g /\ us[j].routes = Q
      <4>1. j \in DOMAIN ts /\ ts[j].h = h /\ ts[j].gen = g
        BY <2>1
      <4>2. us[j] = k /\ DOMAIN us = DOMAIN ts /\ \A n \in DOMAIN ts : n # j => us[n] = ts[n]
        BY <3>10, <4>1
      <4> QED BY <3>6, <4>1, <4>2
    <3>13. PICK i : i = Len(R) + 1
      OBVIOUS
    <3>14. /\ DOMAIN Q = DOMAIN R \cup {i} /\ i \notin DOMAIN R /\ Q[i] = r
           /\ \A a \in DOMAIN R : Q[a] = R[a]
      BY <3>2, <3>5, <3>13
    <3>15. Grown(ts, us, j, i, r)
      <4>1. j \in DOMAIN ts
        BY <2>1
      <4>2. ts[j].h = h /\ ts[j].gen = g
        BY <2>1
      <4>3. ASSUME NEW m \in DOMAIN us, NEW a \in DOMAIN us[m].routes, m # j \/ a # i
            PROVE  /\ m \in DOMAIN ts /\ a \in DOMAIN ts[m].routes
                   /\ us[m].routes[a] = ts[m].routes[a]
                   /\ us[m].h = ts[m].h /\ us[m].gen = ts[m].gen
        <5>1. CASE m = j
          BY <3>1, <3>12, <3>14, <4>2, <4>3, <5>1
        <5>2. CASE m # j
          BY <3>12, <5>2
        <5> QED BY <5>1, <5>2
      <4>4. ASSUME NEW m \in DOMAIN ts
            PROVE  /\ m \in DOMAIN us /\ us[m].h = ts[m].h /\ us[m].gen = ts[m].gen
                   /\ \A a \in DOMAIN ts[m].routes :
                         a \in DOMAIN us[m].routes /\ us[m].routes[a] = ts[m].routes[a]
        <5>1. CASE m = j
          BY <3>1, <3>12, <3>14, <4>2, <5>1
        <5>2. CASE m # j
          BY <3>12, <5>2
        <5> QED BY <5>1, <5>2
      <4>5. j \in DOMAIN us /\ i \in DOMAIN us[j].routes /\ us[j].routes[i] = r
        BY <3>12, <3>14, <4>1
      <4> QED BY <4>3, <4>4, <4>5 DEF Grown
    <3>16. Welcome(us[j], i)
      BY <1>2, <2>1, <3>1, <3>12, <3>14 DEF CanAcceptRoute, Welcome
    <3> QED BY <3>11, <3>12, <3>15, <3>16
  <2>2. CASE us = Append(ts, [h |-> h, gen |-> g,
                              routes |-> AddRoute(<<>>, h, g, d, redir, p)])
    <3>1. <<>> \in Seq(Route) /\ Len(<<>>) = 0 /\ DOMAIN <<>> = {}
      OBVIOUS
    <3>2. AddRoute(<<>>, h, g, d, redir, p) = Append(<<>>, r)
      BY <1>4, <3>1
    <3>3. PICK Q : Q = Append(<<>>, r)
      OBVIOUS
    <3>4. Q \in Seq(Route) /\ Len(Q) = 1 /\ DOMAIN Q = {1} /\ Q[1] = r
      BY <1>2, <3>3
    <3>5. PICK k : k = [h |-> h, gen |-> g, routes |-> Q]
      OBVIOUS
    <3>6. k \in Task /\ k.h = h /\ k.gen = g /\ k.routes = Q
      BY <3>4, <3>5 DEF Task
    <3>7. us = Append(ts, k)
      BY <2>2, <3>2, <3>3, <3>5
    <3>8. /\ us \in Seq(Task) /\ Len(us) = Len(ts) + 1 /\ us[Len(ts) + 1] = k
          /\ \A n \in 1..Len(ts) : us[n] = ts[n]
      BY <3>6, <3>7, AppendProperties
    <3>9. PICK n : n = Len(ts) + 1
      OBVIOUS
    <3>10. /\ DOMAIN us = DOMAIN ts \cup {n} /\ n \notin DOMAIN ts /\ us[n] = k
           /\ \A m \in DOMAIN ts : us[m] = ts[m]
      <4>1. DOMAIN us = 1..(Len(ts) + 1)
        BY <3>8, LenProperties
      <4>2. 1..(Len(ts) + 1) = 1..Len(ts) \cup {Len(ts) + 1} /\ Len(ts) + 1 \notin 1..Len(ts)
        BY <1>3
      <4> QED BY <1>3, <3>8, <3>9, <4>1, <4>2
    <3>11. Grown(ts, us, n, 1, r)
      BY <3>4, <3>6, <3>10 DEF Grown
    <3>12. Welcome(us[n], 1)
      BY <3>4, <3>6, <3>10 DEF Welcome
    <3> QED BY <3>6, <3>8, <3>10, <3>11, <3>12
  <2> QED BY <2>1, <2>2
<1>6. PICK n, i : /\ us \in Seq(Task) /\ Grown(ts, us, n, i, r) /\ us[n].h = h /\ us[n].gen = g
                 /\ Welcome(us[n], i)
  BY <1>5
<1>7. /\ Grown(ts, us, n, i, r) /\ us[n].h = h /\ us[n].gen = g /\ Welcome(us[n], i)
  BY <1>6
<1>8. /\ TasksInv(us) /\ RouteIn(us, h, g, d, p)
      /\ \A hh, gg, dd, pp : RouteIn(ts, hh, gg, dd, pp) => RouteIn(us, hh, gg, dd, pp)
  <2>1. Unserved(ts, h, g, r.dest) /\ PortFree(ts, r.port) /\ AsDemanded(r)
    BY <1>2
  <2> QED BY <1>2, <1>7, <2>1, Growing
<1>9. ASSUME OwnedBy(ts) PROVE OwnedBy(us)
  <2> SUFFICES ASSUME NEW m \in DOMAIN us, NEW a \in Open(us[m])
               PROVE  us[m].routes[a].app = <<us[m].h, us[m].gen>>
    BY DEF OwnedBy
  <2>1. a \in DOMAIN us[m].routes /\ us[m].routes[a].open
    BY DEF Open
  <2>2. CASE m = n /\ a = i
    BY <1>2, <1>6, <2>2 DEF Grown
  <2>3. CASE m # n \/ a # i
    <3>1. /\ m \in DOMAIN ts /\ a \in DOMAIN ts[m].routes
          /\ us[m].routes[a] = ts[m].routes[a] /\ us[m].h = ts[m].h /\ us[m].gen = ts[m].gen
      BY <1>6, <2>1, <2>3 DEF Grown
    <3>2. a \in Open(ts[m])
      BY <2>1, <3>1 DEF Open
    <3> QED BY <1>9, <3>1, <3>2 DEF OwnedBy
  <2> QED BY <2>2, <2>3
<1> QED BY <1>6, <1>8, <1>9

Persist(ts, us) == \A h, g, d, p : RouteIn(ts, h, g, d, p) => RouteIn(us, h, g, d, p)

PortStates == [Ports -> {{}} \cup {{c} : c \in Handles \X (1..MaxGen)}]

LEMMA ClearedPorts ==
    ASSUME NEW ps \in PortStates, NEW K
    PROVE  /\ ClearTaskPortStates(ps, K) \in PortStates
           /\ \A q \in Ports : ClearTaskPortStates(ps, K)[q] \subseteq ps[q]
           /\ \A q \in Ports : q \in RoutePorts(K) => ClearTaskPortStates(ps, K)[q] = {}
  BY DEF ClearTaskPortStates, PortStates

(* What a registration does, whichever way it ends. *)
LEMMA NewTask ==
    ASSUME TypeOK, TasksInv(tasks), NEW x \in Threads, NEW h \in Handles, NEW d \in Dests,
           gen[h] # 0, OnNewTask(x, h, d)
    PROVE  \E p \in Ports \cup {NoPort} :
              /\ tasks' \in Seq(Task) /\ TasksInv(tasks') /\ Persist(tasks, tasks')
              /\ OwnedBy(tasks) => OwnedBy(tasks')
              /\ p # NoPort => RouteIn(tasks', h, gen[h], d, p)
              /\ Registered(x, p)
              /\ portState' \in PortStates
              /\ \A q \in Ports : \/ portState'[q] \subseteq portState[q]
                                  \/ q = p /\ portState'[q] = {<<h, gen[h]>>}
<1>1. PICK g \in 1..MaxGen : g = gen[h]
  BY RoutesAssumption DEF TypeOK
<1>2. PICK redir \in BOOLEAN : redir = ShouldRedirect(d)
  BY DEF ShouldRedirect, TypeOK
<1>3. PICK ts : ts = Kept(h, g)
  OBVIOUS
<1>4. PICK j : j = ChosenTask(ts, h, g, d, redir)
  OBVIOUS
<1>5. PICK ps : ps = ClearTaskPortStates(portState, Dropped(h, g))
  OBVIOUS
<1>6. tasks \in Seq(Task) /\ portState \in PortStates
  BY DEF TypeOK, Task, PortStates
<1>7. /\ ts \in Seq(Task) /\ TasksInv(ts) /\ Persist(tasks, ts)
      /\ \A n \in DOMAIN ts : \E m \in DOMAIN tasks : ts[n] = tasks[m]
      /\ \A n \in DOMAIN ts : ts[n].h = h /\ ts[n].gen = g =>
            \A i \in DOMAIN ts[n].routes : ts[n].routes[i].open
      /\ OwnedBy(tasks) => OwnedBy(ts)
  BY <1>3, <1>6, KeptTasks DEF Persist
<1>8. ps \in PortStates /\ \A q \in Ports : ps[q] \subseteq portState[q]
  BY <1>5, <1>6, ClearedPorts
<1>9. \/ /\ j \in DOMAIN ts /\ j # 0 /\ ts[j].h = h /\ ts[j].gen = g
         /\ Reusable(ts[j].routes, d) # {}
      \/ /\ \A n \in DOMAIN ts : ts[n].h = h /\ ts[n].gen = g =>
               \A i \in DOMAIN ts[n].routes : ts[n].routes[i].dest # d
         /\ j # 0 => /\ j \in DOMAIN ts /\ ts[j].h = h /\ ts[j].gen = g
                     /\ CanAcceptRoute(ts[j], d, redir) /\ Reusable(ts[j].routes, d) = {}
  BY <1>4, <1>7, Choosing
<1>10. \/ /\ j # 0 /\ Reusable(ts[j].routes, d) # {}
          /\ \E rs : /\ rs = AddRoute(ts[j].routes, h, g, d, redir, NoPort)
                     /\ tasks' = [ts EXCEPT ![j].routes = rs]
                     /\ portState' = [ps EXCEPT ![PortOf(rs, d)] = {<<h, g>>}]
                     /\ Registered(x, PortOf(rs, d))
       \/ \E p \in Ports \ BoundPorts :
          /\ ~(j # 0 /\ Reusable(ts[j].routes, d) # {})
          /\ tasks' = IF j # 0
                      THEN [ts EXCEPT ![j].routes = AddRoute(@, h, g, d, redir, p)]
                      ELSE Append(ts, [h |-> h, gen |-> g,
                                       routes |-> AddRoute(<<>>, h, g, d, redir, p)])
          /\ portState' = [ps EXCEPT ![p] = {<<h, g>>}]
          /\ Registered(x, p)
       \/ tasks' = ts /\ portState' = ps /\ Registered(x, NoPort)
  BY <1>1, <1>2, <1>3, <1>4, <1>5 DEF OnNewTask
<1>11. ASSUME NEW p \in Ports, portState' = [ps EXCEPT ![p] = {<<h, g>>}]
       PROVE  /\ portState' \in PortStates
              /\ \A q \in Ports : \/ portState'[q] \subseteq portState[q]
                                  \/ q = p /\ portState'[q] = {<<h, gen[h]>>}
  <2>1. {<<h, g>>} \in {{c} : c \in Handles \X (1..MaxGen)}
    OBVIOUS
  <2>2. portState' \in PortStates
    BY <1>8, <1>11, <2>1 DEF PortStates
  <2>3. \A q \in Ports : portState'[q] = IF q = p THEN {<<h, g>>} ELSE ps[q]
    BY <1>8, <1>11 DEF PortStates
  <2> QED BY <1>1, <1>8, <2>2, <2>3
<1>12. CASE /\ j # 0 /\ Reusable(ts[j].routes, d) # {}
            /\ \E rs : /\ rs = AddRoute(ts[j].routes, h, g, d, redir, NoPort)
                       /\ tasks' = [ts EXCEPT ![j].routes = rs]
                       /\ portState' = [ps EXCEPT ![PortOf(rs, d)] = {<<h, g>>}]
                       /\ Registered(x, PortOf(rs, d))
  <2>1. PICK rs : /\ rs = AddRoute(ts[j].routes, h, g, d, redir, NoPort)
                  /\ tasks' = [ts EXCEPT ![j].routes = rs]
                  /\ portState' = [ps EXCEPT ![PortOf(rs, d)] = {<<h, g>>}]
                  /\ Registered(x, PortOf(rs, d))
    BY <1>12
  <2>2. j \in DOMAIN ts /\ ts[j].h = h /\ ts[j].gen = g /\ Reusable(ts[j].routes, d) # {}
    BY <1>9, <1>12
  <2>3. redir <=> ShouldRedirect(d)
    BY <1>2
  <2>4. PICK us : us = tasks'
    OBVIOUS
  <2>5. /\ us \in Seq(Task) /\ TasksInv(us) /\ PortOf(rs, d) \in Ports
        /\ RouteIn(us, ts[j].h, ts[j].gen, d, PortOf(rs, d))
        /\ \A hh, gg, dd, pp : RouteIn(ts, hh, gg, dd, pp) => RouteIn(us, hh, gg, dd, pp)
        /\ OwnedBy(ts) => OwnedBy(us)
    <3>1. ts \in Seq(Task) /\ TasksInv(ts)
      BY <1>7
    <3>2. Reuses(ts, j, d, rs, us)
      BY <2>1, <2>2, <2>3, <2>4 DEF Reuses
    <3> QED BY <3>1, <3>2, ReuseRoute
  <2>6. Persist(tasks, us)
    BY <1>7, <2>5 DEF Persist
  <2>7. RouteIn(us, h, gen[h], d, PortOf(rs, d))
    BY <1>1, <2>2, <2>5
  <2> QED BY <1>7, <1>11, <2>1, <2>4, <2>5, <2>6, <2>7
<1>13. CASE \E p \in Ports \ BoundPorts :
            /\ ~(j # 0 /\ Reusable(ts[j].routes, d) # {})
            /\ tasks' = IF j # 0
                        THEN [ts EXCEPT ![j].routes = AddRoute(@, h, g, d, redir, p)]
                        ELSE Append(ts, [h |-> h, gen |-> g,
                                         routes |-> AddRoute(<<>>, h, g, d, redir, p)])
            /\ portState' = [ps EXCEPT ![p] = {<<h, g>>}]
            /\ Registered(x, p)
  <2>1. PICK p \in Ports \ BoundPorts :
            /\ ~(j # 0 /\ Reusable(ts[j].routes, d) # {})
            /\ tasks' = IF j # 0
                        THEN [ts EXCEPT ![j].routes = AddRoute(@, h, g, d, redir, p)]
                        ELSE Append(ts, [h |-> h, gen |-> g,
                                         routes |-> AddRoute(<<>>, h, g, d, redir, p)])
            /\ portState' = [ps EXCEPT ![p] = {<<h, g>>}]
            /\ Registered(x, p)
    BY <1>13
  <2>2. redir <=> ShouldRedirect(d)
    BY <1>2
  <2>3. PICK us : us = tasks'
    OBVIOUS
  <2>4. Unserved(ts, h, g, d)
    BY <1>7, <1>9, <2>1 DEF Unserved
  <2>5. PortFree(ts, p)
    <3> SUFFICES ASSUME NEW n \in DOMAIN ts, NEW i \in Open(ts[n]), ts[n].routes[i].port = p
                 PROVE  FALSE
      BY DEF PortFree
    <3>1. PICK m \in DOMAIN tasks : ts[n] = tasks[m]
      BY <1>7
    <3>2. tasks[m].routes[i] \in ToSet(tasks[m].routes) /\ tasks[m].routes[i].open
      BY <3>1 DEF Open, ToSet
    <3>3. tasks[m].routes[i].port \in BoundPorts
      BY <3>2 DEF BoundPorts
    <3> QED BY <2>1, <3>1, <3>3
  <2>6. \/ /\ j \in DOMAIN ts /\ ts[j].h = h /\ ts[j].gen = g
           /\ CanAcceptRoute(ts[j], d, redir)
           /\ us = [ts EXCEPT ![j].routes = AddRoute(@, h, g, d, redir, p)]
        \/ us = Append(ts, [h |-> h, gen |-> g, routes |-> AddRoute(<<>>, h, g, d, redir, p)])
    BY <1>9, <2>1, <2>3
  <2>7. /\ us \in Seq(Task) /\ TasksInv(us) /\ RouteIn(us, h, g, d, p)
        /\ \A hh, gg, dd, pp : RouteIn(ts, hh, gg, dd, pp) => RouteIn(us, hh, gg, dd, pp)
        /\ OwnedBy(ts) => OwnedBy(us)
    BY <1>7, <2>2, <2>4, <2>5, <2>6, AddToTask
  <2>8. Persist(tasks, us)
    BY <1>7, <2>7 DEF Persist
  <2>9. RouteIn(us, h, gen[h], d, p)
    BY <1>1, <2>7
  <2> QED BY <1>7, <1>11, <2>1, <2>3, <2>7, <2>8, <2>9
<1>14. CASE tasks' = ts /\ portState' = ps /\ Registered(x, NoPort)
  BY <1>7, <1>8, <1>14
<1> QED BY <1>10, <1>12, <1>13, <1>14

-----------------------------------------------------------------------------
(* How the parts of the invariant follow from what a step leaves alone. *)

LEMMA StableMeans == StableRoute <=> (~scope.lose => TableGood /\ ThreadsGood)
<1>1. \A h, d, p : RouteFor(h, d, p) <=> RouteIn(tasks, h, gen[h], d, p)
  BY DEF RouteFor, RouteIn, Open, MatchesAssociation
<1> QED BY <1>1 DEF StableRoute, Sendable, TableGood, ThreadsGood

LEMMA HonestMeans ==
    ASSUME portState \in PortStates
    PROVE  PortStateHonest <=> (~scope.lose => Honest(tasks, portState))
<1>1. ASSUME NEW p \in Ports, NEW o \in portState[p]
      PROVE  (\E k \in ToSet(tasks) : <<k.h, k.gen>> = o /\ \E i \in Open(k) : k.routes[i].port = p)
             <=> \E d : RouteIn(tasks, o[1], o[2], d, p)
  <2>1. o = <<o[1], o[2]>>
    BY DEF PortStates
  <2>2. ASSUME NEW k \in ToSet(tasks), <<k.h, k.gen>> = o, NEW i \in Open(k), k.routes[i].port = p
        PROVE  \E d : RouteIn(tasks, o[1], o[2], d, p)
    <3>1. PICK j \in DOMAIN tasks : k = tasks[j]
      BY DEF ToSet
    <3>2. RouteIn(tasks, o[1], o[2], k.routes[i].dest, p)
      BY <2>2, <3>1 DEF RouteIn, Open
    <3> QED BY <3>2
  <2>3. ASSUME NEW d, RouteIn(tasks, o[1], o[2], d, p)
        PROVE  \E k \in ToSet(tasks) :
                  <<k.h, k.gen>> = o /\ \E i \in Open(k) : k.routes[i].port = p
    <3>1. PICK j \in DOMAIN tasks : \E i \in DOMAIN tasks[j].routes :
              /\ tasks[j].h = o[1] /\ tasks[j].gen = o[2] /\ tasks[j].routes[i].open
              /\ tasks[j].routes[i].dest = d /\ tasks[j].routes[i].port = p
      BY <2>3 DEF RouteIn
    <3>2. tasks[j] \in ToSet(tasks)
      BY DEF ToSet
    <3>3. <<tasks[j].h, tasks[j].gen>> = o
      BY <2>1, <3>1
    <3> QED BY <3>1, <3>2, <3>3 DEF Open
  <2> QED BY <2>2, <2>3
<1> QED BY <1>1 DEF PortStateHonest, Honest

LEMMA OwnedMeans == ReplyReachesOwner <=> (~scope.lose => OwnedBy(tasks))
  BY DEF ReplyReachesOwner, OwnedBy

(* The part of TasksInv that speaks of the settings. *)
LEMMA SettingsKept ==
    ASSUME TasksInv(tasks'), redirect' = redirect, scope' = scope
    PROVE  TasksInv(tasks)'
<1>1. \A d : ShouldRedirect(d)' <=> ShouldRedirect(d)
  BY DEF ShouldRedirect
<1> QED BY <1>1 DEF TasksInv, Whole, PortsApart, OneRoute, Apart, Demanded, Open

LEMMA HonestKept ==
    ASSUME Honest(tasks, portState), Persist(tasks, tasks'),
           \A q \in Ports : portState'[q] \subseteq portState[q]
    PROVE  Honest(tasks', portState')
  BY DEF Honest, Persist

(* A port that a step leaves alone stays good. *)
LEMMA StableKept ==
    ASSUME Persist(tasks, tasks'), NEW h, NEW d, NEW p, RouteIn(tasks, h, gen[h], d, p),
           gen'[h] = gen[h]
    PROVE  RouteIn(tasks', h, gen'[h], d, p)
  BY DEF Persist

LEMMA ThreadShape ==
    ASSUME TypeOK, NEW x \in Threads, thread[x].at # "idle"
    PROVE  /\ thread[x] \in Steps /\ thread[x].h \in Handles /\ thread[x].d \in Dests
           /\ thread[x].port \in Ports \cup {NoPort} /\ thread[x].connect \in BOOLEAN
           /\ thread[x] = [at |-> thread[x].at, h |-> thread[x].h, d |-> thread[x].d,
                           port |-> thread[x].port, connect |-> thread[x].connect]
<1>1. thread[x] \in {Idle} \cup Steps
  BY DEF TypeOK
<1>2. thread[x] \in Steps
  BY <1>1 DEF Idle
<1> QED BY <1>2 DEF Steps

-----------------------------------------------------------------------------
(* The actions. *)

LEMMA InitInv == Init => RInv
<1> SUFFICES ASSUME Init PROVE RInv
  OBVIOUS
<1>1. tasks = <<>> /\ DOMAIN tasks = {} /\ tasks \in Seq(Task)
  BY DEF Init
<1>2. TypeOK
  <2>1. 0 \in 0..MaxGen
    BY RoutesAssumption
  <2>2. \A p \in Ports : portState[p] = {}
    BY DEF Init
  <2>3. portState \in [Ports -> {{}} \cup {{c} : c \in Handles \X (1..MaxGen)}]
    BY DEF Init
  <2>4. scope \in Scopes /\ redirect \in BOOLEAN
    BY RoutesAssumption DEF Init
  <2> QED BY <1>1, <2>1, <2>3, <2>4 DEF Init, TypeOK, Task
<1>3. InUse
  BY DEF Init, InUse, Idle
<1>4. TasksInv(tasks)
  BY <1>1 DEF TasksInv, Whole, PortsApart, OneRoute, Apart, Demanded
<1>5. TableGood /\ ThreadsGood /\ Honest(tasks, portState) /\ OwnedBy(tasks)
  BY <1>1 DEF Init, TableGood, ThreadsGood, Sendable, Idle, Honest, OwnedBy
<1> QED BY <1>2, <1>3, <1>4, <1>5 DEF RInv

(* A thread begins to send or to connect. *)
LEMMA Begins ==
    ASSUME RInv, NEW x \in Threads, NEW h \in Handles, NEW d \in Dests, NEW w \in Steps,
           w.h = h, w.d = d, w.at = "send" => table[h][d] # NoPort /\ w.port = table[h][d],
           w.at # "registered",
           Generation(h), Goes(x, w), UNCHANGED <<table, lock, proxyVars>>
    PROVE  RInv'
<1>1. TypeOK /\ InUse /\ TasksInv(tasks)
  BY DEF RInv
<1>2. /\ thread' = [thread EXCEPT ![x] = w] /\ UNCHANGED <<table, lock, tasks, portState, redirect, scope>>
      /\ thread'[x] = w /\ \A y \in Threads : y # x => thread'[y] = thread[y]
  BY <1>1 DEF Goes, proxyVars, TypeOK
<1>3. /\ gen' \in [Handles -> 0..MaxGen] /\ lastGen' \in 0..MaxGen /\ gen'[h] # 0
      /\ \A k \in Handles : gen'[k] = gen[k] \/ (k = h /\ gen[h] = 0)
  <2>1. CASE gen[h] # 0
    BY <1>1, <2>1 DEF Generation, TypeOK
  <2>2. CASE gen[h] = 0
    <3>1. lastGen + 1 \in 0..MaxGen /\ lastGen + 1 # 0
      BY <1>1, <2>2, RoutesAssumption DEF Generation, TypeOK
    <3> QED BY <1>1, <2>2, <3>1 DEF Generation, TypeOK
  <2> QED BY <2>1, <2>2
<1>4. TypeOK'
  <2>1. thread' \in [Threads -> {Idle} \cup Steps]
    BY <1>1, <1>2 DEF TypeOK
  <2> QED BY <1>1, <1>2, <1>3, <2>1 DEF TypeOK
<1>5. \A y \in Threads : thread[y].at # "idle" => thread[y].h \in Handles
  BY <1>1, ThreadShape
<1>6. InUse'
  BY <1>1, <1>2, <1>3, <1>5 DEF InUse
<1>7. TasksInv(tasks)'
  BY <1>1, <1>2, SettingsKept
<1>8. ASSUME ~scope'.lose
      PROVE  TableGood' /\ ThreadsGood' /\ Honest(tasks, portState)' /\ OwnedBy(tasks)'
  <2>1. TableGood /\ ThreadsGood /\ Honest(tasks, portState) /\ OwnedBy(tasks)
    BY <1>2, <1>8 DEF RInv
  <2>2. tasks \in Seq(Task)
    BY <1>1 DEF TypeOK, Task
  <2>3. \A hh, dd, pp : ~RouteIn(tasks, hh, 0, dd, pp)
    BY <2>2, TaskShape DEF RouteIn
  <2>4. \A k \in Handles, e \in Dests : table[k][e] # NoPort => gen'[k] = gen[k]
    BY <1>3, <2>1, <2>3 DEF TableGood
  <2>5. TableGood'
    BY <1>2, <2>1, <2>4 DEF TableGood
  <2>6. ASSUME NEW y \in Threads, Sendable(y)'
        PROVE  RouteIn(tasks', thread'[y].h, gen'[thread'[y].h], thread'[y].d, thread'[y].port)
    <3>1. CASE y = x
      <4>1. w.at = "send"
        BY <1>2, <2>6, <3>1 DEF Sendable
      <4>2. RouteIn(tasks, h, gen[h], d, table[h][d])
        BY <2>1, <4>1 DEF TableGood
      <4>3. gen'[h] = gen[h]
        BY <2>4, <4>1
      <4> QED BY <1>2, <3>1, <4>1, <4>2, <4>3
    <3>2. CASE y # x
      <4>1. Sendable(y) /\ thread'[y] = thread[y]
        BY <1>2, <2>6, <3>2 DEF Sendable
      <4>2. thread[y].at # "idle"
        BY <4>1 DEF Sendable
      <4>3. gen[thread[y].h] # 0 /\ thread[y].h \in Handles
        BY <1>1, <1>5, <4>2 DEF InUse
      <4>4. gen'[thread[y].h] = gen[thread[y].h]
        BY <1>3, <4>3
      <4> QED BY <1>2, <2>1, <4>1, <4>4 DEF ThreadsGood
    <3> QED BY <3>1, <3>2
  <2>7. ThreadsGood'
    BY <2>6 DEF ThreadsGood
  <2> QED BY <1>2, <2>1, <2>5, <2>7 DEF Honest, OwnedBy, RouteIn, Open
<1> QED BY <1>4, <1>6, <1>7, <1>8 DEF RInv

LEMMA SendToInv ==
    ASSUME RInv, NEW x \in Threads, NEW h \in Handles, NEW d \in Dests, SendTo(x, h, d)
    PROVE  RInv'
<1>1. table[h][d] \in Ports \cup {NoPort}
  BY DEF RInv, TypeOK
<1>2. PICK w : w = [at |-> IF table[h][d] # NoPort THEN "send" ELSE "want",
                    h |-> h, d |-> d, port |-> table[h][d], connect |-> FALSE]
  OBVIOUS
<1>3. /\ w \in Steps /\ w.h = h /\ w.d = d /\ w.at # "registered"
      /\ w.at = "send" => table[h][d] # NoPort /\ w.port = table[h][d]
  BY <1>1, <1>2 DEF Steps
<1>4. Generation(h) /\ Goes(x, w) /\ UNCHANGED <<table, lock, proxyVars>>
  BY <1>2 DEF SendTo
<1> QED BY <1>3, <1>4, Begins

LEMMA ConnectInv ==
    ASSUME RInv, NEW x \in Threads, NEW h \in Handles, NEW d \in Dests, Connect(x, h, d)
    PROVE  RInv'
<1>1. PICK w : w = [at |-> "want", h |-> h, d |-> d, port |-> NoPort, connect |-> TRUE]
  OBVIOUS
<1>2. /\ w \in Steps /\ w.h = h /\ w.d = d /\ w.at # "registered"
      /\ w.at = "send" => table[h][d] # NoPort /\ w.port = table[h][d]
  BY <1>1 DEF Steps
<1>3. Generation(h) /\ Goes(x, w) /\ UNCHANGED <<table, lock, proxyVars>>
  BY <1>1 DEF Connect
<1> QED BY <1>2, <1>3, Begins

(* A thread goes on; the sockets and the proxy process are as they were. *)
LEMMA GoesOn ==
    ASSUME RInv, NEW x \in Threads, NEW w \in {Idle} \cup Steps, Goes(x, w),
           w.at # "idle" => gen[w.h] # 0,
           ~scope.lose /\ w.at \in {"registered", "send"} => RouteIn(tasks, w.h, gen[w.h], w.d, w.port),
           UNCHANGED <<table, gen, lastGen, lock, proxyVars>>
    PROVE  RInv'
<1>1. TypeOK /\ InUse /\ TasksInv(tasks)
  BY DEF RInv
<1>2. /\ thread' = [thread EXCEPT ![x] = w]
      /\ UNCHANGED <<table, gen, lastGen, lock, tasks, portState, redirect, scope>>
      /\ thread'[x] = w /\ \A y \in Threads : y # x => thread'[y] = thread[y]
  BY <1>1 DEF Goes, proxyVars, TypeOK
<1>3. TypeOK'
  <2>1. thread' \in [Threads -> {Idle} \cup Steps]
    BY <1>1, <1>2 DEF TypeOK
  <2> QED BY <1>1, <1>2, <2>1 DEF TypeOK
<1>4. InUse'
  BY <1>1, <1>2 DEF InUse
<1>5. TasksInv(tasks)'
  BY <1>1, <1>2, SettingsKept
<1>6. ASSUME ~scope'.lose
      PROVE  TableGood' /\ ThreadsGood' /\ Honest(tasks, portState)' /\ OwnedBy(tasks)'
  <2>1. TableGood /\ ThreadsGood /\ Honest(tasks, portState) /\ OwnedBy(tasks)
    BY <1>2, <1>6 DEF RInv
  <2>2. TableGood'
    BY <1>2, <2>1 DEF TableGood
  <2>3. ASSUME NEW y \in Threads, Sendable(y)'
        PROVE  RouteIn(tasks', thread'[y].h, gen'[thread'[y].h], thread'[y].d, thread'[y].port)
    <3>1. CASE y = x
      BY <1>2, <1>6, <2>3, <3>1 DEF Sendable
    <3>2. CASE y # x
      BY <1>2, <2>1, <2>3, <3>2 DEF Sendable, ThreadsGood
    <3> QED BY <3>1, <3>2
  <2>4. ThreadsGood'
    BY <2>3 DEF ThreadsGood
  <2> QED BY <1>2, <2>1, <2>2, <2>4 DEF Honest, OwnedBy, RouteIn, Open
<1> QED BY <1>3, <1>4, <1>5, <1>6 DEF RInv

LEMMA FoundInv == ASSUME RInv, NEW x \in Threads, FoundUnderLock(x) PROVE RInv'
<1>1. PICK w : w = thread[x]
  OBVIOUS
<1>2. /\ w.at = "want" /\ table[w.h][w.d] # NoPort
      /\ Goes(x, [w EXCEPT !.at = "send", !.port = table[w.h][w.d]])
      /\ UNCHANGED <<table, gen, lastGen, lock, proxyVars>>
  BY <1>1 DEF FoundUnderLock, At
<1>3. /\ w \in Steps /\ w.h \in Handles /\ w.d \in Dests
      /\ w = [at |-> w.at, h |-> w.h, d |-> w.d, port |-> w.port, connect |-> w.connect]
      /\ w.connect \in BOOLEAN
  BY <1>1, <1>2, ThreadShape DEF RInv
<1>4. PICK v : v = [w EXCEPT !.at = "send", !.port = table[w.h][w.d]]
  OBVIOUS
<1>5. table[w.h][w.d] \in Ports \cup {NoPort}
  BY <1>3 DEF RInv, TypeOK
<1>6. /\ v \in Steps /\ v.h = w.h /\ v.d = w.d /\ v.port = table[w.h][w.d] /\ v.at = "send"
  BY <1>3, <1>4, <1>5 DEF Steps
<1>7. gen[v.h] # 0
  BY <1>1, <1>2, <1>6 DEF RInv, InUse
<1>8. ~scope.lose => RouteIn(tasks, v.h, gen[v.h], v.d, v.port)
  BY <1>2, <1>3, <1>6 DEF RInv, TableGood
<1> QED BY <1>2, <1>4, <1>6, <1>7, <1>8, GoesOn

LEMMA RegisterFailsInv == ASSUME RInv, NEW x \in Threads, RegisterFails(x) PROVE RInv'
<1>1. Goes(x, Idle) /\ UNCHANGED <<table, gen, lastGen, lock, proxyVars>>
  BY DEF RegisterFails
<1>2. Idle.at = "idle"
  BY DEF Idle
<1> QED BY <1>1, <1>2, GoesOn

LEMMA RegisterInv == ASSUME RInv, NEW x \in Threads, Register(x) PROVE RInv'
<1>1. TypeOK /\ InUse /\ TasksInv(tasks)
  BY DEF RInv
<1>2. PICK w : w = thread[x]
  OBVIOUS
<1>3. /\ w.at = "want" /\ OnNewTask(x, w.h, w.d)
      /\ UNCHANGED <<table, gen, lastGen, redirect, scope>>
  BY <1>2 DEF Register, At
<1>4. /\ w \in Steps /\ w.h \in Handles /\ w.d \in Dests /\ w.connect \in BOOLEAN
      /\ w = [at |-> w.at, h |-> w.h, d |-> w.d, port |-> w.port, connect |-> w.connect]
  BY <1>1, <1>2, <1>3, ThreadShape
<1>5. gen[w.h] # 0
  BY <1>1, <1>2, <1>3 DEF InUse
<1>6. PICK p \in Ports \cup {NoPort} :
          /\ tasks' \in Seq(Task) /\ TasksInv(tasks') /\ Persist(tasks, tasks')
          /\ OwnedBy(tasks) => OwnedBy(tasks')
          /\ p # NoPort => RouteIn(tasks', w.h, gen[w.h], w.d, p)
          /\ Registered(x, p)
          /\ portState' \in PortStates
          /\ \A q \in Ports : \/ portState'[q] \subseteq portState[q]
                              \/ q = p /\ portState'[q] = {<<w.h, gen[w.h]>>}
  BY <1>1, <1>3, <1>4, <1>5, NewTask
<1>7. PICK v : v = [at |-> "registered", h |-> w.h, d |-> w.d, port |-> p, connect |-> w.connect]
  OBVIOUS
<1>8. v \in Steps /\ v.h = w.h /\ v.d = w.d /\ v.port = p
  BY <1>4, <1>7 DEF Steps
<1>9. /\ thread' \in [Threads -> {Idle} \cup Steps] /\ lock' \in Threads \cup {NoThread}
      /\ \A y \in Threads : y # x => thread'[y] = thread[y]
      /\ \/ thread'[x] = v /\ p # NoPort
         \/ thread'[x] = Idle
  <2>1. thread \in [Threads -> {Idle} \cup Steps] /\ lock \in Threads \cup {NoThread}
    BY <1>1 DEF TypeOK
  <2>2. CASE /\ p # NoPort
             /\ thread' = [thread EXCEPT ![x] = [@ EXCEPT !.at = "registered", !.port = p]] /\ lock' = x
    <3>1. PICK u : u = [w EXCEPT !.at = "registered"]
      OBVIOUS
    <3>2. u = [at |-> "registered", h |-> w.h, d |-> w.d, port |-> w.port, connect |-> w.connect]
      BY <1>4, <3>1
    <3>3. [u EXCEPT !.port = p] = v
      BY <1>7, <3>2
    <3>4. thread' = [thread EXCEPT ![x] = v]
      BY <1>2, <2>1, <2>2, <3>1, <3>3
    <3> QED BY <1>8, <2>1, <2>2, <3>4
  <2>3. CASE thread' = [thread EXCEPT ![x] = Idle] /\ lock' = lock
    BY <2>1, <2>3
  <2> QED BY <1>6, <2>2, <2>3 DEF Registered
<1>10. TypeOK'
  BY <1>1, <1>3, <1>6, <1>9 DEF TypeOK, Task, PortStates
<1>11. InUse'
  BY <1>1, <1>3, <1>5, <1>8, <1>9 DEF InUse, Idle
<1>12. TasksInv(tasks)'
  BY <1>3, <1>6, SettingsKept
<1>13. ASSUME ~scope'.lose
       PROVE  TableGood' /\ ThreadsGood' /\ Honest(tasks', portState') /\ OwnedBy(tasks')
  <2>1. TableGood /\ ThreadsGood /\ Honest(tasks, portState) /\ OwnedBy(tasks)
    BY <1>3, <1>13 DEF RInv
  <2>2. TableGood'
    BY <1>3, <1>6, <2>1 DEF TableGood, Persist
  <2>3. ASSUME NEW y \in Threads, Sendable(y)'
        PROVE  RouteIn(tasks', thread'[y].h, gen'[thread'[y].h], thread'[y].d, thread'[y].port)
    <3>1. CASE y = x
      <4>1. thread'[x] = v /\ p # NoPort
        BY <1>9, <2>3, <3>1 DEF Sendable, Idle
      <4> QED BY <1>3, <1>6, <1>8, <3>1, <4>1
    <3>2. CASE y # x
      <4>1. Sendable(y) /\ thread'[y] = thread[y]
        BY <1>9, <2>3, <3>2 DEF Sendable
      <4>2. RouteIn(tasks, thread[y].h, gen[thread[y].h], thread[y].d, thread[y].port)
        BY <2>1, <4>1 DEF ThreadsGood
      <4> QED BY <1>3, <1>6, <4>1, <4>2 DEF Persist
    <3> QED BY <3>1, <3>2
  <2>4. ThreadsGood'
    BY <2>3 DEF ThreadsGood
  <2>5. Honest(tasks', portState')
    <3> SUFFICES ASSUME NEW q \in Ports, NEW o \in portState'[q]
                 PROVE  \E d : RouteIn(tasks', o[1], o[2], d, q)
      BY DEF Honest
    <3>1. CASE portState'[q] \subseteq portState[q]
      BY <1>6, <2>1, <3>1 DEF Honest, Persist
    <3>2. CASE q = p /\ portState'[q] = {<<w.h, gen[w.h]>>}
      <4>1. o = <<w.h, gen[w.h]>> /\ p # NoPort
        BY <3>2, RoutesAssumption
      <4> QED BY <1>6, <3>2, <4>1
    <3> QED BY <1>6, <3>1, <3>2
  <2> QED BY <1>6, <2>1, <2>2, <2>4, <2>5
<1>14. ~scope'.lose => Honest(tasks, portState)' /\ OwnedBy(tasks)'
  BY <1>13 DEF Honest, OwnedBy, RouteIn, Open
<1> QED BY <1>10, <1>11, <1>12, <1>13, <1>14 DEF RInv

LEMMA PushInv == ASSUME RInv, NEW x \in Threads, Push(x) PROVE RInv'
<1>1. TypeOK /\ InUse /\ TasksInv(tasks)
  BY DEF RInv
<1>2. PICK w : w = thread[x]
  OBVIOUS
<1>3. PICK v : v = IF w.connect THEN Idle ELSE [w EXCEPT !.at = "send"]
  OBVIOUS
<1>4. /\ w.at = "registered" /\ table' = [table EXCEPT ![w.h][w.d] = w.port]
      /\ lock' = NoThread /\ thread' = [thread EXCEPT ![x] = v]
      /\ UNCHANGED <<gen, lastGen, tasks, portState, redirect, scope>>
  BY <1>2, <1>3 DEF Push, At, Goes, proxyVars
<1>5. /\ w \in Steps /\ w.h \in Handles /\ w.d \in Dests /\ w.connect \in BOOLEAN
      /\ w.port \in Ports \cup {NoPort}
      /\ w = [at |-> w.at, h |-> w.h, d |-> w.d, port |-> w.port, connect |-> w.connect]
  BY <1>1, <1>2, <1>4, ThreadShape
<1>6. /\ v \in {Idle} \cup Steps
      /\ v.at # "idle" => v.at = "send" /\ v.h = w.h /\ v.d = w.d /\ v.port = w.port
  <2>1. CASE w.connect
    BY <1>3, <2>1 DEF Idle
  <2>2. CASE ~w.connect
    BY <1>3, <1>5, <2>2 DEF Steps
  <2> QED BY <2>1, <2>2
<1>7. /\ thread' \in [Threads -> {Idle} \cup Steps] /\ thread'[x] = v
      /\ \A y \in Threads : y # x => thread'[y] = thread[y]
  BY <1>1, <1>4, <1>6 DEF TypeOK
<1>8. /\ table' \in [Handles -> [Dests -> Ports \cup {NoPort}]]
      /\ \A h \in Handles, d \in Dests :
            table'[h][d] = IF h = w.h /\ d = w.d THEN w.port ELSE table[h][d]
  BY <1>1, <1>4, <1>5 DEF TypeOK
<1>9. TypeOK'
  BY <1>1, <1>4, <1>7, <1>8 DEF TypeOK
<1>10. InUse'
  BY <1>1, <1>2, <1>4, <1>6, <1>7 DEF InUse
<1>11. TasksInv(tasks)'
  BY <1>1, <1>4, SettingsKept
<1>12. ASSUME ~scope'.lose
       PROVE  TableGood' /\ ThreadsGood' /\ Honest(tasks, portState)' /\ OwnedBy(tasks)'
  <2>1. TableGood /\ ThreadsGood /\ Honest(tasks, portState) /\ OwnedBy(tasks)
    BY <1>4, <1>12 DEF RInv
  <2>2. RouteIn(tasks, w.h, gen[w.h], w.d, w.port)
    BY <1>2, <1>4, <2>1 DEF ThreadsGood, Sendable
  <2>3. TableGood'
    BY <1>4, <1>8, <2>1, <2>2 DEF TableGood
  <2>4. ASSUME NEW y \in Threads, Sendable(y)'
        PROVE  RouteIn(tasks', thread'[y].h, gen'[thread'[y].h], thread'[y].d, thread'[y].port)
    <3>1. CASE y = x
      BY <1>4, <1>6, <1>7, <2>2, <2>4, <3>1 DEF Sendable
    <3>2. CASE y # x
      BY <1>4, <1>7, <2>1, <2>4, <3>2 DEF Sendable, ThreadsGood
    <3> QED BY <3>1, <3>2
  <2>5. ThreadsGood'
    BY <2>4 DEF ThreadsGood
  <2> QED BY <1>4, <2>1, <2>3, <2>5 DEF Honest, OwnedBy, RouteIn, Open
<1> QED BY <1>9, <1>10, <1>11, <1>12 DEF RInv

(* The datagram of a thread becomes the last one a route has seen. *)
Stamped(ts, p, a) ==
    [j \in DOMAIN ts |-> [ts[j] EXCEPT !.routes =
        [i \in DOMAIN @ |-> IF @[i].open /\ @[i].port = p
                            THEN [@[i] EXCEPT !.app = a] ELSE @[i]]]]
Alike(r, s) ==
    /\ r.dest = s.dest /\ r.port = s.port /\ r.target = s.target
    /\ r.redir = s.redir /\ (r.open <=> s.open)
Stamp(r, s, p, a) == r.app = s.app \/ (r.app = a /\ s.open /\ s.port = p)

LEMMA Delivered ==
    ASSUME NEW ts \in Seq(Task), NEW a \in Handles \X Nat, NEW p, NEW us, us = Stamped(ts, p, a)
    PROVE  /\ us \in Seq(Task) /\ Altered(ts, us) /\ Persist(ts, us)
           /\ \A j \in DOMAIN ts : \A i \in DOMAIN ts[j].routes :
                 Stamp(us[j].routes[i], ts[j].routes[i], p, a)
<1>1. DOMAIN ts = 1..Len(ts) /\ Len(ts) \in Nat
  BY LenProperties
<1>2. ASSUME NEW j \in DOMAIN ts
      PROVE  /\ us[j] \in Task /\ us[j].h = ts[j].h /\ us[j].gen = ts[j].gen
             /\ DOMAIN us[j].routes = DOMAIN ts[j].routes
             /\ \A i \in DOMAIN ts[j].routes :
                   /\ Alike(us[j].routes[i], ts[j].routes[i])
                   /\ Stamp(us[j].routes[i], ts[j].routes[i], p, a)
  <2>1. PICK R : R = ts[j].routes
    OBVIOUS
  <2>2. /\ R \in Seq(Route) /\ DOMAIN R = 1..Len(R) /\ Len(R) \in Nat
        /\ ts[j].h \in Handles /\ ts[j].gen \in 1..MaxGen
        /\ ts[j] = [h |-> ts[j].h, gen |-> ts[j].gen, routes |-> R]
        /\ \A i \in DOMAIN R : R[i] \in Route
    BY <2>1, TaskShape
  <2>3. PICK Q : Q = [i \in DOMAIN R |-> IF R[i].open /\ R[i].port = p
                                        THEN [R[i] EXCEPT !.app = a] ELSE R[i]]
    OBVIOUS
  <2>4. us[j] = [ts[j] EXCEPT !.routes = Q]
    BY <2>1, <2>3 DEF Stamped
  <2>5. us[j].h = ts[j].h /\ us[j].gen = ts[j].gen /\ us[j].routes = Q
        /\ us[j] = [h |-> ts[j].h, gen |-> ts[j].gen, routes |-> Q]
    BY <2>2, <2>4
  <2>6. ASSUME NEW i \in DOMAIN R
        PROVE  Q[i] \in Route /\ Alike(Q[i], R[i]) /\ Stamp(Q[i], R[i], p, a)
    <3>1. R[i] \in Route
      BY <2>2
    <3>2. CASE R[i].open /\ R[i].port = p
      <4>1. Q[i] = [R[i] EXCEPT !.app = a]
        BY <2>3, <3>2
      <4> QED BY <3>1, <3>2, <4>1 DEF Route, Alike, Stamp
    <3>3. CASE ~(R[i].open /\ R[i].port = p)
      BY <2>3, <3>1, <3>3 DEF Alike, Stamp
    <3> QED BY <3>2, <3>3
  <2>7. DOMAIN Q = 1..Len(R) /\ \A i \in 1..Len(R) : Q[i] \in Route
    BY <2>2, <2>3, <2>6
  <2>8. Q = [i \in 1..Len(R) |-> Q[i]]
    BY <2>2, <2>3
  <2>9. Q \in Seq(Route)
    BY <2>2, <2>7, <2>8, IsASeq
  <2>10. us[j] \in Task
    BY <2>2, <2>5, <2>9 DEF Task
  <2> QED BY <2>1, <2>2, <2>5, <2>6, <2>7, <2>10
<1>3. us \in Seq(Task) /\ DOMAIN us = DOMAIN ts
  <2>1. DOMAIN us = 1..Len(ts) /\ \A j \in 1..Len(ts) : us[j] \in Task
    BY <1>1, <1>2 DEF Stamped
  <2>2. us = [j \in 1..Len(ts) |-> us[j]]
    BY <1>1 DEF Stamped
  <2> QED BY <1>1, <2>1, <2>2, IsASeq
<1>4. Altered(ts, us)
  BY <1>2, <1>3 DEF Altered, Alike
<1>5. Persist(ts, us)
  <2> SUFFICES ASSUME NEW hh, NEW gg, NEW dd, NEW pp, RouteIn(ts, hh, gg, dd, pp)
               PROVE  RouteIn(us, hh, gg, dd, pp)
    BY DEF Persist
  <2>1. PICK j \in DOMAIN ts : \E i \in DOMAIN ts[j].routes :
            /\ ts[j].h = hh /\ ts[j].gen = gg /\ ts[j].routes[i].open
            /\ ts[j].routes[i].dest = dd /\ ts[j].routes[i].port = pp
    BY DEF RouteIn
  <2>2. PICK i \in DOMAIN ts[j].routes :
            /\ ts[j].h = hh /\ ts[j].gen = gg /\ ts[j].routes[i].open
            /\ ts[j].routes[i].dest = dd /\ ts[j].routes[i].port = pp
    BY <2>1
  <2>3. /\ j \in DOMAIN us /\ i \in DOMAIN us[j].routes
        /\ us[j].h = hh /\ us[j].gen = gg /\ us[j].routes[i].open
        /\ us[j].routes[i].dest = dd /\ us[j].routes[i].port = pp
    BY <1>2, <1>3, <2>2 DEF Alike
  <2> QED BY <2>3 DEF RouteIn
<1> QED BY <1>2, <1>3, <1>4, <1>5

LEMMA DeliverInv == ASSUME RInv, NEW x \in Threads, Deliver(x) PROVE RInv'
<1>1. TypeOK /\ InUse /\ TasksInv(tasks) /\ tasks \in Seq(Task)
  BY DEF RInv, TypeOK, Task
<1>2. PICK w : w = thread[x]
  OBVIOUS
<1>3. PICK a : a = <<w.h, gen[w.h]>>
  OBVIOUS
<1>4. /\ w.at = "send" /\ thread' = [thread EXCEPT ![x] = Idle]
      /\ tasks' = Stamped(tasks, w.port, a)
      /\ UNCHANGED <<table, gen, lastGen, lock, portState, redirect, scope>>
  BY <1>2, <1>3 DEF Deliver, At, Goes, Stamped
<1>5. a \in Handles \X Nat
  <2>1. w.h \in Handles
    BY <1>1, <1>2, <1>4, ThreadShape
  <2>2. gen[w.h] \in Nat
    BY <1>1, <2>1, RoutesAssumption DEF TypeOK
  <2> QED BY <1>3, <2>1, <2>2
<1>6. /\ tasks' \in Seq(Task) /\ Altered(tasks, tasks') /\ Persist(tasks, tasks')
      /\ \A j \in DOMAIN tasks : \A i \in DOMAIN tasks[j].routes :
            Stamp(tasks'[j].routes[i], tasks[j].routes[i], w.port, a)
  BY <1>1, <1>4, <1>5, Delivered
<1>7. /\ thread' \in [Threads -> {Idle} \cup Steps] /\ thread'[x] = Idle
      /\ \A y \in Threads : y # x => thread'[y] = thread[y]
  BY <1>1, <1>4 DEF TypeOK
<1>8. TypeOK'
  BY <1>1, <1>4, <1>6, <1>7 DEF TypeOK, Task
<1>9. InUse'
  BY <1>1, <1>4, <1>7 DEF InUse, Idle
<1>10. TasksInv(tasks')
  BY <1>1, <1>6, Altering
<1>11. TasksInv(tasks)'
  BY <1>4, <1>10, SettingsKept
<1>12. ASSUME ~scope'.lose
       PROVE  TableGood' /\ ThreadsGood' /\ Honest(tasks', portState') /\ OwnedBy(tasks')
  <2>1. TableGood /\ ThreadsGood /\ Honest(tasks, portState) /\ OwnedBy(tasks)
    BY <1>4, <1>12 DEF RInv
  <2>2. TableGood'
    BY <1>4, <1>6, <2>1 DEF TableGood, Persist
  <2>3. ThreadsGood'
    BY <1>4, <1>6, <1>7, <2>1 DEF ThreadsGood, Sendable, Idle, Persist
  <2>4. Honest(tasks', portState')
    BY <1>4, <1>6, <2>1, HonestKept
  <2>5. ASSUME NEW j \in DOMAIN tasks', NEW i \in Open(tasks'[j])
        PROVE  tasks'[j].routes[i].app = <<tasks'[j].h, tasks'[j].gen>>
    <3>1. /\ j \in DOMAIN tasks /\ i \in DOMAIN tasks[j].routes /\ tasks[j].routes[i].open
          /\ tasks'[j].h = tasks[j].h /\ tasks'[j].gen = tasks[j].gen
      BY <1>6, <2>5 DEF Altered, Open
    <3>2. CASE tasks'[j].routes[i].app = tasks[j].routes[i].app
      BY <2>1, <3>1, <3>2 DEF OwnedBy, Open
    <3>3. CASE tasks'[j].routes[i].app = a /\ tasks[j].routes[i].port = w.port
      <4>1. RouteIn(tasks, w.h, gen[w.h], w.d, w.port)
        BY <1>2, <1>4, <2>1 DEF ThreadsGood, Sendable
      <4>2. PICK m \in DOMAIN tasks : \E b \in Open(tasks[m]) :
                /\ tasks[m].h = w.h /\ tasks[m].gen = gen[w.h] /\ tasks[m].routes[b].port = w.port
        BY <4>1 DEF RouteIn, Open
      <4>3. m = j
        BY <1>1, <3>1, <3>3, <4>2 DEF TasksInv, PortsApart, Open
      <4> QED BY <1>3, <3>1, <3>3, <4>2, <4>3
    <3> QED BY <1>6, <3>1, <3>2, <3>3 DEF Stamp
  <2>6. OwnedBy(tasks')
    BY <2>5 DEF OwnedBy
  <2> QED BY <2>2, <2>3, <2>4, <2>6
<1>13. ~scope'.lose => Honest(tasks, portState)' /\ OwnedBy(tasks)'
  BY <1>12 DEF Honest, OwnedBy, RouteIn, Open
<1> QED BY <1>8, <1>9, <1>11, <1>12, <1>13 DEF RInv

(* Tasks are closed. *)
LEMMA Closing ==
    ASSUME NEW ts \in Seq(Task), NEW us, DOMAIN us = DOMAIN ts, us = [j \in DOMAIN ts |-> us[j]],
           \A j \in DOMAIN ts : us[j] = CloseTask(ts[j]) \/ us[j] = ts[j]
    PROVE  us \in Seq(Task) /\ Altered(ts, us) /\ (OwnedBy(ts) => OwnedBy(us))
<1>1. DOMAIN ts = 1..Len(ts) /\ Len(ts) \in Nat
  BY LenProperties
<1>2. ASSUME NEW j \in DOMAIN ts, us[j] = CloseTask(ts[j])
      PROVE  /\ us[j] \in Task /\ us[j].h = ts[j].h /\ us[j].gen = ts[j].gen
             /\ DOMAIN us[j].routes = DOMAIN ts[j].routes
             /\ \A i \in DOMAIN ts[j].routes :
                   /\ ~us[j].routes[i].open
                   /\ us[j].routes[i].dest = ts[j].routes[i].dest
                   /\ us[j].routes[i].port = ts[j].routes[i].port
                   /\ us[j].routes[i].target = ts[j].routes[i].target
                   /\ us[j].routes[i].redir = ts[j].routes[i].redir
  <2>1. PICK R : R = ts[j].routes
    OBVIOUS
  <2>2. /\ R \in Seq(Route) /\ DOMAIN R = 1..Len(R) /\ Len(R) \in Nat
        /\ ts[j].h \in Handles /\ ts[j].gen \in 1..MaxGen
        /\ ts[j] = [h |-> ts[j].h, gen |-> ts[j].gen, routes |-> R]
        /\ \A i \in DOMAIN R : R[i] \in Route
    BY <2>1, TaskShape
  <2>3. PICK Q : Q = [i \in DOMAIN R |-> [R[i] EXCEPT !.open = FALSE]]
    OBVIOUS
  <2>4. us[j] = [ts[j] EXCEPT !.routes = Q]
    BY <1>2, <2>1, <2>3 DEF CloseTask
  <2>5. /\ us[j].h = ts[j].h /\ us[j].gen = ts[j].gen /\ us[j].routes = Q
        /\ us[j] = [h |-> ts[j].h, gen |-> ts[j].gen, routes |-> Q]
    BY <2>2, <2>4
  <2>6. ASSUME NEW i \in DOMAIN R
        PROVE  /\ Q[i] \in Route /\ ~Q[i].open /\ Q[i].dest = R[i].dest /\ Q[i].port = R[i].port
               /\ Q[i].target = R[i].target /\ Q[i].redir = R[i].redir
    <3>1. R[i] \in Route /\ Q[i] = [R[i] EXCEPT !.open = FALSE]
      BY <2>2, <2>3
    <3> QED BY <3>1 DEF Route
  <2>7. DOMAIN Q = 1..Len(R) /\ \A i \in 1..Len(R) : Q[i] \in Route
    BY <2>2, <2>3, <2>6
  <2>8. Q = [i \in 1..Len(R) |-> Q[i]]
    BY <2>2, <2>3
  <2>9. Q \in Seq(Route)
    BY <2>2, <2>7, <2>8, IsASeq
  <2>10. us[j] \in Task
    BY <2>2, <2>5, <2>9 DEF Task
  <2> QED BY <2>1, <2>2, <2>5, <2>6, <2>7, <2>10
<1>3. us \in Seq(Task)
  <2>1. \A j \in 1..Len(ts) : us[j] \in Task
    BY <1>1, <1>2, TaskShape
  <2>2. us = [j \in 1..Len(ts) |-> us[j]]
    BY <1>1
  <2> QED BY <1>1, <2>1, <2>2, IsASeq
<1>4. Altered(ts, us)
  BY <1>2 DEF Altered
<1>5. ASSUME OwnedBy(ts), NEW j \in DOMAIN us, NEW i \in Open(us[j])
      PROVE  us[j].routes[i].app = <<us[j].h, us[j].gen>>
  <2>1. us[j] = ts[j]
    BY <1>2, <1>5 DEF Open
  <2> QED BY <1>5, <2>1 DEF OwnedBy
<1> QED BY <1>3, <1>4, <1>5 DEF OwnedBy

LEMMA CloseSocketInv ==
    ASSUME RInv, NEW h \in Handles, NEW reached \in BOOLEAN, CloseSocket(h, reached)
    PROVE  RInv'
<1>1. TypeOK /\ InUse /\ TasksInv(tasks) /\ tasks \in Seq(Task) /\ portState \in PortStates
  BY DEF RInv, TypeOK, Task, PortStates
<1>2. PICK K : K = IF (\E d \in Dests : table[h][d] # NoPort) /\ reached THEN Killed(h, gen[h]) ELSE {}
  OBVIOUS
<1>3. /\ gen[h] # 0 /\ \A x \in Threads : thread[x].at # "idle" => thread[x].h # h
      /\ table' = Forgotten(h) /\ gen' = [gen EXCEPT ![h] = 0]
      /\ portState' = ClearTaskPortStates(portState, K)
      /\ tasks' = [j \in DOMAIN tasks |->
                      IF tasks[j] \in K THEN CloseTask(tasks[j]) ELSE tasks[j]]
      /\ UNCHANGED <<lastGen, thread, lock, redirect, scope>>
  BY <1>2 DEF CloseSocket, At
<1>4. \A k \in K : k.h = h
  BY <1>2 DEF Killed, MatchesAssociation
<1>5. /\ portState' \in PortStates /\ \A q \in Ports : portState'[q] \subseteq portState[q]
      /\ \A q \in Ports : q \in RoutePorts(K) => portState'[q] = {}
  BY <1>1, <1>3, ClearedPorts
<1>6. /\ DOMAIN tasks' = DOMAIN tasks /\ tasks' = [j \in DOMAIN tasks |-> tasks'[j]]
      /\ \A j \in DOMAIN tasks : tasks'[j] = CloseTask(tasks[j]) \/ tasks'[j] = tasks[j]
      /\ \A j \in DOMAIN tasks : tasks[j] \notin K => tasks'[j] = tasks[j]
  BY <1>3
<1>7. tasks' \in Seq(Task) /\ Altered(tasks, tasks') /\ (OwnedBy(tasks) => OwnedBy(tasks'))
  BY <1>1, <1>6, Closing
<1>8. TasksInv(tasks')
  BY <1>1, <1>7, Altering
<1>9. TasksInv(tasks)'
  BY <1>3, <1>8, SettingsKept
<1>10. /\ table' \in [Handles -> [Dests -> Ports \cup {NoPort}]]
       /\ \A k \in Handles, e \in Dests : table'[k][e] = IF k = h THEN NoPort ELSE table[k][e]
  BY <1>1, <1>3 DEF Forgotten, TypeOK
<1>11. /\ gen' \in [Handles -> 0..MaxGen] /\ \A k \in Handles : k # h => gen'[k] = gen[k]
  BY <1>1, <1>3, RoutesAssumption DEF TypeOK
<1>12. TypeOK'
  BY <1>1, <1>3, <1>5, <1>7, <1>10, <1>11 DEF TypeOK, Task, PortStates
<1>13. \A y \in Threads : thread[y].at # "idle" => thread[y].h \in Handles
  BY <1>1, ThreadShape
<1>14. InUse'
  BY <1>1, <1>3, <1>11, <1>13 DEF InUse
<1>15. ASSUME NEW k, NEW g, NEW d, NEW p, k # h, RouteIn(tasks, k, g, d, p)
       PROVE  RouteIn(tasks', k, g, d, p)
  BY <1>4, <1>6, <1>15 DEF RouteIn
<1>16. ASSUME ~scope'.lose
       PROVE  TableGood' /\ ThreadsGood' /\ Honest(tasks', portState') /\ OwnedBy(tasks')
  <2>1. TableGood /\ ThreadsGood /\ Honest(tasks, portState) /\ OwnedBy(tasks)
    BY <1>3, <1>16 DEF RInv
  <2>2. TableGood'
    <3> SUFFICES ASSUME NEW k \in Handles, NEW e \in Dests, table'[k][e] # NoPort
                 PROVE  RouteIn(tasks', k, gen'[k], e, table'[k][e])
      BY DEF TableGood
    <3>1. k # h /\ table'[k][e] = table[k][e] /\ gen'[k] = gen[k]
      BY <1>10, <1>11
    <3> QED BY <1>15, <2>1, <3>1 DEF TableGood
  <2>3. ThreadsGood'
    <3> SUFFICES ASSUME NEW y \in Threads, Sendable(y)'
                 PROVE  RouteIn(tasks', thread'[y].h, gen'[thread'[y].h], thread'[y].d, thread'[y].port)
      BY DEF ThreadsGood
    <3>1. Sendable(y) /\ thread'[y] = thread[y] /\ thread[y].at # "idle"
      BY <1>3 DEF Sendable
    <3>2. thread[y].h # h /\ thread[y].h \in Handles
      BY <1>3, <1>13, <3>1
    <3>3. gen'[thread[y].h] = gen[thread[y].h]
      BY <1>11, <3>2
    <3>4. RouteIn(tasks, thread[y].h, gen[thread[y].h], thread[y].d, thread[y].port)
      BY <2>1, <3>1 DEF ThreadsGood
    <3> QED BY <1>15, <3>1, <3>2, <3>3, <3>4
  <2>4. Honest(tasks', portState')
    <3> SUFFICES ASSUME NEW q \in Ports, NEW o \in portState'[q]
                 PROVE  \E d : RouteIn(tasks', o[1], o[2], d, q)
      BY DEF Honest
    <3>1. PICK d : RouteIn(tasks, o[1], o[2], d, q)
      BY <1>5, <2>1 DEF Honest
    <3>2. PICK j \in DOMAIN tasks : \E i \in DOMAIN tasks[j].routes :
              /\ tasks[j].h = o[1] /\ tasks[j].gen = o[2] /\ tasks[j].routes[i].open
              /\ tasks[j].routes[i].dest = d /\ tasks[j].routes[i].port = q
      BY <3>1 DEF RouteIn
    <3>3. tasks[j] \notin K
      <4>1. q \notin RoutePorts(K)
        BY <1>5
      <4>2. q \in {r.port : r \in ToSet(tasks[j].routes)}
        BY <3>2 DEF ToSet
      <4> QED BY <4>1, <4>2 DEF RoutePorts
    <3> QED BY <1>6, <3>2, <3>3 DEF RouteIn
  <2> QED BY <1>7, <2>1, <2>2, <2>3, <2>4
<1>17. ~scope'.lose => Honest(tasks, portState)' /\ OwnedBy(tasks)'
  BY <1>16 DEF Honest, OwnedBy, RouteIn, Open
<1> QED BY <1>9, <1>12, <1>14, <1>16, <1>17 DEF RInv

LEMMA TaskLostInv == ASSUME RInv, NEW j \in DOMAIN tasks, TaskLost(j) PROVE RInv'
<1>1. TypeOK /\ InUse /\ TasksInv(tasks) /\ tasks \in Seq(Task)
  BY DEF RInv, TypeOK, Task
<1>2. /\ scope.lose /\ tasks' = [tasks EXCEPT ![j] = CloseTask(@)]
      /\ UNCHANGED <<table, gen, lastGen, thread, lock, portState, redirect, scope>>
  BY DEF TaskLost, appVars
<1>3. /\ DOMAIN tasks' = DOMAIN tasks /\ tasks' = [n \in DOMAIN tasks |-> tasks'[n]]
      /\ \A n \in DOMAIN tasks : tasks'[n] = CloseTask(tasks[n]) \/ tasks'[n] = tasks[n]
  BY <1>2
<1>4. tasks' \in Seq(Task) /\ Altered(tasks, tasks')
  BY <1>1, <1>3, Closing
<1>5. TasksInv(tasks)'
  BY <1>1, <1>2, <1>4, Altering, SettingsKept
<1>6. TypeOK'
  BY <1>1, <1>2, <1>4 DEF TypeOK, Task
<1>7. InUse'
  BY <1>1, <1>2 DEF InUse
<1> QED BY <1>2, <1>5, <1>6, <1>7 DEF RInv

LEMMA MaintenanceInv == ASSUME RInv, MaintenanceTimer PROVE RInv'
<1>1. TypeOK /\ InUse /\ TasksInv(tasks) /\ tasks \in Seq(Task) /\ portState \in PortStates
  BY DEF RInv, TypeOK, Task, PortStates
<1>2. PICK K \in SUBSET DOMAIN tasks : K = {j \in DOMAIN tasks : ~IsClosed(tasks[j])}
  OBVIOUS
<1>3. PICK closed : closed = {k \in ToSet(tasks) : IsClosed(k)}
  OBVIOUS
<1>4. /\ tasks' = Only(tasks, K) /\ portState' = ClearTaskPortStates(portState, closed)
      /\ UNCHANGED <<table, gen, lastGen, thread, lock, redirect, scope>>
  BY <1>2, <1>3 DEF MaintenanceTimer, appVars
<1>5. \A j \in DOMAIN tasks : j \notin K => Open(tasks[j]) = {}
  BY <1>2 DEF IsClosed, Open
<1>6. /\ tasks' \in Seq(Task) /\ (TasksInv(tasks) => TasksInv(tasks'))
      /\ \A hh, gg, dd, pp : RouteIn(tasks, hh, gg, dd, pp) => RouteIn(tasks', hh, gg, dd, pp)
      /\ \A n \in DOMAIN tasks' : \E j \in K : tasks'[n] = tasks[j]
  BY <1>1, <1>4, <1>5, Dropping
<1>7. Persist(tasks, tasks')
  BY <1>6 DEF Persist
<1>8. portState' \in PortStates /\ \A q \in Ports : portState'[q] \subseteq portState[q]
  BY <1>1, <1>4, ClearedPorts
<1>9. TasksInv(tasks)'
  BY <1>1, <1>4, <1>6, SettingsKept
<1>10. TypeOK'
  BY <1>1, <1>4, <1>6, <1>8 DEF TypeOK, Task, PortStates
<1>11. InUse'
  BY <1>1, <1>4 DEF InUse
<1>12. ASSUME ~scope'.lose
       PROVE  TableGood' /\ ThreadsGood' /\ Honest(tasks', portState') /\ OwnedBy(tasks')
  <2>1. TableGood /\ ThreadsGood /\ Honest(tasks, portState) /\ OwnedBy(tasks)
    BY <1>4, <1>12 DEF RInv
  <2>2. TableGood' /\ ThreadsGood'
    BY <1>4, <1>7, <2>1 DEF TableGood, ThreadsGood, Sendable, Persist
  <2>3. Honest(tasks', portState')
    BY <1>7, <1>8, <2>1, HonestKept
  <2>4. OwnedBy(tasks')
    BY <1>6, <2>1 DEF OwnedBy
  <2> QED BY <2>2, <2>3, <2>4
<1>13. ~scope'.lose => Honest(tasks, portState)' /\ OwnedBy(tasks)'
  BY <1>12 DEF Honest, OwnedBy, RouteIn, Open
<1> QED BY <1>9, <1>10, <1>11, <1>12, <1>13 DEF RInv

LEMMA RemoveAllInv == ASSUME RInv, RemoveAllTasks PROVE RInv'
<1>1. TypeOK /\ InUse /\ portState \in PortStates
  BY DEF RInv, TypeOK, PortStates
<1>2. /\ scope.lose /\ tasks' = <<>> /\ DOMAIN tasks' = {} /\ tasks' \in Seq(Task)
      /\ portState' = ClearTaskPortStates(portState, ToSet(tasks))
      /\ UNCHANGED <<table, gen, lastGen, thread, lock, redirect, scope>>
  BY DEF RemoveAllTasks, appVars
<1>3. portState' \in PortStates
  BY <1>1, <1>2, ClearedPorts
<1>4. TypeOK'
  BY <1>1, <1>2, <1>3 DEF TypeOK, Task, PortStates
<1>5. InUse'
  BY <1>1, <1>2 DEF InUse
<1>6. TasksInv(tasks)'
  BY <1>2 DEF TasksInv, Whole, PortsApart, OneRoute, Apart, Demanded
<1> QED BY <1>2, <1>4, <1>5, <1>6 DEF RInv

LEMMA ApplyInv == ASSUME RInv, ApplyRuntimeSettings PROVE RInv'
<1>1. TypeOK /\ InUse /\ TasksInv(tasks)
  BY DEF RInv
<1>2. /\ scope.apply /\ redirect' = ~redirect
      /\ UNCHANGED <<table, gen, lastGen, thread, lock, tasks, portState, scope>>
  BY DEF ApplyRuntimeSettings, appVars
<1>3. TypeOK'
  BY <1>1, <1>2 DEF TypeOK
<1>4. InUse'
  BY <1>1, <1>2 DEF InUse
<1>5. TasksInv(tasks)'
  BY <1>1, <1>2 DEF TasksInv, Whole, PortsApart, OneRoute, Apart, Demanded, Open
<1>6. ~scope'.lose => TableGood' /\ ThreadsGood' /\ Honest(tasks, portState)' /\ OwnedBy(tasks)'
  BY <1>2 DEF RInv, TableGood, ThreadsGood, Sendable, Honest, OwnedBy, RouteIn, Open
<1> QED BY <1>3, <1>4, <1>5, <1>6 DEF RInv

LEMMA StutterInv == ASSUME RInv, UNCHANGED vars PROVE RInv'
<1>1. UNCHANGED <<table, gen, lastGen, thread, lock, tasks, portState, redirect, scope>>
  BY DEF vars, appVars, proxyVars
<1>2. TypeOK' /\ InUse'
  BY <1>1 DEF RInv, TypeOK, InUse
<1>3. TasksInv(tasks)'
  BY <1>1, SettingsKept DEF RInv
<1>4. ~scope'.lose => TableGood' /\ ThreadsGood' /\ Honest(tasks, portState)' /\ OwnedBy(tasks)'
  BY <1>1 DEF RInv, TableGood, ThreadsGood, Sendable, Honest, OwnedBy, RouteIn, Open
<1> QED BY <1>2, <1>3, <1>4 DEF RInv

LEMMA StepInv == RInv /\ [Next]_vars => RInv'
<1> SUFFICES ASSUME RInv, [Next]_vars PROVE RInv'
  OBVIOUS
<1>1. scope.dests \subseteq Dests
  BY RoutesAssumption DEF RInv, TypeOK
<1>2. {TRUE, ~scope.fail} \subseteq BOOLEAN
  OBVIOUS
<1>3. ASSUME NEW x \in Threads, NEW h \in Handles, NEW d \in scope.dests, SendTo(x, h, d) PROVE RInv'
  BY <1>1, <1>3, SendToInv
<1>4. ASSUME NEW x \in Threads, NEW h \in Handles, NEW d \in scope.dests, Connect(x, h, d) PROVE RInv'
  BY <1>1, <1>4, ConnectInv
<1>5. ASSUME NEW h \in Handles, NEW reached \in {TRUE, ~scope.fail}, CloseSocket(h, reached) PROVE RInv'
  BY <1>2, <1>5, CloseSocketInv
<1> QED BY <1>3, <1>4, <1>5, FoundInv, RegisterInv, RegisterFailsInv, PushInv, DeliverInv,
           TaskLostInv, MaintenanceInv, RemoveAllInv, ApplyInv, StutterInv DEF Next

-----------------------------------------------------------------------------
(* The route a reply selects. *)

(* The first of one position is that position. *)
LEMMA FirstOfOne == ASSUME NEW i \in Nat \ {0} PROVE First({i}) = i
<1>1. {i} \in SUBSET (Nat \ {0}) /\ {i} # {}
  OBVIOUS
<1> QED BY <1>1, FirstIsLeast

LEMMA ReplySelects ==
    ASSUME TypeOK, TasksInv(tasks), ~scope.apply, NEW j \in DOMAIN tasks, NEW i \in Open(tasks[j])
    PROVE  Selected(tasks[j], Address(tasks[j].routes[i].target)) = i
<1> DEFINE k == tasks[j]
           rs == k.routes
           src == Address(rs[i].target)
           E(a) == ProxyDestination(rs[a].dest, rs[a].redir)
           onPort == {a \in DOMAIN rs : rs[a].open /\ E(a).port = src.port}
           exact == {a \in onPort : ~rs[a].dest.dom /\ E(a).host = src.host}
           named == {a \in onPort : rs[a].dest.dom}
<1>1. /\ rs \in Seq(Route) /\ DOMAIN rs = 1..Len(rs) /\ Len(rs) \in Nat
      /\ \A a \in DOMAIN rs : rs[a] \in Route
  BY TaskShape DEF TypeOK, Task
<1>2. i \in DOMAIN rs /\ rs[i].open /\ i \in Nat \ {0}
  BY <1>1 DEF Open
<1>3. \A a \in DOMAIN rs : rs[a].dest \in Dests /\ rs[a].redir \in BOOLEAN
  BY <1>1 DEF Route
<1>4. ASSUME NEW a \in DOMAIN rs, NEW b \in DOMAIN rs, a # b
      PROVE  /\ rs[a].dest # rs[b].dest /\ ~rs[a].redir
             /\ CanShareAssociation(rs[a].dest, rs[b].dest)
  BY <1>4 DEF TasksInv, Apart
<1>5. rs[i].target = E(i) /\ (rs[i].redir <=> ShouldRedirect(rs[i].dest))
  BY <1>2 DEF TasksInv, Demanded
<1>6. Selected(k, src) =
         IF exact # {} THEN First(exact)
         ELSE IF Cardinality(named) = 1 THEN First(named)
         ELSE IF named = {} /\ Len(rs) = 1 /\ rs[1].open THEN 1 ELSE 0
  BY DEF Selected
<1>7. src.port = E(i).port /\ i \in onPort
  BY <1>2, <1>5 DEF Address
<1>8. CASE rs[i].redir
  <2>1. ~rs[i].dest.dom /\ E(i) = Resolver /\ ~Resolver.dom
    BY <1>5, <1>8, RoutesAssumption DEF ShouldRedirect, ProxyDestination
  <2>2. src.host = E(i).host
    BY <1>5, <2>1 DEF Address
  <2>3. \A a \in DOMAIN rs : a = i
    BY <1>2, <1>4, <1>8
  <2>4. exact = {i}
    BY <1>7, <2>1, <2>2, <2>3
  <2> QED BY <1>2, <1>6, <2>4, FirstOfOne
<1>9. CASE ~rs[i].redir /\ ~rs[i].dest.dom
  <2>1. E(i) = rs[i].dest
    BY <1>9 DEF ProxyDestination
  <2>2. src.host = rs[i].dest.host /\ src.port = rs[i].dest.port
    BY <1>5, <1>9, <2>1 DEF Address
  <2>3. ASSUME NEW a \in exact PROVE a = i
    <3>1. SUFFICES ASSUME a # i PROVE FALSE
      OBVIOUS
    <3>2. E(a) = rs[a].dest /\ rs[a].dest # rs[i].dest
      BY <1>2, <1>4, <3>1 DEF ProxyDestination
    <3>3. rs[a].dest.host = rs[i].dest.host /\ rs[a].dest.port = rs[i].dest.port
      BY <2>2, <3>2
    <3>4. ~rs[a].dest.dom
      OBVIOUS
    <3>5. rs[a].dest.dom <=> rs[i].dest.dom
      BY <1>9, <3>4
    <3> QED BY <1>2, <1>3, <3>2, <3>3, <3>5, RoutesAssumption
  <2>4. exact = {i}
    BY <1>7, <1>9, <2>1, <2>2, <2>3
  <2> QED BY <1>2, <1>6, <2>4, FirstOfOne
<1>10. CASE ~rs[i].redir /\ rs[i].dest.dom
  <2>1. E(i) = rs[i].dest
    BY <1>10 DEF ProxyDestination
  <2>2. ASSUME NEW a \in onPort PROVE a = i
    <3>1. SUFFICES ASSUME a # i PROVE FALSE
      OBVIOUS
    <3>2. E(a) = rs[a].dest /\ rs[a].dest # rs[i].dest
      BY <1>2, <1>4, <3>1 DEF ProxyDestination
    <3>3. CanShareAssociation(rs[a].dest, rs[i].dest)
      BY <1>2, <1>4, <3>1
    <3> QED BY <1>7, <1>10, <2>1, <3>2, <3>3 DEF CanShareAssociation
  <2>3. exact = {} /\ named = {i}
    BY <1>7, <1>10, <2>2
  <2>4. Cardinality(named) = 1
    BY <2>3, FS_Singleton
  <2> HIDE DEF exact, named
  <2>5. Selected(k, src) = First(named)
    BY <1>6, <2>3, <2>4
  <2> QED BY <1>2, <2>3, <2>5, FirstOfOne
<1> QED BY <1>2, <1>3, <1>8, <1>9, <1>10

-----------------------------------------------------------------------------
LEMMA RInvHolds == Spec => []RInv
  BY InitInv, StepInv, PTL DEF Spec

(* The hook's table, the routes of CProxyUDPTaskMgr and m_PortState agree, for
   any number of sockets, threads, destinations and ports: a port that the hook
   remembers or is about to use is a bound route of that socket to that
   destination (unless the proxy process closes tasks by itself), a socket has
   one route to a destination, and no port state outlives its route. *)
THEOREM RoutesHold == Spec => []RoutesSound
<1>1. RInv => RoutesSound
  <2> SUFFICES ASSUME RInv PROVE RoutesSound
    OBVIOUS
  <2>1. TypeOK /\ portState \in PortStates
    BY DEF RInv, TypeOK, PortStates
  <2>2. StableRoute
    BY StableMeans DEF RInv
  <2>3. OneRoutePerDestination
    BY DEF RInv, TasksInv, OneRoute, OneRoutePerDestination, MatchesAssociation
  <2>4. PortStateHonest
    BY <2>1, HonestMeans DEF RInv
  <2> QED BY <2>1, <2>2, <2>3, <2>4 DEF RoutesSound
<1> QED BY <1>1, RInvHolds, PTL

(* The answer to what a route sends selects that route again, however many
   routes share the association (unless the DNS redirection is switched), and
   is sent to the socket the task was made for, never to a later socket with
   the same handle (unless the proxy process closes tasks by itself). *)
THEOREM RepliesFind == Spec => []RepliesRight
<1>1. RInv => RepliesRight
  <2> SUFFICES ASSUME RInv PROVE RepliesRight
    OBVIOUS
  <2>1. ReplyToSender
    BY ReplySelects DEF RInv, ReplyToSender
  <2>2. ReplyReachesOwner
    BY OwnedMeans DEF RInv
  <2> QED BY <2>1, <2>2 DEF RepliesRight
<1> QED BY <1>1, RInvHolds, PTL
=============================================================================
