------------------------- MODULE ControlPlaneProofs -------------------------
(* Proofs about ChildGuard, for every set of process identifiers and every *)
(* situation: any number of processes, GUIs, services and sweeps; about    *)
(* ControlPipe, for every number of clients, instances and requests;       *)
(* about ProxyTest, for every set of testers and of settings; about        *)
(* SettingsFile, for every number of instances, launches and jobs; and     *)
(* about ProfilePage, for every set of names and every situation.          *)
EXTENDS ChildGuard, ControlPipe, ProxyTest, SettingsFile, ProfilePage, ListProofs,
        FiniteSetTheorems, WellFoundedInduction, TLAPS

-----------------------------------------------------------------------------
(* The shapes of the records. *)

ProcFields == {"born", "parent", "maker", "creator", "markers", "held", "cpu", "old", "hook",
               "arm", "pipe", "guard", "wanted", "cigEnv", "cig"}
MakingFields == {"child", "born", "own", "linked", "stage"}
EntryFields == {"born", "state", "path"}
SweepFields == {"stage", "snap", "todo", "next", "target"}
PruneFields == {"stage", "copy", "snap", "todo"}

IsFunction(f) == f = [p \in Pids |-> f[p]]

Shapes ==
  /\ births \in Nat \ {0} /\ gui.n \in Nat \ {0}
  /\ IsFunction(proc) /\ IsFunction(making) /\ IsFunction(registry)
  /\ IsFunction(released) /\ IsFunction(observed) /\ IsFunction(processed)
  /\ \A p \in Pids : /\ proc[p] = [f \in ProcFields |-> proc[p][f]]
                     /\ making[p] = [f \in MakingFields |-> making[p][f]]
                     /\ registry[p] = [f \in EntryFields |-> registry[p][f]]
  /\ sweep = [f \in SweepFields |-> sweep[f]] /\ IsFunction(sweep.next)
  /\ prune = [f \in PruneFields |-> prune[f]]

-----------------------------------------------------------------------------
(* A process: its markers, its policy, its suspension.  The hook of a GUI  *)
(* is installed only while that GUI is the current one, so the marker the  *)
(* hook watches over is the newest of the process.                         *)
Person(k, b, g) ==
  /\ k.born \in 0..b /\ k.maker \in 0..b /\ k.parent \in Pids \cup {0}
  /\ k.held \in {"none", "pl", "caller", "other"} /\ k.hook \in {"no", "on", "failed"}
  /\ k.born = 0 => k.held = "none" /\ k.hook = "no"
  /\ k.wanted \in BOOLEAN /\ k.cigEnv \in BOOLEAN /\ k.cig \in BOOLEAN
  /\ k.markers \subseteq 1..g
  /\ k.hook = "on" => k.guard \in 1..g /\ k.markers \subseteq 1..k.guard
  /\ k.held = "caller" /\ k.creator \notin {"raw", "unhooked"} => g \notin k.markers
  /\ k.wanted /\ k.creator = "hooked" => k.cigEnv \/ k.cig
  /\ k.hook = "on" /\ k.wanted /\ k.creator = "hooked" => k.cig
  /\ k.held = "pl" => k.maker # 0 /\ k.parent \in Pids

(* A lifetime, if it still lasts, has this PID. *)
Home(p, b) == b \in 1..births /\ \A q \in Pids : proc[q].born = b => q = p

People ==
  /\ \A p \in Pids : Person(proc[p], births, gui.n)
  /\ \A p \in Pids : Alive(p) => Home(p, proc[p].born)

(* A creation under way, and the child it has in its hands. *)
Hands(p) ==
  LET m == making[p] IN
  /\ m.stage \in {"idle", "connect", "ask", "inject", "resume", "notice"}
  /\ m.stage # "idle" =>
       /\ Alive(p) /\ m.child \in Pids /\ Home(m.child, m.born)
       /\ Same(m) => proc[m.child].parent = p /\ proc[m.child].maker = proc[p].born

Holding(c) ==
  proc[c].held = "pl" =>
    LET p == proc[c].parent IN
    \/ proc[p].born # proc[c].maker
    \/ /\ making[p].child = c /\ making[p].born = proc[c].born /\ making[p].own
       /\ making[p].stage \in {"connect", "ask", "inject", "resume"}

Creations == \A p \in Pids : Hands(p) /\ Holding(p)

(* What a message says is true of the lifetime it names, for good. *)
Truth(m) ==
  /\ m.pid \in Pids /\ Home(m.pid, m.born) /\ m.err \in BOOLEAN
  /\ m.kind \in {"register", "result", "released", "connect"}
  /\ proc[m.pid].born = m.born =>
       /\ proc[m.pid].held # "pl"
       /\ m.kind = "connect" \/ (m.kind = "result" /\ ~m.err) => proc[m.pid].hook = "on"

Messages == \A m \in wire : Truth(m)

(* The registry, and the erasing of what a snapshot shows gone. *)
Entry(p) ==
  /\ registry[p].born \in 0..births /\ registry[p].state \in {"pending", "succeeded", "failed"}
  /\ Alive(p) =>
       /\ registry[p].born <= proc[p].born
       /\ proc[p].born \in joined => registry[p].born = proc[p].born
       /\ registry[p].born = proc[p].born /\ proc[p].born \notin mistaken =>
            /\ proc[p].held # "pl"
            /\ registry[p].state = "succeeded" => proc[p].hook = "on"

Pruned(p) ==
  /\ prune.stage # "idle" => prune.copy[p].born \in 0..births
  /\ prune.stage = "erase" /\ Alive(p) /\ prune.copy[p].born = proc[p].born =>
        prune.snap[p] = proc[p].born

Ledger ==
  /\ \A p \in Pids : Entry(p) /\ Pruned(p)
  /\ prune.stage \in {"idle", "copied", "erase"}
  /\ joined \subseteq 1..births /\ mistaken \subseteq 1..births

(* What the centre remembers of children, and a sweep. *)
Memory(p) ==
  /\ released[p] \in 0..births /\ processed[p] \in 0..births /\ observed[p].checks \in 0..2
  /\ sweep.next[p].checks \in 0..2
  /\ Alive(p) =>
       /\ released[p] = proc[p].born => proc[p].held # "pl"
       /\ processed[p] # proc[p].born
       /\ proc[p].born \in told \ overtaken =>
            /\ released[p] = proc[p].born
            /\ sweep.stage = "prune" => sweep.snap[p].born = proc[p].born

Seen(p) ==
  sweep.stage # "idle" =>
    /\ sweep.snap[p].born \in 0..births
    /\ Alive(p) /\ sweep.snap[p].born = proc[p].born => sweep.snap[p].creator = proc[p].creator

Aimed ==
  LET p == sweep.target IN
  /\ sweep.stage \in {"idle", "prune", "scan", "kill"}
  /\ sweep.stage \in {"idle", "prune"} => p = 0
  /\ sweep.stage = "kill" => p # 0
  /\ p # 0 => /\ p \in Pids
              /\ observed[p].born = sweep.snap[p].born /\ observed[p].cpu = sweep.snap[p].cpu
  /\ sweep.stage = "kill" /\ proc[p].born = sweep.snap[p].born /\ proc[p].held = "caller" =>
        proc[p].creator \in {"raw", "unhooked"}

Centre ==
  /\ \A p \in Pids : Memory(p) /\ Seen(p)
  /\ told \subseteq 1..births /\ overtaken \subseteq 1..births
  /\ Aimed /\ sweep.todo \subseteq Pids

Victims == SparesReleased /\ KillsWhatItWatched /\ SparesCallers

GInv == Shapes /\ People /\ Creations /\ Messages /\ Ledger /\ Centre /\ Victims

-----------------------------------------------------------------------------
LEMMA MinIn ==
  ASSUME NEW S, S \subseteq Nat, S # {}
  PROVE  Min(S) \in S /\ \A y \in S : Min(S) <= y
<1>1. PICK R : R = OpToRel(<, Nat)
  OBVIOUS
<1>2. IsWellFoundedOn(R, Nat)
  BY <1>1, NatLessThanWellFounded
<1>3. PICK x \in S : \A y \in S : ~(<<y, x>> \in R)
  BY <1>2, WFMin
<1>4. \A y \in S : ~(y < x)
  BY <1>1, <1>3 DEF OpToRel
<1>5. \A y \in S : x <= y
  BY <1>4
<1> QED BY <1>5 DEF Min

-----------------------------------------------------------------------------
(* How a step changes the processes: a lifetime goes on, ends, or begins   *)
(* with a creation time of its own.                                        *)

Continues(k, n) ==
  /\ n.born = k.born /\ n.parent = k.parent /\ n.maker = k.maker /\ n.creator = k.creator
  /\ n.held = "pl" => k.held = "pl"
  /\ n.held = "caller" => k.held = "caller"
  /\ k.hook = "on" => n.hook = "on"

Evolves(k, n) ==
  \/ Continues(k, n)
  \/ n.born = 0 /\ n.held = "none"
  \/ k.born = 0 /\ births' = births + 1 /\ n.born = births + 1

Evolution ==
  /\ births' \in {births, births + 1}
  /\ \A p \in Pids : Evolves(proc[p], proc'[p])

LEMMA SelfContinues ==
  ASSUME NEW k
  PROVE  Continues(k, k)
BY DEF Continues

LEMMA Numbers ==
  ASSUME GInv
  PROVE  /\ births \in Nat /\ births > 0 /\ gui.n \in Nat /\ gui.n > 0
         /\ \A p \in Pids : /\ Person(proc[p], births, gui.n) /\ proc[p].born \in Nat
                            /\ proc[p].born <= births /\ proc[p].maker \in Nat /\ proc[p].maker <= births
BY DEF GInv, Shapes, People, Person

LEMMA SameProc ==
  ASSUME births' = births, proc' = proc
  PROVE  Evolution
BY DEF Evolution, Evolves, Continues

LEMMA Grows ==
  ASSUME NEW k, NEW b \in Nat, NEW g, Person(k, b, g), NEW c \in {b, b + 1}
  PROVE  Person(k, c, g)
<1>1. 0..b \subseteq 0..c
  OBVIOUS
<1> QED BY <1>1 DEF Person

(* One process changes. *)
LEMMA OneProc ==
  ASSUME GInv, NEW p \in Pids, NEW n, proc' = [proc EXCEPT ![p] = n],
         births' \in {births, births + 1}, gui' = gui,
         n = [f \in ProcFields |-> n[f]], Person(n, births', gui.n), Evolves(proc[p], n)
  PROVE  /\ Evolution /\ People' /\ IsFunction(proc')
         /\ \A q \in Pids : proc'[q] = [f \in ProcFields |-> proc'[q][f]]
         /\ proc'[p] = n /\ \A q \in Pids : q # p => proc'[q] = proc[q]
<1>1. proc'[p] = n /\ (\A q \in Pids : q # p => proc'[q] = proc[q]) /\ IsFunction(proc')
  BY DEF GInv, Shapes, IsFunction
<1>2. Evolution
  <2>1. \A q \in Pids : Evolves(proc[q], proc'[q])
    BY <1>1 DEF Evolves, Continues
  <2> QED BY <2>1 DEF Evolution
<1>3. \A q \in Pids : proc'[q] = [f \in ProcFields |-> proc'[q][f]]
  BY <1>1 DEF GInv, Shapes
<1>4. \A q \in Pids : Person(proc'[q], births', gui'.n)
  <2> SUFFICES ASSUME NEW q \in Pids PROVE Person(proc'[q], births', gui.n)
    OBVIOUS
  <2>1. CASE q = p
    BY <1>1, <2>1
  <2>2. CASE q # p
    BY <1>1, <2>2, Numbers, Grows
  <2> QED BY <2>1, <2>2
<1>5. ASSUME NEW q \in Pids, proc'[q].born # 0
      PROVE  Home(q, proc[q].born)'
  <2>1. proc'[q].born \in 1..births'
    BY <1>4, <1>5, Numbers DEF Person
  <2>2. ASSUME NEW r \in Pids, proc'[r].born = proc'[q].born PROVE r = q
    <3>1. \A x, y \in Pids : proc[x].born = proc[y].born /\ proc[y].born # 0 => x = y
      BY DEF GInv, People, Home, Alive
    <3>2. \A x \in Pids : proc[x].born \in Nat /\ proc[x].born <= births
      BY Numbers
    <3>3. \A x \in Pids : proc'[x].born = proc[x].born \/ proc'[x].born = 0
                           \/ (x = p /\ proc'[x].born = births + 1)
      BY <1>1 DEF Evolves, Continues
    <3> QED BY <1>5, <2>2, <3>1, <3>2, <3>3, Numbers
  <2> QED BY <2>1, <2>2 DEF Home
<1>6. People'
  BY <1>4, <1>5 DEF People, Alive
<1> QED BY <1>1, <1>2, <1>3, <1>6

LEMMA HomeKept ==
  ASSUME GInv, Evolution, NEW p, NEW b, Home(p, b)
  PROVE  Home(p, b)'
<1>1. b \in 1..births'
  BY Numbers DEF Home, Evolution
<1>2. ASSUME NEW q \in Pids, proc'[q].born = b PROVE q = p
  <2>1. proc[q].born = b
    BY <1>2, Numbers DEF Home, Evolution, Evolves, Continues
  <2> QED BY <2>1 DEF Home
<1> QED BY <1>1, <1>2 DEF Home

(* A lifetime that was there before the step goes on. *)
LEMMA Lasts ==
  ASSUME GInv, Evolution, NEW p \in Pids, NEW b \in 1..births, proc'[p].born = b
  PROVE  Continues(proc[p], proc'[p]) /\ proc[p].born = b
BY Numbers DEF Evolution, Evolves, Continues

LEMMA MessagesKept ==
  ASSUME GInv, Evolution, NEW m, Truth(m)
  PROVE  Truth(m)'
<1>1. m.pid \in Pids /\ Home(m.pid, m.born) /\ m.born \in 1..births
  BY DEF Truth, Home
<1>2. Home(m.pid, m.born)'
  BY <1>1, HomeKept
<1>3. ASSUME proc'[m.pid].born = m.born
      PROVE  /\ proc'[m.pid].held # "pl"
             /\ m.kind = "connect" \/ (m.kind = "result" /\ ~m.err) => proc'[m.pid].hook = "on"
  <2>1. Continues(proc[m.pid], proc'[m.pid]) /\ proc[m.pid].born = m.born
    BY <1>1, <1>3, Lasts
  <2> QED BY <2>1 DEF Truth, Continues
<1> QED BY <1>1, <1>2, <1>3 DEF Truth

LEMMA LedgerKept ==
  ASSUME GInv, Evolution, UNCHANGED <<registry, joined, mistaken, prune>>
  PROVE  Ledger'
<1>1. births' \in Nat /\ births' >= births
  BY Numbers DEF Evolution
<1>2. ASSUME NEW p \in Pids PROVE Entry(p)' /\ Pruned(p)'
  <2>1. Entry(p) /\ Pruned(p) /\ joined \subseteq 1..births
    BY DEF GInv, Ledger
  <2>2. registry[p].born \in 0..births' /\ registry[p].state \in {"pending", "succeeded", "failed"}
    BY <1>1, <2>1, Numbers DEF Entry
  <2>3. prune.stage # "idle" => prune.copy[p].born \in 0..births'
    BY <1>1, <2>1, Numbers DEF Pruned
  <2>4. CASE Continues(proc[p], proc'[p])
    BY <2>1, <2>2, <2>3, <2>4 DEF Entry, Pruned, Continues, Alive
  <2>5. CASE proc'[p].born = 0
    BY <2>2, <2>3, <2>5 DEF Entry, Pruned, Alive
  <2>6. CASE proc'[p].born = births + 1
    <3>1. registry[p].born < births + 1 /\ births + 1 \notin joined
      BY <2>1, Numbers DEF Entry
    <3>2. prune.stage = "erase" => prune.copy[p].born # births + 1
      BY <2>1, Numbers DEF Pruned
    <3> QED BY <2>1, <2>2, <2>3, <2>6, <3>1, <3>2, Numbers DEF Entry, Pruned, Alive
  <2> QED BY <2>4, <2>5, <2>6 DEF Evolution, Evolves
<1>3. joined \subseteq 1..births' /\ mistaken \subseteq 1..births'
  BY <1>1, Numbers DEF GInv, Ledger
<1> QED BY <1>2, <1>3 DEF Ledger, GInv

LEMMA CentreKept ==
  ASSUME GInv, Evolution, UNCHANGED <<released, processed, observed, sweep, told, overtaken>>
  PROVE  Centre'
<1>1. births' \in Nat /\ births' >= births
  BY Numbers DEF Evolution
<1>2. ASSUME NEW p \in Pids PROVE Memory(p)' /\ Seen(p)'
  <2>1. Memory(p) /\ Seen(p) /\ told \subseteq 1..births
    BY DEF GInv, Centre
  <2>2. /\ released[p] \in 0..births' /\ processed[p] \in 0..births' /\ observed[p].checks \in 0..2
        /\ sweep.next[p].checks \in 0..2
    BY <1>1, <2>1, Numbers DEF Memory
  <2>3. sweep.stage # "idle" => sweep.snap[p].born \in 0..births'
    BY <1>1, <2>1, Numbers DEF Seen
  <2>4. CASE Continues(proc[p], proc'[p])
    BY <2>1, <2>2, <2>3, <2>4 DEF Memory, Seen, Continues, Alive
  <2>5. CASE proc'[p].born = 0
    BY <2>2, <2>3, <2>5 DEF Memory, Seen, Alive
  <2>6. CASE proc'[p].born = births + 1
    <3>1. released[p] # births + 1 /\ processed[p] # births + 1 /\ births + 1 \notin told
      BY <2>1, Numbers DEF Memory
    <3>2. sweep.stage # "idle" => sweep.snap[p].born # births + 1
      BY <2>1, Numbers DEF Seen
    <3> QED BY <2>2, <2>3, <2>6, <3>1, <3>2 DEF Memory, Seen, Alive
  <2> QED BY <2>4, <2>5, <2>6 DEF Evolution, Evolves
<1>3. told \subseteq 1..births' /\ overtaken \subseteq 1..births'
  BY <1>1, Numbers DEF GInv, Centre
<1>4. Aimed'
  <2>1. PICK p : p = sweep.target
    OBVIOUS
  <2>2. ASSUME sweep.stage = "kill", proc'[p].born = sweep.snap[p].born, proc'[p].held = "caller"
        PROVE  proc'[p].creator \in {"raw", "unhooked"}
    <3>1. p \in Pids /\ Seen(p) /\ Aimed
      BY <2>1, <2>2 DEF GInv, Centre, Aimed
    <3>2. sweep.snap[p].born \in 0..births
      BY <2>2, <3>1 DEF Seen
    <3>3. Continues(proc[p], proc'[p])
      BY <2>2, <3>1, <3>2, Numbers DEF Evolution, Evolves
    <3> QED BY <2>1, <2>2, <3>1, <3>3 DEF Aimed, Continues
  <2> QED BY <2>1, <2>2 DEF GInv, Centre, Aimed
<1> QED BY <1>2, <1>3, <1>4 DEF Centre, GInv

(* The creations under way, when none of them moves: a process that has    *)
(* one goes on, or it ends and takes it along; nothing suspended begins.   *)
Undisturbed ==
  /\ \A p \in Pids : \/ proc'[p].born = 0 /\ making'[p].stage = "idle"
                     \/ /\ making'[p] = making[p]
                        /\ making[p].stage # "idle" => Continues(proc[p], proc'[p])
  /\ \A c \in Pids : Continues(proc[c], proc'[c]) \/ proc'[c].held # "pl"

LEMMA HandsKept ==
  ASSUME GInv, Evolution, NEW p \in Pids, making'[p] = making[p],
         making[p].stage # "idle" => Continues(proc[p], proc'[p])
  PROVE  Hands(p)'
<1>1. Hands(p)
  BY DEF GInv, Creations
<1>2. CASE making[p].stage = "idle"
  BY <1>2 DEF Hands
<1>3. CASE making[p].stage # "idle"
  <2>1. PICK m : m = making[p]
    OBVIOUS
  <2>2. /\ Alive(p) /\ m.child \in Pids /\ Home(m.child, m.born) /\ m.born \in 1..births
        /\ proc[m.child].born = m.born =>
              proc[m.child].parent = p /\ proc[m.child].maker = proc[p].born
    BY <1>1, <1>3, <2>1 DEF Hands, Same, Home
  <2>3. Home(m.child, m.born)'
    BY <2>2, HomeKept
  <2>4. Continues(proc[p], proc'[p])
    BY <1>3
  <2>5. ASSUME proc'[m.child].born = m.born
        PROVE  proc'[m.child].parent = p /\ proc'[m.child].maker = proc'[p].born
    <3>1. Continues(proc[m.child], proc'[m.child]) /\ proc[m.child].born = m.born
      BY <2>2, <2>5, Lasts
    <3> QED BY <2>2, <2>4, <3>1 DEF Continues
  <2>6. Alive(p)'
    BY <2>2, <2>4 DEF Alive, Continues
  <2> QED BY <1>1, <2>1, <2>2, <2>3, <2>5, <2>6 DEF Hands, Same
<1> QED BY <1>2, <1>3

(* The creator of a suspended child is gone, and stays so. *)
LEMMA GoneStays ==
  ASSUME GInv, Evolution, NEW c \in Pids, proc[c].held = "pl", Continues(proc[c], proc'[c]),
         proc[proc[c].parent].born # proc[c].maker
  PROVE  proc'[proc'[c].parent].born # proc'[c].maker
<1>1. PICK p : p = proc[c].parent
  OBVIOUS
<1>2. p \in Pids /\ proc[c].maker \in 1..births /\ proc'[c].parent = p /\ proc'[c].maker = proc[c].maker
  BY <1>1, Numbers DEF Person, Continues
<1>3. proc'[p].born # proc[c].maker
  BY <1>1, <1>2, Lasts
<1> QED BY <1>2, <1>3

LEMMA HoldingKept ==
  ASSUME GInv, Evolution, NEW c \in Pids,
         Continues(proc[c], proc'[c]) \/ proc'[c].held # "pl",
         NEW p, p = proc[c].parent,
         proc[c].held = "pl" /\ proc[p].born = proc[c].maker =>
            proc'[p].born # proc[c].maker \/ making'[p] = making[p]
  PROVE  Holding(c)'
<1> SUFFICES ASSUME proc'[c].held = "pl" PROVE Holding(c)'
  BY DEF Holding
<1>1. Continues(proc[c], proc'[c]) /\ proc[c].held = "pl" /\ proc'[c].parent = p
  BY DEF Continues
<1>2. CASE proc[p].born # proc[c].maker
  BY <1>1, <1>2, GoneStays DEF Holding
<1>3. CASE proc[p].born = proc[c].maker
  <2>1. /\ making[p].child = c /\ making[p].born = proc[c].born /\ making[p].own
        /\ making[p].stage \in {"connect", "ask", "inject", "resume"}
    BY <1>1, <1>3 DEF GInv, Creations, Holding
  <2>2. proc'[c].born = proc[c].born /\ proc'[c].maker = proc[c].maker
    BY <1>1 DEF Continues
  <2> QED BY <1>1, <1>3, <2>1, <2>2 DEF Holding
<1> QED BY <1>2, <1>3

LEMMA CreationsKept ==
  ASSUME GInv, Evolution, Undisturbed
  PROVE  Creations'
<1>1. ASSUME NEW p \in Pids PROVE Hands(p)'
  <2>1. CASE proc'[p].born = 0 /\ making'[p].stage = "idle"
    BY <2>1 DEF Hands
  <2>2. CASE making'[p] = making[p] /\ (making[p].stage # "idle" => Continues(proc[p], proc'[p]))
    BY <2>2, HandsKept
  <2> QED BY <2>1, <2>2 DEF Undisturbed
<1>2. ASSUME NEW c \in Pids PROVE Holding(c)'
  <2>1. PICK p : p = proc[c].parent
    OBVIOUS
  <2>2. ASSUME proc[c].held = "pl", proc[p].born = proc[c].maker
        PROVE  proc'[p].born # proc[c].maker \/ making'[p] = making[p]
    <3>1. p \in Pids /\ proc[c].maker # 0
      BY <2>1, <2>2, Numbers DEF Person
    <3> QED BY <3>1 DEF Undisturbed
  <2> QED BY <2>1, <2>2, HoldingKept DEF Undisturbed
<1> QED BY <1>1, <1>2 DEF Creations

LEMMA Assemble ==
  ASSUME GInv, Evolution, People', IsFunction(proc'),
         \A q \in Pids : proc'[q] = [f \in ProcFields |-> proc'[q][f]],
         IsFunction(making'),
         \A q \in Pids : making'[q] = [f \in MakingFields |-> making'[q][f]],
         Creations', Messages', UNCHANGED <<gui, centre, book, ghosts>>
  PROVE  GInv'
<1>1. /\ registry' = registry /\ prune' = prune /\ joined' = joined /\ mistaken' = mistaken /\ told' = told
      /\ overtaken' = overtaken /\ victims' = victims /\ gui' = gui
      /\ released' = released /\ observed' = observed /\ processed' = processed /\ sweep' = sweep
  BY DEF centre, book, ghosts
<1>2. Ledger' /\ Centre'
  BY <1>1, LedgerKept, CentreKept
<1>3. Victims'
  BY <1>1 DEF GInv, Victims, SparesReleased, KillsWhatItWatched, SparesCallers
<1>4. births' \in Nat \ {0}
  BY Numbers DEF Evolution
<1>5. Shapes'
  BY <1>1, <1>4 DEF GInv, Shapes, IsFunction
<1> QED BY <1>2, <1>3, <1>5 DEF GInv

LEMMA WireKept ==
  ASSUME GInv, Evolution, wire' \subseteq wire
  PROVE  Messages'
BY MessagesKept DEF GInv, Messages

(* A step that changes one process and no creation. *)
LEMMA OneStep ==
  ASSUME GInv, NEW p \in Pids, NEW n, proc' = [proc EXCEPT ![p] = n],
         births' \in {births, births + 1}, UNCHANGED <<gui, centre, book, ghosts>>,
         n = [f \in ProcFields |-> n[f]], Person(n, births', gui.n), Evolves(proc[p], n),
         making' = making, n.held = "pl" => Continues(proc[p], n),
         making[p].stage # "idle" => Continues(proc[p], n),
         Evolution /\ (\A q \in Pids : q # p => proc'[q] = proc[q]) /\ proc'[p] = n => Messages'
  PROVE  GInv'
<1>1. gui' = gui
  OBVIOUS
<1>2. /\ Evolution /\ People' /\ IsFunction(proc')
      /\ \A q \in Pids : proc'[q] = [f \in ProcFields |-> proc'[q][f]]
      /\ proc'[p] = n /\ \A q \in Pids : q # p => proc'[q] = proc[q]
  BY <1>1, OneProc
<1>3. Undisturbed
  <2>1. \A q \in Pids : q # p => Continues(proc[q], proc'[q])
    BY <1>2, SelfContinues
  <2> QED BY <1>2, <2>1 DEF Undisturbed
<1>4. Creations'
  BY <1>2, <1>3, CreationsKept
<1>5. IsFunction(making') /\ \A q \in Pids : making'[q] = [f \in MakingFields |-> making'[q][f]]
  BY DEF GInv, Shapes
<1> QED BY <1>2, <1>4, <1>5, Assemble

-----------------------------------------------------------------------------
(* Processes that begin, run, stop and end. *)

LEMMA NobodyIs ==
  /\ Nobody = [f \in ProcFields |-> Nobody[f]] /\ Nobody.born = 0 /\ Nobody.held = "none"
  /\ \A b, g \in Nat : Person(Nobody, b, g)
BY DEF Nobody, ProcFields, Person

(* A person is known by the fields that matter. *)
LEMMA SamePerson ==
  ASSUME NEW k, NEW n, NEW b \in Nat, NEW g, Person(k, b, g),
         n.born = k.born, n.maker = k.maker, n.parent = k.parent, n.creator = k.creator,
         n.held = k.held, n.hook = k.hook, n.wanted = k.wanted, n.cigEnv = k.cigEnv,
         n.cig = k.cig, n.markers = k.markers, n.guard = k.guard
  PROVE  Person(n, b, g)
BY DEF Person

(* A newborn. *)
LEMMA Newborn ==
  ASSUME NEW n, NEW b \in Nat, NEW g \in Nat, b > 0,
         n.born = b, n.maker \in 0..b, n.parent \in Pids,
         n.held \in {"none", "pl", "caller", "other"}, n.hook = "no",
         n.wanted \in BOOLEAN, n.cigEnv \in BOOLEAN, n.cig = FALSE,
         n.markers \subseteq 1..g,
         n.held = "caller" /\ n.creator \notin {"raw", "unhooked"} => g \notin n.markers,
         n.wanted /\ n.creator = "hooked" => n.cigEnv,
         n.held = "pl" => n.maker # 0
  PROVE  Person(n, b, g)
<1>1. n.born \in 0..b /\ n.born # 0
  OBVIOUS
<1>2. n.cig \in BOOLEAN
  OBVIOUS
<1> QED BY <1>1, <1>2, Zenon DEF Person

LEMMA BornStep ==
  ASSUME GInv, NEW c \in Pids, NEW k, Born(c, k), k = [f \in ProcFields |-> k[f]], k.held # "pl",
         Person([k EXCEPT !.born = births + 1], births + 1, gui.n),
         making' = making, wire' = wire, UNCHANGED <<gui, centre, book, ghosts>>
  PROVE  GInv'
<1>1. PICK n : n = [k EXCEPT !.born = births + 1]
  OBVIOUS
<1>2. n = [f \in ProcFields |-> n[f]] /\ n.born = births + 1 /\ n.held = k.held
  BY <1>1 DEF ProcFields
<1>3. proc' = [proc EXCEPT ![c] = n] /\ births' = births + 1 /\ proc[c].born = 0
  BY <1>1 DEF Born, Alive
<1>4. Evolves(proc[c], n) /\ Person(n, births', gui.n)
  BY <1>1, <1>2, <1>3 DEF Evolves
<1>5. making[c].stage = "idle"
  BY <1>3 DEF GInv, Creations, Hands, Alive
<1>6. Evolution => Messages'
  BY WireKept
<1> QED BY <1>2, <1>3, <1>4, <1>5, <1>6, OneStep

LEMMA StartStep ==
  ASSUME GInv, NEW c \in Pids, Start(c)
  PROVE  GInv'
<1>1. Person([Nobody EXCEPT !.born = births + 1], births + 1, gui.n)
  BY Numbers DEF Nobody, Person
<1> QED BY <1>1, NobodyIs, BornStep DEF Start

LEMMA PlainCreateStep ==
  ASSUME GInv, NEW p \in Pids, NEW c \in Pids, NEW suspended, PlainCreate(p, c, suspended)
  PROVE  GInv'
<1>1. PICK h : h = IF suspended THEN "caller" ELSE "none"
  OBVIOUS
<1>2. PICK k : k = [Nobody EXCEPT !.parent = p, !.maker = proc[p].born, !.creator = "unhooked",
                            !.markers = proc[p].markers, !.cigEnv = proc[p].cigEnv, !.held = h]
  OBVIOUS
<1>3. Born(c, k) /\ UNCHANGED <<making, wire, gui, centre, book, ghosts>>
  BY <1>1, <1>2 DEF PlainCreate
<1>4. h \in {"caller", "none"} /\ Person(proc[p], births, gui.n)
  BY <1>1, Numbers
<1>5. k = [f \in ProcFields |-> k[f]] /\ k.held # "pl"
  BY <1>2, <1>4 DEF Nobody, ProcFields
<1>6. PICK n : n = [k EXCEPT !.born = births + 1]
  OBVIOUS
<1>7. /\ n.born = births + 1 /\ n.parent = p /\ n.maker = proc[p].born /\ n.creator = "unhooked"
      /\ n.markers = proc[p].markers /\ n.held = h /\ n.hook = "no" /\ n.wanted = FALSE
      /\ n.cigEnv = proc[p].cigEnv /\ n.cig = FALSE
  BY <1>2, <1>6 DEF Nobody
<1>8. Person(n, births + 1, gui.n)
  <2>1. /\ births + 1 \in Nat /\ births + 1 > 0 /\ gui.n \in Nat
        /\ proc[p].born \in 0..(births + 1)
    BY Numbers
  <2>2. proc[p].markers \subseteq 1..gui.n /\ proc[p].cigEnv \in BOOLEAN
    BY <1>4, Zenon DEF Person
  <2> QED BY <1>4, <1>7, <2>1, <2>2, Newborn
<1> QED BY <1>3, <1>5, <1>6, <1>8, BornStep

(* The environments a hooked process makes. *)
LEMMA Environments ==
  ASSUME GInv, NEW p \in Pids, proc[p].hook = "on", NEW base, base \subseteq proc[p].markers
  PROVE  LET g == proc[p].guard IN
         /\ g \in 1..gui.n /\ base \subseteq 1..gui.n
         /\ BuildChildEnvironment(base, TRUE, g) \subseteq 1..gui.n
         /\ BuildChildEnvironment(base, FALSE, g) \subseteq 1..gui.n
         /\ gui.n \notin BuildChildEnvironment(base, FALSE, g)
<1>1. PICK g : g = proc[p].guard
  OBVIOUS
<1>2. g \in 1..gui.n /\ proc[p].markers \subseteq 1..g /\ proc[p].markers \subseteq 1..gui.n
  BY <1>1, Numbers DEF Person
<1>3. gui.n \notin base \ {g}
  BY <1>2, Numbers
<1> QED BY <1>1, <1>2, <1>3, Numbers DEF BuildChildEnvironment

LEMMA AppLauncherStep ==
  ASSUME GInv, NEW p \in Pids, NEW c \in Pids, NEW suspended, TryCreateAppLauncher(p, c, suspended)
  PROVE  GInv'
<1>1. PICK h : h = IF suspended THEN "caller" ELSE "none"
  OBVIOUS
<1>2. PICK e : e = BuildChildEnvironment(proc[p].markers, FALSE, proc[p].guard)
  OBVIOUS
<1>3. PICK k : k = [Nobody EXCEPT !.parent = p, !.maker = proc[p].born, !.creator = "hooked",
                            !.markers = e, !.held = h]
  OBVIOUS
<1>4. Born(c, k) /\ UNCHANGED <<making, wire, gui, centre, book, ghosts>> /\ proc[p].hook = "on"
  BY <1>1, <1>2, <1>3 DEF TryCreateAppLauncher
<1>5. h \in {"caller", "none"} /\ Person(proc[p], births, gui.n)
  BY <1>1, Numbers
<1>6. e \subseteq 1..gui.n /\ gui.n \notin e
  BY <1>2, <1>4, Environments
<1>7. k = [f \in ProcFields |-> k[f]] /\ k.held # "pl"
  BY <1>3, <1>5 DEF Nobody, ProcFields
<1>8. PICK n : n = [k EXCEPT !.born = births + 1]
  OBVIOUS
<1>9. /\ n.born = births + 1 /\ n.parent = p /\ n.maker = proc[p].born /\ n.creator = "hooked"
      /\ n.markers = e /\ n.held = h /\ n.hook = "no" /\ n.wanted = FALSE
      /\ n.cigEnv = FALSE /\ n.cig = FALSE
  BY <1>3, <1>8 DEF Nobody
<1>10. Person(n, births + 1, gui.n)
  <2>1. /\ births + 1 \in Nat /\ births + 1 > 0 /\ gui.n \in Nat
        /\ proc[p].born \in 0..(births + 1)
    BY Numbers
  <2> QED BY <1>5, <1>6, <1>9, <2>1, Newborn
<1> QED BY <1>4, <1>7, <1>8, <1>10, BornStep

LEMMA Ends ==
  ASSUME GInv, NEW p \in Pids, proc' = [proc EXCEPT ![p] = Nobody],
         making' = [making EXCEPT ![p] = Idle], births' = births, wire' = wire, gui' = gui
  PROVE  /\ Evolution /\ People' /\ IsFunction(proc')
         /\ \A q \in Pids : proc'[q] = [f \in ProcFields |-> proc'[q][f]]
         /\ proc'[p] = Nobody /\ \A q \in Pids : q # p => proc'[q] = proc[q]
         /\ Creations' /\ Messages' /\ IsFunction(making')
         /\ \A q \in Pids : making'[q] = [f \in MakingFields |-> making'[q][f]]
<1>1. Evolves(proc[p], Nobody) /\ Person(Nobody, births', gui.n)
  BY NobodyIs, Numbers DEF Evolves
<1>2. /\ Evolution /\ People' /\ IsFunction(proc')
      /\ \A q \in Pids : proc'[q] = [f \in ProcFields |-> proc'[q][f]]
      /\ proc'[p] = Nobody /\ \A q \in Pids : q # p => proc'[q] = proc[q]
  BY <1>1, NobodyIs, OneProc
<1>3. /\ making'[p] = Idle /\ (\A q \in Pids : q # p => making'[q] = making[q]) /\ IsFunction(making')
  BY DEF GInv, Shapes, IsFunction
<1>4. \A q \in Pids : making'[q] = [f \in MakingFields |-> making'[q][f]]
  <2>1. Idle = [f \in MakingFields |-> Idle[f]]
    BY DEF Idle, MakingFields
  <2> QED BY <1>3, <2>1 DEF GInv, Shapes
<1>5. Undisturbed
  <2>1. \A q \in Pids : q # p => Continues(proc[q], proc'[q])
    BY <1>2, SelfContinues
  <2>2. Idle.stage = "idle"
    BY DEF Idle
  <2> QED BY <1>2, <1>3, <2>1, <2>2, NobodyIs DEF Undisturbed
<1>6. Creations' /\ Messages'
  BY <1>2, <1>5, CreationsKept, WireKept
<1> QED BY <1>2, <1>3, <1>4, <1>6

LEMMA ExitStep ==
  ASSUME GInv, NEW p \in Pids, Exit(p)
  PROVE  GInv'
<1>1. /\ proc' = [proc EXCEPT ![p] = Nobody] /\ making' = [making EXCEPT ![p] = Idle]
      /\ births' = births /\ wire' = wire /\ gui' = gui /\ UNCHANGED <<gui, centre, book, ghosts>>
  BY DEF Exit
<1> QED BY <1>1, Ends, Assemble

(* A lifetime that goes on. *)
LEMMA ContinueStep ==
  ASSUME GInv, NEW p \in Pids, NEW n, proc' = [proc EXCEPT ![p] = n], births' = births,
         n = [f \in ProcFields |-> n[f]], Person(n, births, gui.n), Continues(proc[p], n),
         making' = making, wire' = wire, UNCHANGED <<gui, centre, book, ghosts>>
  PROVE  GInv'
<1>1. Evolves(proc[p], n) /\ Person(n, births', gui.n) /\ births' \in {births, births + 1}
  BY DEF Evolves
<1>2. Evolution => Messages'
  BY WireKept
<1> QED BY <1>1, <1>2, OneStep

LEMMA ProcShape ==
  ASSUME GInv, NEW p \in Pids
  PROVE  proc[p] = [f \in ProcFields |-> proc[p][f]] /\ Person(proc[p], births, gui.n)
BY Numbers DEF GInv, Shapes

(* Fields no property looks at. *)
LEMMA QuietStep ==
  ASSUME GInv, NEW p \in Pids, NEW n, proc' = [proc EXCEPT ![p] = n], births' = births,
         n = [f \in ProcFields |-> n[f]],
         \A f \in ProcFields \ {"cpu", "old", "arm", "pipe"} : n[f] = proc[p][f],
         making' = making, wire' = wire, UNCHANGED <<gui, centre, book, ghosts>>
  PROVE  GInv'
<1>1. /\ n.born = proc[p].born /\ n.maker = proc[p].maker /\ n.parent = proc[p].parent
      /\ n.creator = proc[p].creator /\ n.held = proc[p].held /\ n.hook = proc[p].hook
      /\ n.wanted = proc[p].wanted /\ n.cigEnv = proc[p].cigEnv /\ n.cig = proc[p].cig
      /\ n.markers = proc[p].markers /\ n.guard = proc[p].guard
  BY DEF ProcFields
<1>2. Person(n, births, gui.n)
  BY <1>1, Numbers, SamePerson
<1>3. Continues(proc[p], n)
  BY <1>1 DEF Continues
<1> QED BY <1>2, <1>3, ContinueStep

(* A suspension begins that is not ProxyLane's, or one ends. *)
LEMMA HeldStep ==
  ASSUME GInv, NEW p \in Pids, NEW h \in {"none", "other"}, proc[p].born # 0 \/ h = "none",
         proc' = [proc EXCEPT ![p].held = h], births' = births,
         making' = making, wire' = wire, UNCHANGED <<gui, centre, book, ghosts>>
  PROVE  GInv'
<1>1. PICK n : n = [proc[p] EXCEPT !.held = h]
  OBVIOUS
<1>2. proc' = [proc EXCEPT ![p] = n]
  BY <1>1
<1>3. /\ n = [f \in ProcFields |-> n[f]] /\ n.held = h
      /\ n.born = proc[p].born /\ n.maker = proc[p].maker /\ n.parent = proc[p].parent
      /\ n.creator = proc[p].creator /\ n.hook = proc[p].hook
      /\ n.wanted = proc[p].wanted /\ n.cigEnv = proc[p].cigEnv /\ n.cig = proc[p].cig
      /\ n.markers = proc[p].markers /\ n.guard = proc[p].guard
  BY <1>1, ProcShape, ZenonT(60) DEF ProcFields
<1>4. Person(n, births, gui.n)
  BY <1>3, ProcShape DEF Person
<1>5. Continues(proc[p], n)
  BY <1>3 DEF Continues
<1> QED BY <1>2, <1>3, <1>4, <1>5, ContinueStep

LEMMA LiveSteps ==
  ASSUME GInv, NEW p \in Pids, Run(p) \/ Age(p) \/ Freeze(p) \/ Thaw(p) \/ AttachToI(p)
  PROVE  GInv'
<1>0. /\ births' = births /\ making' = making /\ wire' = wire /\ UNCHANGED <<gui, centre, book, ghosts>>
  BY DEF Run, Age, Freeze, Thaw, AttachToI
<1>1. CASE Run(p)
  <2>1. PICK n : n = [proc[p] EXCEPT !.cpu = @ + 1]
    OBVIOUS
  <2>2. proc' = [proc EXCEPT ![p] = n]
    BY <1>1, <2>1 DEF Run
  <2>3. n = [f \in ProcFields |-> n[f]] /\ \A f \in ProcFields \ {"cpu"} : n[f] = proc[p][f]
    BY <2>1, ProcShape DEF ProcFields
  <2> QED BY <1>0, <2>2, <2>3, QuietStep
<1>2. CASE Age(p)
  <2>1. PICK n : n = [proc[p] EXCEPT !.old = TRUE]
    OBVIOUS
  <2>2. proc' = [proc EXCEPT ![p] = n]
    BY <1>2, <2>1 DEF Age
  <2>3. n = [f \in ProcFields |-> n[f]] /\ \A f \in ProcFields \ {"old"} : n[f] = proc[p][f]
    BY <2>1, ProcShape DEF ProcFields
  <2> QED BY <1>0, <2>2, <2>3, QuietStep
<1>3. CASE Freeze(p)
  BY <1>0, <1>3, HeldStep DEF Freeze, Running, Alive
<1>4. CASE Thaw(p)
  BY <1>0, <1>4, HeldStep DEF Thaw
<1>5. CASE AttachToI(p)
  <2>1. PICK n : n = [proc[p] EXCEPT !.arm = gui.n]
    OBVIOUS
  <2>2. proc' = [proc EXCEPT ![p] = n]
    BY <1>5, <2>1 DEF AttachToI, InjectDll
  <2>3. n = [f \in ProcFields |-> n[f]] /\ \A f \in ProcFields \ {"arm"} : n[f] = proc[p][f]
    BY <2>1, ProcShape DEF ProcFields
  <2> QED BY <1>0, <2>2, <2>3, QuietStep
<1> QED BY <1>1, <1>2, <1>3, <1>4, <1>5

-----------------------------------------------------------------------------
(* Creations. *)

(* One process's creation moves. *)
LEMMA MakingStep ==
  ASSUME GInv, Evolution, NEW p \in Pids, NEW m, making' = [making EXCEPT ![p] = m],
         m = [f \in MakingFields |-> m[f]], Hands(p)',
         \A q \in Pids : q # p /\ making[q].stage # "idle" => Continues(proc[q], proc'[q]),
         \A c \in Pids : \/ Holding(c)'
                         \/ /\ Continues(proc[c], proc'[c])
                            /\ proc[c].parent # p \/ proc[p].born # proc[c].maker
  PROVE  /\ Creations' /\ IsFunction(making')
         /\ \A q \in Pids : making'[q] = [f \in MakingFields |-> making'[q][f]]
<1>1. making'[p] = m /\ (\A q \in Pids : q # p => making'[q] = making[q]) /\ IsFunction(making')
  BY DEF GInv, Shapes, IsFunction
<1>2. \A q \in Pids : making'[q] = [f \in MakingFields |-> making'[q][f]]
  BY <1>1 DEF GInv, Shapes
<1>3. ASSUME NEW q \in Pids PROVE Hands(q)'
  BY <1>1, HandsKept
<1>4. ASSUME NEW c \in Pids PROVE Holding(c)'
  <2>1. SUFFICES ASSUME Continues(proc[c], proc'[c]),
                        proc[c].parent # p \/ proc[p].born # proc[c].maker
                 PROVE  Holding(c)'
    OBVIOUS
  <2>2. PICK r : r = proc[c].parent
    OBVIOUS
  <2>3. proc[c].held = "pl" /\ proc[r].born = proc[c].maker => making'[r] = making[r]
    BY <1>1, <2>1, <2>2, Numbers DEF Person
  <2> QED BY <2>1, <2>2, <2>3, HoldingKept
<1> QED BY <1>1, <1>2, <1>3, <1>4 DEF Creations

LEMMA CreateStep ==
  ASSUME GInv, NEW p \in Pids, NEW c \in Pids, c # p, Running(p), making[p].stage = "idle",
         NEW k, Born(c, k), k = [f \in ProcFields |-> k[f]],
         k.parent = p, k.maker = proc[p].born, NEW own, k.held = "pl" => own,
         Person([k EXCEPT !.born = births + 1], births + 1, gui.n),
         making' = [making EXCEPT ![p] = [child |-> c, born |-> births + 1, own |-> own,
                                          linked |-> FALSE, stage |-> "connect"]],
         wire' = wire, UNCHANGED <<gui, centre, book, ghosts>>
  PROVE  GInv'
<1>1. PICK n : n = [k EXCEPT !.born = births + 1]
  OBVIOUS
<1>2. /\ n = [f \in ProcFields |-> n[f]] /\ n.born = births + 1 /\ n.held = k.held
      /\ n.parent = p /\ n.maker = proc[p].born
  BY <1>1 DEF ProcFields
<1>3. /\ proc' = [proc EXCEPT ![c] = n] /\ births' = births + 1 /\ proc[c].born = 0
      /\ gui' = gui /\ births' \in {births, births + 1}
  BY <1>1 DEF Born, Alive
<1>4. Evolves(proc[c], n) /\ Person(n, births', gui.n)
  BY <1>1, <1>2, <1>3 DEF Evolves
<1>5. /\ Evolution /\ People' /\ IsFunction(proc')
      /\ \A q \in Pids : proc'[q] = [f \in ProcFields |-> proc'[q][f]]
      /\ proc'[c] = n /\ \A q \in Pids : q # c => proc'[q] = proc[q]
  BY <1>2, <1>3, <1>4, OneProc
<1>6. PICK m : m = [child |-> c, born |-> births + 1, own |-> own, linked |-> FALSE,
                    stage |-> "connect"]
  OBVIOUS
<1>7. /\ m = [f \in MakingFields |-> m[f]] /\ m.child = c /\ m.born = births + 1
      /\ m.own = own /\ m.stage = "connect"
  BY <1>6 DEF MakingFields
<1>8. making' = [making EXCEPT ![p] = m] /\ making'[p] = m
  BY <1>6 DEF GInv, Shapes, IsFunction
<1>9. proc'[p] = proc[p] /\ proc[p].born # 0
  BY <1>5 DEF Running, Alive
<1>10. Hands(p)'
  <2>1. PICK b : b = births + 1
    OBVIOUS
  <2>2. proc'[c].born = b /\ b # 0
    BY <1>2, <1>5, <2>1, Numbers
  <2>3. Home(c, b)'
    BY <1>5, <2>2 DEF People, Alive
  <2> QED BY <1>2, <1>5, <1>7, <1>8, <1>9, <2>1, <2>3 DEF Hands, Same, Alive
<1>11. \A q \in Pids : q # p /\ making[q].stage # "idle" => Continues(proc[q], proc'[q])
  <2> SUFFICES ASSUME NEW q \in Pids, q # p, making[q].stage # "idle"
               PROVE  Continues(proc[q], proc'[q])
    OBVIOUS
  <2>1. q # c
    BY <1>3 DEF GInv, Creations, Hands, Alive
  <2> QED BY <1>5, <2>1, SelfContinues
<1>12. \A d \in Pids : \/ Holding(d)'
                       \/ /\ Continues(proc[d], proc'[d])
                          /\ proc[d].parent # p \/ proc[p].born # proc[d].maker
  <2> SUFFICES ASSUME NEW d \in Pids
               PROVE  \/ Holding(d)'
                      \/ /\ Continues(proc[d], proc'[d])
                         /\ proc[d].parent # p \/ proc[p].born # proc[d].maker
    OBVIOUS
  <2>1. CASE d = c
    BY <1>2, <1>5, <1>7, <1>8, <2>1 DEF Holding
  <2>2. CASE d # c
    <3>1. proc'[d] = proc[d] /\ Continues(proc[d], proc'[d])
      BY <1>5, <2>2, SelfContinues
    <3>2. CASE proc[d].held # "pl"
      BY <3>1, <3>2 DEF Holding
    <3>3. CASE proc[d].held = "pl"
      BY <3>1, <3>3 DEF GInv, Creations, Holding
    <3> QED BY <3>2, <3>3
  <2> QED BY <2>1, <2>2
<1>13. /\ Creations' /\ IsFunction(making')
       /\ \A q \in Pids : making'[q] = [f \in MakingFields |-> making'[q][f]]
  <2>1. Evolution
    BY <1>5
  <2>2. m = [f \in MakingFields |-> m[f]]
    BY <1>7
  <2>3. making' = [making EXCEPT ![p] = m]
    BY <1>8
  <2> QED BY <2>1, <2>2, <2>3, <1>10, <1>11, <1>12, MakingStep
<1>14. Messages'
  BY <1>5, WireKept
<1> QED BY <1>5, <1>13, <1>14, Assemble

(* What a hooked process puts in a child's environment, whichever way. *)
LEMMA ChildMarkers ==
  ASSUME GInv, NEW p \in Pids, proc[p].hook = "on", NEW own \in BOOLEAN,
         NEW base, base \subseteq proc[p].markers, NEW rewrite,
         NEW e, e = IF rewrite THEN BuildChildEnvironment(base, own, proc[p].guard) ELSE base
  PROVE  e \subseteq 1..gui.n /\ (rewrite /\ ~own => gui.n \notin e)
<1>1. CASE own
  <2>1. own = TRUE
    BY <1>1
  <2> QED BY <1>1, <2>1, Environments
<1>2. CASE ~own
  <2>1. own = FALSE
    BY <1>2
  <2> QED BY <1>2, <2>1, Environments
<1> QED BY <1>1, <1>2

LEMMA InternalStep ==
  ASSUME GInv, NEW p \in Pids, NEW c \in Pids, NEW own \in BOOLEAN, NEW block,
         NEW wanted \in BOOLEAN, NEW built \in BOOLEAN,
         CreateProcessInternalW(p, c, own, block, wanted, built)
  PROVE  GInv'
<1>1. PICK h : h = IF own THEN "pl" ELSE "caller"
  OBVIOUS
<1>2. PICK base : base = BlockMarkers(p, block)
  OBVIOUS
<1>3. PICK rewrite \in BOOLEAN : rewrite = (\/ proc[p].guard # 0 /\ (~own \/ block # "inherit")
                                            \/ wanted)
  OBVIOUS
<1>4. PICK e : e = IF rewrite /\ built THEN BuildChildEnvironment(base, own, proc[p].guard) ELSE base
  OBVIOUS
<1>5. PICK r : r = IF built THEN "hooked" ELSE "raw"
  OBVIOUS
<1>6. PICK d : d = Deferred(wanted, built)
  OBVIOUS
<1>7. PICK k : k = [Nobody EXCEPT !.parent = p, !.maker = proc[p].born, !.creator = r,
                       !.markers = e, !.held = h, !.wanted = wanted, !.cigEnv = d]
  OBVIOUS
<1>8. ChildOf(p, own, block, wanted, built) = k
  BY <1>1, <1>2, <1>3, <1>4, <1>5, <1>6, <1>7, Zenon DEF ChildOf
<1>9. /\ Running(p) /\ proc[p].hook = "on" /\ making[p].stage = "idle" /\ c # p /\ Born(c, k)
      /\ making' = [making EXCEPT ![p] = [child |-> c, born |-> births + 1, own |-> own,
                                          linked |-> FALSE, stage |-> "connect"]]
      /\ wire' = wire /\ UNCHANGED <<gui, centre, book, ghosts>>
  BY <1>8 DEF CreateProcessInternalW
<1>10. Person(proc[p], births, gui.n) /\ base \subseteq proc[p].markers /\ proc[p].guard # 0
  BY <1>2, <1>9, Numbers DEF BlockMarkers, Person
<1>11. e \subseteq 1..gui.n /\ (rewrite /\ built /\ ~own => gui.n \notin e)
  BY <1>4, <1>9, <1>10, ChildMarkers, ZenonT(60)
<1>12. k = [f \in ProcFields |-> k[f]] /\ k.parent = p /\ k.maker = proc[p].born /\ k.held = h
  BY <1>7 DEF Nobody, ProcFields
<1>13. PICK n : n = [k EXCEPT !.born = births + 1]
  OBVIOUS
<1>14. /\ n.born = births + 1 /\ n.parent = p /\ n.maker = proc[p].born /\ n.creator = r
       /\ n.markers = e /\ n.held = h /\ n.hook = "no" /\ n.wanted = wanted
       /\ n.cigEnv = d /\ n.cig = FALSE
  BY <1>7, <1>13 DEF Nobody
<1>15. Person(n, births + 1, gui.n)
  <2>1. /\ births + 1 \in Nat /\ births + 1 > 0 /\ gui.n \in Nat
        /\ proc[p].born \in 0..(births + 1)
    BY Numbers
  <2>2. n.held \in {"none", "pl", "caller", "other"}
    BY <1>1, <1>14
  <2>3. n.held = "caller" /\ n.creator \notin {"raw", "unhooked"} => gui.n \notin n.markers
    BY <1>1, <1>3, <1>5, <1>10, <1>11, <1>14
  <2>4. n.wanted \in BOOLEAN /\ n.cigEnv \in BOOLEAN
    BY <1>6, <1>14, Zenon DEF Deferred
  <2>5. n.wanted /\ n.creator = "hooked" => n.cigEnv
    BY <1>5, <1>6, <1>14 DEF Deferred
  <2>6. n.held = "pl" => n.maker # 0
    BY <1>9, <1>14 DEF Running, Alive
  <2> QED BY <1>11, <1>14, <2>1, <2>2, <2>3, <2>4, <2>5, <2>6, Newborn
<1>16. k.held = "pl" => own
  BY <1>1, <1>12
<1> QED BY <1>9, <1>12, <1>13, <1>15, <1>16, CreateStep

LEMMA LogonStep ==
  ASSUME GInv, NEW p \in Pids, NEW c \in Pids, NEW own \in BOOLEAN, NEW block,
         CreateProcessWithLogonW(p, c, own, block)
  PROVE  GInv'
<1>1. PICK h : h = IF own THEN "pl" ELSE "caller"
  OBVIOUS
<1>2. PICK base : base = IF block = "inherit" THEN {} ELSE BlockMarkers(p, block)
  OBVIOUS
<1>3. PICK rewrite \in BOOLEAN : rewrite = (block # "inherit" /\ proc[p].guard # 0)
  OBVIOUS
<1>4. PICK e : e = IF rewrite THEN BuildChildEnvironment(base, own, proc[p].guard) ELSE base
  OBVIOUS
<1>5. PICK k : k = [Nobody EXCEPT !.parent = p, !.maker = proc[p].born, !.creator = "hooked",
                       !.held = h, !.markers = e]
  OBVIOUS
<1>6. Born(c, k)
  BY <1>1, <1>2, <1>3, <1>4, <1>5, Zenon DEF CreateProcessWithLogonW
<1>7. /\ Running(p) /\ proc[p].hook = "on" /\ making[p].stage = "idle" /\ c # p
      /\ making' = [making EXCEPT ![p] = [child |-> c, born |-> births + 1, own |-> own,
                                          linked |-> FALSE, stage |-> "connect"]]
      /\ wire' = wire /\ UNCHANGED <<gui, centre, book, ghosts>>
  BY DEF CreateProcessWithLogonW
<1>8. Person(proc[p], births, gui.n) /\ base \subseteq proc[p].markers /\ proc[p].guard # 0
  BY <1>2, <1>7, Numbers DEF BlockMarkers, Person
<1>9. e \subseteq 1..gui.n /\ (rewrite /\ ~own => gui.n \notin e)
  BY <1>4, <1>7, <1>8, ChildMarkers, ZenonT(60)
<1>10. ~rewrite => e = {}
  BY <1>2, <1>3, <1>4, <1>8
<1>11. k = [f \in ProcFields |-> k[f]] /\ k.parent = p /\ k.maker = proc[p].born /\ k.held = h
  BY <1>5 DEF Nobody, ProcFields
<1>12. PICK n : n = [k EXCEPT !.born = births + 1]
  OBVIOUS
<1>13. /\ n.born = births + 1 /\ n.parent = p /\ n.maker = proc[p].born /\ n.creator = "hooked"
       /\ n.markers = e /\ n.held = h /\ n.hook = "no" /\ n.wanted = FALSE
       /\ n.cigEnv = FALSE /\ n.cig = FALSE
  BY <1>5, <1>12 DEF Nobody
<1>14. Person(n, births + 1, gui.n)
  <2>1. /\ births + 1 \in Nat /\ births + 1 > 0 /\ gui.n \in Nat
        /\ proc[p].born \in 0..(births + 1)
    BY Numbers
  <2>2. n.held \in {"none", "pl", "caller", "other"}
    BY <1>1, <1>13
  <2>3. n.held = "caller" => gui.n \notin n.markers
    BY <1>1, <1>9, <1>10, <1>13
  <2>4. n.held = "pl" => n.maker # 0
    BY <1>7, <1>13 DEF Running, Alive
  <2> QED BY <1>9, <1>13, <2>1, <2>2, <2>3, <2>4, Newborn
<1>15. k.held = "pl" => own
  BY <1>1, <1>11
<1> QED BY <1>6, <1>7, <1>11, <1>12, <1>14, <1>15, CreateStep

-----------------------------------------------------------------------------
(* FinishChildCreation. *)

LEMMA HandsMoved ==
  ASSUME GInv, Evolution, NEW p \in Pids, making[p].stage # "idle", Continues(proc[p], proc'[p]),
         making'[p].child = making[p].child, making'[p].born = making[p].born,
         making'[p].stage \in {"connect", "ask", "inject", "resume", "notice"}
  PROVE  Hands(p)'
<1>1. PICK m : m = making[p]
  OBVIOUS
<1>2. /\ Alive(p) /\ m.child \in Pids /\ Home(m.child, m.born) /\ m.born \in 1..births
      /\ proc[m.child].born = m.born =>
            proc[m.child].parent = p /\ proc[m.child].maker = proc[p].born
  BY <1>1 DEF GInv, Creations, Hands, Same, Home
<1>3. Home(m.child, m.born)'
  BY <1>2, HomeKept
<1>4. ASSUME proc'[m.child].born = m.born
      PROVE  proc'[m.child].parent = p /\ proc'[m.child].maker = proc'[p].born
  <2>1. Continues(proc[m.child], proc'[m.child]) /\ proc[m.child].born = m.born
    BY <1>2, <1>4, Lasts
  <2> QED BY <1>2, <2>1 DEF Continues
<1>5. Alive(p)'
  BY <1>2 DEF Alive, Continues
<1> QED BY <1>1, <1>2, <1>3, <1>4, <1>5 DEF Hands, Same

(* The child of a creation goes on, changed or not. *)
LEMMA ChildMoves ==
  ASSUME GInv, NEW p \in Pids, making[p].stage # "idle", births' = births, gui' = gui,
         NEW n, proc' = [proc EXCEPT ![making[p].child] = n], n = [f \in ProcFields |-> n[f]],
         Person(n, births, gui.n), Continues(proc[making[p].child], n)
  PROVE  /\ Evolution /\ People' /\ IsFunction(proc') /\ making[p].child \in Pids
         /\ \A q \in Pids : proc'[q] = [f \in ProcFields |-> proc'[q][f]]
         /\ \A q \in Pids : Continues(proc[q], proc'[q])
         /\ proc'[making[p].child] = n
<1>1. PICK c : c = making[p].child
  OBVIOUS
<1>2. c \in Pids
  BY <1>1 DEF GInv, Creations, Hands
<1>3. Evolves(proc[c], n) /\ births' \in {births, births + 1} /\ Person(n, births', gui.n)
  BY <1>1 DEF Evolves
<1>4. /\ Evolution /\ People' /\ IsFunction(proc')
      /\ \A q \in Pids : proc'[q] = [f \in ProcFields |-> proc'[q][f]]
      /\ proc'[c] = n /\ \A q \in Pids : q # c => proc'[q] = proc[q]
  BY <1>1, <1>2, <1>3, OneProc
<1>5. \A q \in Pids : Continues(proc[q], proc'[q])
  BY <1>1, <1>4, SelfContinues
<1> QED BY <1>1, <1>2, <1>4, <1>5

(* A creation goes on to a later stage before the release. *)
LEMMA StageStep ==
  ASSUME GInv, NEW p \in Pids, making[p].stage # "idle", births' = births,
         UNCHANGED <<gui, centre, book, ghosts>>, wire' = wire,
         NEW n, proc' = [proc EXCEPT ![making[p].child] = n], n = [f \in ProcFields |-> n[f]],
         Person(n, births, gui.n), Continues(proc[making[p].child], n),
         NEW m, making' = [making EXCEPT ![p] = m], m = [f \in MakingFields |-> m[f]],
         m.child = making[p].child, m.born = making[p].born, m.own = making[p].own,
         m.stage \in {"connect", "ask", "inject", "resume"}
  PROVE  GInv'
<1>1. gui' = gui
  OBVIOUS
<1>2. /\ Evolution /\ People' /\ IsFunction(proc')
      /\ \A q \in Pids : proc'[q] = [f \in ProcFields |-> proc'[q][f]]
      /\ \A q \in Pids : Continues(proc[q], proc'[q])
  BY <1>1, ChildMoves
<1>3. making'[p] = m
  BY DEF GInv, Shapes, IsFunction
<1>4. Hands(p)'
  BY <1>2, <1>3, HandsMoved
<1>5. \A q \in Pids : q # p /\ making[q].stage # "idle" => Continues(proc[q], proc'[q])
  BY <1>2
<1>6. \A c \in Pids : \/ Holding(c)'
                      \/ /\ Continues(proc[c], proc'[c])
                         /\ proc[c].parent # p \/ proc[p].born # proc[c].maker
  <2> SUFFICES ASSUME NEW c \in Pids, proc[c].parent = p, proc[p].born = proc[c].maker,
                      proc'[c].held = "pl"
               PROVE  Holding(c)'
    BY <1>2 DEF Holding
  <2>1. Continues(proc[c], proc'[c]) /\ Continues(proc[p], proc'[p])
    BY <1>2
  <2>2. making[p].child = c /\ making[p].born = proc[c].born /\ making[p].own
    BY <2>1 DEF GInv, Creations, Holding, Continues
  <2>3. proc'[c].born = proc[c].born /\ proc'[c].parent = p
    BY <2>1 DEF Continues
  <2> QED BY <1>3, <2>2, <2>3, ZenonT(60) DEF Holding
<1>7. /\ Creations' /\ IsFunction(making')
      /\ \A q \in Pids : making'[q] = [f \in MakingFields |-> making'[q][f]]
  <2>1. Evolution
    BY <1>2
  <2> QED BY <1>4, <1>5, <1>6, <2>1, MakingStep
<1>8. Messages'
  BY <1>2, WireKept
<1> QED BY <1>2, <1>7, <1>8, Assemble

LEMMA MakingShape ==
  ASSUME GInv, NEW p \in Pids
  PROVE  making[p] = [f \in MakingFields |-> making[p][f]]
BY DEF GInv, Shapes

LEMMA Unmoved ==
  ASSUME GInv, NEW p \in Pids, making[p].stage # "idle", proc' = proc
  PROVE  LET c == making[p].child IN
         /\ c \in Pids /\ proc' = [proc EXCEPT ![c] = proc[c]]
         /\ proc[c] = [f \in ProcFields |-> proc[c][f]]
         /\ Person(proc[c], births, gui.n) /\ Continues(proc[c], proc[c])
<1>1. PICK c : c = making[p].child
  OBVIOUS
<1>2. c \in Pids
  BY <1>1 DEF GInv, Creations, Hands
<1>3. proc = [proc EXCEPT ![c] = proc[c]]
  BY <1>2 DEF GInv, Shapes, IsFunction
<1> QED BY <1>1, <1>2, <1>3, ProcShape, SelfContinues

LEMMA AskSteps ==
  ASSUME GInv, NEW p \in Pids, NEW yes, FinishConnect(p) \/ FinishAsk(p, yes)
  PROVE  GInv'
<1>1. /\ making[p].stage # "idle" /\ births' = births /\ wire' = wire /\ proc' = proc
      /\ UNCHANGED <<gui, centre, book, ghosts>>
  BY DEF FinishConnect, FinishAsk, At, OtherState
<1>2. PICK m : /\ making' = [making EXCEPT ![p] = m]
               /\ m = [f \in MakingFields |-> m[f]] /\ m.child = making[p].child
               /\ m.born = making[p].born /\ m.own = making[p].own
               /\ m.stage \in {"ask", "inject", "resume"}
  <2>1. CASE FinishConnect(p)
    <3>1. PICK m : m = [making[p] EXCEPT !.linked = Served(p),
                                         !.stage = IF Served(p) THEN "ask" ELSE "resume"]
      OBVIOUS
    <3>2. making' = [making EXCEPT ![p] = m]
      BY <2>1, <3>1 DEF FinishConnect
    <3>3. /\ m = [f \in MakingFields |-> m[f]] /\ m.child = making[p].child
          /\ m.born = making[p].born /\ m.own = making[p].own
          /\ m.stage \in {"ask", "inject", "resume"}
      BY <3>1, MakingShape DEF MakingFields
    <3> QED BY <3>2, <3>3
  <2>2. CASE FinishAsk(p, yes)
    <3>1. PICK m : m = [making[p] EXCEPT !.stage = IF yes THEN "inject" ELSE "resume"]
      OBVIOUS
    <3>2. making' = [making EXCEPT ![p] = m]
      BY <2>2, <3>1 DEF FinishAsk
    <3>3. /\ m = [f \in MakingFields |-> m[f]] /\ m.child = making[p].child
          /\ m.born = making[p].born /\ m.own = making[p].own
          /\ m.stage \in {"ask", "inject", "resume"}
      BY <3>1, MakingShape DEF MakingFields
    <3> QED BY <3>2, <3>3
  <2> QED BY <2>1, <2>2
<1>3. PICK n : n = proc[making[p].child]
  OBVIOUS
<1>4. /\ proc' = [proc EXCEPT ![making[p].child] = n] /\ n = [f \in ProcFields |-> n[f]]
      /\ Person(n, births, gui.n) /\ Continues(proc[making[p].child], n)
  BY <1>1, <1>3, Unmoved
<1> QED BY <1>1, <1>2, <1>4, StageStep

LEMMA InjectStep ==
  ASSUME GInv, NEW p \in Pids, NEW done, FinishInject(p, done)
  PROVE  GInv'
<1>1. /\ making[p].stage # "idle" /\ births' = births /\ wire' = wire
      /\ UNCHANGED <<gui, centre, book, ghosts>>
  BY DEF FinishInject, At, OtherState
<1>2. PICK m : m = [making[p] EXCEPT !.stage = "resume"]
  OBVIOUS
<1>3. making' = [making EXCEPT ![p] = m]
  BY <1>2 DEF FinishInject
<1>4. /\ m = [f \in MakingFields |-> m[f]] /\ m.child = making[p].child
      /\ m.born = making[p].born /\ m.own = making[p].own /\ m.stage = "resume"
  BY <1>2, MakingShape DEF MakingFields
<1>5. PICK c : c = making[p].child
  OBVIOUS
<1>6. c \in Pids
  BY <1>1, <1>5 DEF GInv, Creations, Hands
<1>7. PICK n : /\ proc' = [proc EXCEPT ![c] = n] /\ n = [f \in ProcFields |-> n[f]]
               /\ Person(n, births, gui.n) /\ Continues(proc[c], n)
  <2>1. CASE proc' = proc
    BY <1>1, <1>5, <2>1, Unmoved
  <2>2. CASE proc' = [proc EXCEPT ![c] = InjectDll(@, proc[p].pipe)]
    <3>1. PICK n : n = [proc[c] EXCEPT !.arm = proc[p].pipe]
      OBVIOUS
    <3>2. proc' = [proc EXCEPT ![c] = n]
      BY <2>2, <3>1 DEF InjectDll
    <3>3. /\ n = [f \in ProcFields |-> n[f]]
          /\ n.born = proc[c].born /\ n.maker = proc[c].maker /\ n.parent = proc[c].parent
          /\ n.creator = proc[c].creator /\ n.held = proc[c].held /\ n.hook = proc[c].hook
          /\ n.wanted = proc[c].wanted /\ n.cigEnv = proc[c].cigEnv /\ n.cig = proc[c].cig
          /\ n.markers = proc[c].markers /\ n.guard = proc[c].guard
      BY <1>6, <3>1, ProcShape, ZenonT(60) DEF ProcFields
    <3>4. Person(n, births, gui.n)
      BY <1>6, <3>3, Numbers, SamePerson
    <3>5. Continues(proc[c], n)
      BY <3>3 DEF Continues
    <3> QED BY <3>2, <3>3, <3>4, <3>5
  <2> QED BY <1>5, <2>1, <2>2 DEF FinishInject
<1> QED BY <1>1, <1>3, <1>4, <1>5, <1>7, StageStep

LEMMA ResumeStep ==
  ASSUME GInv, NEW p \in Pids, FinishResume(p)
  PROVE  GInv'
<1>1. /\ making[p].stage = "resume" /\ births' = births /\ wire' = wire /\ gui' = gui
      /\ UNCHANGED <<gui, centre, book, ghosts>>
  BY DEF FinishResume, At, OtherState
<1>2. PICK m : m = IF making[p].own /\ making[p].linked THEN [making[p] EXCEPT !.stage = "notice"] ELSE Idle
  OBVIOUS
<1>3. making' = [making EXCEPT ![p] = m]
  BY <1>2 DEF FinishResume
<1>4. /\ m = [f \in MakingFields |-> m[f]]
      /\ m.stage = "idle" \/ (m.stage = "notice" /\ m.child = making[p].child /\ m.born = making[p].born)
  BY <1>2, MakingShape DEF MakingFields, Idle
<1>5. PICK c : c = making[p].child
  OBVIOUS
<1>6. c \in Pids
  BY <1>1, <1>5 DEF GInv, Creations, Hands
<1>7. PICK n : /\ proc' = [proc EXCEPT ![c] = n] /\ n = [f \in ProcFields |-> n[f]]
               /\ Person(n, births, gui.n) /\ Continues(proc[c], n)
               /\ making[p].own /\ making[p].born = proc[c].born => n.held = "none"
  <2>1. CASE ~(making[p].own /\ Same(making[p]))
    <3>1. proc' = proc
      BY <2>1 DEF FinishResume
    <3> QED BY <1>1, <1>5, <2>1, <3>1, Unmoved DEF Same
  <2>2. CASE making[p].own /\ Same(making[p])
    <3>1. PICK n : n = [proc[c] EXCEPT !.held = "none"]
      OBVIOUS
    <3>2. proc' = [proc EXCEPT ![c] = n]
      BY <1>5, <2>2, <3>1 DEF FinishResume
    <3>3. /\ n = [f \in ProcFields |-> n[f]] /\ n.held = "none"
          /\ n.born = proc[c].born /\ n.maker = proc[c].maker /\ n.parent = proc[c].parent
          /\ n.creator = proc[c].creator /\ n.hook = proc[c].hook
          /\ n.wanted = proc[c].wanted /\ n.cigEnv = proc[c].cigEnv /\ n.cig = proc[c].cig
          /\ n.markers = proc[c].markers /\ n.guard = proc[c].guard
      BY <1>6, <3>1, ProcShape, ZenonT(60) DEF ProcFields
    <3>4. Person(n, births, gui.n)
      BY <1>6, <3>3, ProcShape, ZenonT(60) DEF Person
    <3>5. Continues(proc[c], n)
      BY <3>3 DEF Continues
    <3> QED BY <3>2, <3>3, <3>4, <3>5
  <2> QED BY <2>1, <2>2
<1>8. /\ Evolution /\ People' /\ IsFunction(proc')
      /\ \A q \in Pids : proc'[q] = [f \in ProcFields |-> proc'[q][f]]
      /\ \A q \in Pids : Continues(proc[q], proc'[q])
      /\ proc'[c] = n
  BY <1>1, <1>5, <1>7, ChildMoves
<1>9. making'[p] = m
  BY <1>3 DEF GInv, Shapes, IsFunction
<1>10. Hands(p)'
  <2>1. CASE m.stage = "idle"
    BY <1>9, <2>1 DEF Hands
  <2>2. CASE m.stage # "idle"
    BY <1>1, <1>4, <1>8, <1>9, <2>2, HandsMoved
  <2> QED BY <2>1, <2>2
<1>11. \A q \in Pids : q # p /\ making[q].stage # "idle" => Continues(proc[q], proc'[q])
  BY <1>8
<1>12. \A d \in Pids : \/ Holding(d)'
                       \/ /\ Continues(proc[d], proc'[d])
                          /\ proc[d].parent # p \/ proc[p].born # proc[d].maker
  <2> SUFFICES ASSUME NEW d \in Pids, proc[d].parent = p, proc[p].born = proc[d].maker,
                      proc'[d].held = "pl"
               PROVE  FALSE
    BY <1>8 DEF Holding
  <2>1. Continues(proc[d], proc'[d])
    BY <1>8
  <2>2. making[p].child = d /\ making[p].born = proc[d].born /\ making[p].own
    BY <2>1 DEF GInv, Creations, Holding, Continues
  <2> QED BY <1>5, <1>7, <1>8, <2>2
<1>13. /\ Creations' /\ IsFunction(making')
       /\ \A q \in Pids : making'[q] = [f \in MakingFields |-> making'[q][f]]
  <2>1. Evolution /\ m = [f \in MakingFields |-> m[f]]
    BY <1>4, <1>8
  <2> QED BY <1>3, <1>10, <1>11, <1>12, <2>1, MakingStep
<1>14. Messages'
  BY <1>1, <1>8, WireKept
<1> QED BY <1>1, <1>8, <1>13, <1>14, Assemble

LEMMA NoticeStep ==
  ASSUME GInv, NEW p \in Pids, FinishNotice(p)
  PROVE  GInv'
<1>1. /\ making[p].stage = "notice" /\ births' = births /\ proc' = proc /\ gui' = gui
      /\ making' = [making EXCEPT ![p] = Idle]
      /\ UNCHANGED <<gui, centre, book, ghosts>>
  BY DEF FinishNotice, At, OtherState
<1>2. PICK m : m = [kind |-> "released", pid |-> making[p].child, born |-> making[p].born, err |-> FALSE]
  OBVIOUS
<1>3. wire' \subseteq wire \cup {m}
  BY <1>2 DEF FinishNotice
<1>4. Evolution /\ \A q \in Pids : Continues(proc[q], proc'[q])
  BY <1>1, SameProc, SelfContinues
<1>5. Truth(m)
  <2>1. PICK c : c = making[p].child
    OBVIOUS
  <2>2. c \in Pids /\ Home(c, making[p].born)
    BY <1>1, <2>1 DEF GInv, Creations, Hands
  <2>3. proc[c].born = making[p].born => proc[c].held # "pl"
    BY <1>1, <2>1, <2>2 DEF GInv, Creations, Hands, Holding, Same
  <2> QED BY <1>2, <2>1, <2>2, <2>3 DEF Truth
<1>6. Messages'
  BY <1>3, <1>4, <1>5, MessagesKept DEF GInv, Messages
<1>7. making'[p] = Idle /\ Idle.stage = "idle" /\ Idle = [f \in MakingFields |-> Idle[f]]
  BY <1>1 DEF GInv, Shapes, IsFunction, Idle, MakingFields
<1>8. Hands(p)'
  BY <1>7 DEF Hands
<1>9. \A q \in Pids : q # p /\ making[q].stage # "idle" => Continues(proc[q], proc'[q])
  BY <1>4
<1>10. \A d \in Pids : \/ Holding(d)'
                       \/ /\ Continues(proc[d], proc'[d])
                          /\ proc[d].parent # p \/ proc[p].born # proc[d].maker
  <2> SUFFICES ASSUME NEW d \in Pids, proc[d].parent = p, proc[p].born = proc[d].maker,
                      proc[d].held = "pl"
               PROVE  FALSE
    BY <1>1, <1>4 DEF Holding
  <2> QED BY <1>1 DEF GInv, Creations, Holding
<1>11. /\ Creations' /\ IsFunction(making')
       /\ \A q \in Pids : making'[q] = [f \in MakingFields |-> making'[q][f]]
  <2>1. Evolution /\ Idle = [f \in MakingFields |-> Idle[f]] /\ making' = [making EXCEPT ![p] = Idle]
    BY <1>1, <1>4, <1>7
  <2> QED BY <1>8, <1>9, <1>10, <2>1, MakingStep
<1>12. People' /\ IsFunction(proc') /\ \A q \in Pids : proc'[q] = [f \in ProcFields |-> proc'[q][f]]
  BY <1>1 DEF GInv, People, Home, Alive, Shapes
<1> QED BY <1>1, <1>4, <1>6, <1>11, <1>12, Assemble

-----------------------------------------------------------------------------
(* The hook in an injected process. *)

LEMMA RestoredPerson ==
  ASSUME NEW k, NEW n, NEW b \in Nat, NEW g, Person(k, b, g), k.born # 0,
         n.born = k.born, n.maker = k.maker, n.parent = k.parent, n.creator = k.creator,
         n.held = "none", n.hook \in {"on", "failed"}, n.wanted = k.wanted,
         n.cigEnv = FALSE, n.cig = (k.cig \/ k.cigEnv), n.markers \subseteq 1..g,
         n.hook = "on" => n.guard \in 1..g /\ n.markers \subseteq 1..n.guard
  PROVE  Person(n, b, g)
<1>1. n.cigEnv \in BOOLEAN /\ n.cig \in BOOLEAN
  BY Zenon
<1>2. n.wanted /\ n.creator = "hooked" => n.cig
  BY DEF Person
<1> QED BY <1>1, <1>2, Zenon DEF Person

LEMMA HookStep ==
  ASSUME GInv, NEW p \in Pids, Running(p), NEW n, proc' = [proc EXCEPT ![p] = n],
         births' = births, making' = making, UNCHANGED <<gui, centre, book, ghosts>>,
         n = [f \in ProcFields |-> n[f]], Person(n, births, gui.n), Continues(proc[p], n),
         n.held = "none",
         \A m \in wire' : \/ m \in wire
                          \/ /\ m.kind \in {"register", "result"} /\ m.pid = p
                             /\ m.born = proc[p].born /\ m.err \in BOOLEAN
                             /\ m.kind = "result" /\ ~m.err => n.hook = "on"
  PROVE  GInv'
<1>1. Evolves(proc[p], n) /\ Person(n, births', gui.n) /\ births' \in {births, births + 1}
  BY DEF Evolves
<1>2. ASSUME Evolution, proc'[p] = n PROVE Messages'
  <2>1. Home(p, proc[p].born)
    BY DEF GInv, People, Running, Alive
  <2>2. PICK b : b = proc[p].born
    OBVIOUS
  <2>3. Home(p, b)'
    BY <1>2, <2>1, <2>2, HomeKept
  <2>4. ASSUME NEW m \in wire' PROVE Truth(m)'
    <3>1. CASE m \in wire
      BY <1>2, <3>1, MessagesKept DEF GInv, Messages
    <3>2. CASE m \notin wire
      <4>1. /\ m.kind \in {"register", "result"} /\ m.pid = p /\ m.born = b /\ m.err \in BOOLEAN
            /\ m.kind = "result" /\ ~m.err => n.hook = "on"
        BY <2>2, <3>2
      <4> QED BY <1>2, <2>3, <4>1 DEF Truth
    <3> QED BY <3>1, <3>2
  <2> QED BY <2>4 DEF Messages
<1> QED BY <1>1, <1>2, OneStep

LEMMA Announcing ==
  ASSUME NEW p, NEW good \in BOOLEAN, NEW m \in Announced(p, good)
  PROVE  /\ m.kind \in {"register", "result"} /\ m.pid = p /\ m.born = proc[p].born
         /\ m.err \in BOOLEAN /\ (m.kind = "result" /\ ~m.err => good)
<1>1. PICK bad \in BOOLEAN : bad = ~good
  OBVIOUS
<1>2. m = Message(p, "register", FALSE) \/ m = Message(p, "result", bad)
  BY <1>1, Zenon DEF Announced
<1>3. CASE m = Message(p, "register", FALSE)
  <2>1. m.pid = p /\ m.born = proc[p].born /\ m.kind = "register"
    BY <1>3 DEF Message
  <2>2. m.err = FALSE
    BY <1>3, Zenon DEF Message
  <2> QED BY <2>1, <2>2
<1>4. CASE m = Message(p, "result", bad)
  <2>1. m.pid = p /\ m.born = proc[p].born /\ m.kind = "result"
    BY <1>4 DEF Message
  <2>2. m.err = bad
    BY <1>4, Zenon DEF Message
  <2> QED BY <1>1, <2>1, <2>2
<1> QED BY <1>2, <1>3, <1>4

LEMMA gp_HookWinsockStep ==
  ASSUME GInv, NEW p \in Pids, NEW o, gp_HookWinsock(p, o)
  PROVE  GInv'
<1>0. /\ births' = births /\ making' = making /\ UNCHANGED <<gui, centre, book, ghosts>>
      /\ Running(p) /\ proc[p].born # 0 /\ proc[p].held = "none"
  BY DEF gp_HookWinsock, Running, Alive
<1>1. PICK k : k = proc[p]
  OBVIOUS
<1>2. k = [f \in ProcFields |-> k[f]] /\ Person(k, births, gui.n)
  BY <1>1, ProcShape
<1>3. CASE k.hook = "on"
  <2>1. PICK x : x = IF up /\ k.arm = gui.n THEN k.arm ELSE k.pipe
    OBVIOUS
  <2>2. PICK n : n = [k EXCEPT !.arm = 0, !.pipe = x]
    OBVIOUS
  <2>3. proc' = [proc EXCEPT ![p] = n]
    BY <1>1, <1>3, <2>1, <2>2 DEF gp_HookWinsock, RebindPRC
  <2>4. /\ n = [f \in ProcFields |-> n[f]]
        /\ n.born = k.born /\ n.maker = k.maker /\ n.parent = k.parent
        /\ n.creator = k.creator /\ n.held = k.held /\ n.hook = k.hook
        /\ n.wanted = k.wanted /\ n.cigEnv = k.cigEnv /\ n.cig = k.cig
        /\ n.markers = k.markers /\ n.guard = k.guard
    BY <1>2, <2>2 DEF ProcFields
  <2>5. Person(n, births, gui.n)
    BY <1>2, <2>4, Numbers, SamePerson
  <2>6. Continues(proc[p], n)
    BY <1>1, <2>4 DEF Continues
  <2>7. wire' \subseteq wire \cup Announced(p, TRUE)
    BY <1>1, <1>3 DEF gp_HookWinsock, RebindPRC
  <2>8. \A m \in wire' : \/ m \in wire
                         \/ /\ m.kind \in {"register", "result"} /\ m.pid = p
                            /\ m.born = proc[p].born /\ m.err \in BOOLEAN
                            /\ m.kind = "result" /\ ~m.err => n.hook = "on"
    <3>1. TRUE \in BOOLEAN
      OBVIOUS
    <3>2. \A m \in Announced(p, TRUE) : /\ m.kind \in {"register", "result"} /\ m.pid = p
                                         /\ m.born = proc[p].born /\ m.err \in BOOLEAN
      BY <3>1, Announcing, Zenon
    <3> QED BY <1>3, <2>4, <2>7, <3>2
  <2> QED BY <1>0, <1>1, <2>3, <2>4, <2>5, <2>6, <2>8, HookStep
<1>4. CASE k.hook # "on" /\ o = "unpinned"
  <2>2. PICK n : n = [k EXCEPT !.arm = 0, !.hook = "failed"]
    OBVIOUS
  <2>3. proc' = [proc EXCEPT ![p] = n]
    BY <1>1, <1>4, <2>2 DEF gp_HookWinsock
  <2>4. /\ n = [f \in ProcFields |-> n[f]]
        /\ n.born = k.born /\ n.maker = k.maker /\ n.parent = k.parent
        /\ n.creator = k.creator /\ n.held = k.held /\ n.hook = "failed"
        /\ n.wanted = k.wanted /\ n.cigEnv = k.cigEnv /\ n.cig = k.cig
        /\ n.markers = k.markers /\ n.guard = k.guard
    BY <1>2, <2>2 DEF ProcFields
  <2>5. Person(n, births, gui.n)
    BY <1>0, <1>1, <1>2, <2>4 DEF Person
  <2>6. Continues(proc[p], n)
    BY <1>1, <1>4, <2>4 DEF Continues
  <2>7. wire' \subseteq wire \cup {Message(p, "result", TRUE)}
    BY <1>1, <1>4 DEF gp_HookWinsock
  <2>8. \A m \in wire' : \/ m \in wire
                         \/ /\ m.kind \in {"register", "result"} /\ m.pid = p
                            /\ m.born = proc[p].born /\ m.err \in BOOLEAN
                            /\ m.kind = "result" /\ ~m.err => n.hook = "on"
    <3>1. PICK r : r = Message(p, "result", TRUE)
      OBVIOUS
    <3>2. r.kind = "result" /\ r.pid = p /\ r.born = proc[p].born
      BY <3>1 DEF Message
    <3>3. r.err = TRUE
      BY <3>1, Zenon DEF Message
    <3> QED BY <2>7, <3>1, <3>2, <3>3
  <2> QED BY <1>0, <1>1, <2>3, <2>4, <2>5, <2>6, <2>8, HookStep
<1>5. CASE k.hook # "on" /\ o # "unpinned" /\ ~(up /\ k.arm = gui.n)
  <2>2. PICK n : n = RestoreCigPolicy([k EXCEPT !.arm = 0, !.hook = "failed"])
    OBVIOUS
  <2>3. proc' = [proc EXCEPT ![p] = n] /\ wire' = wire
    BY <1>1, <1>5, <2>2 DEF gp_HookWinsock
  <2>4. /\ n = [f \in ProcFields |-> n[f]]
        /\ n.born = k.born /\ n.maker = k.maker /\ n.parent = k.parent
        /\ n.creator = k.creator /\ n.held = k.held /\ n.hook = "failed"
        /\ n.wanted = k.wanted /\ n.cigEnv = FALSE /\ n.cig = (k.cig \/ k.cigEnv)
        /\ n.markers = k.markers /\ n.guard = k.guard
    BY <1>2, <2>2 DEF ProcFields, RestoreCigPolicy
  <2>5. Person(n, births, gui.n)
    <3>1. k.markers \subseteq 1..gui.n
      BY <1>2 DEF Person
    <3> QED BY <1>0, <1>1, <1>2, <2>4, <3>1, Numbers, RestoredPerson, ZenonT(60)
  <2>6. Continues(proc[p], n)
    BY <1>1, <1>5, <2>4 DEF Continues
  <2> QED BY <1>0, <1>1, <2>3, <2>4, <2>5, <2>6, HookStep
<1>6. CASE k.hook # "on" /\ o # "unpinned" /\ up /\ k.arm = gui.n
  <2>1. PICK good \in BOOLEAN : good = (o = "good")
    OBVIOUS
  <2>2. PICK n : n = RestoreCigPolicy(EnableHook(k, good))
    OBVIOUS
  <2>3. proc' = [proc EXCEPT ![p] = n] /\ wire' = wire \cup Announced(p, good)
    BY <1>1, <1>6, <2>1, <2>2 DEF gp_HookWinsock
  <2>4. /\ n = [f \in ProcFields |-> n[f]]
        /\ n.born = k.born /\ n.maker = k.maker /\ n.parent = k.parent
        /\ n.creator = k.creator /\ n.held = k.held /\ n.hook = (IF good THEN "on" ELSE "failed")
        /\ n.wanted = k.wanted /\ n.cigEnv = FALSE /\ n.cig = (k.cig \/ k.cigEnv)
        /\ n.markers = (IF good THEN k.markers \cup {gui.n} ELSE k.markers \ {gui.n})
        /\ n.guard = (IF good THEN gui.n ELSE 0)
    BY <1>2, <1>6, <2>2 DEF ProcFields, RestoreCigPolicy, EnableHook, HookWinsock
  <2>5. Person(n, births, gui.n)
    <3>1. k.markers \subseteq 1..gui.n /\ gui.n \in 1..gui.n
      BY <1>2, Numbers DEF Person
    <3>2. n.markers \subseteq 1..gui.n /\ n.hook \in {"on", "failed"}
      BY <2>4, <3>1
    <3>3. n.hook = "on" => n.guard \in 1..gui.n /\ n.markers \subseteq 1..n.guard
      BY <2>4, <3>1, <3>2
    <3> QED BY <1>0, <1>1, <1>2, <2>4, <3>2, <3>3, Numbers, RestoredPerson, ZenonT(60)
  <2>6. Continues(proc[p], n)
    BY <1>1, <1>6, <2>4 DEF Continues
  <2>8. \A m \in wire' : \/ m \in wire
                         \/ /\ m.kind \in {"register", "result"} /\ m.pid = p
                            /\ m.born = proc[p].born /\ m.err \in BOOLEAN
                            /\ m.kind = "result" /\ ~m.err => n.hook = "on"
    <3>1. \A m \in Announced(p, good) :
             /\ m.kind \in {"register", "result"} /\ m.pid = p /\ m.born = proc[p].born
             /\ m.err \in BOOLEAN /\ (m.kind = "result" /\ ~m.err => good)
      BY Announcing
    <3> QED BY <2>3, <2>4, <3>1
  <2> QED BY <1>0, <1>1, <2>3, <2>4, <2>5, <2>6, <2>8, HookStep
<1> QED BY <1>3, <1>4, <1>5, <1>6

-----------------------------------------------------------------------------
(* The centre and the registry: the processes stand still. *)

Still == UNCHANGED <<proc, births, making>>

LEMMA StillWorld ==
  ASSUME GInv, Still
  PROVE  /\ Evolution /\ Creations' /\ (\A m : Truth(m) => Truth(m)')
         /\ (gui' = gui => People')
<1>1. proc' = proc /\ births' = births /\ making' = making
  BY DEF Still
<1>2. Evolution /\ \A q \in Pids : Continues(proc[q], proc'[q])
  BY <1>1, SameProc, SelfContinues
<1>3. Undisturbed
  BY <1>1, <1>2 DEF Undisturbed
<1>4. Creations'
  BY <1>2, <1>3, CreationsKept
<1>5. \A m : Truth(m) => Truth(m)'
  BY <1>2, MessagesKept
<1>6. gui' = gui => People'
  BY <1>1 DEF GInv, People, Home, Alive
<1> QED BY <1>2, <1>4, <1>5, <1>6

(* Shapes that a step of the centre keeps. *)
LEMMA StillShapes ==
  ASSUME GInv, Still, gui'.n \in Nat \ {0}, IsFunction(registry'), IsFunction(released'),
         IsFunction(observed'), IsFunction(processed'),
         \A p \in Pids : registry'[p] = [f \in EntryFields |-> registry'[p][f]],
         sweep' = [f \in SweepFields |-> sweep'[f]], IsFunction(sweep'.next),
         prune' = [f \in PruneFields |-> prune'[f]]
  PROVE  Shapes'
<1>1. proc' = proc /\ births' = births /\ making' = making
  BY DEF Still
<1> QED BY <1>1 DEF GInv, Shapes, IsFunction

LEMMA BookEntry ==
  ASSUME GInv, Still, prune' = prune, NEW p \in Pids, NEW b, Home(p, b), NEW e,
         e = [f \in EntryFields |-> e[f]], e.born \in 0..births,
         e.state \in {"pending", "succeeded", "failed"},
         Alive(p) => /\ e.born = proc[p].born
                     /\ proc[p].born \notin mistaken' =>
                          proc[p].held # "pl" /\ (e.state = "succeeded" => proc[p].hook = "on"),
         registry' = [registry EXCEPT ![p] = e], joined' = joined \cup {b},
         mistaken \subseteq mistaken', mistaken' \subseteq mistaken \cup {b}
  PROVE  /\ Ledger' /\ IsFunction(registry')
         /\ \A q \in Pids : registry'[q] = [f \in EntryFields |-> registry'[q][f]]
<1>1. proc' = proc /\ births' = births
  BY DEF Still
<1>2. registry'[p] = e /\ (\A q \in Pids : q # p => registry'[q] = registry[q]) /\ IsFunction(registry')
  BY DEF GInv, Shapes, IsFunction
<1>3. \A q \in Pids : registry'[q] = [f \in EntryFields |-> registry'[q][f]]
  BY <1>2, ZenonT(60) DEF GInv, Shapes
<1>4. ASSUME NEW q \in Pids PROVE Entry(q)'
  <2>1. CASE q = p
    BY <1>1, <1>2, <2>1, Numbers DEF Entry, Alive
  <2>2. CASE q # p
    <3>1. Alive(q) => proc[q].born # b
      BY <2>2 DEF Home
    <3>2. Entry(q)
      BY DEF GInv, Ledger
    <3> QED BY <1>1, <1>2, <2>2, <3>1, <3>2 DEF Entry, Alive
  <2> QED BY <2>1, <2>2
<1>5. ASSUME NEW q \in Pids PROVE Pruned(q)'
  BY <1>1 DEF GInv, Ledger, Pruned, Alive
<1>6. joined' \subseteq 1..births' /\ mistaken' \subseteq 1..births'
  BY <1>1 DEF GInv, Ledger, Home
<1>7. prune'.stage \in {"idle", "copied", "erase"}
  BY DEF GInv, Ledger
<1> QED BY <1>2, <1>3, <1>4, <1>5, <1>6, <1>7 DEF Ledger

LEMMA Entries ==
  ASSUME GInv, NEW m, Truth(m), ~Contradicted(m), NEW e, e = registry[m.pid],
         NEW f, f = Register(e, m) \/ (f = Update(e, m) /\ m.kind = "result")
  PROVE  /\ f = [x \in EntryFields |-> f[x]] /\ f.born \in 0..births
         /\ f.state \in {"pending", "succeeded", "failed"}
         /\ Alive(m.pid) => /\ f.born = proc[m.pid].born /\ proc[m.pid].held # "pl"
                            /\ f.state = "succeeded" /\ proc[m.pid].born \notin mistaken =>
                                 proc[m.pid].hook = "on"
<1>1. PICK p : p = m.pid
  OBVIOUS
<1>2. p \in Pids /\ Home(p, m.born) /\ m.born \in 1..births
  BY <1>1 DEF Truth, Home
<1>3. Entry(p) /\ e = [x \in EntryFields |-> e[x]]
  BY <1>1, <1>2 DEF GInv, Ledger, Shapes
<1>4. PICK g : g = EntryFor(e, m.born)
  OBVIOUS
<1>5. /\ g = [x \in EntryFields |-> g[x]] /\ g.born = m.born
      /\ g.state \in {"pending", "succeeded", "failed"}
      /\ g.state = "succeeded" => e.born = m.born /\ e.state = "succeeded"
  BY <1>1, <1>3, <1>4 DEF EntryFor, NoEntry, EntryFields, Entry
<1>6. Alive(p) => proc[p].born = m.born /\ ~(e.born > m.born) /\ proc[p].held # "pl"
  BY <1>1, <1>2, <1>3, Numbers DEF Contradicted, Truth, Entry, Alive
<1>7. CASE e.born > m.born
  <2>1. f = e /\ ~Alive(p)
    BY <1>6, <1>7 DEF Register, Update
  <2> QED BY <1>1, <1>3, <2>1 DEF Entry
<1>8. CASE ~(e.born > m.born) /\ f = Register(e, m)
  <2>1. f = [g EXCEPT !.path = TRUE]
    BY <1>4, <1>8 DEF Register
  <2>2. f = [x \in EntryFields |-> f[x]] /\ f.born = g.born /\ f.state = g.state
    BY <1>5, <2>1 DEF EntryFields
  <2>3. f.state = "succeeded" /\ Alive(p) /\ proc[p].born \notin mistaken => proc[p].hook = "on"
    BY <1>1, <1>3, <1>5, <1>6, <2>2 DEF Entry
  <2> QED BY <1>1, <1>2, <1>5, <1>6, <2>2, <2>3, Numbers
<1>9. CASE ~(e.born > m.born) /\ f = Update(e, m) /\ m.kind = "result"
  <2>1. PICK s : s = IF m.err THEN "failed" ELSE "succeeded"
    OBVIOUS
  <2>2. f = IF g.state = "succeeded" THEN g ELSE [g EXCEPT !.state = s]
    BY <1>4, <1>9, <2>1 DEF Update
  <2>3. /\ f = [x \in EntryFields |-> f[x]] /\ f.born = g.born
        /\ f.state = g.state \/ (f.state = s)
    BY <1>5, <2>2 DEF EntryFields
  <2>4. f.state \in {"pending", "succeeded", "failed"}
    BY <1>5, <2>1, <2>3
  <2>5. f.state = "succeeded" /\ Alive(p) /\ proc[p].born \notin mistaken => proc[p].hook = "on"
    <3>1. g.state = "succeeded" /\ Alive(p) /\ proc[p].born \notin mistaken => proc[p].hook = "on"
      BY <1>1, <1>3, <1>5, <1>6 DEF Entry
    <3>2. s = "succeeded" /\ Alive(p) => proc[p].hook = "on"
      BY <1>1, <1>6, <1>9, <2>1 DEF Truth
    <3> QED BY <2>3, <3>1, <3>2
  <2> QED BY <1>1, <1>2, <1>5, <1>6, <2>3, <2>4, <2>5, Numbers
<1> QED BY <1>7, <1>8, <1>9

LEMMA StillCentre ==
  ASSUME GInv, Still, UNCHANGED <<released, processed, observed, sweep, told, overtaken>>
  PROVE  Centre'
BY StillWorld, CentreKept

LEMMA StillLedger ==
  ASSUME GInv, Still, UNCHANGED <<registry, joined, mistaken, prune>>
  PROVE  Ledger'
BY StillWorld, LedgerKept

LEMMA StillVictims ==
  ASSUME GInv, victims' = victims
  PROVE  Victims'
BY DEF GInv, Victims, SparesReleased, KillsWhatItWatched, SparesCallers

LEMMA StillMessages ==
  ASSUME GInv, Still, wire' \subseteq wire
  PROVE  Messages'
BY StillWorld DEF GInv, Messages

LEMMA HackConnectStep ==
  ASSUME GInv, NEW p \in Pids, HackConnect(p)
  PROVE  GInv'
<1>1. PICK m : m = Message(p, "connect", FALSE)
  OBVIOUS
<1>2. /\ Still /\ wire' = wire \cup {m} /\ UNCHANGED <<gui, centre, book, ghosts>>
      /\ Alive(p) /\ proc[p].held = "none" /\ proc[p].hook = "on"
  BY <1>1 DEF HackConnect, Still, Running
<1>3. /\ gui' = gui /\ victims' = victims /\ sweep' = sweep
      /\ UNCHANGED <<released, processed, observed, told, overtaken>>
      /\ UNCHANGED <<registry, joined, mistaken, prune>>
  BY <1>2 DEF centre, book, ghosts
<1>4. People' /\ Creations' /\ Victims' /\ Centre' /\ Ledger'
  BY <1>2, <1>3, StillWorld, StillVictims, StillCentre, StillLedger
<1>5. m.pid = p /\ m.born = proc[p].born /\ m.kind = "connect"
  BY <1>1 DEF Message
<1>6. m.err = FALSE
  BY <1>1, Zenon DEF Message
<1>7. Truth(m)
  BY <1>2, <1>5, <1>6 DEF Truth, GInv, People
<1>8. Messages'
  BY <1>2, <1>7, StillWorld DEF GInv, Messages
<1>9. Shapes'
  BY <1>2, <1>3, StillShapes DEF GInv, Shapes
<1> QED BY <1>4, <1>8, <1>9 DEF GInv

LEMMA ReleasedStep ==
  ASSUME GInv, Still, NEW m, Truth(m), ~Contradicted(m), HandleReleased(m), sweep' = sweep,
         UNCHANGED <<observed, processed>>
  PROVE  Centre' /\ IsFunction(released')
<1>1. PICK p : p = m.pid
  OBVIOUS
<1>2. p \in Pids /\ Home(p, m.born) /\ m.born \in 1..births
  BY <1>1 DEF Truth, Home
<1>3. /\ proc' = proc /\ births' = births
      /\ released' = [released EXCEPT ![p] = m.born] /\ told' = told \cup {m.born}
      /\ overtaken' = IF sweep.stage = "prune" /\ sweep.snap[p].born # m.born
                      THEN overtaken \cup {m.born} ELSE overtaken
  BY <1>1 DEF Still, HandleReleased
<1>4. released'[p] = m.born /\ (\A q \in Pids : q # p => released'[q] = released[q]) /\ IsFunction(released')
  BY <1>2, <1>3 DEF GInv, Shapes, IsFunction
<1>5. ASSUME NEW q \in Pids PROVE Memory(q)'
  <2>1. Memory(q)
    BY DEF GInv, Centre
  <2>2. CASE q = p
    <3>1. Alive(p) => proc[p].born = m.born /\ proc[p].held # "pl"
      BY <1>1 DEF Contradicted, Truth
    <3>2. m.born \in 0..births
      BY <1>2, Numbers
    <3> QED BY <1>3, <1>4, <2>1, <2>2, <3>1, <3>2 DEF Memory, Alive
  <2>3. CASE q # p
    <3>1. proc[q].born # m.born
      BY <1>2, <2>3 DEF Home
    <3> QED BY <1>3, <1>4, <2>1, <2>3, <3>1 DEF Memory, Alive
  <2> QED BY <2>2, <2>3
<1>6. ASSUME NEW q \in Pids PROVE Seen(q)'
  BY <1>3 DEF GInv, Centre, Seen, Alive
<1>7. told' \subseteq 1..births' /\ overtaken' \subseteq 1..births'
  BY <1>2, <1>3 DEF GInv, Centre
<1>8. Aimed' /\ sweep'.todo \subseteq Pids
  BY <1>3 DEF GInv, Centre, Aimed
<1> QED BY <1>4, <1>5, <1>6, <1>7, <1>8 DEF Centre

(* A process looked up for a connection goes into the registry; unless it  *)
(* is the one that connected, it is from then on among the mistaken.       *)
LEMMA ResolveStep ==
  ASSUME GInv, Still, NEW m, Truth(m), m.kind = "connect", ResolveProcPath(m),
         UNCHANGED <<prune, sweep, observed, processed>>
  PROVE  /\ Ledger' /\ Centre' /\ IsFunction(registry') /\ IsFunction(released')
         /\ \A q \in Pids : registry'[q] = [f \in EntryFields |-> registry'[q][f]]
<1>1. PICK p : p = m.pid
  OBVIOUS
<1>2. PICK b : b = proc[p].born
  OBVIOUS
<1>3. PICK w : w = Message(p, "result", FALSE)
  OBVIOUS
<1>4. w.born = b
  BY <1>2, <1>3 DEF Message
<1>5. w.err = FALSE
  BY <1>3, Zenon DEF Message
<1>6. PICK e : e = registry[p]
  OBVIOUS
<1>7. PICK f : f = Update(Register(e, w), w)
  OBVIOUS
<1>8. /\ p \in Pids /\ Alive(p) /\ registry' = [registry EXCEPT ![p] = f]
      /\ joined' = joined \cup {b} /\ mistaken' = IF b = m.born THEN mistaken ELSE mistaken \cup {b}
      /\ UNCHANGED <<released, told, overtaken>>
  BY <1>1, <1>3, <1>4, <1>6, <1>7 DEF ResolveProcPath, Truth
<1>9. Home(p, b) /\ b \in 0..births /\ b = proc[p].born
  BY <1>2, <1>8, Numbers DEF GInv, People, Person
<1>10. Entry(p) /\ e = [x \in EntryFields |-> e[x]]
  BY <1>6, <1>8 DEF GInv, Ledger, Shapes
<1>11. e.born \in Nat /\ ~(e.born > b) /\ e.state \in {"pending", "succeeded", "failed"}
  BY <1>6, <1>8, <1>9, <1>10, Numbers DEF Entry
<1>12. PICK g : g = EntryFor(e, b)
  OBVIOUS
<1>13. g = [x \in EntryFields |-> g[x]] /\ g.born = b /\ g.state \in {"pending", "succeeded", "failed"}
  BY <1>10, <1>11, <1>12 DEF EntryFor, NoEntry, EntryFields
<1>14. PICK h : h = [g EXCEPT !.path = TRUE]
  OBVIOUS
<1>15. h = [x \in EntryFields |-> h[x]] /\ h.born = b /\ h.state \in {"pending", "succeeded", "failed"}
  BY <1>13, <1>14 DEF EntryFields
<1>16. Register(e, w) = h
  BY <1>4, <1>11, <1>12, <1>14 DEF Register
<1>17. f = IF h.state = "succeeded" THEN h ELSE [h EXCEPT !.state = "succeeded"]
  <2>1. ~(h.born > b)
    BY <1>9, <1>15, Numbers
  <2>2. EntryFor(h, b) = h
    BY <1>15 DEF EntryFor
  <2> QED BY <1>4, <1>5, <1>7, <1>16, <2>1, <2>2, Zenon DEF Update
<1>18. f = [x \in EntryFields |-> f[x]] /\ f.born = b /\ f.state = "succeeded"
  BY <1>15, <1>17 DEF EntryFields
<1>19. b \notin mistaken' => proc[p].held # "pl" /\ proc[p].hook = "on"
  BY <1>1, <1>8, <1>9 DEF Truth
<1>20. /\ Ledger' /\ IsFunction(registry')
       /\ \A q \in Pids : registry'[q] = [x \in EntryFields |-> registry'[q][x]]
  BY <1>8, <1>9, <1>18, <1>19, BookEntry
<1>21. Centre'
  BY <1>8, StillCentre
<1> QED BY <1>8, <1>20, <1>21 DEF GInv, Shapes

LEMMA HandleStep ==
  ASSUME GInv, NEW m \in wire, Handle(m)
  PROVE  GInv'
<1>1. /\ Still /\ gui' = gui /\ victims' = victims /\ prune' = prune /\ sweep' = sweep
      /\ observed' = observed /\ processed' = processed /\ wire' \subseteq wire
  BY DEF Handle, Still
<1>2. People' /\ Creations' /\ Messages' /\ Victims'
  BY <1>1, StillWorld, StillMessages, StillVictims
<1>3. Truth(m)
  BY DEF GInv, Messages
<1>4. /\ Ledger' /\ Centre' /\ IsFunction(registry') /\ IsFunction(released')
      /\ \A q \in Pids : registry'[q] = [f \in EntryFields |-> registry'[q][f]]
  <2>1. CASE UNCHANGED <<registry, released, told, joined, overtaken, mistaken>>
    BY <1>1, <2>1, StillLedger, StillCentre DEF GInv, Shapes
  <2>2. CASE ~Contradicted(m) /\ (HandleIdentity(m) \/ HandleResult(m))
    <3>1. PICK e : e = registry[m.pid]
      OBVIOUS
    <3>2. PICK f :
             /\ f = Register(e, m) \/ (f = Update(e, m) /\ m.kind = "result")
             /\ registry' = [registry EXCEPT ![m.pid] = f]
      BY <2>2, <3>1 DEF HandleIdentity, HandleResult
    <3>3. joined' = joined \cup {m.born} /\ UNCHANGED <<released, told, overtaken, mistaken>>
      BY <2>2 DEF HandleIdentity, HandleResult
    <3>4. /\ f = [x \in EntryFields |-> f[x]] /\ f.born \in 0..births
          /\ f.state \in {"pending", "succeeded", "failed"}
          /\ Alive(m.pid) => /\ f.born = proc[m.pid].born /\ proc[m.pid].held # "pl"
                             /\ f.state = "succeeded" /\ proc[m.pid].born \notin mistaken =>
                                  proc[m.pid].hook = "on"
      BY <1>3, <2>2, <3>1, <3>2, Entries
    <3>5. m.pid \in Pids /\ Home(m.pid, m.born)
      BY <1>3 DEF Truth
    <3>6. /\ Ledger' /\ IsFunction(registry')
          /\ \A q \in Pids : registry'[q] = [x \in EntryFields |-> registry'[q][x]]
      BY <1>1, <3>2, <3>3, <3>4, <3>5, BookEntry
    <3> QED BY <1>1, <3>3, <3>6, StillCentre DEF GInv, Shapes
  <2>3. CASE ~Contradicted(m) /\ HandleReleased(m)
    <3>1. UNCHANGED <<registry, joined, mistaken>>
      BY <2>3 DEF HandleReleased
    <3> QED BY <1>1, <1>3, <2>3, <3>1, StillLedger, ReleasedStep DEF GInv, Shapes
  <2>4. CASE m.kind = "connect" /\ ResolveProcPath(m)
    BY <1>1, <1>3, <2>4, ResolveStep
  <2> QED BY <2>1, <2>2, <2>3, <2>4 DEF Handle, OnAccept
<1>5. Shapes'
  BY <1>1, <1>4, StillShapes DEF GInv, Shapes
<1> QED BY <1>2, <1>4, <1>5 DEF GInv

(* The centre forgets everything. *)
LEMMA Forgotten ==
  ASSUME GInv, Still, released' = [p \in Pids |-> 0], processed' = [p \in Pids |-> 0],
         observed' = [p \in Pids |-> NoSight], told' = {}, overtaken' = {},
         sweep'.stage = "idle", sweep'.target = 0, sweep'.todo \subseteq Pids,
         \A p \in Pids : sweep'.next[p].checks \in 0..2
  PROVE  /\ Centre' /\ IsFunction(released') /\ IsFunction(processed') /\ IsFunction(observed')
<1>1. proc' = proc /\ births' = births
  BY DEF Still
<1>2. IsFunction(released') /\ IsFunction(processed') /\ IsFunction(observed')
  BY DEF IsFunction
<1>3. ASSUME NEW p \in Pids PROVE Memory(p)' /\ Seen(p)'
  BY <1>1, Numbers DEF Memory, Seen, NoSight, Alive
<1>4. Aimed'
  BY DEF Aimed
<1> QED BY <1>2, <1>3, <1>4 DEF Centre

LEMMA DestroyStep ==
  ASSUME GInv, DestroyPRC
  PROVE  GInv'
<1>1. /\ Still /\ gui' = gui /\ victims' = victims /\ prune' = prune /\ sweep' = sweep
      /\ registry' = registry /\ joined' = joined /\ mistaken' = mistaken /\ wire' \subseteq wire
  BY DEF DestroyPRC, Still, book
<1>2. People' /\ Creations' /\ Messages' /\ Victims' /\ Ledger'
  BY <1>1, StillWorld, StillMessages, StillVictims, StillLedger
<1>3. Centre' /\ IsFunction(released') /\ IsFunction(processed') /\ IsFunction(observed')
  <2>1. /\ sweep'.stage = "idle" /\ sweep'.target = 0 /\ sweep'.todo \subseteq Pids
        /\ \A p \in Pids : sweep'.next[p].checks \in 0..2
    BY <1>1 DEF DestroyPRC, GInv, Centre, Aimed, Memory
  <2> QED BY <1>1, <2>1, Forgotten DEF DestroyPRC
<1>4. Shapes'
  BY <1>1, <1>3, StillShapes DEF GInv, Shapes
<1> QED BY <1>2, <1>3, <1>4 DEF GInv

LEMMA CreateServiceStep ==
  ASSUME GInv, CreatePRC
  PROVE  GInv'
<1>1. /\ Still /\ gui' = gui /\ victims' = victims /\ prune' = prune /\ sweep' = sweep
      /\ registry' = registry /\ joined' = joined /\ mistaken' = mistaken /\ wire' \subseteq wire
      /\ UNCHANGED <<released, processed, observed, told, overtaken>>
  BY DEF CreatePRC, Still, book, ghosts
<1>2. People' /\ Creations' /\ Messages' /\ Victims' /\ Ledger' /\ Centre'
  BY <1>1, StillWorld, StillMessages, StillVictims, StillLedger, StillCentre
<1>3. Shapes'
  BY <1>1, StillShapes DEF GInv, Shapes
<1> QED BY <1>2, <1>3 DEF GInv

LEMMA RestartStep ==
  ASSUME GInv, RestartGui
  PROVE  GInv'
<1>1. /\ Still /\ gui' = [n |-> gui.n + 1, since |-> births + 1] /\ victims' = victims
      /\ prune' = NoPrune /\ sweep' = NoSweep
      /\ registry' = [p \in Pids |-> NoEntry] /\ joined' = {} /\ mistaken' = {}
      /\ wire' \subseteq wire
      /\ released' = [p \in Pids |-> 0] /\ processed' = [p \in Pids |-> 0]
      /\ observed' = [p \in Pids |-> NoSight] /\ told' = {} /\ overtaken' = {}
  BY DEF RestartGui, Still
<1>2. Creations' /\ Messages' /\ Victims'
  BY <1>1, StillWorld, StillMessages, StillVictims
<1>3. proc' = proc /\ births' = births /\ gui'.n = gui.n + 1
  BY <1>1 DEF Still
<1>4. Ledger'
  <2>1. \A p \in Pids : Entry(p)' /\ Pruned(p)'
    BY <1>1, <1>3, Numbers DEF Entry, Pruned, NoEntry, NoPrune, Alive
  <2> QED BY <1>1, <2>1 DEF Ledger, NoPrune
<1>5. Centre' /\ IsFunction(released') /\ IsFunction(processed') /\ IsFunction(observed')
  <2>1. /\ sweep'.stage = "idle" /\ sweep'.target = 0 /\ sweep'.todo \subseteq Pids
        /\ \A p \in Pids : sweep'.next[p].checks \in 0..2
    BY <1>1 DEF NoSweep, NoSight
  <2> QED BY <1>1, <2>1, Forgotten
<1>6. People'
  <2>1. ASSUME NEW p \in Pids PROVE Person(proc[p], births, gui.n + 1)
    <3>1. PICK k : k = proc[p]
      OBVIOUS
    <3>2. Person(k, births, gui.n)
      BY <3>1, Numbers
    <3>3. PICK g : g = gui.n
      OBVIOUS
    <3>4. g \in Nat /\ 1..g \subseteq 1..(g + 1) /\ g + 1 \notin 1..g
      BY <3>3, Numbers
    <3>5. k.markers \subseteq 1..(g + 1) /\ g + 1 \notin k.markers /\ (k.hook = "on" => k.guard \in 1..(g + 1))
      BY <3>2, <3>3, <3>4 DEF Person
    <3> QED BY <3>1, <3>2, <3>3, <3>5, Zenon DEF Person
  <2> QED BY <1>3, <2>1 DEF GInv, People, Home, Alive
<1>7. Shapes'
  <2>1. IsFunction(registry') /\ \A p \in Pids : registry'[p] = [f \in EntryFields |-> registry'[p][f]]
    BY <1>1 DEF IsFunction, NoEntry, EntryFields
  <2>2. sweep' = [f \in SweepFields |-> sweep'[f]] /\ IsFunction(sweep'.next)
    BY <1>1 DEF NoSweep, SweepFields, IsFunction
  <2>3. prune' = [f \in PruneFields |-> prune'[f]]
    BY <1>1 DEF NoPrune, PruneFields
  <2>4. gui'.n \in Nat \ {0}
    BY <1>3, Numbers
  <2> QED BY <1>1, <1>5, <2>1, <2>2, <2>3, <2>4, StillShapes
<1> QED BY <1>2, <1>4, <1>5, <1>6, <1>7 DEF GInv

LEMMA BookOnly ==
  ASSUME GInv, Still, UNCHANGED <<gui, wire, centre, ghosts>>, Ledger', IsFunction(registry'),
         \A p \in Pids : registry'[p] = [f \in EntryFields |-> registry'[p][f]],
         prune' = [f \in PruneFields |-> prune'[f]]
  PROVE  GInv'
<1>1. /\ gui' = gui /\ victims' = victims /\ sweep' = sweep /\ wire' \subseteq wire
      /\ UNCHANGED <<released, processed, observed, told, overtaken>>
  BY DEF centre, ghosts
<1>2. People' /\ Creations' /\ Messages' /\ Victims' /\ Centre'
  BY <1>1, StillWorld, StillMessages, StillVictims, StillCentre
<1>3. Shapes'
  BY <1>1, StillShapes DEF GInv, Shapes
<1> QED BY <1>2, <1>3 DEF GInv

LEMMA PruneSteps ==
  ASSUME GInv, PruneCopy \/ PruneSnapshot
  PROVE  GInv'
<1>1. /\ Still /\ registry' = registry /\ joined' = joined /\ mistaken' = mistaken
      /\ UNCHANGED <<gui, wire, centre, ghosts>>
      /\ proc' = proc /\ births' = births
  BY DEF PruneCopy, PruneSnapshot, Still, ghosts
<1>2. ASSUME NEW p \in Pids PROVE Entry(p)' /\ Entry(p) /\ Pruned(p)
  BY <1>1 DEF GInv, Ledger, Entry, Alive
<1>3. prune = [f \in PruneFields |-> prune[f]]
  BY DEF GInv, Shapes
<1>4. CASE PruneCopy
  <2>1. prune' = [NoPrune EXCEPT !.stage = "copied", !.copy = registry]
    BY <1>4 DEF PruneCopy
  <2>2. /\ prune' = [f \in PruneFields |-> prune'[f]]
        /\ prune'.stage = "copied" /\ prune'.copy = registry
    BY <2>1 DEF NoPrune, PruneFields
  <2>3. \A p \in Pids : Pruned(p)'
    BY <1>1, <1>2, <2>2 DEF Pruned, Entry
  <2>4. Ledger'
    BY <1>1, <1>2, <2>2, <2>3 DEF GInv, Ledger
  <2> QED BY <1>1, <2>2, <2>4, BookOnly DEF GInv, Shapes
<1>5. CASE PruneSnapshot
  <2>1. PICK t : prune' = [prune EXCEPT !.stage = "erase", !.snap = [p \in Pids |-> proc[p].born],
                                        !.todo = t]
    BY <1>5 DEF PruneSnapshot
  <2>2. /\ prune' = [f \in PruneFields |-> prune'[f]]
        /\ prune'.stage = "erase" /\ prune'.copy = prune.copy
        /\ prune'.snap = [p \in Pids |-> proc[p].born] /\ prune.stage = "copied"
    BY <1>3, <1>5, <2>1 DEF PruneFields, PruneSnapshot
  <2>3. \A p \in Pids : Pruned(p)'
    BY <1>1, <1>2, <2>2 DEF Pruned
  <2>4. Ledger'
    BY <1>1, <1>2, <2>2, <2>3 DEF GInv, Ledger
  <2> QED BY <1>1, <2>2, <2>4, BookOnly DEF GInv, Shapes
<1> QED BY <1>4, <1>5

(* What is erased was gone when the snapshot was taken, and no process     *)
(* comes back.                                                             *)
LEMMA PruneEraseStep ==
  ASSUME GInv, PruneErase
  PROVE  GInv'
<1>1. /\ Still /\ joined' = joined /\ mistaken' = mistaken /\ UNCHANGED <<gui, wire, centre, ghosts>>
      /\ proc' = proc /\ births' = births /\ prune.stage = "erase"
  BY DEF PruneErase, Still, ghosts
<1>2. prune = [f \in PruneFields |-> prune[f]] /\ joined \subseteq 1..births /\ mistaken \subseteq 1..births
  BY DEF GInv, Shapes, Ledger
<1>3. \A p \in Pids : Entry(p) /\ Pruned(p)
  BY DEF GInv, Ledger
<1>4. CASE prune.todo = {}
  <2>1. prune' = NoPrune /\ registry' = registry
    BY <1>4 DEF PruneErase
  <2>2. prune' = [f \in PruneFields |-> prune'[f]] /\ prune'.stage = "idle"
    BY <2>1 DEF NoPrune, PruneFields
  <2>3. \A p \in Pids : Entry(p)' /\ Pruned(p)'
    BY <1>1, <1>3, <2>1, <2>2 DEF Entry, Pruned, Alive
  <2>4. Ledger'
    BY <1>1, <1>2, <2>2, <2>3 DEF Ledger
  <2> QED BY <1>1, <2>1, <2>2, <2>4, BookOnly DEF GInv, Shapes
<1>5. CASE prune.todo # {}
  <2>1. PICK p : p = Min(prune.todo)
    OBVIOUS
  <2>2. /\ prune' = [prune EXCEPT !.todo = @ \ {p}]
        /\ registry' = IF prune.snap[p] # prune.copy[p].born /\ registry[p].born = prune.copy[p].born
                       THEN [registry EXCEPT ![p] = NoEntry] ELSE registry
    BY <1>5, <2>1 DEF PruneErase, HasExited
  <2>3. /\ prune' = [f \in PruneFields |-> prune'[f]]
        /\ prune'.stage = "erase" /\ prune'.copy = prune.copy /\ prune'.snap = prune.snap
    BY <1>1, <1>2, <2>2 DEF PruneFields
  <2>4. /\ IsFunction(registry')
        /\ \A q \in Pids : \/ registry'[q] = registry[q]
                           \/ /\ registry'[q] = NoEntry /\ prune.snap[q] # prune.copy[q].born
                              /\ registry[q].born = prune.copy[q].born
    BY <2>2 DEF GInv, Shapes, IsFunction
  <2>5. \A q \in Pids : registry'[q] = [f \in EntryFields |-> registry'[q][f]]
    <3>1. NoEntry = [f \in EntryFields |-> NoEntry[f]]
      BY DEF NoEntry, EntryFields
    <3> QED BY <2>4, <3>1, ZenonT(60) DEF GInv, Shapes
  <2>6. ASSUME NEW q \in Pids PROVE Entry(q)'
    <3>1. CASE registry'[q] = registry[q]
      BY <1>1, <1>3, <3>1 DEF Entry, Alive
    <3>2. CASE registry'[q] # registry[q]
      <4>1. /\ registry'[q] = NoEntry /\ prune.snap[q] # prune.copy[q].born
            /\ registry[q].born = prune.copy[q].born
        BY <2>4, <3>2
      <4>2. NoEntry.born = 0 /\ NoEntry.state = "pending"
        BY DEF NoEntry
      <4>3. Alive(q) => registry[q].born # proc[q].born
        BY <1>1, <1>3, <4>1 DEF Pruned
      <4>4. Alive(q) => proc[q].born \notin joined
        BY <1>3, <4>3 DEF Entry
      <4> QED BY <1>1, <4>1, <4>2, <4>4, Numbers DEF Entry, Alive
    <3> QED BY <3>1, <3>2
  <2>7. \A q \in Pids : Pruned(q)'
    BY <1>1, <1>3, <2>3 DEF Pruned, Alive
  <2>8. Ledger'
    BY <1>1, <1>2, <2>3, <2>6, <2>7 DEF Ledger
  <2> QED BY <1>1, <2>3, <2>4, <2>5, <2>8, BookOnly
<1> QED BY <1>4, <1>5

-----------------------------------------------------------------------------
(* The sweep. *)

LEMMA SweepOnly ==
  ASSUME GInv, Still, UNCHANGED <<gui, wire, book, ghosts>>, Centre', IsFunction(released'),
         IsFunction(observed'), IsFunction(processed'),
         sweep' = [f \in SweepFields |-> sweep'[f]], IsFunction(sweep'.next)
  PROVE  GInv'
<1>1. /\ gui' = gui /\ victims' = victims /\ wire' \subseteq wire
      /\ UNCHANGED <<registry, prune, joined, mistaken>>
  BY DEF book, ghosts
<1>2. People' /\ Creations' /\ Messages' /\ Victims' /\ Ledger'
  BY <1>1, StillWorld, StillMessages, StillVictims, StillLedger
<1>3. Shapes'
  BY <1>1, StillShapes DEF GInv, Shapes
<1> QED BY <1>2, <1>3 DEF GInv

LEMMA SweepSnapshotStep ==
  ASSUME GInv, SweepSnapshot
  PROVE  GInv'
<1>1. /\ Still /\ UNCHANGED <<gui, wire, book, ghosts>> /\ UNCHANGED <<released, processed, observed>>
      /\ proc' = proc /\ births' = births /\ told' = told /\ overtaken' = overtaken
      /\ sweep' = [NoSweep EXCEPT !.stage = "prune", !.snap = [p \in Pids |-> Sight(proc[p])]]
  BY DEF SweepSnapshot, Still, ghosts
<1>2. /\ sweep' = [f \in SweepFields |-> sweep'[f]] /\ IsFunction(sweep'.next)
      /\ sweep'.stage = "prune" /\ sweep'.target = 0 /\ sweep'.todo = {}
      /\ sweep'.snap = [p \in Pids |-> Sight(proc[p])]
      /\ \A p \in Pids : sweep'.next[p].checks = 0
  BY <1>1 DEF NoSweep, NoSight, SweepFields, IsFunction
<1>3. \A p \in Pids : sweep'.snap[p].born = proc[p].born /\ sweep'.snap[p].creator = proc[p].creator
  BY <1>2 DEF Sight
<1>4. ASSUME NEW p \in Pids PROVE Memory(p)' /\ Seen(p)'
  <2>1. Memory(p) /\ proc[p].born \in 0..births
    BY Numbers DEF GInv, Centre
  <2>2. sweep'.next[p].checks \in 0..2
    BY <1>2
  <2>3. Memory(p)'
    BY <1>1, <1>3, <2>1, <2>2 DEF Memory, Alive
  <2> QED BY <1>1, <1>3, <2>1, <2>3 DEF Seen, Alive
<1>5. Aimed'
  BY <1>2 DEF Aimed
<1>6. Centre'
  BY <1>1, <1>2, <1>4, <1>5 DEF GInv, Centre
<1> QED BY <1>1, <1>2, <1>6, SweepOnly DEF GInv, Shapes

LEMMA SweepPruneStep ==
  ASSUME GInv, SweepPrune
  PROVE  GInv'
<1>1. /\ Still /\ UNCHANGED <<gui, wire, book, ghosts>>
      /\ proc' = proc /\ births' = births /\ told' = told /\ overtaken' = overtaken
      /\ sweep.stage = "prune"
      /\ released' = [p \in Pids |-> IF sweep.snap[p].born = released[p] THEN released[p] ELSE 0]
      /\ observed' = [p \in Pids |-> IF sweep.snap[p].born = observed[p].born THEN observed[p] ELSE NoSight]
      /\ processed' = [p \in Pids |-> IF sweep.snap[p].born = processed[p] THEN processed[p] ELSE 0]
  BY DEF SweepPrune, Still, ghosts
<1>2. PICK t \in SUBSET Pids : sweep' = [sweep EXCEPT !.stage = "scan", !.todo = t]
  BY DEF SweepPrune
<1>3. sweep = [f \in SweepFields |-> sweep[f]] /\ IsFunction(sweep.next) /\ Aimed
  BY DEF GInv, Shapes, Centre
<1>4. /\ sweep' = [f \in SweepFields |-> sweep'[f]] /\ IsFunction(sweep'.next)
      /\ sweep'.stage = "scan" /\ sweep'.todo = t /\ sweep'.target = sweep.target
      /\ sweep'.snap = sweep.snap /\ sweep'.next = sweep.next
  BY <1>2, <1>3 DEF SweepFields
<1>5. IsFunction(released') /\ IsFunction(observed') /\ IsFunction(processed')
  BY <1>1 DEF IsFunction
<1>6. ASSUME NEW p \in Pids PROVE Memory(p)' /\ Seen(p)'
  <2>1. Memory(p) /\ Seen(p) /\ NoSight.checks = 0
    BY DEF GInv, Centre, NoSight
  <2>2. /\ released'[p] = (IF sweep.snap[p].born = released[p] THEN released[p] ELSE 0)
        /\ processed'[p] = (IF sweep.snap[p].born = processed[p] THEN processed[p] ELSE 0)
        /\ observed'[p] = observed[p] \/ observed'[p] = NoSight
    BY <1>1
  <2>3. released'[p] \in 0..births /\ processed'[p] \in 0..births /\ observed'[p].checks \in 0..2
    BY <2>1, <2>2, Numbers DEF Memory
  <2>4. Memory(p)'
    BY <1>1, <1>4, <2>1, <2>2, <2>3 DEF Memory, Alive
  <2> QED BY <1>1, <1>4, <2>1, <2>4 DEF Seen, Alive
<1>7. Aimed'
  BY <1>1, <1>3, <1>4 DEF Aimed
<1>8. Centre'
  BY <1>1, <1>4, <1>6, <1>7 DEF GInv, Centre
<1> QED BY <1>1, <1>4, <1>5, <1>8, SweepOnly

(* A sweep goes on within its scan. *)
LEMMA ScanGoesOn ==
  ASSUME GInv, Still, UNCHANGED <<gui, wire, book, ghosts>>,
         UNCHANGED <<released, observed, processed>>,
         sweep.stage = "scan", sweep' = [f \in SweepFields |-> sweep'[f]], IsFunction(sweep'.next),
         sweep'.snap = sweep.snap, sweep'.todo \subseteq Pids, sweep'.stage \in {"scan", "kill"},
         \A p \in Pids : sweep'.next[p].checks \in 0..2, Aimed'
  PROVE  GInv'
<1>1. proc' = proc /\ births' = births /\ told' = told /\ overtaken' = overtaken
  BY DEF Still, ghosts
<1>2. ASSUME NEW p \in Pids PROVE Memory(p)' /\ Seen(p)'
  <2>1. Memory(p) /\ Seen(p)
    BY DEF GInv, Centre
  <2>2. Memory(p)'
    BY <1>1, <2>1 DEF Memory, Alive
  <2> QED BY <1>1, <2>1, <2>2 DEF Seen, Alive
<1>3. Centre'
  BY <1>1, <1>2 DEF GInv, Centre
<1> QED BY <1>3, SweepOnly DEF GInv, Shapes

LEMMA SweepScanStep ==
  ASSUME GInv, SweepScan
  PROVE  GInv'
<1>1. /\ Still /\ UNCHANGED <<gui, wire, book, ghosts>> /\ UNCHANGED <<released, observed, processed>>
      /\ sweep.stage = "scan" /\ sweep.target = 0 /\ sweep.todo # {} /\ proc' = proc
  BY DEF SweepScan, Still
<1>2. PICK p : p = Min(sweep.todo)
  OBVIOUS
<1>3. p \in Pids /\ sweep.todo \subseteq Pids
  BY <1>1, <1>2, MinIn, PidAssumption DEF GInv, Centre
<1>4. PICK q : q = sweep.snap[p]
  OBVIOUS
<1>5. PICK n : n = Checks(observed[p], q)
  OBVIOUS
<1>6. /\ n \in 1..3
      /\ n >= 2 => observed[p].born = q.born /\ observed[p].cpu = q.cpu
  BY <1>3, <1>5 DEF GInv, Centre, Memory, Checks
<1>7. PICK k : k = Min({n, 2})
  OBVIOUS
<1>8. k \in 0..2
  <2>1. {n, 2} \subseteq Nat /\ {n, 2} # {}
    BY <1>6
  <2>2. k \in {n, 2} /\ k <= 2
    BY <1>7, <2>1, MinIn
  <2> QED BY <1>6, <2>2
<1>9. PICK t : t = IF n < 2 THEN 0 ELSE p
  OBVIOUS
<1>10. PICK e : e = [born |-> q.born, cpu |-> q.cpu, checks |-> k]
  OBVIOUS
<1>11. e.checks = k
  BY <1>10
<1>12. \/ sweep' = [sweep EXCEPT !.todo = @ \ {p}]
       \/ sweep' = [sweep EXCEPT !.todo = @ \ {p}, !.next[p] = e, !.target = t]
  BY <1>2, <1>4, <1>5, <1>7, <1>9, <1>10 DEF SweepScan
<1>13. sweep = [f \in SweepFields |-> sweep[f]] /\ IsFunction(sweep.next)
       /\ \A x \in Pids : sweep.next[x].checks \in 0..2
  BY DEF GInv, Shapes, Centre, Memory
<1>14. /\ sweep' = [f \in SweepFields |-> sweep'[f]]
       /\ sweep'.snap = sweep.snap /\ sweep'.todo = sweep.todo \ {p} /\ sweep'.stage = "scan"
       /\ sweep'.next = sweep.next \/ sweep'.next = [sweep.next EXCEPT ![p] = e]
       /\ sweep'.target \in {0, t}
  BY <1>1, <1>12, <1>13 DEF SweepFields
<1>15. IsFunction(sweep'.next) /\ \A x \in Pids : sweep'.next[x].checks \in 0..2
  BY <1>3, <1>8, <1>11, <1>13, <1>14 DEF IsFunction
<1>16. Aimed'
  BY <1>1, <1>3, <1>4, <1>6, <1>9, <1>14 DEF Aimed
<1>17. sweep'.todo \subseteq Pids
  BY <1>3, <1>14
<1> QED BY <1>1, <1>14, <1>15, <1>16, <1>17, ScanGoesOn

LEMMA SweepRecheckStep ==
  ASSUME GInv, SweepRecheck
  PROVE  GInv'
<1>1. /\ Still /\ UNCHANGED <<gui, wire, book, ghosts>> /\ UNCHANGED <<released, observed, processed>>
      /\ sweep.stage = "scan" /\ sweep.target # 0 /\ proc' = proc
  BY DEF SweepRecheck, Still
<1>2. PICK p : p = sweep.target
  OBVIOUS
<1>3. /\ p \in Pids /\ sweep.todo \subseteq Pids /\ Aimed
      /\ sweep = [f \in SweepFields |-> sweep[f]] /\ IsFunction(sweep.next)
      /\ \A x \in Pids : sweep.next[x].checks \in 0..2
  BY <1>1, <1>2 DEF GInv, Shapes, Centre, Memory, Aimed
<1>4. CASE sweep' = [sweep EXCEPT !.target = 0]
  <2>1. /\ sweep' = [f \in SweepFields |-> sweep'[f]] /\ sweep'.next = sweep.next
        /\ sweep'.snap = sweep.snap /\ sweep'.todo = sweep.todo /\ sweep'.stage = "scan"
        /\ sweep'.target = 0
    BY <1>1, <1>3, <1>4 DEF SweepFields
  <2>2. Aimed'
    BY <2>1 DEF Aimed
  <2> QED BY <1>1, <1>3, <2>1, <2>2, ScanGoesOn
<1>5. CASE sweep' = [sweep EXCEPT !.stage = "kill"] /\ gui.n \in proc[p].markers
  <2>1. /\ sweep' = [f \in SweepFields |-> sweep'[f]] /\ sweep'.next = sweep.next
        /\ sweep'.snap = sweep.snap /\ sweep'.todo = sweep.todo /\ sweep'.stage = "kill"
        /\ sweep'.target = p
    BY <1>2, <1>3, <1>5 DEF SweepFields
  <2>2. proc[p].held = "caller" => proc[p].creator \in {"raw", "unhooked"}
    BY <1>3, <1>5, Numbers DEF Person
  <2>3. Aimed'
    BY <1>1, <1>2, <1>3, <2>1, <2>2 DEF Aimed
  <2> QED BY <1>1, <1>3, <2>1, <2>3, ScanGoesOn
<1> QED BY <1>2, <1>4, <1>5 DEF SweepRecheck, RemoteProcessHasChildGuard, ReadRemoteEnvironmentBlock

LEMMA SweepEndStep ==
  ASSUME GInv, SweepEnd
  PROVE  GInv'
<1>1. /\ Still /\ UNCHANGED <<gui, wire, book, ghosts>> /\ UNCHANGED <<released, processed>>
      /\ proc' = proc /\ births' = births /\ told' = told /\ overtaken' = overtaken
      /\ observed' = sweep.next /\ sweep' = NoSweep
  BY DEF SweepEnd, Still, ghosts
<1>2. /\ sweep' = [f \in SweepFields |-> sweep'[f]] /\ IsFunction(sweep'.next)
      /\ sweep'.stage = "idle" /\ sweep'.target = 0 /\ sweep'.todo = {}
      /\ \A p \in Pids : sweep'.next[p].checks = 0
  BY <1>1 DEF NoSweep, NoSight, SweepFields, IsFunction
<1>3. ASSUME NEW p \in Pids PROVE Memory(p)' /\ Seen(p)'
  <2>1. Memory(p)
    BY DEF GInv, Centre
  <2>2. sweep'.next[p].checks \in 0..2 /\ observed'[p].checks \in 0..2
    BY <1>1, <1>2, <2>1 DEF Memory
  <2>3. Memory(p)'
    BY <1>1, <1>2, <2>1, <2>2 DEF Memory, Alive
  <2> QED BY <1>2, <2>3 DEF Seen
<1>4. Aimed'
  BY <1>2 DEF Aimed
<1>5. Centre'
  BY <1>1, <1>2, <1>3, <1>4 DEF GInv, Centre
<1> QED BY <1>1, <1>2, <1>5, SweepOnly DEF GInv, Shapes

(* The kill: who is hit was watched, is nobody's, and nobody spoke for it. *)
LEMMA VictimIsFair ==
  ASSUME GInv, sweep.stage = "kill", NEW p, p = sweep.target, NEW q, q = sweep.snap[p],
         ~Excluded(p, q), proc[p].born = q.born, NEW v,
         v = [born |-> q.born, held |-> proc[p].held, creator |-> q.creator,
              watched |-> observed[p].born = q.born /\ observed[p].cpu = q.cpu,
              told |-> q.born \in told \ overtaken, joined |-> q.born \in joined]
  PROVE  v.watched /\ ~v.told /\ ~v.joined /\ (v.held = "caller" => v.creator \in {"raw", "unhooked"})
<1>1. /\ p \in Pids /\ Aimed /\ Memory(p) /\ Seen(p) /\ Entry(p)
      /\ told \subseteq 1..births /\ joined \subseteq 1..births
  BY DEF GInv, Centre, Ledger, Aimed
<1>2. observed[p].born = q.born /\ observed[p].cpu = q.cpu
  BY <1>1 DEF Aimed
<1>3. q.born \notin told \ overtaken
  <2>1. CASE Alive(p)
    BY <1>1, <2>1 DEF Memory, Excluded
  <2>2. CASE ~Alive(p)
    <3>1. q.born = 0
      BY <2>2 DEF Alive
    <3> QED BY <1>1, <3>1, Numbers
  <2> QED BY <2>1, <2>2
<1>4. q.born \notin joined
  <2>1. CASE Alive(p)
    BY <1>1, <2>1 DEF Entry, Excluded
  <2>2. CASE ~Alive(p)
    <3>1. q.born = 0
      BY <2>2 DEF Alive
    <3> QED BY <1>1, <3>1, Numbers
  <2> QED BY <2>1, <2>2
<1>5. proc[p].held = "caller" => q.creator \in {"raw", "unhooked"}
  <2>1. proc[p].held = "caller" => Alive(p)
    BY <1>1, Numbers DEF Person, Alive
  <2> QED BY <1>1, <2>1 DEF Aimed, Seen
<1> QED BY <1>2, <1>3, <1>4, <1>5

LEMMA SweepTerminateStep ==
  ASSUME GInv, SweepTerminate
  PROVE  GInv'
<1>1. PICK p : p = sweep.target
  OBVIOUS
<1>2. PICK q : q = sweep.snap[p]
  OBVIOUS
<1>3. /\ births' = births /\ wire' = wire /\ gui' = gui
      /\ UNCHANGED <<registry, prune, joined, mistaken, released, observed, told, overtaken>>
      /\ UNCHANGED <<gui, wire, book>> /\ sweep.stage = "kill"
      /\ sweep' = [sweep EXCEPT !.stage = "scan", !.target = 0]
  BY DEF SweepTerminate, book
<1>4. /\ p \in Pids /\ Aimed /\ sweep = [f \in SweepFields |-> sweep[f]] /\ IsFunction(sweep.next)
      /\ sweep.todo \subseteq Pids
  BY <1>1, <1>3 DEF GInv, Centre, Aimed, Shapes
<1>5. /\ sweep' = [f \in SweepFields |-> sweep'[f]] /\ sweep'.next = sweep.next
      /\ sweep'.snap = sweep.snap /\ sweep'.todo = sweep.todo /\ sweep'.stage = "scan"
      /\ sweep'.target = 0
  BY <1>3, <1>4 DEF SweepFields
<1>6. Aimed'
  BY <1>5 DEF Aimed
<1>7. CASE ~(~Excluded(p, q) /\ proc[p].born = q.born)
  <2>1. proc' = proc /\ making' = making /\ processed' = processed /\ victims' = victims
    BY <1>1, <1>2, <1>7 DEF SweepTerminate
  <2>2. Still /\ UNCHANGED ghosts
    BY <1>3, <2>1 DEF Still, ghosts
  <2>3. ASSUME NEW x \in Pids PROVE Memory(x)' /\ Seen(x)'
    <3>1. Memory(x) /\ Seen(x)
      BY DEF GInv, Centre
    <3>2. Memory(x)'
      BY <1>3, <1>5, <2>1, <3>1 DEF Memory, Alive
    <3> QED BY <1>3, <1>5, <2>1, <3>1, <3>2 DEF Seen, Alive
  <2>4. Centre'
    BY <1>3, <1>4, <1>5, <1>6, <2>3 DEF GInv, Centre
  <2> QED BY <1>3, <1>4, <1>5, <2>1, <2>2, <2>4, SweepOnly DEF GInv, Shapes
<1>8. CASE ~Excluded(p, q) /\ proc[p].born = q.born
  <2>1. PICK v : v = [born |-> q.born, held |-> proc[p].held, creator |-> q.creator,
                      watched |-> observed[p].born = q.born /\ observed[p].cpu = q.cpu,
                      told |-> q.born \in told \ overtaken, joined |-> q.born \in joined]
    OBVIOUS
  <2>2. /\ proc' = [proc EXCEPT ![p] = Nobody] /\ making' = [making EXCEPT ![p] = Idle]
        /\ processed' = [processed EXCEPT ![p] = q.born] /\ victims' = victims \cup {v}
    BY <1>1, <1>2, <1>8, <2>1 DEF SweepTerminate
  <2>3. v.watched /\ ~v.told /\ ~v.joined /\ (v.held = "caller" => v.creator \in {"raw", "unhooked"})
    BY <1>1, <1>2, <1>3, <1>8, <2>1, VictimIsFair
  <2>4. Victims'
    BY <2>2, <2>3 DEF GInv, Victims, SparesReleased, KillsWhatItWatched, SparesCallers
  <2>5. /\ Evolution /\ People' /\ IsFunction(proc')
        /\ \A x \in Pids : proc'[x] = [f \in ProcFields |-> proc'[x][f]]
        /\ proc'[p] = Nobody /\ \A x \in Pids : x # p => proc'[x] = proc[x]
        /\ Creations' /\ Messages' /\ IsFunction(making')
        /\ \A x \in Pids : making'[x] = [f \in MakingFields |-> making'[x][f]]
    BY <1>3, <1>4, <2>2, Ends
  <2>6. Ledger'
    BY <1>3, <2>5, LedgerKept
  <2>7. /\ processed'[p] = q.born /\ (\A x \in Pids : x # p => processed'[x] = processed[x])
        /\ IsFunction(processed')
    BY <1>4, <2>2 DEF GInv, Shapes, IsFunction
  <2>8. ASSUME NEW x \in Pids PROVE Memory(x)' /\ Seen(x)'
    <3>1. Memory(x) /\ Seen(x) /\ proc[p].born \in 0..births
      BY <1>4, Numbers DEF GInv, Centre
    <3>2. CASE x = p
      <4>1. ~Alive(x)'
        BY <2>5, <3>2, NobodyIs DEF Alive
      <4>2. Memory(x)'
        BY <1>3, <1>5, <1>8, <2>7, <3>1, <3>2, <4>1 DEF Memory
      <4> QED BY <1>3, <1>5, <3>1, <4>1, <4>2 DEF Seen
    <3>3. CASE x # p
      <4>1. proc'[x] = proc[x] /\ processed'[x] = processed[x]
        BY <2>5, <2>7, <3>3
      <4>2. Memory(x)'
        BY <1>3, <1>5, <3>1, <4>1 DEF Memory, Alive
      <4> QED BY <1>3, <1>5, <3>1, <4>1, <4>2 DEF Seen, Alive
    <3> QED BY <3>2, <3>3
  <2>9. Centre'
    BY <1>3, <1>4, <1>5, <1>6, <2>8 DEF GInv, Centre
  <2>10. Shapes'
    BY <1>3, <1>4, <1>5, <2>5, <2>7 DEF GInv, Shapes, IsFunction
  <2> QED BY <2>4, <2>5, <2>6, <2>9, <2>10 DEF GInv
<1> QED BY <1>7, <1>8

-----------------------------------------------------------------------------
LEMMA GInit ==
  ASSUME Init
  PROVE  GInv
<1>1. /\ FirstProcess = [f \in ProcFields |-> FirstProcess[f]] /\ FirstProcess.born = 1 /\ FirstProcess.held = "none"
      /\ FirstProcess.hook = "on" /\ FirstProcess.markers = {1} /\ FirstProcess.guard = 1 /\ FirstProcess.wanted = FALSE
      /\ FirstProcess.cigEnv = FALSE /\ FirstProcess.cig = FALSE /\ FirstProcess.maker = 0 /\ FirstProcess.parent = 0
  BY DEF FirstProcess, Nobody, ProcFields
<1>2. Person(FirstProcess, 1, 1)
  <2>1. /\ FirstProcess.born \in 0..1 /\ FirstProcess.born # 0 /\ FirstProcess.maker \in 0..1 /\ FirstProcess.parent \in Pids \cup {0}
        /\ FirstProcess.held \in {"none", "pl", "caller", "other"} /\ FirstProcess.hook \in {"no", "on", "failed"}
        /\ FirstProcess.markers \subseteq 1..1 /\ FirstProcess.guard \in 1..1 /\ FirstProcess.markers \subseteq 1..FirstProcess.guard
        /\ FirstProcess.held # "caller" /\ FirstProcess.held # "pl"
    BY <1>1
  <2>2. /\ FirstProcess.wanted \in BOOLEAN /\ FirstProcess.cigEnv \in BOOLEAN /\ FirstProcess.cig \in BOOLEAN /\ ~FirstProcess.wanted
    BY <1>1
  <2> QED BY <2>1, <2>2, Zenon DEF Person
<1>3. births = 1 /\ gui.n = 1 /\ \A p \in Pids : proc[p] = (IF p = 1 THEN FirstProcess ELSE Nobody)
  BY DEF Init
<1>4. People
  <2>1. \A p \in Pids : Person(proc[p], births, gui.n)
    BY <1>2, <1>3, NobodyIs
  <2>2. \A p \in Pids : Alive(p) => Home(p, proc[p].born)
    BY <1>1, <1>3, NobodyIs DEF Alive, Home
  <2> QED BY <2>1, <2>2 DEF People
<1>5. Creations
  <2>1. \A p \in Pids : making[p].stage = "idle" /\ proc[p].held = "none"
    BY <1>1, <1>3, NobodyIs DEF Init, Idle
  <2> QED BY <2>1 DEF Creations, Hands, Holding
<1>6. Messages
  BY DEF Init, Messages
<1>7. Ledger
  <2>1. ASSUME NEW p \in Pids PROVE Entry(p) /\ Pruned(p)
    <3>1. prune.stage = "idle" /\ joined = {1} /\ mistaken = {}
      BY DEF Init, NoPrune
    <3>2. registry[p] = IF p = 1 THEN [born |-> 1, state |-> "succeeded", path |-> TRUE] ELSE NoEntry
      BY DEF Init
    <3>3. /\ p = 1 => registry[p].born = 1 /\ registry[p].state = "succeeded"
          /\ p # 1 => registry[p].born = 0 /\ registry[p].state = "pending"
      BY <3>2 DEF NoEntry
    <3> QED BY <1>1, <1>3, <3>1, <3>3, NobodyIs DEF Entry, Pruned, Alive
  <2> QED BY <1>3, <2>1 DEF Init, NoPrune, Ledger
<1>8. /\ sweep.stage = "idle" /\ sweep.target = 0 /\ sweep.todo = {}
      /\ \A p \in Pids : sweep.next[p].checks = 0 /\ observed[p].checks = 0
  BY DEF Init, NoSweep, NoSight
<1>9. Centre
  <2>1. ASSUME NEW p \in Pids PROVE Memory(p) /\ Seen(p)
    <3>1. released[p] = 0 /\ processed[p] = 0 /\ told = {} /\ observed[p].checks = 0 /\ sweep.next[p].checks = 0
      BY <1>8 DEF Init
    <3> QED BY <1>3, <1>8, <3>1 DEF Memory, Seen, Alive
  <2>2. Aimed
    BY <1>8 DEF Aimed
  <2>3. told = {} /\ overtaken = {}
    BY DEF Init
  <2> QED BY <1>8, <2>1, <2>2, <2>3 DEF Centre
<1>10. Victims
  BY DEF Init, Victims, SparesReleased, KillsWhatItWatched, SparesCallers
<1>11. Shapes
  <2>1. births \in Nat \ {0} /\ gui.n \in Nat \ {0}
    BY <1>3
  <2>2. /\ IsFunction(proc) /\ IsFunction(making) /\ IsFunction(registry)
        /\ IsFunction(released) /\ IsFunction(observed) /\ IsFunction(processed)
    BY DEF Init, IsFunction
  <2>3. \A p \in Pids : proc[p] = [f \in ProcFields |-> proc[p][f]]
    BY <1>1, <1>3, NobodyIs
  <2>4. \A p \in Pids : making[p] = [f \in MakingFields |-> making[p][f]]
    BY DEF Init, Idle, MakingFields
  <2>5. \A p \in Pids : registry[p] = [f \in EntryFields |-> registry[p][f]]
    BY DEF Init, NoEntry, EntryFields
  <2>6. sweep = [f \in SweepFields |-> sweep[f]] /\ IsFunction(sweep.next)
    BY DEF Init, NoSweep, SweepFields, IsFunction
  <2>7. prune = [f \in PruneFields |-> prune[f]]
    BY DEF Init, NoPrune, PruneFields
  <2> QED BY <2>1, <2>2, <2>3, <2>4, <2>5, <2>6, <2>7 DEF Shapes
<1> QED BY <1>4, <1>5, <1>6, <1>7, <1>9, <1>10, <1>11 DEF GInv

LEMMA CreateSteps ==
  ASSUME GInv, NEW p \in Pids, NEW c \in Pids, Create(p, c)
  PROVE  GInv'
<1>1. ASSUME NEW s, PlainCreate(p, c, s) PROVE GInv'
  BY <1>1, PlainCreateStep
<1>2. ASSUME NEW s, TryCreateAppLauncher(p, c, s) PROVE GInv'
  BY <1>2, AppLauncherStep
<1>3. ASSUME NEW own \in BOOLEAN, NEW b, CreateProcessWithLogonW(p, c, own, b) PROVE GInv'
  BY <1>3, LogonStep
<1>4. ASSUME NEW own \in BOOLEAN, NEW b, NEW w \in BOOLEAN, NEW d \in BOOLEAN,
             CreateProcessInternalW(p, c, own, b, w, d)
      PROVE  GInv'
  BY <1>4, InternalStep
<1> QED BY <1>1, <1>2, <1>3, <1>4, Zenon DEF Create

LEMMA GNext ==
  ASSUME GInv, [Next]_vars
  PROVE  GInv'
<1>1. ASSUME NEW p \in Pids, World(p) PROVE GInv'
  BY <1>1, StartStep, ExitStep, LiveSteps DEF World
<1>2. ASSUME NEW p \in Pids, Finish(p) PROVE GInv'
  BY <1>2, AskSteps, InjectStep, ResumeStep, NoticeStep DEF Finish
<1>3. ASSUME NEW p \in Pids, Hooked(p) PROVE GInv'
  BY <1>3, LiveSteps, HackConnectStep, gp_HookWinsockStep DEF Hooked
<1>4. CASE Service
  BY <1>4, DestroyStep, CreateServiceStep, RestartStep, HandleStep DEF Service
<1>5. CASE Pruning
  BY <1>5, PruneSteps, PruneEraseStep DEF Pruning
<1>6. CASE Sweeping
  BY <1>6, SweepSnapshotStep, SweepPruneStep, SweepScanStep, SweepRecheckStep, SweepTerminateStep,
     SweepEndStep DEF Sweeping
<1>7. CASE UNCHANGED vars
  <2>1. /\ Still /\ gui' = gui /\ UNCHANGED <<gui, wire, centre, ghosts>>
        /\ UNCHANGED <<registry, joined, mistaken, prune>>
    BY <1>7 DEF vars, Still, book, ghosts
  <2> QED BY <2>1, StillLedger, BookOnly DEF GInv, Shapes
<1> QED BY <1>1, <1>2, <1>3, <1>4, <1>5, <1>6, <1>7, CreateSteps DEF Next

LEMMA Settled ==
  ASSUME GInv
  PROVE  GuardJust /\ ChildrenSettled
<1>1. TypeOK
  <2>1. ASSUME NEW p \in Pids
        PROVE  /\ proc[p].born \in 0 .. births /\ proc[p].parent \in Pids \cup {0}
               /\ proc[p].markers \subseteq 1 .. gui.n
               /\ proc[p].held \in {"none", "pl", "caller", "other"}
               /\ proc[p].hook \in {"no", "on", "failed"}
               /\ registry[p].state \in {"pending", "succeeded", "failed"}
               /\ released[p] \in 0 .. births /\ processed[p] \in 0 .. births
               /\ observed[p].checks \in 0 .. 2
               /\ making[p].stage \in {"idle", "connect", "ask", "inject", "resume", "notice"}
    <3>1. Person(proc[p], births, gui.n) /\ Entry(p) /\ Memory(p) /\ Hands(p)
      BY DEF GInv, People, Ledger, Centre, Creations
    <3>2. making[p].stage \in {"idle", "connect", "ask", "inject", "resume", "notice"}
      BY <3>1 DEF Hands
    <3>3. registry[p].state \in {"pending", "succeeded", "failed"}
      BY <3>1 DEF Entry
    <3>4. released[p] \in 0 .. births /\ processed[p] \in 0 .. births /\ observed[p].checks \in 0 .. 2
      BY <3>1 DEF Memory
    <3> QED BY <3>1, <3>2, <3>3, <3>4 DEF Person
  <2>2. \A m \in wire : m.born \in 1 .. births /\ m.pid \in Pids
    BY DEF GInv, Messages, Truth, Home
  <2>3. sweep.stage \in {"idle", "prune", "scan", "kill"} /\ prune.stage \in {"idle", "copied", "erase"}
    BY DEF GInv, Centre, Aimed, Ledger
  <2>4. told \cup joined \cup overtaken \cup mistaken \subseteq 1 .. births
    BY DEF GInv, Centre, Ledger
  <2> QED BY <2>1, <2>2, <2>3, <2>4 DEF TypeOK
<1>2. GuardJust
  BY <1>1 DEF GInv, Victims, GuardJust
<1>3. NobodyLeftSuspended
  BY DEF GInv, Creations, Holding, NobodyLeftSuspended
<1>4. NothingHidesAnOrphan
  <2> SUFFICES ASSUME NEW c \in Pids, proc[c].held = "pl"
               PROVE  /\ released[c] # proc[c].born /\ processed[c] # proc[c].born
                      /\ registry[c].born = proc[c].born => proc[c].born \in mistaken
    BY DEF NothingHidesAnOrphan
  <2>1. Alive(c) /\ Entry(c) /\ Memory(c)
    BY Numbers DEF Person, Alive, GInv, Ledger, Centre
  <2> QED BY <2>1 DEF Entry, Memory
<1>5. RegistryTrue
  BY DEF GInv, Ledger, Entry, RegistryTrue
<1>6. PolicyRestored
  BY Numbers DEF Person, PolicyRestored
<1> QED BY <1>2, <1>3, <1>4, <1>5, <1>6 DEF ChildrenSettled

(* CheckSuspendedChildren terminates nobody it should spare: with any      *)
(* number of processes, PID reuse, deaths of creators, services and GUIs   *)
(* in between.                                                             *)
THEOREM WatchdogJust == Spec => []GuardJust
<1>1. Init => GInv
  BY GInit
<1>2. GInv /\ [Next]_vars => GInv'
  BY GNext
<1>3. GInv => GuardJust
  BY Settled
<1> QED BY <1>1, <1>2, <1>3, PTL DEF Spec

(* FinishChildCreation leaves no child suspended, no record of the centre  *)
(* or of the registry hides an orphan, CProcessRegistry forgets no live    *)
(* process, and RestoreCigPolicy puts back what was deferred; the one      *)
(* exception is a process ResolveProcPath took for the peer of a           *)
(* connection of the process that had its number before (mistaken).        *)
THEOREM NothingMissed == Spec => []ChildrenSettled
<1>1. Init => GInv
  BY GInit
<1>2. GInv /\ [Next]_vars => GInv'
  BY GNext
<1>3. GInv => ChildrenSettled
  BY Settled
<1> QED BY <1>1, <1>2, <1>3, PTL DEF Spec

-----------------------------------------------------------------------------
(* The control pipe.                                                       *)

Busy     == {"loop", "wait", "active", "refused", "abort"}
Entered  == {"active", "refused", "abort"}
Counting == {s \in Slots : inst[s].worker \in Busy \cup {"closed"}}
Replies  == {"none", "yes", "no", "pending", "ok", "fault", "aborted", "invalid", "busy"}
Insts ==
  [st : {"free", "listen", "linked", "served"}, who : Clients \cup {0}, req : Kinds \cup {"none"},
   arg : Packages \cup {"none", "pending", "ready", "unavailable"},
   reply : Replies,
   gone : BOOLEAN, worker : Busy \cup {"none", "closed", "signal"}]
Results == {"none", "pending", "ok", "fault", "aborted"}
Records == [result : Results, at : Int]
Callers  == [stage : Kinds \cup {"idle", "gone"}, slot : Slots \cup {0}, since : Nat \cup {-1},
            exit : {"none", "unknown", "yes", "no", "ok", "fault", "aborted", "invalid", "busy"}]
States  == {"waiting", "working", "installed", "failed"}

PipeTyped ==
  /\ plan \in Plans
  /\ service \in {"off", "tcp", "tcp6", "udp", "pipe", "running", "poke", "main", "workers", "delete"}
  /\ servers \subseteq {"tcp", "tcp6", "udp", "pipe"}
  /\ main \in [stage : {"none", "create", "listen", "count", "ended"}, slot : Slots \cup {0}]
  /\ inst \in [Slots -> Insts] /\ count \in Nat
  /\ idle \in BOOLEAN /\ exiting \in BOOLEAN /\ late \in BOOLEAN /\ poked \in BOOLEAN /\ pair \in BOOLEAN
  /\ lock \in Slots \cup {0} /\ sids \subseteq Packages /\ dacl \subseteq Packages
  /\ history \in [Clients -> Records] /\ clock \in Nat
  /\ client \in [Clients -> Callers] /\ runs \in [Clients -> {0, 1}]
  /\ browser \in [Clients -> States]
  /\ reports \in [Clients -> {"none", "pending", "ready", "unavailable"}] /\ final \subseteq Clients

(* An instance listens or is linked exactly while the accepting thread     *)
(* holds it, and is served exactly while its worker is at it; a worker     *)
(* that has left holds nothing; a reply is written when the request has    *)
(* been taken.                                                             *)
Instance(s, k) ==
  /\ k.st \in {"listen", "linked"} <=> main.slot = s /\ main.stage \in {"listen", "count"}
  /\ main.slot = s /\ main.stage = "count" => k.st = "linked"
  /\ k.st = "served" <=> k.worker \in Busy
  /\ k.worker \in {"closed", "signal"} => k.st = "free"
  /\ k.st \in {"free", "listen"} => k.who = 0 /\ k.req = "none" /\ k.reply = "none"
  /\ k.worker \in Entered \cup {"wait"} => k.req = "launch"
  /\ k.req = "launch" => k.who \in Clients
  /\ k.req = "quic" => k.who \in Clients /\ k.arg \in {"none", "pending", "ready", "unavailable"}
  /\ k.reply # "none" => k.req = "none"
  /\ k.req = "inject" => k.arg \in Packages
InstancesInv == \A s \in Slots : Instance(s, inst[s])
(* The private pair is open exactly while an instance is; the DACL they    *)
(* share has every grant.                                                  *)
PairInv ==
  /\ main.stage \in {"listen", "count"} => main.slot \in Slots
  /\ pair <=> \E s \in Slots : inst[s].st # "free"
  /\ pair => sids \subseteq dacl

(* m_dwThreadCount counts the workers that have not decremented it yet,    *)
(* the event of the last one, set or about to be, is true, unless it was   *)
(* overtaken by a new worker.                                              *)
WorkersInv ==
  /\ count = Cardinality(Counting)
  /\ ~late /\ (idle \/ \E s \in Slots : inst[s].worker = "signal") => count = 0

(* What each stage of start and stop leaves: the accepting thread lives    *)
(* between "pipe" and "main", no worker outlives "workers", the servers    *)
(* exist as long as a worker may use them.                                 *)
ServiceInv ==
  /\ service \in {"off", "tcp", "tcp6", "udp", "workers", "delete"} => main.stage = "none"
  /\ service = "pipe" => main.stage \in {"none", "create"}
  /\ service \in {"tcp", "tcp6", "udp", "pipe"} => Workers = {}
  /\ service \in {"off", "delete"} /\ ~late => count = 0
  /\ service \in {"poke", "main"} => exiting
  /\ service \in {"running", "poke"} \/ (service = "pipe" /\ main.stage = "create") => ~poked
  /\ service = "main" /\ poked => main.stage \in {"listen", "ended"}
  /\ service = "main" /\ poked /\ main.stage = "listen" => inst[main.slot].st = "linked"
  /\ service = "off" => servers = {}
  /\ service \in {"tcp6", "udp"} => "tcp" \in servers
  /\ service = "pipe" => {"tcp", "udp"} \subseteq servers
  /\ service \in {"running", "poke", "main", "workers", "delete"} => {"tcp", "udp", "pipe"} \subseteq servers
  /\ service = "pipe" /\ main.stage = "create" => "pipe" \in servers

(* A request for a launch: its helper, its record and its activations.     *)
(* The purge forgets an activation only when it is too old to be valid;    *)
(* a helper waits for its answer for a minute at most.                     *)
Carries(s, c) == inst[s].who = c /\ inst[s].req = "launch"
Attempt(c, k, h, n) ==
  /\ k.stage \notin {"idle", "gone"} => k.slot \in Slots
  /\ k.since >= 0 => k.since <= clock
  /\ h.result # "none" => h.at = k.since /\ k.since >= 0
  /\ h.result = "ok" => n = 1
  /\ h.result = "aborted" => n = 0
  /\ n = 1 => k.since >= 0 /\ (h.result \in {"none", "aborted"} => clock - k.since > Keep)
  /\ k.stage = "launch" => k.exit = "none" /\ k.since >= 0
  /\ k.since >= 0 /\ k.exit = "none" /\ k.stage # "gone" => clock <= k.since + 1
  /\ k.exit = "ok" => n = 1
  /\ k.exit # "invalid"
  /\ k.exit \in {"aborted", "busy"} => n = 0 /\ \A s \in Slots : ~Carries(s, c)
(* An instance that carries a request for a launch: its helper waits for   *)
(* it, or has given up; its record is pending from LaunchBegin to          *)
(* LaunchStore and its activation goes with the lock; its answer is true.  *)
Carried(s, k) ==
  /\ k.req = "launch" =>
       /\ client[k.who].since >= 0
       /\ \/ client[k.who].stage = "launch" /\ client[k.who].slot = s
          \/ client[k.who].exit = "unknown"
          \/ client[k.who].stage = "gone"
  /\ k.worker \in Entered \cup {"wait"} =>
       history[k.who].result = "pending" /\ runs[k.who] = (IF k.worker = "active" THEN 1 ELSE 0)
  /\ k.worker \in Entered => lock = s
  /\ k.who \in Clients =>
      /\ k.reply = "ok" => runs[k.who] = 1
      /\ k.reply = "invalid" => client[k.who].since >= 0 /\ clock - client[k.who].since > Validity
      /\ k.reply \in {"busy", "aborted"} /\ client[k.who].stage = "launch" /\ client[k.who].slot = s => runs[k.who] = 0
  /\ k.reply \notin {"none", "yes", "no"} => k.who \in Clients
AttemptsInv == \A c \in Clients : Attempt(c, client[c], history[c], runs[c])
CarriedInv == \A s \in Slots : Carried(s, inst[s])
(* Attempts follow one another: a helper that still asks has no other      *)
(* instance that carries its request.                                      *)
OneCarrier ==
  \A s, t \in Slots : inst[s].req = "launch" /\ inst[t].req = "launch" /\ inst[s].who = inst[t].who => s = t

(* What was reported, in the table or on its way, holds of the browser: it *)
(* only leaves "pending".                                                  *)
Truly(c, r) == (r = "ready" => browser[c] = "installed") /\ (r = "unavailable" => browser[c] = "failed")
QuicInv ==
  /\ \A s \in Slots : inst[s].req = "quic" => Truly(inst[s].who, inst[s].arg)
  /\ \A c \in Clients : Truly(c, reports[c])
  /\ \A c \in final : reports[c] \in {"ready", "unavailable"}

PipeInvar == /\ PipeTyped /\ InstancesInv /\ PairInv /\ WorkersInv /\ ServiceInv
             /\ AttemptsInv /\ CarriedInv /\ OneCarrier /\ QuicInv
-----------------------------------------------------------------------------
(* A step that leaves all instances but one. *)
Changes(s) == inst' \in [Slots -> Insts] /\ \A t \in Slots : t # s => inst'[t] = inst[t]

LEMMA Replaced ==
  ASSUME PipeTyped, NEW s \in Slots, NEW k \in Insts, inst' = [inst EXCEPT ![s] = k]
  PROVE  Changes(s) /\ inst'[s] = k
BY DEF PipeTyped, Changes

LEMMA Tally ==
  ASSUME TRUE
  PROVE  IsFiniteSet(Counting) /\ Cardinality(Counting) \in Nat
BY PipeAssumption, FS_Subset, FS_CardinalityType DEF Counting

LEMMA KeepInstances ==
  ASSUME PipeInvar, NEW s \in Slots, Changes(s), UNCHANGED main, NEW k, k = inst'[s], Instance(s, k)
  PROVE  InstancesInv'
BY DEF PipeInvar, InstancesInv, Changes, Instance

LEMMA KeepWorkers ==
  ASSUME PipeInvar, NEW s \in Slots, Changes(s), UNCHANGED <<count, idle, late>>,
         \/ inst'[s].worker = inst[s].worker
         \/ {inst[s].worker, inst'[s].worker} \subseteq Busy \cup {"closed"}
  PROVE  WorkersInv' /\ Counting' = Counting
<1>1. \A t \in Slots : inst'[t].worker \in Busy \cup {"closed"} <=> inst[t].worker \in Busy \cup {"closed"}
  BY DEF Changes
<1>2. Counting' = Counting
  BY <1>1 DEF Counting
<1>3. \A t \in Slots : inst'[t].worker = "signal" <=> inst[t].worker = "signal"
  BY DEF Changes, Busy
<1>4. count' = Cardinality(Counting')
  BY <1>2 DEF PipeInvar, WorkersInv
<1>5. ~late /\ (idle \/ \E t \in Slots : inst[t].worker = "signal") => count = 0
  BY DEF PipeInvar, WorkersInv
<1> QED BY <1>2, <1>3, <1>4, <1>5 DEF WorkersInv

LEMMA KeepPair ==
  ASSUME PipeInvar, NEW s \in Slots, Changes(s), UNCHANGED <<main, pair, sids, dacl>>,
         inst'[s].st = "free" <=> inst[s].st = "free"
  PROVE  PairInv'
BY DEF PipeInvar, PairInv, Changes

LEMMA KeepService ==
  ASSUME PipeInvar, NEW s \in Slots, Changes(s),
         UNCHANGED <<service, servers, main, late, count, exiting, poked>>,
         inst'[s].worker = "none" <=> inst[s].worker = "none",
         inst[s].st = "linked" => inst'[s].st = "linked"
  PROVE  ServiceInv'
<1>1. Workers' = Workers
  BY DEF Changes, Workers
<1>2. main.slot \in Slots /\ inst[main.slot].st = "linked" => inst'[main.slot].st = "linked"
  BY DEF Changes
<1>3. main.stage = "listen" => main.slot \in Slots
  BY DEF PipeInvar, PairInv
<1> QED BY <1>1, <1>2, <1>3 DEF PipeInvar, ServiceInv

LEMMA KeepAttempts ==
  ASSUME PipeInvar, NEW s \in Slots, Changes(s), UNCHANGED <<client, history, runs, clock>>,
         inst'[s].req = "launch" => inst[s].req = "launch" /\ inst'[s].who = inst[s].who
  PROVE  AttemptsInv'
<1>1. \A t \in Slots, c \in Clients : Carries(t, c)' => Carries(t, c)
  BY DEF Changes, Carries
<1> QED BY <1>1 DEF PipeInvar, AttemptsInv, Attempt

LEMMA KeepCarried ==
  ASSUME PipeInvar, NEW s \in Slots, Changes(s), UNCHANGED <<client, history, runs, clock, lock>>,
         NEW k, k = inst'[s], Carried(s, k)
  PROVE  CarriedInv'
BY DEF PipeInvar, CarriedInv, Changes, Carried

LEMMA KeepOne ==
  ASSUME PipeInvar, NEW s \in Slots, Changes(s),
         inst'[s].req = "launch" => inst[s].req = "launch" /\ inst'[s].who = inst[s].who
  PROVE  OneCarrier'
BY DEF PipeInvar, OneCarrier, Changes

LEMMA KeepQuic ==
  ASSUME PipeInvar, NEW s \in Slots, Changes(s), UNCHANGED quic,
         inst'[s].req = "quic" => /\ inst[s].req = "quic"
                                  /\ inst'[s].who = inst[s].who /\ inst'[s].arg = inst[s].arg
  PROVE  QuicInv'
BY DEF PipeInvar, QuicInv, Changes, Truly, quic

(* What is known of one instance and of one client. *)
LEMMA OfSlot ==
  ASSUME PipeInvar, NEW s \in Slots, NEW j, j = inst[s]
  PROVE  j \in Insts /\ Instance(s, j) /\ Carried(s, j)
BY DEF PipeInvar, PipeTyped, InstancesInv, CarriedInv

LEMMA OfClient ==
  ASSUME PipeInvar, NEW c \in Clients, NEW p, p = client[c], NEW h, h = history[c], NEW n, n = runs[c]
  PROVE  p \in Callers /\ h \in Records /\ n \in {0, 1} /\ Attempt(c, p, h, n)
BY DEF PipeInvar, PipeTyped, AttemptsInv

(* At most one instance listens, that of the accepting thread. *)
LEMMA OneListens ==
  ASSUME PipeInvar, Listening # {}
  PROVE  main.slot \in Slots /\ main.stage = "listen" /\ Min(Listening) = main.slot /\ inst[main.slot].st = "listen"
<1>1. Listening = {main.slot} /\ main.slot \in Slots /\ inst[main.slot].st = "listen"
  BY DEF PipeInvar, InstancesInv, Instance, Listening
<1>2. main.stage = "listen"
  BY <1>1 DEF PipeInvar, InstancesInv, Instance
<1>3. Min(Listening) = main.slot
  BY <1>1, PipeAssumption, MinIn
<1> QED BY <1>1, <1>2, <1>3

-----------------------------------------------------------------------------
(* The accepted connections. *)

LEMMA ServePlainStep ==
  ASSUME PipeInvar, NEW s \in Slots, ServePlain(s)
  PROVE  PipeInvar'
<1>1. PICK j : j = inst[s]
  OBVIOUS
<1>2. PICK k : k = [j EXCEPT !.req = "none", !.reply = "yes"]
  OBVIOUS
<1>3. j \in Insts /\ Instance(s, j) /\ Carried(s, j) /\ j.worker = "loop" /\ j.req = "plain"
  BY <1>1, OfSlot DEF ServePlain, Loop
<1>4. /\ k \in Insts /\ k.st = j.st /\ k.who = j.who /\ k.req = "none" /\ k.arg = j.arg
      /\ k.reply = "yes" /\ k.worker = "loop"
  BY <1>2, <1>3 DEF Insts, Replies
<1>5. /\ inst' = [inst EXCEPT ![s] = k]
      /\ UNCHANGED <<plan, services, main, count, idle, exiting, lock, late, poked, access, launch, client, quic>>
  BY <1>1, <1>2 DEF ServePlain, Reply
<1>6. Changes(s) /\ inst'[s] = k
  BY <1>4, <1>5, Replaced DEF PipeInvar
<1>7. PipeTyped'
  BY <1>5, <1>6 DEF PipeInvar, PipeTyped, Changes, services, access, launch, quic
<1>8. Instance(s, k)
  BY <1>3, <1>4 DEF Instance, Busy, Entered
<1>9. Carried(s, k)
  BY <1>3, <1>4 DEF Carried, Entered
<1>10. InstancesInv' /\ PairInv' /\ WorkersInv' /\ ServiceInv'
  BY <1>1, <1>3, <1>4, <1>5, <1>6, <1>8, KeepInstances, KeepPair, KeepWorkers, KeepService DEF services, access
<1>11. AttemptsInv' /\ CarriedInv' /\ OneCarrier' /\ QuicInv'
  BY <1>4, <1>5, <1>6, <1>9, KeepAttempts, KeepCarried, KeepOne, KeepQuic DEF launch
<1> QED BY <1>7, <1>10, <1>11 DEF PipeInvar

LEMMA ServeInjectStep ==
  ASSUME PipeInvar, NEW s \in Slots, NEW own \in BOOLEAN, ServeInject(s, own)
  PROVE  PipeInvar'
<1>1. PICK j : j = inst[s]
  OBVIOUS
<1>2. PICK r \in {"yes", "no"} : r = IF own /\ Grantable(j.arg) THEN "yes" ELSE "no"
  OBVIOUS
<1>3. PICK k : k = [j EXCEPT !.req = "none", !.reply = r]
  OBVIOUS
<1>4. /\ j \in Insts /\ Instance(s, j) /\ Carried(s, j) /\ j.worker = "loop" /\ j.req = "inject"
      /\ j.arg \in Packages
  BY <1>1, OfSlot DEF ServeInject, Loop, Instance
<1>5. /\ k \in Insts /\ k.st = j.st /\ k.who = j.who /\ k.req = "none" /\ k.arg = j.arg
      /\ k.reply = r /\ k.worker = "loop"
  BY <1>3, <1>4 DEF Insts, Replies
<1>6. /\ inst' = [inst EXCEPT ![s] = k]
      /\ UNCHANGED <<plan, services, main, count, idle, exiting, lock, late, poked, launch, client, quic>>
  BY <1>1, <1>2, <1>3 DEF ServeInject, Reply
<1>7. /\ pair' = pair /\ sids' \subseteq Packages /\ dacl' \subseteq Packages
      /\ pair /\ sids \subseteq dacl => sids' \subseteq dacl'
  BY <1>1, <1>4 DEF ServeInject, AuthorizePackageSid, Grantable, access, PipeInvar, PipeTyped
<1>8. Changes(s) /\ inst'[s] = k
  BY <1>5, <1>6, Replaced DEF PipeInvar
<1>9. PipeTyped'
  BY <1>6, <1>7, <1>8 DEF PipeInvar, PipeTyped, Changes, services, launch, quic
<1>10. Instance(s, k)
  BY <1>4, <1>5 DEF Instance, Busy, Entered
<1>11. Carried(s, k)
  BY <1>4, <1>5 DEF Carried, Entered
<1>12. InstancesInv' /\ WorkersInv' /\ ServiceInv'
  BY <1>1, <1>4, <1>5, <1>6, <1>8, <1>10, KeepInstances, KeepWorkers, KeepService DEF services
<1>13. PairInv'
  BY <1>1, <1>5, <1>6, <1>7, <1>8 DEF PipeInvar, PairInv, Changes
<1>14. AttemptsInv' /\ CarriedInv' /\ OneCarrier' /\ QuicInv'
  BY <1>5, <1>6, <1>8, <1>11, KeepAttempts, KeepCarried, KeepOne, KeepQuic DEF launch
<1> QED BY <1>9, <1>12, <1>13, <1>14 DEF PipeInvar

(* Whatever the table gives up for a report, what it then says is true. *)
LEMMA ObserveTrue ==
  ASSUME PipeInvar, NEW c \in Clients, NEW st \in {"none", "pending", "ready", "unavailable"},
         Truly(c, st), Observe(c, st), UNCHANGED browser
  PROVE  /\ reports' \in [Clients -> {"none", "pending", "ready", "unavailable"}] /\ final' \subseteq Clients
         /\ \A d \in Clients : Truly(d, reports[d])'
         /\ \A d \in final' : reports'[d] \in {"ready", "unavailable"}
<1>1. /\ reports \in [Clients -> {"none", "pending", "ready", "unavailable"}] /\ final \subseteq Clients
      /\ \A d \in Clients : Truly(d, reports[d])
      /\ \A d \in final : reports[d] \in {"ready", "unavailable"}
  BY DEF PipeInvar, PipeTyped, QuicInv
<1>2. CASE UNCHANGED <<reports, final>>
  BY <1>1, <1>2 DEF Truly
<1>3. CASE ~UNCHANGED <<reports, final>>
  <2>1. PICK out \in Clients :
          /\ reports' = [d \in Clients |-> IF d = c THEN st ELSE IF d = out THEN "none" ELSE reports[d]]
          /\ final' = (final \ {out}) \cup
                      (IF st # "pending" \/ (c = out /\ c \in final) THEN {c} ELSE {})
    BY <1>3 DEF Observe
  <2>2. st # "none" /\ (st = "pending" => reports[c] \in {"none", "pending"})
    BY <1>3 DEF Observe
  <2>3. \A d \in Clients : reports'[d] = IF d = c THEN st ELSE IF d = out THEN "none" ELSE reports[d]
    BY <2>1
  <2>4. st = "pending" => c \notin final
    BY <1>1, <2>2
  <2>5. /\ reports' \in [Clients -> {"none", "pending", "ready", "unavailable"}] /\ final' \subseteq Clients
    BY <1>1, <2>1
  <2>6. \A d \in Clients : Truly(d, reports[d])'
    BY <1>1, <2>3 DEF Truly
  <2>7. \A d \in final' : reports'[d] \in {"ready", "unavailable"}
    BY <1>1, <2>1, <2>2, <2>3, <2>4
  <2> QED BY <2>5, <2>6, <2>7
<1> QED BY <1>2, <1>3

LEMMA ServeQuicStep ==
  ASSUME PipeInvar, NEW s \in Slots, ServeQuic(s)
  PROVE  PipeInvar'
<1>1. PICK j : j = inst[s]
  OBVIOUS
<1>2. PICK k : k = [j EXCEPT !.req = "none", !.reply = "yes", !.gone = TRUE]
  OBVIOUS
<1>3. /\ j \in Insts /\ Instance(s, j) /\ Carried(s, j) /\ j.worker = "loop" /\ j.req = "quic"
      /\ j.who \in Clients
  BY <1>1, OfSlot DEF ServeQuic, Loop, Instance
<1>4. /\ k \in Insts /\ k.st = j.st /\ k.who = j.who /\ k.req = "none" /\ k.arg = j.arg
      /\ k.reply = "yes" /\ k.worker = "loop"
  BY <1>2, <1>3 DEF Insts, Replies, Kinds
<1>5. /\ inst' = [inst EXCEPT ![s] = k] /\ Observe(j.who, j.arg)
      /\ UNCHANGED <<plan, services, main, count, idle, exiting, lock, late, poked, access, launch, client, browser>>
  BY <1>1, <1>2 DEF ServeQuic
<1>6. Changes(s) /\ inst'[s] = k
  BY <1>4, <1>5, Replaced DEF PipeInvar
<1>7. Truly(j.who, j.arg)
  BY <1>1, <1>3 DEF PipeInvar, QuicInv
<1>8. j.arg \in {"none", "pending", "ready", "unavailable"}
  BY <1>3 DEF Instance
<1>9. /\ reports' \in [Clients -> {"none", "pending", "ready", "unavailable"}] /\ final' \subseteq Clients
      /\ \A d \in Clients : Truly(d, reports[d])'
      /\ \A d \in final' : reports'[d] \in {"ready", "unavailable"}
  BY <1>3, <1>5, <1>7, <1>8, ObserveTrue
<1>10. PipeTyped'
  BY <1>5, <1>6, <1>9 DEF PipeInvar, PipeTyped, Changes, services, access, launch
<1>11. Instance(s, k)
  BY <1>3, <1>4 DEF Instance, Busy, Entered
<1>12. Carried(s, k)
  BY <1>3, <1>4 DEF Carried, Entered
<1>13. InstancesInv' /\ PairInv' /\ WorkersInv' /\ ServiceInv'
  BY <1>1, <1>3, <1>4, <1>5, <1>6, <1>11, KeepInstances, KeepPair, KeepWorkers, KeepService DEF services, access
<1>14. AttemptsInv' /\ CarriedInv' /\ OneCarrier'
  BY <1>4, <1>5, <1>6, <1>12, KeepAttempts, KeepCarried, KeepOne DEF launch
<1>15. QuicInv'
  <2>1. \A t \in Slots : (inst[t].req = "quic")' =>
          inst[t].req = "quic" /\ inst'[t].who = inst[t].who /\ inst'[t].arg = inst[t].arg
    BY <1>4, <1>6 DEF Changes
  <2>2. \A t \in Slots : (inst[t].req = "quic" => Truly(inst[t].who, inst[t].arg))'
    BY <1>5, <2>1 DEF PipeInvar, QuicInv, Truly
  <2> QED BY <1>9, <2>2 DEF QuicInv
<1> QED BY <1>10, <1>13, <1>14, <1>15 DEF PipeInvar

-----------------------------------------------------------------------------
(* The end of a worker. *)

LEMMA WorkerLeaveStep ==
  ASSUME PipeInvar, NEW s \in Slots, WorkerLeave(s)
  PROVE  PipeInvar'
<1>1. PICK j : j = inst[s]
  OBVIOUS
<1>2. PICK k : k = [Free EXCEPT !.worker = "closed"]
  OBVIOUS
<1>3. j \in Insts /\ Instance(s, j) /\ Carried(s, j) /\ j.worker = "loop" /\ j.st = "served"
  BY <1>1, OfSlot DEF WorkerLeave, Loop, Instance, Busy
<1>4. k \in Insts /\ k.st = "free" /\ k.who = 0 /\ k.req = "none" /\ k.reply = "none" /\ k.worker = "closed"
  BY <1>2 DEF Insts, Free, Replies, Kinds
<1>5. /\ inst' = [inst EXCEPT ![s] = k] /\ pair' = (pair /\ \E t \in Slots \ {s} : Open(t))
      /\ UNCHANGED <<plan, services, main, count, idle, exiting, lock, late, poked, sids, dacl, launch, client, quic>>
  BY <1>2 DEF WorkerLeave, CloseServerPipe
<1>6. Changes(s) /\ inst'[s] = k
  BY <1>4, <1>5, Replaced DEF PipeInvar
<1>7. PipeTyped'
  BY <1>5, <1>6 DEF PipeInvar, PipeTyped, Changes, services, launch, quic
<1>8. Instance(s, k)
  BY <1>3, <1>4 DEF Instance, Busy, Entered
<1>9. Carried(s, k)
  BY <1>4, PipeAssumption DEF Carried, Entered
<1>10. InstancesInv' /\ WorkersInv' /\ ServiceInv'
  BY <1>1, <1>3, <1>4, <1>5, <1>6, <1>8, KeepInstances, KeepWorkers, KeepService DEF services, Busy
<1>11. PairInv'
  BY <1>4, <1>5, <1>6 DEF PipeInvar, PairInv, Changes, Open
<1>12. AttemptsInv' /\ CarriedInv' /\ OneCarrier' /\ QuicInv'
  BY <1>4, <1>5, <1>6, <1>9, KeepAttempts, KeepCarried, KeepOne, KeepQuic DEF launch
<1> QED BY <1>7, <1>10, <1>11, <1>12 DEF PipeInvar

LEMMA WorkerUncountStep ==
  ASSUME PipeInvar, NEW s \in Slots, WorkerUncount(s)
  PROVE  PipeInvar'
<1>1. PICK j : j = inst[s]
  OBVIOUS
<1>2. PICK w \in {"signal", "none"} : w = IF count = 1 THEN "signal" ELSE "none"
  OBVIOUS
<1>3. PICK k : k = [j EXCEPT !.worker = w]
  OBVIOUS
<1>4. j \in Insts /\ Instance(s, j) /\ Carried(s, j) /\ j.worker = "closed"
  BY <1>1, OfSlot DEF WorkerUncount
<1>5. /\ k \in Insts /\ k.st = j.st /\ k.who = j.who /\ k.req = j.req /\ k.arg = j.arg
      /\ k.reply = j.reply /\ k.worker = w
  BY <1>3, <1>4 DEF Insts
<1>6. /\ inst' = [inst EXCEPT ![s] = k] /\ count' = count - 1
      /\ UNCHANGED <<plan, services, main, idle, exiting, lock, late, poked, access, launch, client, quic>>
  BY <1>1, <1>2, <1>3 DEF WorkerUncount
<1>7. Changes(s) /\ inst'[s] = k
  BY <1>5, <1>6, Replaced DEF PipeInvar
<1>8. s \in Counting /\ Counting' = Counting \ {s}
  BY <1>1, <1>4, <1>5, <1>7 DEF Counting, Changes, Busy
<1>9. count' = Cardinality(Counting') /\ count' \in Nat /\ count # 0
  <2>1. Cardinality(Counting \ {s}) = Cardinality(Counting) - 1
    BY <1>8, Tally, FS_RemoveElement
  <2>2. Counting # {} /\ Cardinality(Counting) # 0
    BY <1>8, Tally, FS_EmptySet
  <2>3. count = Cardinality(Counting) /\ count \in Nat
    BY Tally DEF PipeInvar, WorkersInv
  <2> QED BY <1>6, <1>8, <2>1, <2>2, <2>3
<1>10. PipeTyped'
  BY <1>6, <1>7, <1>9 DEF PipeInvar, PipeTyped, Changes, services, access, launch, quic
<1>11. Instance(s, k)
  BY <1>4, <1>5 DEF Instance, Busy, Entered
<1>12. Carried(s, k)
  BY <1>4, <1>5 DEF Carried, Entered
<1>13. InstancesInv' /\ PairInv'
  BY <1>1, <1>4, <1>5, <1>6, <1>7, <1>11, KeepInstances, KeepPair DEF access
<1>14. WorkersInv'
  <2> SUFFICES ASSUME ~late', idle' \/ \E t \in Slots : inst'[t].worker = "signal"
               PROVE  count' = 0
    BY <1>9 DEF WorkersInv
  <2>1. ~late /\ ~idle /\ \A t \in Slots : inst[t].worker # "signal"
    BY <1>6, <1>9 DEF PipeInvar, WorkersInv
  <2>2. w = "signal"
    BY <1>5, <1>6, <1>7, <2>1 DEF Changes
  <2> QED BY <1>2, <1>6, <2>2
<1>15. ServiceInv'
  <2>1. s \in Workers /\ Workers' \subseteq Workers
    BY <1>1, <1>4, <1>5, <1>7 DEF Workers, Changes
  <2>2. main.stage = "listen" => main.slot \in Slots /\ inst'[main.slot].st = inst[main.slot].st
    BY <1>1, <1>5, <1>7 DEF PipeInvar, PairInv, Changes
  <2> QED BY <1>6, <1>9, <2>1, <2>2 DEF PipeInvar, ServiceInv, services
<1>16. AttemptsInv' /\ CarriedInv' /\ OneCarrier' /\ QuicInv'
  BY <1>1, <1>5, <1>6, <1>7, <1>12, KeepAttempts, KeepCarried, KeepOne, KeepQuic DEF launch
<1> QED BY <1>10, <1>13, <1>14, <1>15, <1>16 DEF PipeInvar

LEMMA WorkerSignalStep ==
  ASSUME PipeInvar, NEW s \in Slots, WorkerSignal(s)
  PROVE  PipeInvar'
<1>1. PICK j : j = inst[s]
  OBVIOUS
<1>2. PICK k : k = [j EXCEPT !.worker = "none"]
  OBVIOUS
<1>3. j \in Insts /\ Instance(s, j) /\ Carried(s, j) /\ j.worker = "signal"
  BY <1>1, OfSlot DEF WorkerSignal
<1>4. /\ k \in Insts /\ k.st = j.st /\ k.who = j.who /\ k.req = j.req /\ k.arg = j.arg
      /\ k.reply = j.reply /\ k.worker = "none"
  BY <1>2, <1>3 DEF Insts
<1>5. /\ inst' = [inst EXCEPT ![s] = k] /\ idle' = TRUE
      /\ UNCHANGED <<plan, services, main, count, exiting, lock, late, poked, access, launch, client, quic>>
  BY <1>1, <1>2 DEF WorkerSignal
<1>6. Changes(s) /\ inst'[s] = k
  BY <1>4, <1>5, Replaced DEF PipeInvar
<1>7. PipeTyped'
  BY <1>5, <1>6 DEF PipeInvar, PipeTyped, Changes, services, access, launch, quic
<1>8. Instance(s, k)
  BY <1>3, <1>4 DEF Instance, Busy, Entered
<1>9. Carried(s, k)
  BY <1>3, <1>4 DEF Carried, Entered
<1>10. InstancesInv' /\ PairInv'
  BY <1>1, <1>4, <1>5, <1>6, <1>8, KeepInstances, KeepPair DEF access
<1>11. WorkersInv'
  <2>1. Counting' = Counting
    BY <1>1, <1>3, <1>4, <1>6 DEF Counting, Changes, Busy
  <2>2. ~late => count = 0
    BY <1>1, <1>3 DEF PipeInvar, WorkersInv
  <2> QED BY <1>5, <2>1, <2>2 DEF PipeInvar, WorkersInv
<1>12. ServiceInv'
  <2>1. Workers' \subseteq Workers
    BY <1>4, <1>6 DEF Workers, Changes
  <2>2. main.stage = "listen" => main.slot \in Slots /\ inst'[main.slot].st = inst[main.slot].st
    BY <1>1, <1>4, <1>6 DEF PipeInvar, PairInv, Changes
  <2> QED BY <1>5, <2>1, <2>2 DEF PipeInvar, ServiceInv, services
<1>13. AttemptsInv' /\ CarriedInv' /\ OneCarrier' /\ QuicInv'
  BY <1>1, <1>4, <1>5, <1>6, <1>9, KeepAttempts, KeepCarried, KeepOne, KeepQuic DEF launch
<1> QED BY <1>7, <1>10, <1>11, <1>12, <1>13 DEF PipeInvar

-----------------------------------------------------------------------------
(* HandleAppLaunch. *)

(* What the purge forgets is old, so it could not be launched again. *)
LEMMA PurgedOld ==
  ASSUME PipeInvar, NEW c \in Clients, NEW p, p = client[c], NEW h, h = history[c], NEW g, g = Purged[c]
  PROVE  /\ g \in Records
         /\ \A n : n = runs[c] => Attempt(c, p, g, n)
         /\ g = h \/ (g = NoRecord /\ h.result \notin {"none", "pending"})
<1>1. PICK n : n = runs[c]
  OBVIOUS
<1>2. p \in Callers /\ h \in Records /\ n \in {0, 1} /\ Attempt(c, p, h, n)
  BY <1>1, OfClient
<1>3. clock \in Nat
  BY DEF PipeInvar, PipeTyped
<1>4. \/ g = h
      \/ g = NoRecord /\ h.result \notin {"none", "pending"} /\ clock - h.at > Keep
  BY DEF Purged
<1>5. CASE g = h
  BY <1>1, <1>2, <1>5
<1>6. CASE g = NoRecord /\ h.result \notin {"none", "pending"} /\ clock - h.at > Keep
  <2>1. g \in Records /\ g.result = "none"
    BY <1>6 DEF NoRecord, Records, Results
  <2>2. h.at = p.since
    BY <1>2, <1>6 DEF Attempt
  <2>3. Attempt(c, p, g, n)
    BY <1>2, <1>3, <1>6, <2>1, <2>2 DEF Attempt
  <2> QED BY <1>1, <1>6, <2>1, <2>3
<1> QED BY <1>4, <1>5, <1>6

LEMMA PurgedTyped ==
  ASSUME PipeInvar
  PROVE  Purged \in [Clients -> Records] /\ \A c \in Clients : history[c].result = "pending" => Purged[c] = history[c]
<1>1. \A c \in Clients : Purged[c] \in Records
  BY PurgedOld
<1>2. Purged = [c \in Clients |-> Purged[c]]
  BY DEF Purged
<1>3. Purged \in [Clients -> Records]
  BY <1>1, <1>2
<1>4. \A c \in Clients : history[c].result = "pending" => Purged[c] = history[c]
  BY PurgedOld
<1> QED BY <1>3, <1>4

(* The answers of LaunchBegin: too late, known already, or no room. *)
LEMMA LaunchAnswered ==
  ASSUME PipeInvar, NEW s \in Slots, Loop(s), inst[s].req = "launch",
         NEW r \in {"pending", "ok", "fault", "aborted", "invalid", "busy"},
         inst' = [inst EXCEPT ![s] = [inst[s] EXCEPT !.req = "none", !.reply = r]], history' \in {history, Purged},
         r = "invalid" => clock - client[inst[s].who].since > Validity,
         r = "ok" => runs[inst[s].who] = 1, r \in {"aborted", "busy"} => runs[inst[s].who] = 0,
         UNCHANGED <<plan, services, main, count, idle, exiting, lock, late, poked, access, clock, runs,
                     client, quic>>
  PROVE  PipeInvar'
<1>1. PICK j : j = inst[s]
  OBVIOUS
<1>2. PICK k : k = [j EXCEPT !.req = "none", !.reply = r]
  OBVIOUS
<1>3. /\ j \in Insts /\ Instance(s, j) /\ Carried(s, j) /\ j.worker = "loop"
      /\ j.who \in Clients
  BY <1>1, OfSlot DEF Loop, Instance
<1>4. /\ k \in Insts /\ k.st = j.st /\ k.who = j.who /\ k.req = "none" /\ k.arg = j.arg
      /\ k.reply = r /\ k.worker = "loop"
  BY <1>2, <1>3 DEF Insts, Replies
<1>6. Changes(s) /\ inst'[s] = k
  BY <1>1, <1>2, <1>4, Replaced DEF PipeInvar
<1>7. PipeTyped'
  BY <1>6, PurgedTyped DEF PipeInvar, PipeTyped, Changes, services, access, quic
<1>8. Instance(s, k)
  BY <1>3, <1>4 DEF Instance, Busy, Entered
<1>10. InstancesInv' /\ PairInv' /\ WorkersInv' /\ ServiceInv'
  BY <1>1, <1>3, <1>4, <1>6, <1>8, KeepInstances, KeepPair, KeepWorkers, KeepService DEF services, access
<1>11. OneCarrier' /\ QuicInv'
  BY <1>4, <1>6, KeepOne, KeepQuic
<1>12. AttemptsInv'
  <2>1. \A t \in Slots, c \in Clients : Carries(t, c)' => Carries(t, c)
    BY <1>4, <1>6 DEF Changes, Carries
  <2> SUFFICES ASSUME NEW c \in Clients, NEW p, p = client[c], NEW g, g = history'[c], NEW n, n = runs[c]
               PROVE  Attempt(c, p, g, n)'
    BY DEF AttemptsInv
  <2>2. Attempt(c, p, g, n)
    BY OfClient, PurgedOld
  <2> QED BY <2>1, <2>2 DEF Attempt
<1>13. CarriedInv'
  <2> SUFFICES ASSUME NEW t \in Slots, NEW x, x = inst'[t]
               PROVE  Carried(t, x)'
    BY DEF CarriedInv
  <2>1. \A c \in Clients : history[c].result = "pending" => history'[c] = history[c]
    BY PurgedTyped
  <2>2. CASE t = s
    BY <1>1, <1>3, <1>4, <1>6, <2>2 DEF Carried, Entered
  <2>3. CASE t # s
    <3>1. x = inst[t] /\ Carried(t, x) /\ Instance(t, x)
      BY <1>6, <2>3, OfSlot DEF Changes
    <3>2. x.worker \in Entered \cup {"wait"} => x.who \in Clients
      BY <3>1 DEF Instance
    <3> QED BY <2>1, <3>1, <3>2 DEF Carried
  <2> QED BY <2>2, <2>3
<1> QED BY <1>7, <1>10, <1>11, <1>12, <1>13 DEF PipeInvar

LEMMA LaunchRecorded ==
  ASSUME PipeInvar, NEW s \in Slots, NEW j, j = inst[s], Loop(s), j.req = "launch",
         clock - client[j.who].since <= Validity, Purged[j.who].result = "none", Recorded(s, Purged),
         UNCHANGED <<plan, services, main, count, idle, exiting, lock, late, poked, access, clock, runs,
                     client, quic>>
  PROVE  PipeInvar'
<1>1. PICK k : k = [j EXCEPT !.worker = "wait"]
  OBVIOUS
<1>2. PICK c : c = j.who
  OBVIOUS
<1>3. /\ j \in Insts /\ Instance(s, j) /\ Carried(s, j) /\ j.worker = "loop" /\ c \in Clients
  BY <1>2, OfSlot DEF Loop, Instance
<1>4. /\ k \in Insts /\ k.st = j.st /\ k.who = c /\ k.req = "launch" /\ k.arg = j.arg
      /\ k.reply = j.reply /\ k.worker = "wait"
  BY <1>1, <1>2, <1>3 DEF Insts, Busy
<1>5. PICK g : g = [result |-> "pending", at |-> client[c].since]
  OBVIOUS
<1>6. PICK p : p = client[c]
  OBVIOUS
<1>7. p \in Callers /\ p.since \in Int /\ p.since >= 0 /\ clock \in Nat
  BY <1>2, <1>3, <1>6, OfClient DEF Callers, Carried, PipeInvar, PipeTyped
<1>8. g \in Records /\ g.result = "pending" /\ g.at = p.since
  BY <1>5, <1>6, <1>7 DEF Records, Results
<1>9. inst' = [inst EXCEPT ![s] = k] /\ history' = [Purged EXCEPT ![c] = g]
  BY <1>1, <1>2, <1>5 DEF Recorded
<1>10. Changes(s) /\ inst'[s] = k
  BY <1>4, <1>9, Replaced DEF PipeInvar
<1>11. /\ history' \in [Clients -> Records] /\ history'[c] = g
       /\ \A d \in Clients : d # c => history'[d] = Purged[d]
  BY <1>3, <1>8, <1>9, PurgedTyped
<1>12. PipeTyped'
  BY <1>10, <1>11 DEF PipeInvar, PipeTyped, Changes, services, access, quic
<1>13. Instance(s, k)
  BY <1>2, <1>3, <1>4 DEF Instance, Busy, Entered
<1>14. InstancesInv' /\ PairInv' /\ WorkersInv' /\ ServiceInv'
  BY <1>3, <1>4, <1>10, <1>13, KeepInstances, KeepPair, KeepWorkers, KeepService DEF services, access, Busy
<1>15. OneCarrier' /\ QuicInv'
  BY <1>2, <1>4, <1>10, KeepOne, KeepQuic
<1>16. runs[c] = 0
  <2>1. PICK n : n = runs[c]
    OBVIOUS
  <2>2. n \in {0, 1} /\ \A h : h = Purged[c] => Attempt(c, p, h, n)
    BY <1>3, <1>6, <2>1, OfClient, PurgedOld
  <2>3. n = 1 => clock - p.since > Keep
    BY <1>2, <2>2 DEF Attempt
  <2> QED BY <1>2, <1>6, <1>7, <2>1, <2>2, <2>3 DEF Keep, Validity
<1>17. AttemptsInv'
  <2>1. \A t \in Slots, d \in Clients : Carries(t, d)' => Carries(t, d)
    BY <1>2, <1>4, <1>10 DEF Changes, Carries
  <2> SUFFICES ASSUME NEW d \in Clients, NEW q, q = client[d], NEW h, h = history'[d], NEW n, n = runs[d]
               PROVE  Attempt(d, q, h, n)'
    BY DEF AttemptsInv
  <2>2. Attempt(d, q, h, n)
    <3>1. CASE d # c
      BY <1>11, <3>1, PurgedOld
    <3>2. CASE d = c
      <4>1. Attempt(c, p, history[c], 0)
        BY <1>3, <1>6, <1>16, OfClient
      <4> QED BY <1>6, <1>7, <1>8, <1>11, <1>16, <3>2, <4>1 DEF Attempt
    <3> QED BY <3>1, <3>2
  <2> QED BY <2>1, <2>2 DEF Attempt
<1>18. CarriedInv'
  <2> SUFFICES ASSUME NEW t \in Slots, NEW x, x = inst'[t]
               PROVE  Carried(t, x)'
    BY DEF CarriedInv
  <2>1. CASE t = s
    BY <1>2, <1>3, <1>4, <1>8, <1>10, <1>11, <1>16, <2>1 DEF Carried, Entered
  <2>2. CASE t # s
    <3>1. x = inst[t] /\ Carried(t, x) /\ Instance(t, x)
      BY <1>10, <2>2, OfSlot DEF Changes
    <3>2. x.worker \in Entered \cup {"wait"} => x.who \in Clients \ {c} /\ history'[x.who] = history[x.who]
      <4> HAVE x.worker \in Entered \cup {"wait"}
      <4>1. x.who \in Clients /\ x.req = "launch" /\ history[x.who].result = "pending"
        BY <3>1 DEF Instance, Carried
      <4>2. x.who # c
        BY <1>2, <2>2, <3>1, <4>1 DEF PipeInvar, OneCarrier
      <4> QED BY <1>11, <4>1, <4>2, PurgedTyped
    <3> QED BY <3>1, <3>2 DEF Carried
  <2> QED BY <2>1, <2>2
<1> QED BY <1>12, <1>14, <1>15, <1>17, <1>18 DEF PipeInvar

LEMMA LaunchBeginStep ==
  ASSUME PipeInvar, NEW s \in Slots, LaunchBegin(s)
  PROVE  PipeInvar'
<1>1. PICK j : j = inst[s]
  OBVIOUS
<1>2. /\ Loop(s) /\ j.req = "launch"
      /\ UNCHANGED <<plan, services, main, count, idle, exiting, lock, late, poked, access, clock, runs,
                     client, quic>>
  BY <1>1 DEF LaunchBegin
<1>3. PICK c \in Clients : c = j.who
  BY <1>1, <1>2, OfSlot DEF Instance
<1>4. PICK p, g, n : p = client[c] /\ g = Purged[c] /\ n = runs[c]
  OBVIOUS
<1>5. g \in Records /\ n \in {0, 1} /\ Attempt(c, p, g, n) /\ p.since \in Int /\ clock \in Nat
  BY <1>4, OfClient, PurgedOld DEF PipeInvar, PipeTyped, Callers
<1>6. CASE clock - p.since > Validity
  <2>1. inst' = [inst EXCEPT ![s] = [j EXCEPT !.req = "none", !.reply = "invalid"]] /\ history' = history
    BY <1>1, <1>3, <1>4, <1>6 DEF LaunchBegin, Reply
  <2> QED BY <1>1, <1>2, <1>3, <1>4, <1>6, <2>1, LaunchAnswered
<1>7. CASE clock - p.since <= Validity /\ g.result # "none"
  <2>1. PICK r : r = g.result
    OBVIOUS
  <2>2. inst' = [inst EXCEPT ![s] = [j EXCEPT !.req = "none", !.reply = r]] /\ history' = Purged
    BY <1>1, <1>3, <1>4, <1>5, <1>7, <2>1 DEF LaunchBegin, Reply, Validity
  <2>3. r \in {"pending", "ok", "fault", "aborted"}
    BY <1>5, <1>7, <2>1 DEF Records, Results
  <2>4. (r = "ok" => n = 1) /\ (r = "aborted" => n = 0)
    BY <1>5, <2>1 DEF Attempt
  <2> QED BY <1>1, <1>2, <1>3, <1>4, <2>2, <2>3, <2>4, LaunchAnswered
<1>8. CASE clock - p.since <= Validity /\ g.result = "none"
  <2>1. \/ inst' = [inst EXCEPT ![s] = [j EXCEPT !.req = "none", !.reply = "busy"]] /\ history' = Purged
        \/ Recorded(s, Purged)
    BY <1>1, <1>3, <1>4, <1>5, <1>8 DEF LaunchBegin, Reply, Validity
  <2>2. CASE Recorded(s, Purged)
    BY <1>1, <1>2, <1>3, <1>4, <1>8, <2>2, LaunchRecorded
  <2>3. CASE inst' = [inst EXCEPT ![s] = [j EXCEPT !.req = "none", !.reply = "busy"]] /\ history' = Purged
    <3>1. n = 0
      <4>1. n = 1 => clock - p.since > Keep
        BY <1>5, <1>8 DEF Attempt
      <4> QED BY <1>5, <1>8, <4>1 DEF Keep, Validity
    <3> QED BY <1>1, <1>2, <1>3, <1>4, <2>3, <3>1, LaunchAnswered
  <2> QED BY <2>1, <2>2, <2>3
<1>9. clock - p.since > Validity \/ clock - p.since <= Validity
  BY <1>5 DEF Validity
<1> QED BY <1>6, <1>7, <1>8, <1>9

LEMMA LaunchEnterStep ==
  ASSUME PipeInvar, NEW s \in Slots, NEW happened \in BOOLEAN, LaunchEnter(s, happened)
  PROVE  PipeInvar'
<1>1. PICK j : j = inst[s]
  OBVIOUS
<1>2. PICK w : w = CASE exiting -> "abort" [] ~exiting /\ happened -> "active" [] OTHER -> "refused"
  OBVIOUS
<1>3. PICK k : k = [j EXCEPT !.worker = w]
  OBVIOUS
<1>4. w \in Entered /\ (w = "active" <=> happened)
  BY <1>2 DEF Entered, LaunchEnter, PipeInvar, PipeTyped
<1>5. PICK c : c = j.who
  OBVIOUS
<1>6. /\ j \in Insts /\ Instance(s, j) /\ Carried(s, j) /\ j.worker = "wait" /\ j.req = "launch" /\ c \in Clients
      /\ history[c].result = "pending" /\ runs[c] = 0
  BY <1>1, <1>5, OfSlot DEF LaunchEnter, Instance, Carried
<1>7. /\ k \in Insts /\ k.st = j.st /\ k.who = c /\ k.req = "launch" /\ k.arg = j.arg
      /\ k.reply = j.reply /\ k.worker = w
  BY <1>3, <1>4, <1>5, <1>6 DEF Insts, Busy, Entered
<1>8. /\ inst' = [inst EXCEPT ![s] = k] /\ lock = 0 /\ lock' = s
      /\ runs' = IF happened THEN [runs EXCEPT ![c] = @ + 1] ELSE runs
      /\ UNCHANGED <<plan, services, main, count, idle, exiting, late, poked, access, history, clock, client, quic>>
  BY <1>1, <1>2, <1>3, <1>5 DEF LaunchEnter, MayEnter
<1>9. Changes(s) /\ inst'[s] = k
  BY <1>7, <1>8, Replaced DEF PipeInvar
<1>10. /\ runs' \in [Clients -> {0, 1}] /\ runs'[c] = (IF w = "active" THEN 1 ELSE 0)
       /\ \A d \in Clients : d # c => runs'[d] = runs[d]
  BY <1>4, <1>6, <1>8 DEF PipeInvar, PipeTyped
<1>11. PipeTyped'
  BY <1>8, <1>9, <1>10 DEF PipeInvar, PipeTyped, Changes, services, access, quic
<1>12. Instance(s, k)
  BY <1>4, <1>5, <1>6, <1>7 DEF Instance, Busy, Entered
<1>13. InstancesInv' /\ PairInv' /\ WorkersInv' /\ ServiceInv'
  BY <1>1, <1>4, <1>6, <1>7, <1>8, <1>9, <1>12, KeepInstances, KeepPair, KeepWorkers, KeepService
     DEF services, access, Busy, Entered
<1>14. OneCarrier' /\ QuicInv'
  BY <1>1, <1>5, <1>6, <1>7, <1>8, <1>9, KeepOne, KeepQuic
<1>15. AttemptsInv'
  <2>1. \A t \in Slots, d \in Clients : Carries(t, d)' => Carries(t, d)
    BY <1>1, <1>5, <1>6, <1>7, <1>9 DEF Changes, Carries
  <2> SUFFICES ASSUME NEW d \in Clients, NEW q, q = client[d], NEW h, h = history[d], NEW n, n = runs'[d]
               PROVE  Attempt(d, q, h, n)'
    BY <1>8 DEF AttemptsInv
  <2>2. PICK m : m = runs[d]
    OBVIOUS
  <2>3. Attempt(d, q, h, m)
    BY <2>2, OfClient
  <2>4. CASE d # c
    <3>1. n = m
      BY <1>10, <2>2, <2>4
    <3> QED BY <1>8, <2>1, <2>3, <3>1 DEF Attempt
  <2>5. CASE d = c
    <3>1. Carries(s, d) /\ h.result = "pending" /\ m = 0 /\ n \in {0, 1}
      BY <1>1, <1>5, <1>6, <1>10, <2>2, <2>5 DEF Carries
    <3>2. q.since >= 0 /\ q.exit \notin {"ok", "aborted", "busy"}
      BY <2>3, <3>1 DEF Attempt
    <3> QED BY <1>8, <2>1, <2>3, <3>1, <3>2 DEF Attempt
  <2> QED BY <2>4, <2>5
<1>16. CarriedInv'
  <2> SUFFICES ASSUME NEW t \in Slots, NEW x, x = inst'[t]
               PROVE  Carried(t, x)'
    BY DEF CarriedInv
  <2>1. CASE t = s
    <3>1. j.reply = "none"
      BY <1>6 DEF Instance
    <3> QED BY <1>4, <1>5, <1>6, <1>7, <1>8, <1>9, <1>10, <2>1, <3>1 DEF Carried
  <2>2. CASE t # s
    <3>1. x = inst[t] /\ Carried(t, x) /\ Instance(t, x)
      BY <1>9, <2>2, OfSlot DEF Changes
    <3>2. x.worker \notin Entered
      BY <1>8, <3>1, PipeAssumption DEF Carried
    <3>3. x.req = "launch" => x.who \in Clients \ {c}
      BY <1>1, <1>5, <1>6, <2>2, <3>1 DEF PipeInvar, OneCarrier, Instance
    <3>4. x.worker = "wait" => x.req = "launch"
      BY <3>1 DEF Instance
    <3>5. CASE x.who # c \/ x.who \notin Clients
      <4>1. x.who \in Clients => runs'[x.who] = runs[x.who]
        BY <1>10, <3>5
      <4> QED BY <1>8, <3>1, <3>2, <3>3, <3>4, <4>1 DEF Carried
    <3>6. CASE x.who = c
      <4>1. ~(client[c].stage = "launch" /\ client[c].slot = t)
        <5>1. client[c].stage = "launch" => client[c].exit = "none"
          BY <1>6, OfClient DEF Attempt
        <5> QED BY <1>5, <1>6, <2>2, <5>1 DEF Carried
      <4>2. x.reply # "ok"
        BY <1>6, <3>1, <3>6 DEF Carried
      <4> QED BY <1>6, <1>8, <3>1, <3>2, <3>3, <3>4, <3>6, <4>1, <4>2 DEF Carried
    <3> QED BY <3>5, <3>6
  <2> QED BY <2>1, <2>2
<1> QED BY <1>11, <1>13, <1>14, <1>15, <1>16 DEF PipeInvar

LEMMA LaunchStoreStep ==
  ASSUME PipeInvar, NEW s \in Slots, NEW outcome \in {"ok", "fault", "aborted"}, LaunchStore(s, outcome)
  PROVE  PipeInvar'
<1>1. PICK j : j = inst[s]
  OBVIOUS
<1>2. PICK k : k = [j EXCEPT !.worker = "loop", !.req = "none", !.reply = outcome]
  OBVIOUS
<1>3. PICK c : c = j.who
  OBVIOUS
<1>4. /\ j.worker \in Entered
      /\ outcome = "ok" => j.worker = "active"
      /\ outcome = "aborted" <=> j.worker = "abort"
  BY <1>1 DEF LaunchStore, Outcomes, Entered
<1>5. /\ j \in Insts /\ Instance(s, j) /\ Carried(s, j) /\ j.req = "launch" /\ c \in Clients /\ lock = s
      /\ history[c].result = "pending" /\ runs[c] = IF j.worker = "active" THEN 1 ELSE 0
  BY <1>1, <1>3, <1>4, OfSlot DEF Instance, Carried
<1>6. /\ k \in Insts /\ k.st = j.st /\ k.who = c /\ k.req = "none" /\ k.arg = j.arg
      /\ k.reply = outcome /\ k.worker = "loop"
  BY <1>2, <1>3, <1>5 DEF Insts, Busy, Replies
<1>7. PICK g : g = [history[c] EXCEPT !.result = outcome]
  OBVIOUS
<1>8. /\ inst' = [inst EXCEPT ![s] = k] /\ lock' = 0 /\ history' = [history EXCEPT ![c] = g]
      /\ UNCHANGED <<plan, services, main, count, idle, exiting, late, poked, access, clock, runs, client, quic>>
  BY <1>1, <1>2, <1>3, <1>5, <1>7 DEF LaunchStore
<1>9. Changes(s) /\ inst'[s] = k
  BY <1>6, <1>8, Replaced DEF PipeInvar
<1>10. g \in Records /\ g.result = outcome /\ g.at = history[c].at
  <2>1. history[c] \in Records
    BY <1>5 DEF PipeInvar, PipeTyped
  <2> QED BY <1>7, <2>1 DEF Records, Results
<1>11. history' \in [Clients -> Records] /\ history'[c] = g /\ \A d \in Clients : d # c => history'[d] = history[d]
  BY <1>5, <1>8, <1>10 DEF PipeInvar, PipeTyped
<1>12. PipeTyped'
  BY <1>8, <1>9, <1>11 DEF PipeInvar, PipeTyped, Changes, services, access, quic
<1>13. Instance(s, k)
  BY <1>3, <1>4, <1>5, <1>6 DEF Instance, Busy, Entered
<1>14. InstancesInv' /\ PairInv' /\ WorkersInv' /\ ServiceInv'
  BY <1>1, <1>4, <1>6, <1>8, <1>9, <1>13, KeepInstances, KeepPair, KeepWorkers, KeepService
     DEF services, access, Busy, Entered
<1>15. OneCarrier' /\ QuicInv'
  BY <1>6, <1>8, <1>9, KeepOne, KeepQuic
<1>16. AttemptsInv'
  <2>1. \A t \in Slots, d \in Clients : Carries(t, d)' => Carries(t, d)
    BY <1>6, <1>9 DEF Changes, Carries
  <2> SUFFICES ASSUME NEW d \in Clients, NEW q, q = client[d], NEW h, h = history'[d], NEW n, n = runs[d]
               PROVE  Attempt(d, q, h, n)'
    BY <1>8 DEF AttemptsInv
  <2>2. PICK m : m = history[d]
    OBVIOUS
  <2>3. Attempt(d, q, m, n) /\ n \in {0, 1}
    BY <2>2, OfClient
  <2>4. CASE d # c
    <3>1. h = m
      BY <1>11, <2>2, <2>4
    <3> QED BY <1>8, <2>1, <2>3, <3>1 DEF Attempt
  <2>5. CASE d = c
    <3>1. h.result = outcome /\ h.at = m.at /\ m.result = "pending" /\ n = IF j.worker = "active" THEN 1 ELSE 0
      BY <1>5, <1>10, <1>11, <2>2, <2>5
    <3> QED BY <1>4, <1>8, <2>1, <2>3, <3>1 DEF Attempt
  <2> QED BY <2>4, <2>5
<1>17. CarriedInv'
  <2> SUFFICES ASSUME NEW t \in Slots, NEW x, x = inst'[t]
               PROVE  Carried(t, x)'
    BY DEF CarriedInv
  <2>1. CASE t = s
    BY <1>4, <1>5, <1>6, <1>8, <1>9, <2>1 DEF Carried, Entered
  <2>2. CASE t # s
    <3>1. x = inst[t] /\ Carried(t, x) /\ Instance(t, x)
      BY <1>9, <2>2, OfSlot DEF Changes
    <3>2. x.worker \notin Entered
      BY <1>5, <2>2, <3>1 DEF Carried
    <3>3. x.worker = "wait" => history'[x.who] = history[x.who]
      <4>1. x.worker = "wait" => x.req = "launch" /\ x.who \in Clients
        BY <3>1 DEF Instance
      <4>2. x.req = "launch" => x.who # c
        BY <1>1, <1>3, <1>5, <2>2, <3>1 DEF PipeInvar, OneCarrier
      <4> QED BY <1>11, <4>1, <4>2
    <3> QED BY <1>8, <3>1, <3>2, <3>3 DEF Carried
  <2> QED BY <2>1, <2>2
<1> QED BY <1>12, <1>14, <1>15, <1>16, <1>17 DEF PipeInvar

-----------------------------------------------------------------------------
(* Steps that leave the instances alone. *)

LEMMA SamePipes ==
  ASSUME PipeInvar, UNCHANGED <<inst, main, pair, sids, dacl>>
  PROVE  InstancesInv' /\ PairInv'
BY DEF PipeInvar, InstancesInv, Instance, PairInv

LEMMA SameCount ==
  ASSUME UNCHANGED inst
  PROVE  Counting' = Counting /\ Workers' = Workers
BY DEF Counting, Workers

LEMMA SameLaunches ==
  ASSUME PipeInvar, UNCHANGED <<inst, lock, history, clock, runs, client>>
  PROVE  AttemptsInv' /\ CarriedInv' /\ OneCarrier'
<1>1. AttemptsInv'
  BY DEF PipeInvar, AttemptsInv, Attempt, Carries
<1>2. CarriedInv'
  BY DEF PipeInvar, CarriedInv, Carried
<1>3. OneCarrier'
  BY DEF PipeInvar, OneCarrier
<1> QED BY <1>1, <1>2, <1>3

LEMMA SameQuic ==
  ASSUME PipeInvar, UNCHANGED <<inst, browser, reports, final>>
  PROVE  QuicInv'
BY DEF PipeInvar, QuicInv, Truly

LEMMA NoneCounted ==
  ASSUME PipeInvar, Workers = {}
  PROVE  count = 0
<1>1. Counting = {}
  BY DEF Counting, Workers, Busy
<1> QED BY <1>1, FS_EmptySet DEF PipeInvar, WorkersInv

-----------------------------------------------------------------------------
(* Start and stop of the service. *)

LEMMA EnableProxyStep ==
  ASSUME PipeInvar, EnableProxy
  PROVE  PipeInvar'
<1>1. /\ service = "off" /\ service' = "tcp" /\ Workers = {}
      /\ UNCHANGED <<plan, servers, stopped, threads, access, launch, client, quic>>
  BY DEF EnableProxy
<1>2. UNCHANGED <<main, inst, count, idle, exiting, lock, late, poked, sids, pair, dacl, history, clock, runs>>
  BY <1>1 DEF threads, access, launch
<1>3. UNCHANGED <<browser, reports, final>>
  BY <1>1 DEF quic
<1>4. PipeTyped'
  BY <1>1, <1>2, <1>3 DEF PipeInvar, PipeTyped
<1>5. WorkersInv'
  BY <1>2, SameCount DEF PipeInvar, WorkersInv
<1>6. ServiceInv'
  BY <1>1, <1>2, SameCount DEF PipeInvar, ServiceInv
<1> QED BY <1>1, <1>2, <1>3, <1>4, <1>5, <1>6, SamePipes, SameLaunches, SameQuic DEF PipeInvar

LEMMA StartupPRCServerStep ==
  ASSUME PipeInvar, NEW o \in {"started", "unsupported", "failed"}, StartupPRCServer(o)
  PROVE  PipeInvar'
<1>1. /\ service \in {"tcp", "tcp6", "udp"}
      /\ UNCHANGED <<plan, threads, access, launch, client, quic>>
  BY DEF StartupPRCServer
<1>2. UNCHANGED <<main, inst, count, idle, exiting, lock, late, poked, sids, pair, dacl, history, clock, runs>>
  BY <1>1 DEF threads, access, launch
<1>3. UNCHANGED <<browser, reports, final>>
  BY <1>1 DEF quic
<1>4. \/ servers' = servers \cup {service} /\ service' = After[service]
      \/ service = "tcp6" /\ servers' = servers /\ service' = After[service]
      \/ servers' = {} /\ service' = "off"
  BY DEF StartupPRCServer, GiveUp
<1>5. After["tcp"] = "tcp6" /\ After["tcp6"] = "udp" /\ After["udp"] = "pipe"
  BY DEF After
<1>6. PipeTyped'
  <2>1. /\ service' \in {"off", "tcp", "tcp6", "udp", "pipe", "running", "poke", "main", "workers", "delete"}
        /\ servers' \subseteq {"tcp", "tcp6", "udp", "pipe"}
    BY <1>1, <1>4, <1>5 DEF PipeInvar, PipeTyped
  <2> QED BY <1>1, <1>2, <1>3, <2>1 DEF PipeInvar, PipeTyped
<1>7. WorkersInv'
  BY <1>2, SameCount DEF PipeInvar, WorkersInv
<1>8. Workers = {} /\ count = 0 /\ main.stage = "none"
  BY <1>1, NoneCounted DEF PipeInvar, ServiceInv
<1>9. service \in {"tcp6", "udp"} => "tcp" \in servers
  BY DEF PipeInvar, ServiceInv
<1>10. ServiceInv'
  <2>1. CASE service = "tcp"
    BY <1>2, <1>4, <1>5, <1>8, <2>1, SameCount DEF ServiceInv
  <2>2. CASE service = "tcp6"
    BY <1>2, <1>4, <1>5, <1>8, <1>9, <2>2, SameCount DEF ServiceInv
  <2>3. CASE service = "udp"
    BY <1>2, <1>4, <1>5, <1>8, <1>9, <2>3, SameCount DEF ServiceInv
  <2> QED BY <1>1, <2>1, <2>2, <2>3
<1> QED BY <1>1, <1>2, <1>3, <1>6, <1>7, <1>10, SamePipes, SameLaunches, SameQuic DEF PipeInvar

LEMMA StartupServerStep ==
  ASSUME PipeInvar, StartupServer
  PROVE  PipeInvar'
<1>1. /\ service = "pipe" /\ main.stage = "none" /\ servers' = servers \cup {"pipe"}
      /\ exiting' = FALSE /\ idle' = TRUE /\ late' = FALSE /\ poked' = FALSE
      /\ main' = [stage |-> "create", slot |-> 0]
      /\ UNCHANGED <<plan, service, stopped, inst, count, lock, access, launch, client, quic>>
  BY DEF StartupServer
<1>2. UNCHANGED <<sids, pair, dacl, history, clock, runs, browser, reports, final>>
  BY <1>1 DEF access, launch, quic
<1>3. /\ main'.stage = "create"
      /\ main' \in [stage : {"none", "create", "listen", "count", "ended"}, slot : Slots \cup {0}]
  BY <1>1
<1>4. PipeTyped'
  BY <1>1, <1>2, <1>3 DEF PipeInvar, PipeTyped
<1>5. Workers = {} /\ count = 0
  BY <1>1, NoneCounted DEF PipeInvar, ServiceInv
<1>6. WorkersInv'
  BY <1>1, <1>5, SameCount DEF PipeInvar, WorkersInv
<1>7. ServiceInv'
  BY <1>1, <1>3, <1>5, SameCount DEF PipeInvar, ServiceInv
<1>8. InstancesInv'
  BY <1>1, <1>3 DEF PipeInvar, InstancesInv, Instance
<1>9. PairInv'
  BY <1>1, <1>2, <1>3 DEF PipeInvar, PairInv
<1> QED BY <1>1, <1>2, <1>4, <1>6, <1>7, <1>8, <1>9, SameLaunches, SameQuic DEF PipeInvar

LEMMA StopCentreStep ==
  ASSUME PipeInvar, StopCentre
  PROVE  PipeInvar'
<1>1. /\ service = "running" /\ service' = "poke" /\ exiting' = TRUE
      /\ UNCHANGED <<plan, servers, stopped, main, inst, count, idle, lock, late, poked, access, launch, client, quic>>
  BY DEF StopCentre
<1>2. UNCHANGED <<sids, pair, dacl, history, clock, runs, browser, reports, final>>
  BY <1>1 DEF access, launch, quic
<1>3. PipeTyped'
  BY <1>1, <1>2 DEF PipeInvar, PipeTyped
<1>4. WorkersInv'
  BY <1>1, SameCount DEF PipeInvar, WorkersInv
<1>5. ServiceInv'
  BY <1>1, SameCount DEF PipeInvar, ServiceInv
<1> QED BY <1>1, <1>2, <1>3, <1>4, <1>5, SamePipes, SameLaunches, SameQuic DEF PipeInvar

LEMMA PokeStep ==
  ASSUME PipeInvar, Poke
  PROVE  PipeInvar'
<1>1. /\ service = "poke" /\ service' = "main"
      /\ UNCHANGED <<plan, servers, stopped, main, count, idle, exiting, lock, late, access, launch, client, quic>>
  BY DEF Poke
<1>2. UNCHANGED <<sids, pair, dacl, history, clock, runs, browser, reports, final>>
  BY <1>1 DEF access, launch, quic
<1>3. CASE Listening = {}
  <2>1. UNCHANGED <<inst, poked>>
    BY <1>3 DEF Poke
  <2>2. PipeTyped'
    BY <1>1, <1>2, <2>1 DEF PipeInvar, PipeTyped
  <2>3. WorkersInv'
    BY <1>1, <2>1, SameCount DEF PipeInvar, WorkersInv
  <2>4. ServiceInv'
    BY <1>1, <2>1, SameCount DEF PipeInvar, ServiceInv
  <2> QED BY <1>1, <1>2, <2>1, <2>2, <2>3, <2>4, SamePipes, SameLaunches, SameQuic DEF PipeInvar
<1>4. CASE Listening # {}
  <2>1. PICK s \in Slots : s = main.slot /\ s = Min(Listening) /\ main.stage = "listen" /\ inst[s].st = "listen"
    BY <1>4, OneListens
  <2>2. PICK j : j = inst[s]
    OBVIOUS
  <2>3. PICK k : k = [j EXCEPT !.st = "linked", !.gone = TRUE]
    OBVIOUS
  <2>4. j \in Insts /\ Instance(s, j) /\ Carried(s, j) /\ j.st = "listen"
    BY <2>1, <2>2, OfSlot
  <2>5. /\ k \in Insts /\ k.st = "linked" /\ k.who = j.who /\ k.req = j.req /\ k.arg = j.arg
        /\ k.reply = j.reply /\ k.worker = j.worker
    BY <2>3, <2>4 DEF Insts
  <2>6. inst' = [inst EXCEPT ![s] = k] /\ poked' = TRUE
    BY <1>4, <2>1, <2>2, <2>3 DEF Poke
  <2>7. Changes(s) /\ inst'[s] = k
    BY <2>5, <2>6, Replaced DEF PipeInvar
  <2>8. PipeTyped'
    BY <1>1, <1>2, <2>6, <2>7 DEF PipeInvar, PipeTyped, Changes
  <2>9. Instance(s, k)
    BY <2>1, <2>4, <2>5 DEF Instance, Busy, Entered
  <2>10. Carried(s, k)
    BY <2>4, <2>5 DEF Carried
  <2>11. InstancesInv' /\ PairInv' /\ WorkersInv'
    BY <1>1, <1>2, <2>1, <2>2, <2>4, <2>5, <2>7, <2>9, KeepInstances, KeepPair, KeepWorkers
  <2>12. ServiceInv'
    BY <1>1, <2>1, <2>5, <2>6, <2>7 DEF PipeInvar, ServiceInv
  <2>13. AttemptsInv' /\ CarriedInv' /\ OneCarrier' /\ QuicInv'
    BY <1>1, <1>2, <2>2, <2>5, <2>7, <2>10, KeepAttempts, KeepCarried, KeepOne, KeepQuic DEF quic
  <2> QED BY <2>8, <2>11, <2>12, <2>13 DEF PipeInvar
<1> QED BY <1>3, <1>4

LEMMA JoinMainStep ==
  ASSUME PipeInvar, JoinMain
  PROVE  PipeInvar'
<1>1. /\ service = "main" /\ main.stage = "ended" /\ service' = "workers"
      /\ main' = [stage |-> "none", slot |-> 0]
      /\ UNCHANGED <<plan, servers, stopped, inst, count, idle, exiting, lock, late, poked, access, launch, client, quic>>
  BY DEF JoinMain
<1>2. UNCHANGED <<sids, pair, dacl, history, clock, runs, browser, reports, final>>
  BY <1>1 DEF access, launch, quic
<1>3. main'.stage = "none" /\ main' \in [stage : {"none", "create", "listen", "count", "ended"}, slot : Slots \cup {0}]
  BY <1>1
<1>4. PipeTyped'
  BY <1>1, <1>2, <1>3 DEF PipeInvar, PipeTyped
<1>5. WorkersInv'
  BY <1>1, SameCount DEF PipeInvar, WorkersInv
<1>6. ServiceInv'
  BY <1>1, <1>3, SameCount DEF PipeInvar, ServiceInv
<1>7. InstancesInv'
  BY <1>1, <1>3 DEF PipeInvar, InstancesInv, Instance
<1>8. PairInv'
  BY <1>1, <1>2, <1>3 DEF PipeInvar, PairInv
<1> QED BY <1>1, <1>2, <1>4, <1>5, <1>6, <1>7, <1>8, SameLaunches, SameQuic DEF PipeInvar

LEMMA JoinWorkersStep ==
  ASSUME PipeInvar, JoinWorkers
  PROVE  PipeInvar'
<1>1. /\ service = "workers" /\ idle /\ service' = "delete" /\ idle' = FALSE
      /\ UNCHANGED <<plan, servers, stopped, main, inst, count, exiting, lock, late, poked, access, launch, client, quic>>
  BY DEF JoinWorkers
<1>2. UNCHANGED <<sids, pair, dacl, history, clock, runs, browser, reports, final>>
  BY <1>1 DEF access, launch, quic
<1>3. PipeTyped'
  BY <1>1, <1>2 DEF PipeInvar, PipeTyped
<1>4. WorkersInv'
  BY <1>1, SameCount DEF PipeInvar, WorkersInv
<1>5. ~late => count = 0
  BY <1>1 DEF PipeInvar, WorkersInv
<1>6. ServiceInv'
  BY <1>1, <1>5, SameCount DEF PipeInvar, ServiceInv
<1> QED BY <1>1, <1>2, <1>3, <1>4, <1>6, SamePipes, SameLaunches, SameQuic DEF PipeInvar

LEMMA ShutdownPRCServerStep ==
  ASSUME PipeInvar, ShutdownPRCServer
  PROVE  PipeInvar'
<1>1. /\ service = "delete" /\ service' = "off" /\ servers' = {}
      /\ reports' = [c \in Clients |-> "none"] /\ final' = {}
      /\ UNCHANGED <<plan, threads, access, launch, client, browser>>
  BY DEF ShutdownPRCServer, Forget
<1>2. UNCHANGED <<main, inst, count, idle, exiting, lock, late, poked, sids, pair, dacl, history, clock, runs>>
  BY <1>1 DEF threads, access, launch
<1>3. PipeTyped'
  BY <1>1, <1>2 DEF PipeInvar, PipeTyped
<1>4. WorkersInv'
  BY <1>2, SameCount DEF PipeInvar, WorkersInv
<1>5. ServiceInv'
  BY <1>1, <1>2, SameCount DEF PipeInvar, ServiceInv
<1>6. QuicInv'
  BY <1>1, <1>2 DEF PipeInvar, QuicInv, Truly
<1> QED BY <1>1, <1>2, <1>3, <1>4, <1>5, <1>6, SamePipes, SameLaunches DEF PipeInvar

-----------------------------------------------------------------------------
(* The accepting thread. *)

MainStages == [stage : {"none", "create", "listen", "count", "ended"}, slot : Slots \cup {0}]

(* While no instance is being accepted none listens. *)
LEMMA NoneWaits ==
  ASSUME PipeInvar, main.stage \notin {"listen", "count"}, NEW t \in Slots
  PROVE  inst[t].st \in {"free", "served"}
BY OfSlot DEF Instance, Insts

LEMMA MainCreateStep ==
  ASSUME PipeInvar, NEW ok \in BOOLEAN, MainCreate(ok)
  PROVE  PipeInvar'
<1>1. /\ main.stage = "create" /\ FreeSlots # {}
      /\ UNCHANGED <<plan, count, idle, exiting, lock, late, poked, launch, client, quic>>
  BY DEF MainCreate
<1>2. UNCHANGED <<history, clock, runs, browser, reports, final>>
  BY <1>1 DEF launch, quic
<1>3. service \notin {"off", "tcp", "tcp6", "udp", "workers", "delete"} /\ (service = "main" => ~poked)
  BY <1>1 DEF PipeInvar, ServiceInv
<1>4. CASE ~ok
  <2>1. /\ inst' = inst /\ sids' = sids /\ dacl' = dacl /\ pair' = (pair /\ \E t \in Slots : Open(t))
        /\ main' = [stage |-> IF service = "pipe" THEN "none" ELSE "ended", slot |-> 0]
        /\ service # "pipe" => UNCHANGED <<service, servers>>
        /\ service = "pipe" => service' = "off" /\ servers' = {}
    BY <1>4 DEF MainCreate, GiveUp, services
  <2>2. main' \in MainStages /\ main'.stage = IF service = "pipe" THEN "none" ELSE "ended"
    BY <2>1 DEF MainStages
  <2>3. pair' = pair
    BY <2>1 DEF PipeInvar, PairInv, Open, PipeTyped
  <2>4. PipeTyped'
    <3>1. CASE service = "pipe"
      BY <1>1, <1>2, <2>1, <2>2, <2>3, <3>1 DEF PipeInvar, PipeTyped, MainStages
    <3>2. CASE service # "pipe"
      BY <1>1, <1>2, <2>1, <2>2, <2>3, <3>2 DEF PipeInvar, PipeTyped, MainStages
    <3> QED BY <3>1, <3>2
  <2>5. InstancesInv'
    BY <1>1, <2>1, <2>2 DEF PipeInvar, InstancesInv, Instance
  <2>6. PairInv'
    BY <2>1, <2>2, <2>3 DEF PipeInvar, PairInv
  <2>7. WorkersInv'
    BY <1>1, <2>1, SameCount DEF PipeInvar, WorkersInv
  <2>8. service = "pipe" => count = 0
    BY NoneCounted DEF PipeInvar, ServiceInv
  <2>9. ServiceInv'
    <3>1. CASE service = "pipe"
      BY <1>1, <2>1, <2>2, <2>8, <3>1, SameCount DEF ServiceInv
    <3>2. CASE service # "pipe"
      BY <1>1, <1>3, <2>1, <2>2, <3>2, SameCount DEF PipeInvar, ServiceInv
    <3> QED BY <3>1, <3>2
  <2> QED BY <1>1, <1>2, <2>1, <2>4, <2>5, <2>6, <2>7, <2>9, SameLaunches, SameQuic DEF PipeInvar
<1>5. CASE ok
  <2>1. PICK s : s = Min(FreeSlots)
    OBVIOUS
  <2>2. s \in FreeSlots
    BY <1>1, <2>1, MinIn, PipeAssumption DEF FreeSlots
  <2>3. PICK j : j = inst[s]
    OBVIOUS
  <2>4. s \in Slots /\ j \in Insts /\ Instance(s, j) /\ Carried(s, j) /\ j.st = "free" /\ j.worker = "none"
    BY <2>2, <2>3, OfSlot DEF FreeSlots, Open
  <2>5. PICK k : k = [Free EXCEPT !.st = "listen"]
    OBVIOUS
  <2>6. k \in Insts /\ k.st = "listen" /\ k.who = 0 /\ k.req = "none" /\ k.reply = "none" /\ k.worker = "none"
    BY <2>5 DEF Insts, Free, Replies, Kinds
  <2>7. /\ inst' = [inst EXCEPT ![s] = k] /\ pair' = TRUE /\ dacl' = NewDacl /\ sids' = sids
        /\ main' = [stage |-> "listen", slot |-> s] /\ servers' = servers
        /\ service' = IF service = "pipe" THEN "running" ELSE service
    BY <1>5, <2>1, <2>5 DEF MainCreate, CreateServerPipe
  <2>8. Changes(s) /\ inst'[s] = k
    BY <2>4, <2>6, <2>7, Replaced DEF PipeInvar
  <2>9. main' \in MainStages /\ main'.stage = "listen" /\ main'.slot = s
    BY <2>4, <2>7 DEF MainStages
  <2>10. dacl' \subseteq Packages /\ sids' \subseteq dacl'
    BY <2>7 DEF NewDacl, Exists, Open, PipeInvar, PipeTyped, PairInv
  <2>11. PipeTyped'
    <3>1. service' \in {"off", "tcp", "tcp6", "udp", "pipe", "running", "poke", "main", "workers", "delete"}
      BY <2>7 DEF PipeInvar, PipeTyped
    <3> QED BY <1>1, <1>2, <2>7, <2>8, <2>9, <2>10, <3>1 DEF PipeInvar, PipeTyped, MainStages, Changes
  <2>12. InstancesInv'
    <3> SUFFICES ASSUME NEW t \in Slots, NEW x, x = inst'[t] PROVE Instance(t, x)'
      BY DEF InstancesInv
    <3>1. CASE t = s
      BY <2>6, <2>8, <2>9, <3>1 DEF Instance, Busy, Entered
    <3>2. CASE t # s
      <4>1. x = inst[t] /\ Instance(t, x) /\ x.st \in {"free", "served"}
        BY <1>1, <2>8, <3>2, OfSlot, NoneWaits DEF Changes
      <4> QED BY <2>9, <3>2, <4>1 DEF Instance
    <3> QED BY <3>1, <3>2
  <2>13. PairInv'
    BY <2>4, <2>6, <2>7, <2>8, <2>9, <2>10 DEF PairInv
  <2>14. WorkersInv'
    BY <1>1, <2>3, <2>4, <2>6, <2>8, KeepWorkers
  <2>15. ServiceInv'
    <3>1. Workers' = Workers
      BY <2>3, <2>4, <2>6, <2>8 DEF Workers, Changes
    <3>2. CASE service = "pipe"
      BY <1>1, <2>7, <2>9, <3>2 DEF PipeInvar, ServiceInv
    <3>3. CASE service # "pipe"
      BY <1>1, <1>3, <2>7, <2>9, <3>1, <3>3 DEF PipeInvar, ServiceInv
    <3> QED BY <3>2, <3>3
  <2>16. Carried(s, k)
    BY <2>6, PipeAssumption DEF Carried, Entered
  <2>17. AttemptsInv' /\ CarriedInv' /\ OneCarrier' /\ QuicInv'
    BY <1>1, <1>2, <2>4, <2>6, <2>8, <2>16, KeepAttempts, KeepCarried, KeepOne, KeepQuic DEF quic
  <2> QED BY <2>11, <2>12, <2>13, <2>14, <2>15, <2>17 DEF PipeInvar
<1> QED BY <1>4, <1>5

(* The accepting thread closes the instance it has just been connected to. *)
LEMMA MainCloses ==
  ASSUME PipeInvar, NEW s \in Slots, s = main.slot, main.stage \in {"listen", "count"}, inst[s].st = "linked",
         CloseServerPipe(s, "none"), NEW w \in {"create", "ended"}, main' = [stage |-> w, slot |-> 0],
         service = "main" /\ poked => w = "ended",
         idle' \in BOOLEAN, idle' => idle \/ count = 0,
         UNCHANGED <<plan, services, count, exiting, lock, late, poked, launch, client, quic>>
  PROVE  PipeInvar'
<1>1. PICK k : k = [Free EXCEPT !.worker = "none"]
  OBVIOUS
<1>2. k \in Insts /\ k.st = "free" /\ k.who = 0 /\ k.req = "none" /\ k.reply = "none" /\ k.worker = "none"
  BY <1>1 DEF Insts, Free, Replies, Kinds
<1>3. /\ inst' = [inst EXCEPT ![s] = k] /\ pair' = (pair /\ \E t \in Slots \ {s} : Open(t))
      /\ sids' = sids /\ dacl' = dacl
  BY <1>1 DEF CloseServerPipe
<1>4. Changes(s) /\ inst'[s] = k
  BY <1>2, <1>3, Replaced DEF PipeInvar
<1>5. UNCHANGED <<service, servers, history, clock, runs, browser, reports, final>>
  BY DEF services, launch, quic
<1>6. main' \in MainStages /\ main'.stage = w
  BY DEF MainStages
<1>7. inst[s].worker = "none"
  BY OfSlot DEF Instance, Insts
<1>8. PipeTyped'
  BY <1>3, <1>4, <1>5, <1>6 DEF PipeInvar, PipeTyped, MainStages, Changes
<1>9. InstancesInv'
  <2> SUFFICES ASSUME NEW t \in Slots, NEW x, x = inst'[t] PROVE Instance(t, x)'
    BY DEF InstancesInv
  <2>1. CASE t = s
    BY <1>2, <1>4, <1>6, <2>1 DEF Instance, Busy, Entered
  <2>2. CASE t # s
    <3>1. x = inst[t] /\ Instance(t, x)
      BY <1>4, <2>2, OfSlot DEF Changes
    <3> QED BY <1>6, <2>2, <3>1 DEF Instance
  <2> QED BY <2>1, <2>2
<1>10. PairInv'
  BY <1>2, <1>3, <1>4, <1>6 DEF PipeInvar, PairInv, Changes, Open
<1>11. WorkersInv'
  <2>1. Counting' = Counting
    BY <1>2, <1>4, <1>7 DEF Counting, Changes, Busy
  <2>2. \A t \in Slots : inst'[t].worker = "signal" => inst[t].worker = "signal"
    BY <1>2, <1>4 DEF Changes
  <2> QED BY <2>1, <2>2 DEF PipeInvar, WorkersInv
<1>12. ServiceInv'
  <2>1. Workers' = Workers
    BY <1>2, <1>4, <1>7 DEF Workers, Changes
  <2> QED BY <1>5, <1>6, <2>1 DEF PipeInvar, ServiceInv
<1>13. Carried(s, k)
  BY <1>2, PipeAssumption DEF Carried, Entered
<1>14. AttemptsInv' /\ CarriedInv' /\ OneCarrier' /\ QuicInv'
  BY <1>2, <1>4, <1>5, <1>13, KeepAttempts, KeepCarried, KeepOne, KeepQuic DEF quic
<1> QED BY <1>8, <1>9, <1>10, <1>11, <1>12, <1>14 DEF PipeInvar

LEMMA MainAcceptStep ==
  ASSUME PipeInvar, NEW spawned \in BOOLEAN, MainAccept(spawned)
  PROVE  PipeInvar'
<1>1. PICK s : s = main.slot
  OBVIOUS
<1>2. /\ s \in Slots /\ main.stage = "listen" /\ inst[s].st = "linked"
      /\ UNCHANGED <<plan, services, count, idle, exiting, lock, late, poked, launch, client, quic>>
  BY <1>1 DEF MainAccept, PipeInvar, PairInv
<1>3. CASE exiting \/ ~spawned
  <2>1. PICK w \in {"create", "ended"} : w = IF exiting THEN "ended" ELSE "create"
    OBVIOUS
  <2>2. CloseServerPipe(s, "none") /\ main' = [stage |-> w, slot |-> 0]
    BY <1>1, <1>3, <2>1 DEF MainAccept
  <2>3. service = "main" => exiting
    BY DEF PipeInvar, ServiceInv
  <2>4. idle' \in BOOLEAN
    BY <1>2 DEF PipeInvar, PipeTyped
  <2> QED BY <1>1, <1>2, <2>1, <2>2, <2>3, <2>4, MainCloses
<1>4. CASE ~(exiting \/ ~spawned)
  <2>1. main' = [main EXCEPT !.stage = "count"] /\ UNCHANGED <<inst, sids, pair, dacl>>
    BY <1>4 DEF MainAccept, access
  <2>2. main' \in MainStages /\ main'.stage = "count" /\ main'.slot = s
    BY <1>1, <2>1 DEF PipeInvar, PipeTyped, MainStages
  <2>3. UNCHANGED <<service, servers, history, clock, runs, browser, reports, final>>
    BY <1>2 DEF services, launch, quic
  <2>4. PipeTyped'
    BY <1>2, <2>1, <2>2, <2>3 DEF PipeInvar, PipeTyped, MainStages
  <2>5. InstancesInv'
    BY <1>1, <1>2, <2>1, <2>2 DEF PipeInvar, InstancesInv, Instance
  <2>6. PairInv'
    BY <1>2, <2>1, <2>2 DEF PipeInvar, PairInv
  <2>7. WorkersInv'
    BY <1>2, <2>1, SameCount DEF PipeInvar, WorkersInv
  <2>8. ServiceInv'
    BY <1>2, <1>4, <2>1, <2>2, <2>3, SameCount DEF PipeInvar, ServiceInv
  <2> QED BY <1>2, <2>1, <2>3, <2>4, <2>5, <2>6, <2>7, <2>8, SameLaunches, SameQuic DEF PipeInvar
<1> QED BY <1>3, <1>4

LEMMA MainHandOverStep ==
  ASSUME PipeInvar, NEW resumed \in BOOLEAN, MainHandOver(resumed)
  PROVE  PipeInvar'
<1>1. PICK s : s = main.slot
  OBVIOUS
<1>2. /\ s \in Slots /\ main.stage = "count" /\ main' = [stage |-> "create", slot |-> 0]
      /\ UNCHANGED <<plan, services, exiting, lock, poked, launch, client, quic>>
  BY <1>1 DEF MainHandOver, PipeInvar, PairInv
<1>3. PICK j : j = inst[s]
  OBVIOUS
<1>4. j \in Insts /\ Instance(s, j) /\ Carried(s, j) /\ j.st = "linked" /\ j.worker = "none"
  <2>1. j \in Insts /\ Instance(s, j) /\ Carried(s, j) /\ j.st = "linked"
    BY <1>1, <1>2, <1>3, OfSlot DEF Instance
  <2> QED BY <2>1 DEF Instance, Insts
<1>5. service \notin {"off", "tcp", "tcp6", "udp", "pipe", "workers", "delete"} /\ ~(service = "main" /\ poked)
  BY <1>2 DEF PipeInvar, ServiceInv
<1>6. CASE ~resumed
  <2>1. CloseServerPipe(s, "none") /\ idle' = (count = 0) /\ UNCHANGED <<count, late>>
    BY <1>1, <1>6 DEF MainHandOver
  <2> QED BY <1>1, <1>2, <1>3, <1>4, <1>5, <2>1, MainCloses
<1>7. CASE resumed
  <2>1. PICK k : k = [j EXCEPT !.st = "served", !.worker = "loop"]
    OBVIOUS
  <2>2. /\ k \in Insts /\ k.st = "served" /\ k.who = j.who /\ k.req = j.req /\ k.arg = j.arg
        /\ k.reply = j.reply /\ k.worker = "loop"
    BY <1>4, <2>1 DEF Insts, Busy
  <2>3. /\ inst' = [inst EXCEPT ![s] = k] /\ count' = count + 1 /\ idle' = FALSE
        /\ late' = (late \/ \E t \in Slots : inst[t].worker = "signal")
        /\ UNCHANGED <<sids, pair, dacl>>
    BY <1>1, <1>3, <1>7, <2>1 DEF MainHandOver, Counted, access
  <2>4. Changes(s) /\ inst'[s] = k
    BY <1>2, <2>2, <2>3, Replaced DEF PipeInvar
  <2>5. main' \in MainStages /\ main'.stage = "create"
    BY <1>2 DEF MainStages
  <2>6. UNCHANGED <<service, servers, history, clock, runs, browser, reports, final>>
    BY <1>2 DEF services, launch, quic
  <2>7. s \notin Counting /\ Counting' = Counting \cup {s}
    BY <1>2, <1>3, <1>4, <2>2, <2>4 DEF Counting, Changes, Busy
  <2>8. count' = Cardinality(Counting') /\ count' \in Nat
    <3>1. Cardinality(Counting \cup {s}) = Cardinality(Counting) + 1
      BY <2>7, Tally, FS_AddElement
    <3>2. count = Cardinality(Counting) /\ count \in Nat
      BY Tally DEF PipeInvar, WorkersInv
    <3> QED BY <2>3, <2>7, <3>1, <3>2
  <2>9. PipeTyped'
    BY <1>2, <2>3, <2>4, <2>5, <2>6, <2>8 DEF PipeInvar, PipeTyped, MainStages, Changes
  <2>10. InstancesInv'
    <3> SUFFICES ASSUME NEW t \in Slots, NEW x, x = inst'[t] PROVE Instance(t, x)'
      BY DEF InstancesInv
    <3>1. CASE t = s
      BY <1>4, <2>2, <2>4, <2>5, <3>1 DEF Instance, Busy, Entered
    <3>2. CASE t # s
      <4>1. x = inst[t] /\ Instance(t, x)
        BY <2>4, <3>2, OfSlot DEF Changes
      <4> QED BY <1>1, <2>5, <3>2, <4>1 DEF Instance
    <3> QED BY <3>1, <3>2
  <2>11. PairInv'
    BY <1>3, <1>4, <2>2, <2>3, <2>4, <2>5 DEF PipeInvar, PairInv, Changes
  <2>12. WorkersInv'
    <3>1. ~late' => \A t \in Slots : inst'[t].worker # "signal"
      BY <2>2, <2>3, <2>4 DEF Changes
    <3> QED BY <2>3, <2>8, <3>1 DEF WorkersInv
  <2>13. ServiceInv'
    BY <1>2, <1>5, <2>3, <2>5, <2>6 DEF PipeInvar, ServiceInv
  <2>14. Carried(s, k)
    BY <1>4, <2>2 DEF Carried, Entered
  <2>15. AttemptsInv' /\ CarriedInv' /\ OneCarrier' /\ QuicInv'
    BY <1>2, <1>3, <2>2, <2>4, <2>6, <2>14, KeepAttempts, KeepCarried, KeepOne, KeepQuic DEF quic
  <2> QED BY <2>9, <2>10, <2>11, <2>12, <2>13, <2>15 DEF PipeInvar
<1> QED BY <1>6, <1>7

-----------------------------------------------------------------------------
(* The other ends.  A client that hangs up leaves the instances alike. *)
Alike ==
  /\ inst' \in [Slots -> Insts]
  /\ \A t \in Slots : /\ inst'[t].st = inst[t].st /\ inst'[t].who = inst[t].who /\ inst'[t].req = inst[t].req
                      /\ inst'[t].arg = inst[t].arg /\ inst'[t].reply = inst[t].reply
                      /\ inst'[t].worker = inst[t].worker

LEMMA HangAlike ==
  ASSUME PipeInvar, NEW c \in Clients, client[c].slot \in Slots, Hang(c)
  PROVE  Alike
<1>1. PICK s \in Slots : s = client[c].slot
  OBVIOUS
<1>2. PICK j : j = inst[s]
  OBVIOUS
<1>3. PICK k : k = [j EXCEPT !.gone = TRUE]
  OBVIOUS
<1>4. j \in Insts
  BY <1>2, OfSlot
<1>5. /\ k \in Insts /\ k.st = j.st /\ k.who = j.who /\ k.req = j.req /\ k.arg = j.arg
      /\ k.reply = j.reply /\ k.worker = j.worker
  BY <1>3, <1>4 DEF Insts
<1>6. inst' = [inst EXCEPT ![s] = k]
  BY <1>1, <1>2, <1>3 DEF Hang
<1>7. Changes(s) /\ inst'[s] = k
  BY <1>5, <1>6, Replaced DEF PipeInvar
<1> QED BY <1>2, <1>5, <1>7 DEF Alike, Changes

LEMMA SameAlike ==
  ASSUME PipeInvar, UNCHANGED inst
  PROVE  Alike
BY DEF PipeInvar, PipeTyped, Alike

LEMMA AlikeKeeps ==
  ASSUME PipeInvar, Alike, UNCHANGED <<services, main, count, idle, exiting, late, poked, access, quic>>
  PROVE  InstancesInv' /\ PairInv' /\ WorkersInv' /\ ServiceInv' /\ OneCarrier' /\ QuicInv'
<1>1. UNCHANGED <<service, servers, sids, pair, dacl, browser, reports, final>>
  BY DEF services, access, quic
<1>2. InstancesInv'
  BY DEF PipeInvar, InstancesInv, Instance, Alike
<1>3. PairInv'
  BY <1>1 DEF PipeInvar, PairInv, Alike
<1>4. Counting' = Counting /\ Workers' = Workers
  BY DEF Alike, Counting, Workers
<1>5. WorkersInv'
  BY <1>4 DEF PipeInvar, WorkersInv, Alike
<1>6. ServiceInv'
  <2>1. main.stage = "listen" => main.slot \in Slots
    BY DEF PipeInvar, PairInv
  <2> QED BY <1>1, <1>4, <2>1 DEF PipeInvar, ServiceInv, Alike
<1>7. OneCarrier'
  BY DEF PipeInvar, OneCarrier, Alike
<1>8. QuicInv'
  BY <1>1 DEF PipeInvar, QuicInv, Truly, Alike
<1> QED BY <1>2, <1>3, <1>5, <1>6, <1>7, <1>8

(* A client is done with its pipe: nothing else changes. *)
LEMMA ClientLeaves ==
  ASSUME PipeInvar, NEW c \in Clients, NEW p \in Callers, client' = [client EXCEPT ![c] = p], Alike,
         UNCHANGED <<plan, services, main, count, idle, exiting, lock, late, poked, access, launch, quic>>,
         p.stage \in {"idle", "gone"}, p.since = client[c].since,
         Attempt(c, p, history[c], runs[c]),
         p.stage # "gone" /\ p.exit # "unknown" => \A s \in Slots : ~Carries(s, c)
  PROVE  PipeInvar'
<1>1. UNCHANGED <<history, clock, runs>>
  BY DEF launch
<1>2. client' \in [Clients -> Callers] /\ client'[c] = p /\ \A d \in Clients : d # c => client'[d] = client[d]
  BY DEF PipeInvar, PipeTyped
<1>3. PipeTyped'
  BY <1>1, <1>2 DEF PipeInvar, PipeTyped, Alike, services, access, quic
<1>4. AttemptsInv'
  <2>1. \A t \in Slots, d \in Clients : Carries(t, d)' => Carries(t, d)
    BY DEF Carries, Alike
  <2> SUFFICES ASSUME NEW d \in Clients, NEW q, q = client'[d], NEW h, h = history[d], NEW n, n = runs[d]
               PROVE  Attempt(d, q, h, n)'
    BY <1>1 DEF AttemptsInv
  <2>2. Attempt(d, q, h, n)
    <3>1. CASE d = c
      BY <1>2, <3>1
    <3>2. CASE d # c
      BY <1>2, <3>2, OfClient
    <3> QED BY <3>1, <3>2
  <2> QED BY <1>1, <2>1, <2>2 DEF Attempt
<1>5. CarriedInv'
  <2> SUFFICES ASSUME NEW t \in Slots, NEW x, x = inst'[t] PROVE Carried(t, x)'
    BY DEF CarriedInv
  <2>1. PICK j : j = inst[t]
    OBVIOUS
  <2>2. j \in Insts /\ Instance(t, j) /\ Carried(t, j)
    BY <2>1, OfSlot
  <2>3. x.who = j.who /\ x.req = j.req /\ x.reply = j.reply /\ x.worker = j.worker
    BY <2>1 DEF Alike
  <2>4. CASE j.who = c
    <3>1. j.req = "launch" => Carries(t, c)
      BY <2>1, <2>4 DEF Carries
    <3> QED BY <1>1, <1>2, <2>2, <2>3, <2>4, <3>1 DEF Carried, Instance
  <2>5. CASE j.who # c
    BY <1>1, <1>2, <2>2, <2>3, <2>5 DEF Carried, Instance
  <2> QED BY <2>4, <2>5
<1> QED BY <1>3, <1>4, <1>5, AlikeKeeps DEF PipeInvar

LEMMA ReceiveStep ==
  ASSUME PipeInvar, NEW c \in Clients, Receive(c)
  PROVE  PipeInvar'
<1>1. PICK q, h, n : q = client[c] /\ h = history[c] /\ n = runs[c]
  OBVIOUS
<1>2. q \in Callers /\ h \in Records /\ n \in {0, 1} /\ Attempt(c, q, h, n) /\ q.stage \notin {"idle", "gone"}
  BY <1>1, OfClient DEF Receive, Waiting
<1>3. PICK s \in Slots : s = q.slot
  BY <1>2 DEF Attempt
<1>4. PICK j : j = inst[s]
  OBVIOUS
<1>5. j \in Insts /\ Instance(s, j) /\ Carried(s, j) /\ j.who = c /\ j.reply # "none" /\ j.req = "none"
  BY <1>1, <1>3, <1>4, OfSlot DEF Receive, Mine, Instance
<1>6. PICK E : E = IF q.stage = "launch" /\ j.reply # "pending" THEN j.reply ELSE q.exit
  OBVIOUS
<1>7. E \in {"none", "unknown", "yes", "no", "ok", "fault", "aborted", "invalid", "busy"}
  BY <1>2, <1>5, <1>6 DEF Callers, Insts, Replies
<1>8. PICK p : p = [q EXCEPT !.stage = "idle", !.exit = E]
  OBVIOUS
<1>9. p \in Callers /\ p.stage = "idle" /\ p.exit = E /\ p.since = q.since
  BY <1>2, <1>7, <1>8 DEF Callers
<1>10. /\ client' = [client EXCEPT ![c] = p] /\ Hang(c)
       /\ UNCHANGED <<plan, services, main, count, idle, exiting, lock, late, poked, access, launch, quic>>
  BY <1>1, <1>3, <1>4, <1>6, <1>8 DEF Receive, Done
<1>11. Alike
  BY <1>1, <1>3, <1>10, HangAlike
<1>12. E = "unknown" \/ \A t \in Slots : ~Carries(t, c)
  <2> SUFFICES ASSUME NEW t \in Slots, Carries(t, c) PROVE E = "unknown"
    OBVIOUS
  <2>1. PICK x : x = inst[t]
    OBVIOUS
  <2>2. x.who = c /\ x.req = "launch" /\ Carried(t, x)
    BY <2>1, OfSlot DEF Carries
  <2>3. t # s
    BY <1>4, <1>5, <2>1, <2>2
  <2>4. q.exit = "unknown"
    BY <1>1, <1>2, <1>3, <2>2, <2>3 DEF Carried
  <2>5. q.stage # "launch"
    BY <1>2, <2>4 DEF Attempt
  <2> QED BY <1>6, <2>4, <2>5
<1>13. Attempt(c, p, h, n)
  <2>1. CASE q.stage = "launch" /\ j.reply # "pending"
    <3>1. q.exit = "none" /\ q.since >= 0 /\ clock <= q.since + 1 /\ E = j.reply
      BY <1>2, <1>6, <2>1 DEF Attempt
    <3>2. E # "invalid"
      <4>1. E = "invalid" => clock - q.since > 2
        BY <1>1, <1>5, <3>1 DEF Carried, Validity
      <4>2. clock \in Int /\ q.since \in Int
        BY <1>2 DEF Callers, PipeInvar, PipeTyped
      <4> QED BY <3>1, <4>1, <4>2
    <3>3. (E = "ok" => n = 1) /\ (E \in {"busy", "aborted"} => n = 0) /\ E # "none"
      BY <1>1, <1>3, <1>5, <2>1, <3>1 DEF Carried
    <3> QED BY <1>2, <1>9, <1>12, <3>2, <3>3 DEF Attempt
  <2>2. CASE ~(q.stage = "launch" /\ j.reply # "pending")
    BY <1>2, <1>6, <1>9, <2>2 DEF Attempt
  <2> QED BY <2>1, <2>2
<1> QED BY <1>1, <1>9, <1>10, <1>11, <1>12, <1>13, ClientLeaves

LEMMA BrokenStep ==
  ASSUME PipeInvar, NEW c \in Clients, Broken(c)
  PROVE  PipeInvar'
<1>1. PICK q, h, n : q = client[c] /\ h = history[c] /\ n = runs[c]
  OBVIOUS
<1>2. q \in Callers /\ h \in Records /\ n \in {0, 1} /\ Attempt(c, q, h, n) /\ q.stage \notin {"idle", "gone"}
  BY <1>1, OfClient DEF Broken, Waiting
<1>3. PICK p : p = [q EXCEPT !.stage = "idle", !.exit = q.exit]
  OBVIOUS
<1>4. p \in Callers /\ p.stage = "idle" /\ p.exit = q.exit /\ p.since = q.since
  BY <1>2, <1>3 DEF Callers
<1>5. /\ client' = [client EXCEPT ![c] = p] /\ inst[q.slot].who # c
      /\ UNCHANGED <<plan, services, threads, access, launch, quic>>
  BY <1>1, <1>3 DEF Broken, Done, Mine
<1>6. UNCHANGED <<plan, services, main, count, idle, exiting, lock, late, poked, access, launch, quic>> /\ inst' = inst
  BY <1>5 DEF threads
<1>7. Alike
  BY <1>6, SameAlike
<1>8. q.exit # "unknown" => \A t \in Slots : ~Carries(t, c)
  <2> SUFFICES ASSUME q.exit # "unknown", NEW t \in Slots, Carries(t, c) PROVE FALSE
    OBVIOUS
  <2>1. PICK x : x = inst[t]
    OBVIOUS
  <2>2. x.who = c /\ x.req = "launch" /\ Carried(t, x)
    BY <2>1, OfSlot DEF Carries
  <2>3. q.slot = t
    BY <1>1, <1>2, <2>2 DEF Carried
  <2> QED BY <1>5, <2>1, <2>2, <2>3
<1>9. Attempt(c, p, h, n)
  BY <1>2, <1>4 DEF Attempt
<1> QED BY <1>1, <1>4, <1>5, <1>6, <1>7, <1>8, <1>9, ClientLeaves

LEMMA ExecuteEndsStep ==
  ASSUME PipeInvar, NEW c \in Clients, ExecuteEnds(c)
  PROVE  PipeInvar'
<1>1. PICK q, h, n : q = client[c] /\ h = history[c] /\ n = runs[c]
  OBVIOUS
<1>2. q \in Callers /\ h \in Records /\ n \in {0, 1} /\ Attempt(c, q, h, n)
  BY <1>1, OfClient
<1>3. PICK p : p = [q EXCEPT !.stage = "idle", !.exit = "unknown"]
  OBVIOUS
<1>4. p \in Callers /\ p.stage = "idle" /\ p.exit = "unknown" /\ p.since = q.since
  BY <1>2, <1>3 DEF Callers
<1>5. /\ client' = [client EXCEPT ![c] = p]
      /\ UNCHANGED <<plan, services, main, count, idle, exiting, lock, late, poked, access, launch, quic>>
  BY <1>1, <1>3 DEF ExecuteEnds, Done
<1>6. Alike
  <2>1. CASE Waiting(c) /\ Mine(c)
    BY <1>1, <1>2, <2>1, HangAlike DEF ExecuteEnds, Waiting, Attempt
  <2>2. CASE ~(Waiting(c) /\ Mine(c))
    BY <2>2, SameAlike DEF ExecuteEnds
  <2> QED BY <2>1, <2>2
<1>7. Attempt(c, p, h, n)
  BY <1>2, <1>4 DEF Attempt
<1> QED BY <1>1, <1>4, <1>5, <1>6, <1>7, ClientLeaves

LEMMA ClientDiesStep ==
  ASSUME PipeInvar, NEW c \in Clients, ClientDies(c)
  PROVE  PipeInvar'
<1>1. PICK q, h, n : q = client[c] /\ h = history[c] /\ n = runs[c]
  OBVIOUS
<1>2. q \in Callers /\ h \in Records /\ n \in {0, 1} /\ Attempt(c, q, h, n) /\ q.stage \notin {"idle", "gone"}
  BY <1>1, OfClient DEF ClientDies, Waiting
<1>3. PICK p : p = [q EXCEPT !.stage = "gone"]
  OBVIOUS
<1>4. p \in Callers /\ p.stage = "gone" /\ p.exit = q.exit /\ p.since = q.since
  BY <1>2, <1>3 DEF Callers
<1>5. /\ client' = [client EXCEPT ![c] = p]
      /\ UNCHANGED <<plan, services, main, count, idle, exiting, lock, late, poked, access, launch, quic>>
  BY <1>1, <1>3 DEF ClientDies
<1>6. Alike
  BY <1>1, <1>2, HangAlike, SameAlike DEF ClientDies, Attempt
<1>7. Attempt(c, p, h, n)
  BY <1>2, <1>4 DEF Attempt
<1> QED BY <1>1, <1>4, <1>5, <1>6, <1>7, ClientLeaves

-----------------------------------------------------------------------------
(* A new connection is made to the instance the accepting thread waits on. *)

LEMMA ConnectStep ==
  ASSUME PipeInvar, NEW c \in Clients, NEW kind \in Kinds,
         NEW arg \in Packages \cup {"none", "pending", "ready", "unavailable"}, Connect(c, kind, arg)
  PROVE  PipeInvar'
<1>1. PICK s : s = main.slot
  OBVIOUS
<1>2. s \in Slots /\ Min(Listening) = s /\ main.stage = "listen" /\ inst[s].st = "listen"
  BY <1>1, OneListens DEF Connect
<1>3. PICK j : j = inst[s]
  OBVIOUS
<1>4. /\ j \in Insts /\ Instance(s, j) /\ j.st = "listen" /\ j.req = "none" /\ j.reply = "none"
      /\ j.worker = "none"
  <2>1. j \in Insts /\ Instance(s, j) /\ j.st = "listen"
    BY <1>2, <1>3, OfSlot
  <2> QED BY <2>1 DEF Instance, Insts
<1>5. PICK q, h, n : q = client[c] /\ h = history[c] /\ n = runs[c]
  OBVIOUS
<1>6. q \in Callers /\ h \in Records /\ n \in {0, 1} /\ Attempt(c, q, h, n) /\ q.stage = "idle" /\ clock \in Nat
  BY <1>5, OfClient DEF Connect, PipeInvar, PipeTyped
<1>7. PICK k : k = [j EXCEPT !.st = "linked", !.who = c, !.req = kind, !.arg = arg]
  OBVIOUS
<1>8. /\ k \in Insts /\ k.st = "linked" /\ k.who = c /\ k.req = kind /\ k.arg = arg
      /\ k.reply = "none" /\ k.worker = "none"
  BY <1>4, <1>7 DEF Insts
<1>9. PICK p : p = [q EXCEPT !.stage = IF kind = "quic" THEN "idle" ELSE kind,
                             !.slot  = IF kind = "quic" THEN q.slot ELSE s,
                             !.since = IF kind = "launch" /\ q.since < 0 THEN clock ELSE q.since]
  OBVIOUS
<1>10. /\ p \in Callers /\ p.exit = q.exit
       /\ p.stage = (IF kind = "quic" THEN "idle" ELSE kind)
       /\ p.slot = (IF kind = "quic" THEN q.slot ELSE s)
       /\ p.since = (IF kind = "launch" /\ q.since < 0 THEN clock ELSE q.since)
  BY <1>2, <1>6, <1>9 DEF Callers
<1>11. /\ inst' = [inst EXCEPT ![s] = k] /\ client' = [client EXCEPT ![c] = p]
       /\ UNCHANGED <<plan, services, main, count, idle, exiting, lock, late, poked, access, launch, quic>>
  BY <1>2, <1>3, <1>5, <1>7, <1>9 DEF Connect
<1>12. /\ kind = "launch" => q.exit = "none"
       /\ kind = "quic" => arg = Status[browser[c]] /\ arg # "none"
       /\ kind = "inject" => arg \in Packages
  BY <1>5 DEF Connect
<1>13. Changes(s) /\ inst'[s] = k
  BY <1>2, <1>8, <1>11, Replaced DEF PipeInvar
<1>14. client' \in [Clients -> Callers] /\ client'[c] = p /\ \A d \in Clients : d # c => client'[d] = client[d]
  BY <1>10, <1>11 DEF PipeInvar, PipeTyped
<1>15. UNCHANGED <<history, clock, runs>> /\ UNCHANGED <<browser, reports, final>>
  BY <1>11 DEF launch, quic
<1>16. PipeTyped'
  BY <1>11, <1>13, <1>14, <1>15 DEF PipeInvar, PipeTyped, Changes, services, access
<1>17. kind = "quic" => arg \in {"none", "pending", "ready", "unavailable"} /\ Truly(c, arg)
  <2>1. browser[c] \in States
    BY DEF PipeInvar, PipeTyped
  <2> QED BY <1>12, <2>1 DEF Status, States, Truly
<1>18. Instance(s, k)
  BY <1>4, <1>8, <1>12, <1>17 DEF Instance, Busy, Entered
<1>19. InstancesInv' /\ PairInv' /\ WorkersInv' /\ ServiceInv'
  BY <1>2, <1>3, <1>4, <1>8, <1>11, <1>13, <1>18, KeepInstances, KeepPair, KeepWorkers, KeepService
     DEF services, access
<1>20. \A t \in Slots : Carries(t, c) => q.exit = "unknown" /\ q.since >= 0
  <2> TAKE t \in Slots
  <2>1. PICK x : x = inst[t]
    OBVIOUS
  <2>2. Carries(t, c) => x.who = c /\ x.req = "launch" /\ Carried(t, x)
    BY <1>2, <2>1, OfSlot DEF Carries
  <2> QED BY <1>5, <1>6, <2>2 DEF Carried
<1>21. \A t \in Slots, d \in Clients : Carries(t, d)' => Carries(t, d) \/ (t = s /\ d = c /\ kind = "launch")
  BY <1>8, <1>13 DEF Carries, Changes
<1>22. AttemptsInv'
  <2> SUFFICES ASSUME NEW d \in Clients, NEW x, x = client'[d], NEW g, g = history[d], NEW m, m = runs[d]
               PROVE  Attempt(d, x, g, m)'
    BY <1>15 DEF AttemptsInv
  <2>1. CASE d # c
    <3>1. Attempt(d, x, g, m)
      BY <1>14, <2>1, OfClient
    <3> QED BY <1>15, <1>21, <2>1, <3>1 DEF Attempt
  <2>2. CASE d = c /\ kind = "launch"
    <3>1. /\ x = p /\ p.stage = "launch" /\ p.exit = "none" /\ p.slot = s /\ g = h /\ m = n
          /\ p.since = IF q.since < 0 THEN clock ELSE q.since
      BY <1>5, <1>10, <1>12, <1>14, <2>2
    <3>2. q.since \in Int
      BY <1>6 DEF Callers
    <3>3. Attempt(c, p, h, n)
      <4>1. CASE q.since < 0
        <5>1. h.result = "none" /\ n = 0 /\ p.since = clock
          BY <1>6, <3>1, <3>2, <4>1 DEF Attempt
        <5> QED BY <1>2, <1>6, <3>1, <5>1 DEF Attempt
      <4>2. CASE q.since >= 0
        <5>1. p.since = q.since
          BY <3>1, <3>2, <4>2
        <5> QED BY <1>2, <1>6, <1>12, <2>2, <3>1, <4>2, <5>1 DEF Attempt
      <4> QED BY <3>2, <4>1, <4>2
    <3> QED BY <1>15, <2>2, <3>1, <3>3 DEF Attempt
  <2>3. CASE d = c /\ kind # "launch"
    <3>1. /\ x = p /\ p.exit = q.exit /\ p.since = q.since /\ g = h /\ m = n
          /\ p.stage \in Kinds \cup {"idle"} /\ p.stage # "launch"
          /\ p.stage # "idle" => p.slot \in Slots
      BY <1>2, <1>5, <1>10, <1>14, <2>3
    <3>2. p.stage # "gone"
      BY <3>1 DEF Kinds
    <3>3. Attempt(c, p, h, n)
      BY <1>6, <3>1, <3>2 DEF Attempt
    <3> QED BY <1>15, <1>21, <2>3, <3>1, <3>3 DEF Attempt
  <2> QED BY <2>1, <2>2, <2>3
<1>23. CarriedInv'
  <2> SUFFICES ASSUME NEW t \in Slots, NEW x, x = inst'[t] PROVE Carried(t, x)'
    BY DEF CarriedInv
  <2>1. CASE t = s
    <3>1. kind = "launch" => p.since >= 0 /\ p.stage = "launch" /\ p.slot = s
      <4>1. q.since \in Int
        BY <1>6 DEF Callers
      <4> QED BY <1>6, <1>10, <4>1
    <3> QED BY <1>8, <1>13, <1>14, <2>1, <3>1 DEF Carried, Entered
  <2>2. CASE t # s
    <3>1. x = inst[t] /\ x \in Insts /\ Carried(t, x) /\ Instance(t, x)
      BY <1>13, <2>2, OfSlot DEF Changes
    <3>2. CASE x.who # c
      BY <1>11, <1>14, <1>15, <3>1, <3>2 DEF Carried, Instance
    <3>3. CASE x.who = c
      <4>1. x.req = "launch" => q.exit = "unknown" /\ q.since >= 0
        BY <1>20, <3>1, <3>3 DEF Carries
      <4>2. q.since >= 0 => p.since = q.since
        <5>1. q.since \in Int
          BY <1>6 DEF Callers
        <5> QED BY <1>10, <5>1
      <4>3. x.reply = "invalid" => q.since >= 0 /\ clock - q.since > Validity
        BY <1>5, <3>1, <3>3 DEF Carried
      <4>4. p.stage = "launch" => p.slot = s
        BY <1>10
      <4> QED BY <1>5, <1>10, <1>11, <1>14, <1>15, <2>2, <3>1, <3>3, <4>1, <4>2, <4>3, <4>4 DEF Carried
    <3> QED BY <3>2, <3>3
  <2> QED BY <2>1, <2>2
<1>24. OneCarrier'
  <2>1. kind = "launch" => \A t \in Slots : ~Carries(t, c)
    BY <1>12, <1>20
  <2> QED BY <1>8, <1>13, <2>1 DEF PipeInvar, OneCarrier, Changes, Carries
<1>25. QuicInv'
  <2>1. \A t \in Slots : (inst[t].req = "quic" => Truly(inst[t].who, inst[t].arg))'
    BY <1>8, <1>13, <1>15, <1>17 DEF PipeInvar, QuicInv, Truly, Changes
  <2> QED BY <1>15, <2>1 DEF PipeInvar, QuicInv, Truly
<1> QED BY <1>16, <1>19, <1>22, <1>23, <1>24, <1>25 DEF PipeInvar

(* A browser goes on: it has reported nothing final yet. *)
LEMMA BrowserStep ==
  ASSUME PipeInvar, NEW c \in Clients, OnUdp(c) \/ \E b \in BOOLEAN : Worker(c, b)
  PROVE  PipeInvar'
<1>1. PICK v \in States : browser' = [browser EXCEPT ![c] = v]
  BY DEF OnUdp, Worker, States
<1>2. /\ browser[c] \in {"waiting", "working"}
      /\ UNCHANGED <<plan, services, threads, access, launch, client, reports, final>>
  BY DEF OnUdp, Worker
<1>3. UNCHANGED <<service, servers, stopped, main, inst, count, idle, exiting, lock, late, poked, sids, pair,
                  dacl, history, clock, runs>>
  BY <1>2 DEF services, threads, access, launch
<1>4. browser' \in [Clients -> States] /\ \A d \in Clients : d # c => browser'[d] = browser[d]
  BY <1>1 DEF PipeInvar, PipeTyped
<1>5. PipeTyped'
  BY <1>2, <1>3, <1>4 DEF PipeInvar, PipeTyped
<1>6. WorkersInv' /\ ServiceInv'
  BY <1>3, SameCount DEF PipeInvar, WorkersInv, ServiceInv
<1>7. \A d \in Clients : \A r : Truly(d, r) => Truly(d, r)'
  BY <1>2, <1>4 DEF Truly
<1>8. \A t \in Slots : inst[t].req = "quic" => inst[t].who \in Clients
  BY DEF PipeInvar, InstancesInv, Instance
<1>9. QuicInv'
  BY <1>2, <1>3, <1>7, <1>8 DEF PipeInvar, QuicInv
<1> QED BY <1>2, <1>3, <1>5, <1>6, <1>9, SamePipes, SameLaunches DEF PipeInvar

(* Time passes; no helper still waits after its 45 seconds. *)
LEMMA TickStep ==
  ASSUME PipeInvar, Tick
  PROVE  PipeInvar'
<1>1. /\ UNCHANGED <<plan, services, threads, access, history, runs, client, quic>>
      /\ \A c \in Clients : Helping(c) => clock' <= client[c].since + 1
  BY DEF Tick
<1>2. UNCHANGED <<service, servers, stopped, main, inst, count, idle, exiting, lock, late, poked, sids, pair,
                  dacl, browser, reports, final>>
  BY <1>1 DEF services, threads, access, quic
<1>3. clock \in Nat /\ clock' \in Nat /\ clock' > clock
  <2>1. PICK T : T = {t \in plan.times : t > clock}
    OBVIOUS
  <2>2. T \subseteq Nat /\ T # {} /\ clock' = Min(T)
    BY <2>1, PipeAssumption DEF Tick, PipeInvar, PipeTyped
  <2>3. clock' \in T
    BY <2>2, MinIn
  <2> QED BY <2>1, <2>2, <2>3 DEF PipeInvar, PipeTyped
<1>4. PipeTyped'
  BY <1>1, <1>2, <1>3 DEF PipeInvar, PipeTyped
<1>5. WorkersInv' /\ ServiceInv'
  BY <1>2, SameCount DEF PipeInvar, WorkersInv, ServiceInv
<1>6. AttemptsInv'
  <2> SUFFICES ASSUME NEW c \in Clients, NEW q, q = client[c], NEW h, h = history[c], NEW n, n = runs[c]
               PROVE  Attempt(c, q, h, n)'
    BY <1>1 DEF AttemptsInv
  <2>1. Attempt(c, q, h, n) /\ q.since \in Int
    BY OfClient DEF Callers
  <2>2. q.since >= 0 /\ q.exit = "none" /\ q.stage # "gone" => clock' <= q.since + 1
    BY <1>1 DEF Helping
  <2>3. \A s \in Slots : Carries(s, c)' <=> Carries(s, c)
    BY <1>2 DEF Carries
  <2>4. n = 1 => q.since >= 0 /\ (h.result \in {"none", "aborted"} => clock' - q.since > Keep)
    BY <1>3, <2>1 DEF Attempt, Keep
  <2>5. q.since >= 0 => q.since <= clock'
    BY <1>3, <2>1 DEF Attempt
  <2> QED BY <1>2, <2>1, <2>2, <2>3, <2>4, <2>5 DEF Attempt
<1>7. CarriedInv'
  <2> SUFFICES ASSUME NEW t \in Slots, NEW x, x = inst[t] PROVE Carried(t, x)'
    BY <1>2 DEF CarriedInv
  <2>1. Carried(t, x)
    BY OfSlot
  <2>2. x.who \in Clients => client[x.who].since \in Int
    BY DEF PipeInvar, PipeTyped, Callers
  <2>3. x.who \in Clients /\ x.reply = "invalid" =>
          client[x.who].since >= 0 /\ clock' - client[x.who].since > Validity
    BY <1>3, <2>1, <2>2 DEF Carried, Validity
  <2> QED BY <1>1, <1>2, <2>1, <2>3 DEF Carried
<1>8. OneCarrier'
  BY <1>2 DEF PipeInvar, OneCarrier
<1> QED BY <1>2, <1>4, <1>5, <1>6, <1>7, <1>8, SamePipes, SameQuic DEF PipeInvar

-----------------------------------------------------------------------------
LEMMA PipeStarts ==
  ASSUME PipeInit
  PROVE  PipeInvar
<1>1. /\ Free \in Insts /\ Free.st = "free" /\ Free.who = 0 /\ Free.req = "none"
      /\ Free.reply = "none" /\ Free.worker = "none"
  BY DEF Free, Insts, Replies
<1>2. \A s \in Slots : inst[s] = Free
  BY DEF PipeInit
<1>3. NoRecord \in Records /\ NoRecord.result = "none"
  BY DEF NoRecord, Records, Results
<1>4. PICK z : z = [stage |-> "idle", slot |-> 0, since |-> -1, exit |-> "none"]
  OBVIOUS
<1>5. z \in Callers /\ z.stage = "idle" /\ z.since = -1 /\ z.exit = "none"
  BY <1>4 DEF Callers
<1>6. \A c \in Clients : client[c] = z /\ history[c] = NoRecord /\ runs[c] = 0 /\ reports[c] = "none"
  BY <1>4 DEF PipeInit
<1>7. main.stage = "none" /\ main.slot = 0
  BY DEF PipeInit
<1>8. PipeTyped
  BY <1>1, <1>3, <1>4, <1>5 DEF PipeInit, PipeTyped, States
<1>9. InstancesInv
  BY <1>1, <1>2, <1>7, PipeAssumption DEF InstancesInv, Instance, Busy, Entered
<1>10. PairInv
  BY <1>1, <1>2, <1>7 DEF PairInv, PipeInit
<1>11. Counting = {} /\ Workers = {}
  BY <1>1, <1>2 DEF Counting, Workers, Busy
<1>12. WorkersInv
  BY <1>11, FS_EmptySet DEF WorkersInv, PipeInit
<1>13. ServiceInv
  BY <1>7, <1>11 DEF ServiceInv, PipeInit
<1>14. AttemptsInv
  BY <1>3, <1>5, <1>6 DEF AttemptsInv, Attempt
<1>15. CarriedInv
  BY <1>1, <1>2 DEF CarriedInv, Carried, Entered
<1>16. OneCarrier
  BY <1>1, <1>2 DEF OneCarrier
<1>17. QuicInv
  BY <1>1, <1>2, <1>6 DEF QuicInv, Truly, PipeInit
<1> QED BY <1>8, <1>9, <1>10, <1>12, <1>13, <1>14, <1>15, <1>16, <1>17 DEF PipeInvar

LEMMA PipeStep ==
  ASSUME PipeInvar, [PipeNext]_pvars
  PROVE  PipeInvar'
<1>1. ASSUME NEW s \in Slots, Serve(s) PROVE PipeInvar'
  BY <1>1, WorkerLeaveStep, WorkerUncountStep, WorkerSignalStep, ServePlainStep, ServeQuicStep, LaunchBeginStep,
     ServeInjectStep, LaunchEnterStep, LaunchStoreStep DEF Serve
<1>2. ASSUME NEW c \in Clients, ClientStep(c) PROVE PipeInvar'
  <2>1. CASE \E k \in plan.kinds, a \in Packages \cup {"none", "pending", "ready", "unavailable"} : Connect(c, k, a)
    <3>1. plan.kinds \subseteq Kinds
      BY PipeAssumption DEF PipeInvar, PipeTyped
    <3> QED BY <2>1, <3>1, ConnectStep
  <2> QED BY <1>2, <2>1, ReceiveStep, BrokenStep, ExecuteEndsStep, ClientDiesStep, BrowserStep DEF ClientStep
<1>3. CASE ServiceStep
  BY <1>3, EnableProxyStep, StartupServerStep, StopCentreStep, PokeStep, JoinMainStep, JoinWorkersStep,
     ShutdownPRCServerStep, StartupPRCServerStep DEF ServiceStep
<1>4. CASE MainStep
  BY <1>4, MainCreateStep, MainAcceptStep, MainHandOverStep DEF MainStep
<1>5. CASE UNCHANGED pvars
  <2>1. UNCHANGED <<plan, service, servers, main, inst, count, idle, exiting, lock, late, poked, sids, pair,
                    dacl, history, clock, client, runs, browser, reports, final>>
    BY <1>5 DEF pvars
  <2>2. PipeTyped'
    BY <2>1 DEF PipeInvar, PipeTyped
  <2>3. WorkersInv' /\ ServiceInv'
    BY <2>1, SameCount DEF PipeInvar, WorkersInv, ServiceInv
  <2> QED BY <2>1, <2>2, <2>3, SamePipes, SameLaunches, SameQuic DEF PipeInvar
<1> QED BY <1>1, <1>2, <1>3, <1>4, <1>5, TickStep DEF PipeNext

LEMMA InvarSound ==
  ASSUME PipeInvar
  PROVE  PipeSound
<1>1. Exists <=> pair
  BY DEF Exists, Open, PipeInvar, PairInv
<1>2. PipeTypeOK
  <2>1. count \in 0 .. Cardinality(Slots)
    <3>1. Cardinality(Counting) <= Cardinality(Slots) /\ Cardinality(Slots) \in Nat
      BY PipeAssumption, FS_Subset, FS_CardinalityType DEF Counting
    <3> QED BY <3>1, Tally DEF PipeInvar, WorkersInv
  <2>2. \A s \in Slots : /\ inst[s].st \in {"free", "listen", "linked", "served"}
                         /\ inst[s].worker \in {"none", "loop", "wait", "active", "refused", "abort",
                                                "closed", "signal"}
    BY DEF PipeInvar, PipeTyped, Insts, Busy
  <2>3. \A c \in Clients : history[c].result \in {"none", "pending", "ok", "fault", "aborted"}
    BY DEF PipeInvar, PipeTyped, Records, Results
  <2> QED BY <2>1, <2>2, <2>3 DEF PipeInvar, PipeTyped, PipeTypeOK
<1>3. NoWorkerOutlives
  <2> SUFFICES ASSUME ~late, NEW s \in Slots, inst[s].worker \notin {"none", "signal"}
               PROVE  {"tcp", "udp", "pipe"} \subseteq servers
    BY DEF NoWorkerOutlives
  <2>1. s \in Counting /\ s \in Workers
    BY DEF PipeInvar, PipeTyped, Insts, Counting, Workers
  <2>2. Cardinality(Counting) # 0
    BY <2>1, Tally, FS_EmptySet
  <2>3. service \in {"running", "poke", "main", "workers", "delete"}
    BY <2>1, <2>2 DEF PipeInvar, PipeTyped, ServiceInv, WorkersInv
  <2> QED BY <2>3 DEF PipeInvar, ServiceInv
<1>4. MainWoken
  BY DEF MainWoken, PipeInvar, ServiceInv
<1>5. OffLeavesNothing
  <2> SUFFICES ASSUME service = "off", ~late PROVE servers = {} /\ ~pair /\ count = 0
    BY <1>1 DEF OffLeavesNothing
  <2>1. servers = {} /\ count = 0 /\ main.stage = "none"
    BY DEF PipeInvar, ServiceInv
  <2>2. Counting = {}
    BY <2>1, Tally, FS_EmptySet DEF PipeInvar, WorkersInv
  <2>3. \A s \in Slots : inst[s].st = "free"
    <3> SUFFICES ASSUME NEW s \in Slots, NEW j, j = inst[s] PROVE j.st = "free"
      OBVIOUS
    <3>1. j \in Insts /\ Instance(s, j) /\ j.worker \notin Busy
      BY <2>2, OfSlot DEF Counting
    <3> QED BY <2>1, <3>1 DEF Instance, Insts
  <2> QED BY <2>1, <2>3 DEF PipeInvar, PairInv
<1>6. GrantHolds
  BY <1>1 DEF GrantHolds, PipeInvar, PairInv
<1>7. LaunchOnce
  <2>1. \A c \in Clients : runs[c] <= 1
    BY DEF PipeInvar, PipeTyped
  <2>2. PICK A : A = {s \in Slots : inst[s].worker = "active"}
    OBVIOUS
  <2>3. \A s \in A : s = lock
    BY <2>2 DEF PipeInvar, CarriedInv, Carried, Entered
  <2>4. A = {} \/ A = {lock}
    BY <2>3
  <2>5. Cardinality({}) = 0 /\ Cardinality({lock}) = 1
    BY FS_EmptySet, FS_Singleton
  <2>6. Cardinality(A) <= 1
    BY <2>4, <2>5
  <2> QED BY <2>1, <2>2, <2>6 DEF LaunchOnce
<1>8. ResultTrue
  BY DEF ResultTrue, PipeInvar, AttemptsInv, Attempt
<1>9. QuicTrue
  BY DEF QuicTrue, PipeInvar, QuicInv, Truly
<1> QED BY <1>2, <1>3, <1>4, <1>5, <1>6, <1>7, <1>8, <1>9 DEF PipeSound

(* CPRCPipeServer and its service, for every number of clients, packages   *)
(* and instances and every schedule of requests, faults and times: a stop  *)
(* or a failed start leaves nothing behind and no worker outlives its      *)
(* servers, every grant is in the pipe's DACL, a launch is activated once  *)
(* however often its helper asks, and what helpers and the browser table   *)
(* say is true.                                                            *)
THEOREM PipeHolds == PipeSpec => []PipeSound
<1>1. PipeInit => PipeInvar
  BY PipeStarts
<1>2. PipeInvar /\ [PipeNext]_pvars => PipeInvar'
  BY PipeStep
<1>3. PipeInvar => PipeSound
  BY InvarSound
<1> QED BY <1>1, <1>2, <1>3, PTL DEF PipeSpec
-----------------------------------------------------------------------------
(* The proxy test: one tester, or none, is the page's and listed; every    *)
(* other one is gone or about to be deleted, silent and without a timer.   *)

TesterSet == [there : BOOLEAN, listed : BOOLEAN, dgram : BOOLEAN, done : BOOLEAN,
              timer : {"off", "connect", "reply"}, open : BOOLEAN, ready : BOOLEAN]
TesterOf(t, k, D, w) ==
  /\ k.listed <=> w = t
  /\ k.listed => k.there
  /\ k.there /\ ~k.listed <=> t \in D
  /\ k.timer # "off" <=> k.listed /\ ~k.done
  /\ k.open => k.listed /\ ~k.done
TestersInv(T, D, w) ==
  /\ T \in [Ids -> TesterSet] /\ D \subseteq Ids /\ w \in Ids \cup {0}
  /\ \A t \in Ids : TesterOf(t, T[t], D, w)

ReplacedBy(T, t, k, U) == U = [T EXCEPT ![t] = k]
SameElsewhere(t, D, v, E, w) ==
  /\ E \subseteq Ids /\ w \in Ids \cup {0}
  /\ \A s \in Ids \ {t} : (s \in D <=> s \in E) /\ (v = s <=> w = s)

LEMMA TesterReplaced ==
  ASSUME NEW T, NEW U, NEW D, NEW E, NEW v, NEW w, NEW t \in Ids, NEW k \in TesterSet, ReplacedBy(T, t, k, U),
         TestersInv(T, D, v), TesterOf(t, k, E, w), SameElsewhere(t, D, v, E, w)
  PROVE  TestersInv(U, E, w) /\ U[t] = k
<1>1. U \in [Ids -> TesterSet] /\ U[t] = k /\ \A s \in Ids \ {t} : U[s] = T[s]
  BY DEF TestersInv, ReplacedBy
<1>2. \A s \in Ids : TesterOf(s, U[s], E, w)
  <2> TAKE s \in Ids
  <2>1. CASE s = t
    BY <1>1, <2>1
  <2>2. CASE s # t
    <3>1. TesterOf(s, T[s], D, v) /\ U[s] = T[s]
      BY <1>1, <2>2 DEF TestersInv
    <3> QED BY <2>2, <3>1 DEF TesterOf, SameElsewhere
  <2> QED BY <2>1, <2>2
<1> QED BY <1>1, <1>2 DEF TestersInv, SameElsewhere

LEMMA TesterBegun ==
  ASSUME NEW T, NEW D, TestersInv(T, D, 0), NEW n \in Addresses(T), NEW dgram \in BOOLEAN
  PROVE  TestersInv(Begun(T, n, dgram), D, n) /\ n \in Ids /\ ~Begun(T, n, dgram)[n].done
<1>1. PICK k : k = [Gone EXCEPT !.there = TRUE, !.listed = TRUE, !.dgram = dgram, !.timer = "connect", !.open = TRUE]
  OBVIOUS
<1>2. k \in TesterSet /\ k.there /\ k.listed /\ ~k.done /\ k.timer = "connect" /\ k.open
  BY <1>1 DEF Gone, TesterSet
<1>3. n \in Ids /\ ~T[n].there /\ Begun(T, n, dgram) = [T EXCEPT ![n] = k]
  BY <1>1 DEF Addresses, Begun
<1>4. T \in [Ids -> TesterSet] /\ D \in SUBSET Ids /\ n \notin D
  BY <1>3 DEF TestersInv, TesterOf
<1>5. TesterOf(n, k, D, n)
  BY <1>2, <1>4 DEF TesterOf
<1>6. SameElsewhere(n, D, 0, D, n)
  BY <1>3, <1>4, TestAssumption DEF SameElsewhere
<1>7. ReplacedBy(T, n, k, Begun(T, n, dgram))
  BY <1>3 DEF ReplacedBy
<1>8. TestersInv(Begun(T, n, dgram), D, n) /\ Begun(T, n, dgram)[n] = k
  BY <1>2, <1>3, <1>4, <1>5, <1>6, <1>7, TesterReplaced
<1> QED BY <1>2, <1>3, <1>8

LEMMA TesterCompleted ==
  ASSUME NEW T, NEW D, NEW t \in Ids, TestersInv(T, D, t)
  PROVE  TestersInv(Complete(T, t), D, t) /\ Complete(T, t)[t].done
<1>1. PICK j : j = T[t]
  OBVIOUS
<1>2. PICK k : k = [[j EXCEPT !.done = TRUE] EXCEPT !.timer = "off", !.open = FALSE]
  OBVIOUS
<1>3. T \in [Ids -> TesterSet] /\ D \in SUBSET Ids /\ j \in TesterSet /\ TesterOf(t, j, D, t)
  BY <1>1 DEF TestersInv
<1>4. k \in TesterSet /\ k.there = j.there /\ k.listed = j.listed /\ k.done /\ k.timer = "off" /\ ~k.open
  BY <1>2, <1>3 DEF TesterSet
<1>5. ReplacedBy(T, t, k, Complete(T, t))
  BY <1>1, <1>2, <1>3 DEF Complete, Stop, ReplacedBy
<1>6. TesterOf(t, k, D, t)
  BY <1>3, <1>4 DEF TesterOf
<1>7. SameElsewhere(t, D, t, D, t)
  BY <1>3 DEF SameElsewhere
<1>8. TestersInv(Complete(T, t), D, t) /\ Complete(T, t)[t] = k
  BY <1>3, <1>4, <1>5, <1>6, <1>7, TesterReplaced
<1> QED BY <1>4, <1>8

LEMMA TesterReleased ==
  ASSUME NEW T, NEW D, NEW t \in Ids, TestersInv(T, D, t)
  PROVE  TestersInv(Release(T, t), D \cup {t}, 0)
<1>1. PICK j : j = T[t]
  OBVIOUS
<1>2. PICK k : k = [[j EXCEPT !.timer = "off", !.open = FALSE] EXCEPT !.listed = FALSE]
  OBVIOUS
<1>3. T \in [Ids -> TesterSet] /\ D \in SUBSET Ids /\ j \in TesterSet /\ TesterOf(t, j, D, t)
  BY <1>1 DEF TestersInv
<1>4. k \in TesterSet /\ k.there = j.there /\ ~k.listed /\ k.timer = "off" /\ ~k.open
  BY <1>2, <1>3 DEF TesterSet
<1>5. ReplacedBy(T, t, k, Release(T, t))
  BY <1>1, <1>2, <1>3, TestAssumption DEF Release, Stop, ReplacedBy
<1>6. TesterOf(t, k, D \cup {t}, 0)
  BY <1>3, <1>4, TestAssumption DEF TesterOf
<1>7. SameElsewhere(t, D, t, D \cup {t}, 0)
  BY <1>3, TestAssumption DEF SameElsewhere
<1> QED BY <1>4, <1>5, <1>6, <1>7, TesterReplaced

(* The page.  A box is open exactly when a test has a result that was not  *)
(* answered, and then no tester works.                                     *)
PageSet == [tester : Ids \cup {0}, testing : BOOLEAN, phase : {"none", "tcp", "udp", "ipv6"}, udp : BOOLEAN,
            v6 : {"notrun", "available", "targetfailed", "unknown", "unsupported", "invalid"}, blocked : BOOLEAN]
Boxes == [kind : {"invalid", "start", "failed", "ask", "passed"}, inner : BOOLEAN]
Earlier(p, done) ==
  /\ p.phase = "udp" => "tcp" \in done
  /\ p.phase = "ipv6" => "tcp" \in done /\ (p.udp => "udp" \in done)
Working(p, T, n, done) ==
  /\ p.testing <=> p.tester # 0
  /\ p.testing <=> p.phase # "none"
  /\ p.tester # 0 => ~T[p.tester].done /\ n = 0 /\ Earlier(p, done)
Answering(p, T, b, done) ==
  /\ p.tester # 0 => T[p.tester].done
  /\ b.kind \in {"invalid", "start"} => p.tester = 0 /\ ~p.testing
  /\ b.kind \in {"ask", "passed"} =>
       /\ "tcp" \in done /\ (p.udp => "udp" \in done)
       /\ p.v6 = "available" => "ipv6" \in done
TestInv ==
  /\ tplan \in TestPlans /\ page \in PageSet /\ box \in Boxes \cup {NoBox} /\ crashed \in BOOLEAN
  /\ ~foreign /\ verdicts \in {0, 1}
  /\ TestersInv(tester, deletes, page.tester)
  /\ box = NoBox /\ ~crashed => Working(page, tester, verdicts, passed)
  /\ box # NoBox => ~crashed /\ Answering(page, tester, box, passed)

LEMMA BoxKinds ==
  ASSUME TRUE
  PROVE  NoBox.kind = "none" /\ \A b \in Boxes : b # NoBox /\ b.kind \in {"invalid", "start", "failed", "ask", "passed"}
BY DEF NoBox, Boxes

(* What a step has to leave, one of three. *)
LEMMA TestGoesOn ==
  ASSUME TestInv, tplan' = tplan, crashed' = crashed, ~crashed, ~foreign', page' \in PageSet, box' = NoBox, verdicts' \in {0, 1},
         TestersInv(tester', deletes', page'.tester), Working(page', tester', verdicts', passed')
  PROVE  TestInv'
BY DEF TestInv

LEMMA TestAnswers ==
  ASSUME TestInv, tplan' = tplan, crashed' = crashed, ~crashed, ~foreign', page' \in PageSet, box' \in Boxes, verdicts' \in {0, 1},
         TestersInv(tester', deletes', page'.tester), Answering(page', tester', box', passed')
  PROVE  TestInv'
BY BoxKinds DEF TestInv

-----------------------------------------------------------------------------
(* A phase ends: its tester reports, and the next phase begins or fails to *)
(* begin, or the result is shown.                                          *)

LEMMA PhaseBegins ==
  ASSUME TestInv, ~crashed, box = NoBox, NEW q \in PageSet, NEW p \in PageSet, NEW R, NEW D,
         TestersInv(R, D, 0), NEW n \in Addresses(R), NEW dgram \in BOOLEAN,
         p.tester = n, p.testing, p.phase # "none", Earlier(p, passed'), verdicts = 0,
         tester' = Begun(R, n, dgram), page' = p, deletes' = D,
         UNCHANGED <<tplan, crashed, box, verdicts>>, ~foreign'
  PROVE  TestInv'
<1>1. TestersInv(tester', D, n) /\ n \in Ids /\ ~tester'[n].done
  BY TesterBegun
<1>2. Working(p, tester', 0, passed')
  BY <1>1, TestAssumption DEF Working
<1> QED BY <1>1, <1>2, TestGoesOn

LEMMA PhaseFails ==
  ASSUME TestInv, ~crashed, NEW p \in PageSet, NEW R, NEW D, TestersInv(R, D, 0), NEW n \in Addresses(R),
         NEW dgram \in BOOLEAN, p.tester = 0, Answering(p, {}, box', passed'),
         tester' = Release(Begun(R, n, dgram), n), page' = p, deletes' = D \cup {n},
         box' \in Boxes, verdicts' \in {0, 1}, UNCHANGED <<tplan, crashed>>, ~foreign'
  PROVE  TestInv'
<1>1. TestersInv(Begun(R, n, dgram), D, n) /\ n \in Ids
  BY TesterBegun
<1>2. TestersInv(tester', deletes', 0)
  BY <1>1, TesterReleased
<1>3. Answering(p, tester', box', passed')
  BY DEF Answering
<1> QED BY <1>2, <1>3, TestAnswers

LEMMA PhaseFailsInside ==
  ASSUME TestInv, ~crashed, NEW p \in PageSet, NEW R, NEW D, TestersInv(R, D, 0), NEW n \in Addresses(R),
         NEW dgram \in BOOLEAN, p.tester = n, box'.kind \in {"failed", "ask", "passed"},
         \A T : T[n].done => Answering(p, T, box', passed'),
         tester' = Complete(Begun(R, n, dgram), n), page' = p, deletes' = D,
         box' \in Boxes, verdicts' \in {0, 1}, UNCHANGED <<tplan, crashed>>, ~foreign'
  PROVE  TestInv'
<1>1. TestersInv(Begun(R, n, dgram), D, n) /\ n \in Ids
  BY TesterBegun
<1>2. TestersInv(tester', deletes', n) /\ tester'[n].done
  BY <1>1, TesterCompleted
<1> QED BY <1>2, TestAnswers

LEMMA Ipv6Classes ==
  ASSUME NEW code
  PROVE  /\ ClassifyIpv6TestResult(code) \in {"available", "targetfailed", "unknown"}
         /\ ClassifyIpv6TestResult(code) = "available" => code = "none"
BY DEF ClassifyIpv6TestResult

LEMMA UdpBegins ==
  ASSUME TestInv, ~crashed, box = NoBox, verdicts = 0, page.testing, NEW R, TestersInv(R, Posted(page.tester), 0),
         "tcp" \in passed', UNCHANGED <<tplan, crashed>>, ~foreign', StartUdp(R, [page EXCEPT !.tester = 0])
  PROVE  TestInv'
<1>1. page \in PageSet
  BY DEF TestInv
<1>2. PICK q : q = [page EXCEPT !.tester = 0]
  OBVIOUS
<1>3. PICK D : D = Posted(page.tester)
  OBVIOUS
<1>4. PICK outcome \in StartOutcomes, n \in Addresses(R) :
         \/ /\ outcome = "ok"
            /\ tester' = Begun(R, n, TRUE) /\ page' = [q EXCEPT !.tester = n, !.phase = "udp"]
            /\ deletes' = D /\ UNCHANGED <<box, verdicts>>
         \/ /\ outcome = "fail"
            /\ tester' = Release(Begun(R, n, TRUE), n)
            /\ page' = [q EXCEPT !.tester = 0, !.phase = "none"] /\ deletes' = D \cup {n}
            /\ Verdict(FALSE, q.v6, FALSE) /\ verdicts' = verdicts + 1
         \/ /\ outcome = "inside"
            /\ tester' = Complete(Begun(R, n, TRUE), n) /\ page' = [q EXCEPT !.tester = n, !.phase = "udp"]
            /\ deletes' = D
            /\ Verdict(FALSE, q.v6, TRUE) /\ verdicts' = verdicts + 1
  BY <1>2, <1>3 DEF StartUdp
<1>5. n \in Ids
  BY DEF Addresses
<1>6. PICK p : p = [q EXCEPT !.tester = n, !.phase = "udp"]
  OBVIOUS
<1>7. p \in PageSet /\ p.tester = n /\ p.testing /\ p.phase = "udp"
  BY <1>1, <1>2, <1>5, <1>6 DEF PageSet
<1>8. CASE outcome = "ok"
  <2>1. Earlier(p, passed')
    BY <1>7 DEF Earlier
  <2> QED BY <1>3, <1>4, <1>6, <1>7, <1>8, <2>1, PhaseBegins
<1>9. CASE outcome = "fail"
  <2>1. PICK z : z = [q EXCEPT !.tester = 0, !.phase = "none"]
    OBVIOUS
  <2>2. z \in PageSet /\ z.tester = 0
    BY <1>1, <1>2, <2>1 DEF PageSet
  <2>3. Verdict(FALSE, q.v6, FALSE) /\ verdicts' = verdicts + 1
    BY <1>4, <1>9
  <2>4. verdicts' = 1
    BY <2>3
  <2>5. box' \in Boxes /\ box'.kind = "failed" /\ verdicts' = 1
    BY <2>3, <2>4 DEF Verdict, Boxes
  <2>6. Answering(z, {}, box', passed')
    BY <2>2, <2>5 DEF Answering
  <2> QED BY <1>3, <1>4, <1>9, <2>1, <2>2, <2>5, <2>6, PhaseFails
<1>10. CASE outcome = "inside"
  <2>1. Verdict(FALSE, q.v6, TRUE) /\ verdicts' = verdicts + 1
    BY <1>4, <1>10
  <2>2. verdicts' = 1
    BY <2>1
  <2>3. box' \in Boxes /\ box'.kind = "failed" /\ verdicts' = 1
    BY <2>1, <2>2 DEF Verdict, Boxes
  <2>4. \A T : T[n].done => Answering(p, T, box', passed')
    BY <1>7, <2>3 DEF Answering
  <2> QED BY <1>3, <1>4, <1>6, <1>7, <1>10, <2>3, <2>4, PhaseFailsInside
<1> QED BY <1>4, <1>8, <1>9, <1>10

LEMMA Ipv6Begins ==
  ASSUME TestInv, ~crashed, box = NoBox, verdicts = 0, page.testing, NEW R, TestersInv(R, Posted(page.tester), 0),
         "tcp" \in passed', page.udp => "udp" \in passed', UNCHANGED <<tplan, crashed>>, ~foreign',
         StartIpv6ProxyTest(R, [page EXCEPT !.tester = 0])
  PROVE  TestInv'
<1>1. page \in PageSet
  BY DEF TestInv
<1>2. PICK q : q = [page EXCEPT !.tester = 0]
  OBVIOUS
<1>3. PICK D : D = Posted(page.tester)
  OBVIOUS
<1>4. CASE \E v \in {"unsupported", "invalid"} : NoIpv6(R, q, v)
  <2>1. PICK v \in {"unsupported", "invalid"} : NoIpv6(R, q, v)
    BY <1>4
  <2>2. PICK p : p = [q EXCEPT !.tester = 0, !.v6 = v]
    OBVIOUS
  <2>3. p \in PageSet /\ p.tester = 0 /\ p.v6 = v /\ p.udp = page.udp
    BY <1>1, <1>2, <2>2 DEF PageSet
  <2>4. box' \in Boxes /\ box'.kind \in {"failed", "ask", "passed"}
    BY <2>1 DEF NoIpv6, Verdict, Boxes
  <2>5. tester' = R /\ page' = p /\ deletes' = D /\ verdicts' = 1
    BY <1>3, <2>1, <2>2 DEF NoIpv6
  <2>6. Answering(p, tester', box', passed')
    BY <2>3, <2>4 DEF Answering
  <2> QED BY <1>3, <2>3, <2>4, <2>5, <2>6, TestAnswers
<1>5. CASE ~\E v \in {"unsupported", "invalid"} : NoIpv6(R, q, v)
  <2>1. PICK outcome \in StartOutcomes, n \in Addresses(R), code \in {"unreachable", "other"} :
          \/ /\ outcome = "ok"
             /\ tester' = Begun(R, n, FALSE) /\ page' = [q EXCEPT !.tester = n, !.phase = "ipv6"]
             /\ deletes' = D /\ UNCHANGED <<box, verdicts>>
          \/ /\ outcome = "fail"
             /\ tester' = Release(Begun(R, n, FALSE), n)
             /\ page' = [q EXCEPT !.tester = 0, !.phase = "none", !.v6 = ClassifyIpv6TestResult(code)]
             /\ deletes' = D \cup {n}
             /\ Verdict(TRUE, ClassifyIpv6TestResult(code), FALSE) /\ verdicts' = verdicts + 1
          \/ /\ outcome = "inside"
             /\ tester' = Complete(Begun(R, n, FALSE), n)
             /\ page' = [q EXCEPT !.tester = n, !.phase = "ipv6", !.v6 = ClassifyIpv6TestResult("other")]
             /\ deletes' = D
             /\ Verdict(TRUE, ClassifyIpv6TestResult("other"), TRUE) /\ verdicts' = verdicts + 1
    BY <1>2, <1>3, <1>5 DEF StartIpv6ProxyTest
  <2>2. n \in Ids
    BY DEF Addresses
  <2>3. CASE outcome = "ok"
    <3>1. PICK p : p = [q EXCEPT !.tester = n, !.phase = "ipv6"]
      OBVIOUS
    <3>2. p \in PageSet /\ p.tester = n /\ p.testing /\ p.phase = "ipv6" /\ p.udp = page.udp
      BY <1>1, <1>2, <2>2, <3>1 DEF PageSet
    <3>3. Earlier(p, passed')
      BY <3>2 DEF Earlier
    <3> QED BY <1>3, <2>1, <2>3, <3>1, <3>2, <3>3, PhaseBegins
  <2>4. CASE outcome = "fail"
    <3>1. PICK v : v = ClassifyIpv6TestResult(code)
      OBVIOUS
    <3>2. v \in {"targetfailed", "unknown"}
      BY <3>1, Ipv6Classes
    <3>3. PICK p : p = [q EXCEPT !.tester = 0, !.phase = "none", !.v6 = v]
      OBVIOUS
    <3>4. p \in PageSet /\ p.tester = 0 /\ p.udp = page.udp /\ p.v6 = v
      BY <1>1, <1>2, <3>2, <3>3 DEF PageSet
    <3>5. Verdict(TRUE, v, FALSE) /\ verdicts' = verdicts + 1
      BY <2>1, <2>4, <3>1
    <3>6. verdicts' = 1
      BY <3>5
    <3>7. box' \in Boxes /\ box'.kind \in {"failed", "ask", "passed"} /\ verdicts' = 1
      BY <3>5, <3>6 DEF Verdict, Boxes
    <3>8. Answering(p, {}, box', passed')
      BY <3>2, <3>4, <3>7 DEF Answering
    <3>9. tester' = Release(Begun(R, n, FALSE), n) /\ page' = p /\ deletes' = D \cup {n}
      BY <2>1, <2>4, <3>1, <3>3
    <3> QED BY <1>3, <3>4, <3>7, <3>8, <3>9, PhaseFails
  <2>5. CASE outcome = "inside"
    <3>1. PICK v : v = ClassifyIpv6TestResult("other")
      OBVIOUS
    <3>2. v \in {"targetfailed", "unknown"}
      BY <3>1, Ipv6Classes
    <3>3. PICK p : p = [q EXCEPT !.tester = n, !.phase = "ipv6", !.v6 = v]
      OBVIOUS
    <3>4. p \in PageSet /\ p.tester = n /\ p.udp = page.udp /\ p.v6 = v
      BY <1>1, <1>2, <2>2, <3>2, <3>3 DEF PageSet
    <3>5. Verdict(TRUE, v, TRUE) /\ verdicts' = verdicts + 1
      BY <2>1, <2>5, <3>1
    <3>6. verdicts' = 1
      BY <3>5
    <3>7. box' \in Boxes /\ box'.kind \in {"failed", "ask", "passed"} /\ verdicts' = 1
      BY <3>5, <3>6 DEF Verdict, Boxes
    <3>8. \A T : T[n].done => Answering(p, T, box', passed')
      BY <3>2, <3>4, <3>7 DEF Answering
    <3>9. tester' = Complete(Begun(R, n, FALSE), n) /\ page' = p /\ deletes' = D
      BY <2>1, <2>5, <3>1, <3>3
    <3> QED BY <1>3, <3>4, <3>7, <3>8, <3>9, PhaseFailsInside
  <2> QED BY <2>1, <2>3, <2>4, <2>5
<1> QED BY <1>4, <1>5

LEMMA ResultShown ==
  ASSUME TestInv, ~crashed, NEW t \in Ids, page.tester = t, NEW p \in PageSet, p.tester = t, NEW ok \in BOOLEAN, verdicts = 0,
         Shown(t, p, ok), UNCHANGED <<tplan, crashed>>, ~foreign',
         ok => /\ "tcp" \in passed' /\ (p.udp => "udp" \in passed')
               /\ p.v6 = "available" => "ipv6" \in passed'
  PROVE  TestInv'
<1>1. TestersInv(tester', deletes, t) /\ tester'[t].done
  BY TesterCompleted DEF Shown, TestInv
<1>2. /\ box' \in Boxes /\ box'.kind \in {"failed", "ask", "passed"} /\ (~ok => box'.kind = "failed")
      /\ page' = p /\ deletes' = deletes /\ verdicts' = 1
  BY DEF Shown, Verdict, Boxes
<1>3. Answering(p, tester', box', passed')
  BY <1>1, <1>2 DEF Answering
<1> QED BY <1>1, <1>2, <1>3, TestAnswers

LEMMA CallbackStep ==
  ASSUME TestInv, NEW t \in Ids, ~crashed, tester[t].listed, ~tester[t].done, NEW code, OnProxyTesterCallback(t, code)
  PROVE  TestInv'
<1>1. page.tester = t /\ t # 0 /\ page \in PageSet
  BY TestAssumption DEF TestInv, TestersInv, TesterOf
<1>2. box = NoBox
  BY <1>1 DEF TestInv, Answering
<1>3. page.testing /\ page.phase # "none" /\ verdicts = 0 /\ Earlier(page, passed)
  BY <1>1, <1>2 DEF TestInv, Working
<1>4. /\ ~foreign' /\ UNCHANGED <<tplan, crashed>>
      /\ passed' = IF code = "none" THEN passed \cup {page.phase} ELSE passed
  BY <1>1 DEF OnProxyTesterCallback, TestInv
<1>5. PICK T : T = Complete(tester, t)
  OBVIOUS
<1>6. TestersInv(T, deletes, t)
  BY <1>1, <1>5, TesterCompleted DEF TestInv
<1>7. PICK R : R = Release(T, t)
  OBVIOUS
<1>8. TestersInv(R, deletes \cup {t}, 0) /\ Posted(page.tester) = deletes \cup {t}
  BY <1>1, <1>6, <1>7, TesterReleased DEF Posted
<1>9. CASE page.phase = "ipv6"
  <2>1. PICK v : v = ClassifyIpv6TestResult(code)
    OBVIOUS
  <2>2. PICK p : p = [page EXCEPT !.v6 = v]
    OBVIOUS
  <2>3. v \in {"available", "targetfailed", "unknown"} /\ (v = "available" => code = "none")
    BY <2>1, Ipv6Classes
  <2>4. p \in PageSet /\ p.tester = t /\ p.udp = page.udp /\ p.v6 = v
    BY <1>1, <2>2, <2>3 DEF PageSet
  <2>5. Shown(t, p, TRUE)
    BY <1>9, <2>1, <2>2 DEF OnProxyTesterCallback, WantsUdp
  <2>6. /\ "tcp" \in passed' /\ (p.udp => "udp" \in passed')
        /\ p.v6 = "available" => "ipv6" \in passed'
    BY <1>3, <1>4, <1>9, <2>3, <2>4 DEF Earlier
  <2> QED BY <1>1, <1>3, <1>4, <2>4, <2>5, <2>6, ResultShown
<1>10. CASE page.phase # "ipv6" /\ code # "none"
  <2>1. Shown(t, page, FALSE)
    BY <1>10 DEF OnProxyTesterCallback
  <2> QED BY <1>1, <1>3, <1>4, <2>1, ResultShown
<1>11. CASE page.phase # "ipv6" /\ code = "none" /\ WantsUdp
  <2>1. StartUdp(R, [page EXCEPT !.tester = 0])
    BY <1>5, <1>7, <1>11 DEF OnProxyTesterCallback
  <2>2. "tcp" \in passed'
    BY <1>4, <1>11 DEF WantsUdp
  <2> QED BY <1>2, <1>3, <1>4, <1>8, <2>1, <2>2, UdpBegins
<1>12. CASE page.phase # "ipv6" /\ code = "none" /\ ~WantsUdp
  <2>1. StartIpv6ProxyTest(R, [page EXCEPT !.tester = 0])
    BY <1>5, <1>7, <1>12 DEF OnProxyTesterCallback
  <2>2. page.phase \in {"tcp", "udp"}
    BY <1>1, <1>3, <1>12 DEF PageSet
  <2>3. "tcp" \in passed' /\ (page.udp => "udp" \in passed')
    BY <1>3, <1>4, <1>12, <2>2 DEF WantsUdp, Earlier
  <2> QED BY <1>2, <1>3, <1>4, <1>8, <2>1, <2>3, Ipv6Begins
<1> QED BY <1>9, <1>10, <1>11, <1>12

-----------------------------------------------------------------------------
(* The button, the box and the events that report nothing.                 *)

LEMMA CancelStep ==
  ASSUME TestInv, Cancel
  PROVE  TestInv'
<1>1. page \in PageSet /\ page.tester \in Ids /\ page.tester # 0
  BY DEF TestInv, PageSet, Cancel
<1>2. TestersInv(tester, deletes, page.tester)
  BY DEF TestInv
<1>3. tester[page.tester].listed
  BY <1>1, <1>2 DEF TestersInv, TesterOf
<1>4. deletes' = deletes \cup {page.tester} /\ tester' = Release(tester, page.tester)
  BY <1>1, <1>3 DEF Cancel, Posted
<1>5. TestersInv(tester', deletes', 0)
  BY <1>1, <1>2, <1>4, TesterReleased
<1>6. page' \in PageSet /\ page'.tester = 0 /\ ~page'.testing /\ page'.phase = "none"
  BY <1>1 DEF Cancel, PageSet
<1>7. Working(page', tester', verdicts', passed')
  BY <1>6 DEF Working
<1> QED BY <1>5, <1>6, <1>7, TestGoesOn DEF Cancel, Enabled, TestInv

LEMMA ClickStep ==
  ASSUME TestInv, OnBnClickedTestproxy
  PROVE  TestInv'
<1>1. page \in PageSet /\ box = NoBox /\ ~crashed
  BY DEF TestInv, OnBnClickedTestproxy, Enabled
<1>2. page.tester = 0 /\ TestersInv(tester, deletes, 0)
  BY <1>1 DEF TestInv, Working, OnBnClickedTestproxy
<1>3. Release(tester, page.tester) = tester /\ Posted(page.tester) = deletes
  BY <1>2 DEF Release, Posted
<1>4. PICK q : q = Cleared
  OBVIOUS
<1>5. q \in PageSet /\ q.tester = 0 /\ ~q.testing /\ q.phase = "none"
  BY <1>1, <1>4 DEF Cleared, PageSet
<1>6. PICK wants : wants = (tplan.udp /\ tplan.proxy = "socks5")
  OBVIOUS
<1>7. wants \in BOOLEAN
  BY <1>6
<1>8. ~foreign' /\ tplan' = tplan /\ crashed' = crashed
  BY DEF OnBnClickedTestproxy, TestInv
<1>9. CASE /\ box' = [kind |-> "invalid", inner |-> FALSE]
           /\ page' = q /\ tester' = tester /\ deletes' = deletes /\ verdicts' = 0
  <2>1. box' \in Boxes /\ box'.kind = "invalid"
    BY <1>9 DEF Boxes
  <2>2. Answering(page', tester', box', passed')
    BY <1>5, <1>9, <2>1 DEF Answering
  <2> QED BY <1>1, <1>2, <1>5, <1>8, <1>9, <2>1, <2>2, TestAnswers
<1>10. CASE \E n \in Addresses(tester) :
              /\ tester' = Begun(tester, n, FALSE) /\ deletes' = deletes /\ verdicts' = 0
              /\ page' = [q EXCEPT !.tester = n, !.testing = TRUE, !.phase = "tcp", !.udp = wants]
              /\ box' = box
  <2>1. PICK n \in Addresses(tester) :
              /\ tester' = Begun(tester, n, FALSE) /\ deletes' = deletes /\ verdicts' = 0
              /\ page' = [q EXCEPT !.tester = n, !.testing = TRUE, !.phase = "tcp", !.udp = wants]
              /\ box' = box
    BY <1>10
  <2>2. TestersInv(tester', deletes', n) /\ n \in Ids /\ ~tester'[n].done
    BY <1>2, <2>1, TesterBegun
  <2>3. page' \in PageSet /\ page'.tester = n /\ page'.testing /\ page'.phase = "tcp"
    BY <1>5, <1>7, <2>1, <2>2 DEF PageSet
  <2>4. Working(page', tester', verdicts', passed')
    BY <2>1, <2>2, <2>3, TestAssumption DEF Working, Earlier
  <2> QED BY <1>1, <1>8, <2>1, <2>2, <2>3, <2>4, TestGoesOn
<1>11. CASE \E n \in Addresses(tester) :
              /\ tester' = Release(Begun(tester, n, FALSE), n) /\ deletes' = deletes \cup {n} /\ verdicts' = 0
              /\ page' = [q EXCEPT !.udp = wants] /\ box' = [kind |-> "start", inner |-> FALSE]
  <2>1. PICK n \in Addresses(tester) :
              /\ tester' = Release(Begun(tester, n, FALSE), n) /\ deletes' = deletes \cup {n} /\ verdicts' = 0
              /\ page' = [q EXCEPT !.udp = wants] /\ box' = [kind |-> "start", inner |-> FALSE]
    BY <1>11
  <2>2. page' \in PageSet /\ page'.tester = 0 /\ ~page'.testing
    BY <1>5, <1>7, <2>1 DEF PageSet
  <2>3. box' \in Boxes /\ box'.kind = "start"
    BY <2>1 DEF Boxes
  <2>4. Answering(page', {}, box', passed')
    BY <2>2, <2>3 DEF Answering
  <2> QED BY <1>1, <1>2, <1>8, <2>1, <2>2, <2>3, <2>4, PhaseFails
<1>12. CASE \E n \in Addresses(tester) :
              /\ tester' = Complete(Begun(tester, n, FALSE), n) /\ deletes' = deletes /\ verdicts' = 1
              /\ page' = [q EXCEPT !.tester = n, !.phase = "tcp", !.udp = wants]
              /\ Verdict(FALSE, "notrun", TRUE)
  <2>1. PICK n \in Addresses(tester) :
              /\ tester' = Complete(Begun(tester, n, FALSE), n) /\ deletes' = deletes /\ verdicts' = 1
              /\ page' = [q EXCEPT !.tester = n, !.phase = "tcp", !.udp = wants]
              /\ Verdict(FALSE, "notrun", TRUE)
    BY <1>12
  <2>2. n \in Ids
    BY DEF Addresses
  <2>3. page' \in PageSet /\ page'.tester = n
    BY <1>5, <1>7, <2>1, <2>2 DEF PageSet
  <2>4. box' \in Boxes /\ box'.kind = "failed"
    BY <2>1 DEF Verdict, Boxes
  <2>5. \A T : T[n].done => Answering(page', T, box', passed')
    BY <2>3, <2>4 DEF Answering
  <2> QED BY <1>1, <1>2, <1>8, <2>1, <2>3, <2>4, <2>5, PhaseFailsInside
<1>13. \/ box' = [kind |-> "invalid", inner |-> FALSE] /\ page' = q /\ tester' = tester /\ deletes' = deletes /\ verdicts' = 0
       \/ \E n \in Addresses(tester) :
            \/ /\ tester' = Begun(tester, n, FALSE) /\ deletes' = deletes /\ verdicts' = 0
               /\ page' = [q EXCEPT !.tester = n, !.testing = TRUE, !.phase = "tcp", !.udp = wants]
               /\ box' = box
            \/ /\ tester' = Release(Begun(tester, n, FALSE), n) /\ deletes' = deletes \cup {n} /\ verdicts' = 0
               /\ page' = [q EXCEPT !.udp = wants] /\ box' = [kind |-> "start", inner |-> FALSE]
            \/ /\ tester' = Complete(Begun(tester, n, FALSE), n) /\ deletes' = deletes /\ verdicts' = 1
               /\ page' = [q EXCEPT !.tester = n, !.phase = "tcp", !.udp = wants]
               /\ Verdict(FALSE, "notrun", TRUE)
  BY <1>3, <1>4, <1>6 DEF OnBnClickedTestproxy
<1> QED BY <1>9, <1>10, <1>11, <1>12, <1>13

LEMMA CloseStep ==
  ASSUME TestInv, CloseBox
  PROVE  TestInv'
<1>1. page \in PageSet /\ box \in Boxes /\ ~crashed /\ box' = NoBox /\ Answering(page, tester, box, passed)
  BY DEF TestInv, CloseBox
<1>2. TestersInv(tester, deletes, page.tester) /\ tplan' = tplan /\ verdicts' = verdicts /\ verdicts \in {0, 1} /\ ~foreign'
  BY DEF TestInv, CloseBox
<1>3. CASE box.kind \in {"invalid", "start"}
  <2>1. page' = [page EXCEPT !.phase = "none"] /\ UNCHANGED <<tester, deletes, crashed>> /\ page.tester = 0 /\ ~page.testing
    BY <1>1, <1>3 DEF CloseBox, Answering
  <2>2. page' \in PageSet /\ page'.tester = 0 /\ ~page'.testing /\ page'.phase = "none"
    BY <1>1, <2>1 DEF PageSet
  <2>3. Working(page', tester', verdicts', passed')
    BY <2>2 DEF Working
  <2> QED BY <1>1, <1>2, <2>1, <2>2, <2>3, TestGoesOn
<1>4. CASE box.kind \notin {"invalid", "start"}
  <2>1. PICK yes \in BOOLEAN : page' = [page EXCEPT !.tester = 0, !.testing = FALSE, !.phase = "none", !.blocked = @ \/ yes]
    BY <1>4 DEF CloseBox
  <2>2. page' \in PageSet /\ page'.tester = 0 /\ ~page'.testing /\ page'.phase = "none"
    BY <1>1, <2>1 DEF PageSet
  <2>3. TestersInv(tester', deletes', 0)
    <3>1. tester' = Release(tester, page.tester) /\ deletes' = Posted(page.tester)
      BY <1>4 DEF CloseBox
    <3>2. CASE page.tester = 0
      BY <1>2, <3>1, <3>2 DEF Release, Posted
    <3>3. CASE page.tester # 0
      <4>1. page.tester \in Ids /\ tester[page.tester].listed
        BY <1>1, <1>2, <3>3 DEF PageSet, TestersInv, TesterOf
      <4>2. deletes' = deletes \cup {page.tester}
        BY <3>1, <3>3, <4>1 DEF Posted
      <4> QED BY <1>2, <3>1, <4>1, <4>2, TesterReleased
    <3> QED BY <3>2, <3>3
  <2>4. Working(page', tester', verdicts', passed')
    BY <2>2 DEF Working
  <2>5. crashed' \in BOOLEAN
    BY <1>1, <1>4 DEF CloseBox, Boxes
  <2> QED BY <1>1, <1>2, <2>2, <2>3, <2>4, <2>5 DEF TestInv
<1> QED BY <1>3, <1>4

LEMMA UdpReadyStep ==
  ASSUME TestInv, NEW t \in Ids, OnConnectUdp(t)
  PROVE  TestInv'
<1>1. TestersInv(tester, deletes, page.tester) /\ page \in PageSet
  BY DEF TestInv
<1>2. PICK j : j = tester[t]
  OBVIOUS
<1>3. j \in TesterSet /\ TesterOf(t, j, deletes, page.tester) /\ j.open /\ ~j.done /\ deletes \in SUBSET Ids
      /\ page.tester \in Ids \cup {0}
  BY <1>1, <1>2 DEF TestersInv, OnConnectUdp, Hears
<1>4. PICK k : k = [j EXCEPT !.ready = TRUE, !.timer = "reply"]
  OBVIOUS
<1>5. k \in TesterSet /\ k.there = j.there /\ k.listed = j.listed /\ k.done = j.done /\ k.timer = "reply" /\ k.open = j.open
  BY <1>3, <1>4 DEF TesterSet
<1>6. TesterOf(t, k, deletes, page.tester)
  BY <1>3, <1>5 DEF TesterOf
<1>7. ReplacedBy(tester, t, k, tester')
  BY <1>2, <1>4 DEF OnConnectUdp, ReplacedBy
<1>8. SameElsewhere(t, deletes, page.tester, deletes, page.tester)
  BY <1>3 DEF SameElsewhere
<1>9. TestersInv(tester', deletes, page.tester) /\ tester'[t] = k
  BY <1>1, <1>5, <1>6, <1>7, <1>8, TesterReplaced
<1>10. page.tester = t /\ t # 0 /\ ~crashed
  BY <1>3, TestAssumption DEF TesterOf, OnConnectUdp, Hears
<1>11. box = NoBox
  BY <1>2, <1>3, <1>10 DEF TestInv, Answering
<1>12. Working(page', tester', verdicts', passed')
  BY <1>3, <1>5, <1>9, <1>10, <1>11 DEF TestInv, Working, OnConnectUdp
<1> QED BY <1>1, <1>9, <1>10, <1>11, <1>12, TestGoesOn DEF TestInv, OnConnectUdp

LEMMA DeleteStep ==
  ASSUME TestInv, NEW t \in Ids, DeleteTester(t)
  PROVE  TestInv'
<1>1. TestersInv(tester, deletes, page.tester) /\ page \in PageSet
  BY DEF TestInv
<1>2. PICK j : j = tester[t]
  OBVIOUS
<1>3. j \in TesterSet /\ TesterOf(t, j, deletes, page.tester) /\ deletes \in SUBSET Ids /\ page.tester \in Ids \cup {0}
  BY <1>1, <1>2 DEF TestersInv
<1>4. t \in deletes /\ ~j.listed /\ page.tester # t /\ j.timer = "off"
  BY <1>3 DEF DeleteTester, TesterOf, TesterSet
<1>5. PICK k : k = [Gone EXCEPT !.timer = j.timer]
  OBVIOUS
<1>6. k \in TesterSet /\ ~k.there /\ ~k.listed /\ k.timer = "off" /\ ~k.open
  BY <1>4, <1>5 DEF TesterSet, Gone
<1>7. PICK E : E = deletes \ {t}
  OBVIOUS
<1>8. TesterOf(t, k, E, page.tester) /\ E \subseteq Ids
  BY <1>3, <1>4, <1>6, <1>7 DEF TesterOf
<1>9. ReplacedBy(tester, t, k, tester') /\ deletes' = E
  BY <1>2, <1>5, <1>7 DEF DeleteTester, ReplacedBy
<1>10. SameElsewhere(t, deletes, page.tester, E, page.tester)
  BY <1>3, <1>7 DEF SameElsewhere
<1>11. TestersInv(tester', E, page.tester)
  BY <1>1, <1>3, <1>6, <1>8, <1>9, <1>10, TesterReplaced
<1>12. page.tester # 0 => tester'[page.tester] = tester[page.tester]
  BY <1>1, <1>3, <1>4, <1>9 DEF TestersInv, ReplacedBy
<1>13. /\ UNCHANGED <<tplan, page, box, crashed, passed, verdicts, foreign>> /\ ~crashed /\ ~foreign
       /\ box \in Boxes \cup {NoBox} /\ verdicts \in {0, 1}
  BY DEF DeleteTester, TestInv
<1>14. CASE box = NoBox
  <2>1. Working(page, tester', verdicts, passed)
    BY <1>12, <1>13, <1>14 DEF TestInv, Working
  <2> QED BY <1>1, <1>9, <1>11, <1>13, <1>14, <2>1, TestGoesOn
<1>15. CASE box # NoBox
  <2>1. Answering(page, tester', box, passed)
    BY <1>12, <1>13, <1>15 DEF TestInv, Answering
  <2> QED BY <1>1, <1>9, <1>11, <1>13, <1>15, <2>1, TestAnswers
<1> QED BY <1>14, <1>15

LEMMA TestStep ==
  ASSUME TestInv, [TestNext]_testVars
  PROVE  TestInv'
<1>1. ASSUME NEW t \in Ids, OnConnectTcp(t) \/ OnReply(t) \/ OnFailure(t) \/ OnTimer(t)
      PROVE  TestInv'
  <2>1. TesterOf(t, tester[t], deletes, page.tester)
    BY DEF TestInv, TestersInv
  <2>2. ~crashed /\ tester[t].listed /\ ~tester[t].done
    BY <1>1, <2>1 DEF TesterOf, OnConnectTcp, OnReply, OnFailure, OnTimer, Hears
  <2>3. \E code : OnProxyTesterCallback(t, code)
    BY <1>1, <2>2 DEF OnConnectTcp, OnReply, OnFailure, OnTimer
  <2> QED BY <2>2, <2>3, CallbackStep
<1>2. CASE UNCHANGED testVars
  BY <1>2 DEF testVars, TestInv, TestersInv, TesterOf, Working, Answering, Earlier
<1> QED BY <1>1, <1>2, CancelStep, ClickStep, CloseStep, UdpReadyStep, DeleteStep DEF TestNext

LEMMA TestBegins ==
  ASSUME TestInit
  PROVE  TestInv
<1>1. page \in PageSet /\ page.tester = 0 /\ ~page.testing /\ page.phase = "none"
  BY DEF TestInit, PageSet
<1>2. TestersInv(tester, deletes, page.tester)
  <2>1. tester \in [Ids -> TesterSet] /\ deletes = {} /\ \A t \in Ids : tester[t] = Gone
    BY DEF TestInit, Gone, TesterSet
  <2>2. \A t \in Ids : TesterOf(t, Gone, {}, 0)
    BY TestAssumption DEF Gone, TesterOf
  <2> QED BY <1>1, <2>1, <2>2 DEF TestersInv
<1>3. Working(page, tester, verdicts, passed)
  BY <1>1 DEF Working
<1> QED BY <1>1, <1>2, <1>3 DEF TestInit, TestInv

LEMMA TestInvSays ==
  ASSUME TestInv
  PROVE  TestSound
<1>1. TestTypeOK
  BY BoxKinds DEF TestTypeOK, TestInv, PageSet, TestersInv
<1>2. ReportsAreCurrent
  BY DEF ReportsAreCurrent, TestInv
<1>3. PageConsistent
  BY DEF PageConsistent, TestInv, Working
<1>4. TestTimed
  BY DEF TestTimed, TestInv, TestersInv, TesterOf
<1>5. TestersFreed
  BY DEF TestersFreed, TestInv, TestersInv, TesterOf
<1>6. VerdictHonest
  <2>1. verdicts <= 1
    BY DEF TestInv
  <2>2. ASSUME box.kind \in {"ask", "passed"}
        PROVE  box # NoBox /\ Answering(page, tester, box, passed)
    BY <2>2, BoxKinds DEF TestInv
  <2> QED BY <2>1, <2>2 DEF VerdictHonest, Answering
<1> QED BY <1>1, <1>2, <1>3, <1>4, <1>5, <1>6 DEF TestSound

(* Every report a proxy test acts on is the one it waits for, a test that  *)
(* runs is timed, every tester is freed and a verdict says what the phases *)
(* found, whatever events the loop of a message box dispatches.            *)
THEOREM TestHolds == TestSpec => []TestSound
<1>1. TestInit => TestInv
  BY TestBegins
<1>2. TestInv /\ [TestNext]_testVars => TestInv'
  BY TestStep
<1>3. TestInv => TestSound
  BY TestInvSays
<1> QED BY <1>1, <1>2, <1>3, PTL DEF TestSpec

-----------------------------------------------------------------------------
(* Launch histories.  No launch is in one twice, so its length and the     *)
(* number of its unpinned entries are the sizes of two sets of launches.   *)

HistEntry == [app : Launches, pin : BOOLEAN, id : 0..LastId]
Histories == {h \in Seq(HistEntry) : IsInjective(Apps(h))}
AppSet(h) == {h[k].app : k \in DOMAIN h}
LooseSet(h) == {h[k].app : k \in {j \in DOMAIN h : ~h[j].pin}}

(* The positions of a set of entries of a history. *)
LEMMA AppsCounted ==
  ASSUME NEW h \in Histories, NEW K \in SUBSET DOMAIN h, NEW A, A = {h[k].app : k \in K}
  PROVE  /\ IsFiniteSet(A) /\ IsFiniteSet(K) /\ Cardinality(A) = Cardinality(K) /\ Cardinality(K) \in Nat
         /\ Only(h, K) \in Histories /\ Len(Only(h, K)) = Cardinality(K) /\ AppSet(Only(h, K)) = A
         /\ \A n \in DOMAIN Only(h, K) : \E k \in K : Only(h, K)[n] = h[k]
         /\ \A k \in K : \E n \in DOMAIN Only(h, K) : Only(h, K)[n] = h[k]
<1>1. h \in Seq(HistEntry) /\ \A k, m \in DOMAIN h : h[k].app = h[m].app => k = m
  BY DEF Histories, IsInjective, Apps
<1>2. DOMAIN h = 1..Len(h) /\ Len(h) \in Nat
  BY <1>1, LenProperties
<1>3. IsFiniteSet(K) /\ Cardinality(K) \in Nat
  <2>1. IsFiniteSet(1..Len(h))
    BY <1>2, FS_Interval
  <2>2. IsFiniteSet(K)
    BY <1>2, <2>1, FS_Subset
  <2> QED BY <2>2, FS_CardinalityType
<1>4. IsFiniteSet(A) /\ Cardinality(A) = Cardinality(K)
  <2> DEFINE f == [k \in K |-> h[k].app]
  <2>1. f \in Bijection(K, A)
    BY <1>1 DEF Bijection, Injection, Surjection, IsInjective
  <2>2. ExistsBijection(K, A)
    BY <2>1 DEF ExistsBijection
  <2> QED BY <1>3, <2>2, FS_Bijection
<1>5. /\ Only(h, K) \in Seq(HistEntry)
      /\ \A n \in DOMAIN Only(h, K) : Nth(K, n) \in K /\ Only(h, K)[n] = h[Nth(K, n)]
      /\ \A k \in K : \E n \in DOMAIN Only(h, K) : Nth(K, n) = k
      /\ \A m, n \in DOMAIN Only(h, K) : Nth(K, m) = Nth(K, n) => m = n
  BY <1>1, OnlyKept
<1>6. IsInjective(Apps(Only(h, K)))
  BY <1>1, <1>5 DEF IsInjective, Apps
<1>7. Len(Only(h, K)) = Cardinality(K)
  BY <1>3, <1>5, LenProperties DEF Only
<1>8. AppSet(Only(h, K)) = A
  BY <1>5 DEF AppSet
<1> QED BY <1>3, <1>4, <1>5, <1>6, <1>7, <1>8 DEF Histories

(* Its launches, and its unpinned ones. *)
LEMMA HistoryCounted ==
  ASSUME NEW h \in Histories
  PROVE  /\ IsFiniteSet(AppSet(h)) /\ Len(h) = Cardinality(AppSet(h)) /\ Len(h) \in Nat
         /\ IsFiniteSet(LooseSet(h)) /\ Len(Unpinned(h)) = Cardinality(LooseSet(h)) /\ Len(Unpinned(h)) \in Nat
         /\ Unpinned(h) \in Histories /\ AppSet(Unpinned(h)) = LooseSet(h)
         /\ AppSet(h) \subseteq Launches /\ LooseSet(h) \subseteq AppSet(h)
<1>1. h \in Seq(HistEntry) /\ DOMAIN h = 1..Len(h) /\ Len(h) \in Nat
  BY LenProperties DEF Histories
<1>2. IsFiniteSet(AppSet(h)) /\ Cardinality(AppSet(h)) = Cardinality(DOMAIN h)
  BY AppsCounted DEF AppSet
<1>3. Cardinality(DOMAIN h) = Len(h)
  <2>1. Cardinality(1..Len(h)) = IF 1 > Len(h) THEN 0 ELSE Len(h) - 1 + 1
    BY <1>1, FS_Interval
  <2> QED BY <1>1, <2>1
<1>4. PICK K : K = {j \in DOMAIN h : ~h[j].pin}
  OBVIOUS
<1>5. K \in SUBSET DOMAIN h /\ Unpinned(h) = Only(h, K)
  BY <1>4 DEF Unpinned
<1>6. PICK A : A = {h[k].app : k \in K}
  OBVIOUS
<1>7. LooseSet(h) = A
  BY <1>4, <1>6 DEF LooseSet
<1>8. /\ IsFiniteSet(LooseSet(h)) /\ Cardinality(LooseSet(h)) = Cardinality(K) /\ Cardinality(K) \in Nat
      /\ Unpinned(h) \in Histories /\ Len(Unpinned(h)) = Cardinality(K) /\ AppSet(Unpinned(h)) = LooseSet(h)
  <2>1. PICK o : o = Only(h, K)
    OBVIOUS
  <2>2. /\ IsFiniteSet(A) /\ Cardinality(A) = Cardinality(K) /\ Cardinality(K) \in Nat
        /\ o \in Histories /\ Len(o) = Cardinality(K) /\ AppSet(o) = A
    BY <1>5, <1>6, <2>1, AppsCounted
  <2> QED BY <1>5, <1>7, <2>1, <2>2
<1>9. AppSet(h) \subseteq Launches /\ LooseSet(h) \subseteq AppSet(h)
  <2>1. \A k \in DOMAIN h : h[k] \in HistEntry
    BY <1>1, ElementOfSeq
  <2>2. \A k \in DOMAIN h : h[k].app \in Launches
    BY <2>1 DEF HistEntry
  <2> QED BY <2>2 DEF AppSet, LooseSet
<1> QED BY <1>1, <1>2, <1>3, <1>8, <1>9

(* What the edits of a history do to the two sets. *)
LEMMA WithoutHistory ==
  ASSUME NEW h \in Histories, NEW a
  PROVE  /\ Without(h, a) \in Histories /\ AppSet(Without(h, a)) = AppSet(h) \ {a}
         /\ LooseSet(Without(h, a)) = LooseSet(h) \ {a}
         /\ \A n \in DOMAIN Without(h, a) : \E k \in DOMAIN h : Without(h, a)[n] = h[k]
<1>1. PICK K : K = {k \in DOMAIN h : h[k].app # a}
  OBVIOUS
<1>2. K \in SUBSET DOMAIN h /\ Without(h, a) = Only(h, K)
  BY <1>1 DEF Without
<1>3. PICK A : A = {h[k].app : k \in K}
  OBVIOUS
<1>4. /\ Without(h, a) \in Histories /\ AppSet(Without(h, a)) = A
      /\ \A n \in DOMAIN Without(h, a) : \E k \in K : Without(h, a)[n] = h[k]
      /\ \A k \in K : \E n \in DOMAIN Without(h, a) : Without(h, a)[n] = h[k]
  BY <1>2, <1>3, AppsCounted
<1>5. AppSet(Without(h, a)) = AppSet(h) \ {a}
  BY <1>1, <1>3, <1>4 DEF AppSet
<1>6. LooseSet(Without(h, a)) = LooseSet(h) \ {a}
  <2>1. ASSUME NEW x \in LooseSet(Without(h, a)) PROVE x \in LooseSet(h) \ {a}
    <3>1. PICK n \in DOMAIN Without(h, a) : x = Without(h, a)[n].app /\ ~Without(h, a)[n].pin
      BY <2>1 DEF LooseSet
    <3>2. PICK k \in K : Without(h, a)[n] = h[k]
      BY <1>4, <3>1
    <3> QED BY <1>1, <3>1, <3>2 DEF LooseSet
  <2>2. ASSUME NEW x \in LooseSet(h) \ {a} PROVE x \in LooseSet(Without(h, a))
    <3>1. PICK k \in DOMAIN h : x = h[k].app /\ ~h[k].pin /\ x # a
      BY <2>2 DEF LooseSet
    <3>2. k \in K
      BY <1>1, <3>1
    <3>3. PICK n \in DOMAIN Without(h, a) : Without(h, a)[n] = h[k]
      BY <1>4, <3>2
    <3> QED BY <3>1, <3>3 DEF LooseSet
  <2> QED BY <2>1, <2>2
<1> QED BY <1>2, <1>4, <1>5, <1>6

LEMMA FrontedHistory ==
  ASSUME NEW h \in Histories, NEW a \in Launches, NEW id \in 0..LastId
  PROVE  /\ Fronted(h, a, id) \in Histories /\ AppSet(Fronted(h, a, id)) = AppSet(h) \cup {a}
         /\ LooseSet(Fronted(h, a, id)) \subseteq LooseSet(h) \cup {a}
         /\ \A n \in DOMAIN Fronted(h, a, id) : \/ Fronted(h, a, id)[n].id = id
                                                \/ \E k \in DOMAIN h : Fronted(h, a, id)[n] = h[k]
<1>1. PICK w : w = Without(h, a)
  OBVIOUS
<1>2. PICK e : e = [app |-> a, pin |-> IsPinned(h, a), id |-> id]
  OBVIOUS
<1>3. e \in HistEntry /\ e.app = a /\ e.id = id
  BY <1>2 DEF HistEntry, IsPinned
<1>4. /\ w \in Histories /\ AppSet(w) = AppSet(h) \ {a} /\ LooseSet(w) = LooseSet(h) \ {a}
      /\ \A n \in DOMAIN w : \E k \in DOMAIN h : w[n] = h[k]
  BY <1>1, WithoutHistory
<1>5. w \in Seq(HistEntry) /\ \A k, m \in DOMAIN w : w[k].app = w[m].app => k = m
  BY <1>4 DEF Histories, IsInjective, Apps
<1>6. PICK f : f = <<e>> \o w
  OBVIOUS
<1>7. /\ f \in Seq(HistEntry) /\ Len(f) = 1 + Len(w) /\ Len(w) \in Nat /\ DOMAIN f = 1..(1 + Len(w)) /\ DOMAIN w = 1..Len(w)
      /\ f[1] = e /\ \A n \in DOMAIN w : f[n + 1] = w[n]
  <2>1. <<e>> \in Seq(HistEntry) /\ Len(<<e>>) = 1 /\ <<e>>[1] = e
    BY <1>3
  <2>2. Len(w) \in Nat /\ DOMAIN w = 1..Len(w)
    BY <1>5, LenProperties
  <2> QED BY <1>5, <1>6, <2>1, <2>2, ConcatProperties
<1>8. \A n \in DOMAIN f : n = 1 \/ (n - 1 \in DOMAIN w /\ f[n] = w[n - 1])
  <2> TAKE n \in DOMAIN f
  <2>1. n = 1 \/ n - 1 \in DOMAIN w
    BY <1>7
  <2>2. ASSUME n - 1 \in DOMAIN w PROVE f[(n - 1) + 1] = w[n - 1]
    BY <1>7, <2>2
  <2>3. (n - 1) + 1 = n
    BY <1>7
  <2> QED BY <2>1, <2>2, <2>3
<1>9. \A n \in DOMAIN w : w[n].app # a /\ n + 1 \in DOMAIN f
  <2> TAKE n \in DOMAIN w
  <2>1. w[n].app \in AppSet(w)
    BY DEF AppSet
  <2>2. n + 1 \in DOMAIN f
    BY <1>7
  <2> QED BY <1>4, <2>1, <2>2
<1>10. IsInjective(Apps(f))
  <2>1. SUFFICES ASSUME NEW m \in DOMAIN f, NEW n \in DOMAIN f, f[m].app = f[n].app
                 PROVE  m = n
    BY DEF IsInjective, Apps
  <2>2. CASE m = 1 \/ n = 1
    BY <1>3, <1>7, <1>8, <1>9, <2>1, <2>2
  <2>3. CASE m # 1 /\ n # 1
    <3>1. m - 1 \in DOMAIN w /\ n - 1 \in DOMAIN w /\ f[m] = w[m - 1] /\ f[n] = w[n - 1]
      BY <1>8, <2>3
    <3>2. m - 1 = n - 1
      BY <1>5, <2>1, <3>1
    <3> QED BY <1>7, <3>2
  <2> QED BY <2>2, <2>3
<1>11. AppSet(f) = AppSet(h) \cup {a}
  <2>1. AppSet(f) = AppSet(w) \cup {a}
    <3>1. ASSUME NEW x \in AppSet(f) PROVE x \in AppSet(w) \cup {a}
      BY <1>3, <1>7, <1>8, <3>1 DEF AppSet
    <3>2. ASSUME NEW x \in AppSet(w) PROVE x \in AppSet(f)
      BY <1>7, <1>9, <3>2 DEF AppSet
    <3>3. a \in AppSet(f)
      <4>1. 1 \in DOMAIN f /\ f[1].app = a
        BY <1>3, <1>7
      <4> QED BY <4>1 DEF AppSet
    <3> QED BY <3>1, <3>2, <3>3
  <2> QED BY <1>4, <2>1
<1>12. LooseSet(f) \subseteq LooseSet(h) \cup {a}
  <2>1. ASSUME NEW x \in LooseSet(f) PROVE x \in LooseSet(w) \cup {a}
    <3>1. PICK n \in DOMAIN f : x = f[n].app /\ ~f[n].pin
      BY <2>1 DEF LooseSet
    <3> QED BY <1>3, <1>7, <1>8, <3>1 DEF LooseSet
  <2> QED BY <1>4, <2>1
<1>13. \A n \in DOMAIN f : f[n].id = id \/ \E k \in DOMAIN h : f[n] = h[k]
  BY <1>3, <1>4, <1>7, <1>8
<1>14. f = Fronted(h, a, id)
  BY <1>1, <1>2, <1>6 DEF Fronted
<1> QED BY <1>7, <1>10, <1>11, <1>12, <1>13, <1>14 DEF Histories

LEMMA PinnedHistory ==
  ASSUME NEW h \in Histories, NEW a, NEW pin \in BOOLEAN
  PROVE  /\ Pinned(h, a, pin) \in Histories /\ AppSet(Pinned(h, a, pin)) = AppSet(h)
         /\ LooseSet(Pinned(h, a, pin)) \subseteq LooseSet(h) \cup {a}
         /\ \A n \in DOMAIN Pinned(h, a, pin) : n \in DOMAIN h /\ Pinned(h, a, pin)[n].id = h[n].id
<1>1. h \in Seq(HistEntry) /\ \A k, m \in DOMAIN h : h[k].app = h[m].app => k = m
  BY DEF Histories, IsInjective, Apps
<1>2. PICK f : f = [k \in DOMAIN h |-> IF h[k].app = a THEN [h[k] EXCEPT !.pin = pin] ELSE h[k]]
  OBVIOUS
<1>3. DOMAIN f = DOMAIN h /\ DOMAIN h = 1..Len(h) /\ Len(h) \in Nat
  BY <1>1, <1>2, LenProperties
<1>4. ASSUME NEW k \in DOMAIN h
      PROVE  f[k] \in HistEntry /\ f[k].app = h[k].app /\ f[k].id = h[k].id /\ (f[k].pin = h[k].pin \/ h[k].app = a)
  <2>1. h[k] \in HistEntry
    BY <1>1, <1>3, ElementOfSeq
  <2>2. CASE h[k].app = a
    <3>1. f[k] = [h[k] EXCEPT !.pin = pin]
      BY <1>2, <2>2
    <3> QED BY <2>1, <2>2, <3>1 DEF HistEntry
  <2>3. CASE h[k].app # a
    BY <1>2, <2>1, <2>3
  <2> QED BY <2>2, <2>3
<1>5. f \in Seq(HistEntry)
  <2>1. f \in [1..Len(h) -> HistEntry]
    BY <1>2, <1>3, <1>4
  <2> QED BY <1>3, <2>1, SeqDef
<1>6. IsInjective(Apps(f))
  BY <1>1, <1>3, <1>4 DEF IsInjective, Apps
<1>7. AppSet(f) = AppSet(h)
  BY <1>3, <1>4 DEF AppSet
<1>8. LooseSet(f) \subseteq LooseSet(h) \cup {a}
  BY <1>3, <1>4 DEF LooseSet
<1>9. f = Pinned(h, a, pin)
  BY <1>2 DEF Pinned
<1> QED BY <1>3, <1>4, <1>5, <1>6, <1>7, <1>8, <1>9 DEF Histories

(* The launches beyond the unpinned ones a history keeps: each once. *)
LEMMA SurplusHistory ==
  ASSUME NEW h \in Histories
  PROVE  /\ Surplus(h) \in Seq(LooseSet(h)) /\ IsInjective(Surplus(h))
         /\ Len(Unpinned(h)) <= KeepUnpinned => Surplus(h) = <<>>
         /\ Len(Unpinned(h)) > KeepUnpinned => Len(Surplus(h)) = Len(Unpinned(h)) - KeepUnpinned
<1>1. PICK u : u = Unpinned(h)
  OBVIOUS
<1>2. PICK n : n = Len(u)
  OBVIOUS
<1>3. u \in Seq(HistEntry) /\ n \in Nat /\ DOMAIN u = 1..n /\ AppSet(u) = LooseSet(h)
      /\ \A k, m \in DOMAIN u : u[k].app = u[m].app => k = m
  BY <1>1, <1>2, HistoryCounted, LenProperties DEF Histories, IsInjective, Apps
<1>4. PICK p : p = Apps(u)
  OBVIOUS
<1>5. p \in [1..n -> LooseSet(h)] /\ \A k \in 1..n : p[k] = u[k].app
  BY <1>3, <1>4 DEF Apps, AppSet
<1>6. p \in Seq(LooseSet(h)) /\ Len(p) = n
  <2>1. p \in Seq(LooseSet(h))
    BY <1>3, <1>5, SeqDef
  <2> QED BY <1>3, <1>5, <2>1, LenProperties
<1>7. PICK q : q = SubSeq(p, KeepUnpinned + 1, n)
  OBVIOUS
<1>8. q = Surplus(h)
  BY <1>1, <1>2, <1>4, <1>7 DEF Surplus
<1>9. /\ q = [i \in 1..(IF KeepUnpinned + 1 <= n THEN n - KeepUnpinned ELSE 0) |-> p[i + KeepUnpinned]]
  <2>1. q = [i \in 1..(1 + n - (KeepUnpinned + 1)) |-> p[i + (KeepUnpinned + 1) - 1]]
    BY <1>3, <1>6, <1>7, FileAssumption
  <2> QED BY <1>3, <2>1, FileAssumption
<1>10. CASE n <= KeepUnpinned
  <2>1. 1..(IF KeepUnpinned + 1 <= n THEN n - KeepUnpinned ELSE 0) = {}
    BY <1>3, <1>10, FileAssumption
  <2>2. q = <<>>
    BY <1>9, <2>1
  <2> QED BY <1>1, <1>2, <1>8, <1>10, <2>2, FileAssumption DEF IsInjective
<1>11. CASE n > KeepUnpinned
  <2>1. PICK d : d = n - KeepUnpinned
    OBVIOUS
  <2>2. d \in Nat /\ q = [i \in 1..d |-> p[i + KeepUnpinned]]
    BY <1>3, <1>9, <1>11, <2>1, FileAssumption
  <2>3. \A i \in 1..d : i + KeepUnpinned \in 1..n
    BY <1>3, <2>1, FileAssumption
  <2>4. q \in [1..d -> LooseSet(h)]
    BY <1>5, <2>2, <2>3
  <2>5. q \in Seq(LooseSet(h)) /\ Len(q) = d
    <3>1. q \in Seq(LooseSet(h))
      BY <2>2, <2>4, SeqDef
    <3> QED BY <2>2, <2>4, <3>1, LenProperties
  <2>6. IsInjective(q)
    <3>1. SUFFICES ASSUME NEW i \in 1..d, NEW j \in 1..d, q[i] = q[j] PROVE i = j
      BY <2>2 DEF IsInjective
    <3>2. u[i + KeepUnpinned].app = u[j + KeepUnpinned].app
      BY <1>5, <2>2, <2>3, <3>1
    <3>3. i + KeepUnpinned = j + KeepUnpinned
      BY <1>3, <2>3, <3>2
    <3> QED BY <2>2, <3>3, FileAssumption
  <2> QED BY <1>1, <1>2, <1>3, <1>8, <1>11, <2>1, <2>5, <2>6, FileAssumption
<1> QED BY <1>3, <1>10, <1>11, FileAssumption

-----------------------------------------------------------------------------
(* What is still to be dropped: unpinned launches of the history, each     *)
(* once, and without them the history has the size it may have.  n counts  *)
(* the changes that were cut short.                                        *)
Sized(h, n) == Len(h) <= KeepMost + n /\ Len(Unpinned(h)) <= KeepUnpinned + n
EditSet == [kind : {"boot", "save", "opt", "id", "del", "front", "pin", "drop"},
            arg : Launches \cup {None, 2} \cup 0..LastId]
DropsOnly(t, S) ==
  /\ \A k \in DOMAIN t : t[k].kind = "drop" /\ t[k].arg \in S
  /\ \A k, m \in DOMAIN t : t[k].arg = t[m].arg => k = m
Pending(h, t, n) ==
  /\ t \in Seq(EditSet) /\ DropsOnly(t, LooseSet(h))
  /\ Len(h) <= KeepMost + n + Len(t) /\ Len(Unpinned(h)) <= KeepUnpinned + n + Len(t)
  /\ Sized(h, n + 1)

LEMMA NothingPending ==
  ASSUME NEW h \in Histories, NEW n \in Nat
  PROVE  /\ Sized(h, n) => Pending(h, <<>>, n) /\ Sized(h, n + 1)
         /\ Pending(h, <<>>, n) => Sized(h, n)
<1>1. <<>> \in Seq(EditSet) /\ Len(<<>>) = 0 /\ DOMAIN <<>> = {}
  OBVIOUS
<1>2. Len(h) \in Nat /\ Len(Unpinned(h)) \in Nat
  BY HistoryCounted
<1> QED BY <1>1, <1>2, FileAssumption DEF Pending, Sized, DropsOnly

LEMMA DropsPending ==
  ASSUME NEW h \in Histories, NEW n \in Nat, Sized(h, n + 1), Len(h) - Len(Surplus(h)) <= KeepMost + n
  PROVE  Pending(h, Drops(h), n)
<1>1. PICK s : s = Surplus(h)
  OBVIOUS
<1>2. PICK t : t = Drops(h)
  OBVIOUS
<1>3. PICK m : m = Len(s)
  OBVIOUS
<1>4. s \in Seq(LooseSet(h)) /\ IsInjective(s) /\ m \in Nat /\ DOMAIN s = 1..m
  BY <1>1, <1>3, SurplusHistory, LenProperties
<1>5. t = [k \in 1..m |-> Edit("drop", s[k])]
  BY <1>1, <1>2, <1>4 DEF Drops
<1>6. \A k \in 1..m : s[k] \in LooseSet(h) /\ s[k] \in Launches
  BY <1>3, <1>4, HistoryCounted, ElementOfSeq
<1>7. \A k \in 1..m : t[k] = Edit("drop", s[k]) /\ t[k].kind = "drop" /\ t[k].arg = s[k] /\ t[k] \in EditSet
  BY <1>5, <1>6 DEF Edit, EditSet
<1>8. t \in [1..m -> EditSet] /\ DOMAIN t = 1..m
  BY <1>5, <1>7
<1>9. t \in Seq(EditSet) /\ Len(t) = m
  <2>1. t \in Seq(EditSet)
    BY <1>4, <1>8, SeqDef
  <2> QED BY <1>4, <1>8, <2>1, LenProperties
<1>10. DropsOnly(t, LooseSet(h))
  BY <1>4, <1>6, <1>7, <1>8 DEF DropsOnly, IsInjective
<1>11. Len(h) \in Nat /\ Len(Unpinned(h)) \in Nat
  BY HistoryCounted
<1>12. Len(Unpinned(h)) <= KeepUnpinned + n + m
  <2>1. CASE Len(Unpinned(h)) <= KeepUnpinned
    BY <1>4, <1>11, <2>1, FileAssumption
  <2>2. CASE Len(Unpinned(h)) > KeepUnpinned
    <3>1. m = Len(Unpinned(h)) - KeepUnpinned
      BY <1>1, <1>3, <2>2, SurplusHistory
    <3> QED BY <1>11, <3>1, FileAssumption
  <2> QED BY <1>11, <2>1, <2>2, FileAssumption
<1>13. Len(h) <= KeepMost + n + m
  BY <1>1, <1>3, <1>4, <1>11, FileAssumption
<1> QED BY <1>2, <1>9, <1>10, <1>12, <1>13 DEF Pending

LEMMA DropDone ==
  ASSUME NEW h \in Histories, NEW n \in Nat, NEW t, Pending(h, t, n), t # <<>>
  PROVE  /\ Head(t) \in EditSet /\ Head(t).kind = "drop"
         /\ Pending(Without(h, Head(t).arg), Tail(t), n)
<1>1. PICK e : e = Head(t)
  OBVIOUS
<1>2. PICK r : r = Tail(t)
  OBVIOUS
<1>3. t \in Seq(EditSet) /\ DropsOnly(t, LooseSet(h))
  BY DEF Pending
<1>4. /\ e = t[1] /\ e \in EditSet /\ 1 \in DOMAIN t /\ Len(t) \in Nat /\ DOMAIN t = 1..Len(t) /\ Len(t) # 0
      /\ r \in Seq(EditSet) /\ Len(r) = Len(t) - 1 /\ DOMAIN r = 1..(Len(t) - 1)
      /\ \A k \in DOMAIN r : k + 1 \in DOMAIN t /\ r[k] = t[k + 1]
  <2>1. Len(t) \in Nat /\ DOMAIN t = 1..Len(t) /\ Len(t) # 0
    BY <1>3, LenProperties, EmptySeq
  <2>2. e = t[1] /\ e \in EditSet /\ 1 \in DOMAIN t
    BY <1>1, <1>3, <2>1, ElementOfSeq
  <2>3. r \in Seq(EditSet) /\ Len(r) = Len(t) - 1 /\ \A k \in 1..(Len(t) - 1) : r[k] = t[k + 1]
    BY <1>2, <1>3, HeadTailProperties
  <2>4. DOMAIN r = 1..(Len(t) - 1)
    BY <2>1, <2>3, LenProperties
  <2> QED BY <2>1, <2>2, <2>3, <2>4
<1>5. e.kind = "drop" /\ e.arg \in LooseSet(h) /\ e.arg \in AppSet(h)
  BY <1>3, <1>4, HistoryCounted DEF DropsOnly
<1>6. PICK w : w = Without(h, e.arg)
  OBVIOUS
<1>7. w \in Histories /\ AppSet(w) = AppSet(h) \ {e.arg} /\ LooseSet(w) = LooseSet(h) \ {e.arg}
  BY <1>6, WithoutHistory
<1>8. DropsOnly(r, LooseSet(w))
  <2>1. \A k \in DOMAIN r : r[k].kind = "drop" /\ r[k].arg \in LooseSet(w)
    <3> TAKE k \in DOMAIN r
    <3>1. k + 1 \in DOMAIN t /\ r[k] = t[k + 1] /\ k + 1 # 1
      BY <1>4
    <3>2. t[k + 1].kind = "drop" /\ t[k + 1].arg \in LooseSet(h) /\ t[k + 1].arg # t[1].arg
      BY <1>3, <1>4, <3>1 DEF DropsOnly
    <3> QED BY <1>4, <1>7, <3>1, <3>2
  <2>2. ASSUME NEW k \in DOMAIN r, NEW m \in DOMAIN r, r[k].arg = r[m].arg PROVE k = m
    <3>1. k + 1 \in DOMAIN t /\ m + 1 \in DOMAIN t /\ t[k + 1].arg = t[m + 1].arg
      BY <1>4, <2>2
    <3>2. k + 1 = m + 1
      BY <1>3, <3>1 DEF DropsOnly
    <3> QED BY <1>4, <3>2
  <2> QED BY <2>1, <2>2 DEF DropsOnly
<1>9. Len(w) = Len(h) - 1 /\ Len(Unpinned(w)) = Len(Unpinned(h)) - 1 /\ Len(h) \in Nat /\ Len(Unpinned(h)) \in Nat
  <2>1. /\ IsFiniteSet(AppSet(h)) /\ Len(h) = Cardinality(AppSet(h)) /\ Len(h) \in Nat
        /\ IsFiniteSet(LooseSet(h)) /\ Len(Unpinned(h)) = Cardinality(LooseSet(h)) /\ Len(Unpinned(h)) \in Nat
    BY HistoryCounted
  <2>2. Len(w) = Cardinality(AppSet(w)) /\ Len(Unpinned(w)) = Cardinality(LooseSet(w))
    BY <1>7, HistoryCounted
  <2>3. Cardinality(AppSet(w)) = Cardinality(AppSet(h)) - 1
    BY <1>5, <1>7, <2>1, FS_RemoveElement
  <2>4. Cardinality(LooseSet(w)) = Cardinality(LooseSet(h)) - 1
    BY <1>5, <1>7, <2>1, FS_RemoveElement
  <2> QED BY <2>1, <2>2, <2>3, <2>4
<1>10. /\ Len(w) <= KeepMost + n + Len(r) /\ Len(Unpinned(w)) <= KeepUnpinned + n + Len(r)
       /\ Sized(w, n + 1)
  BY <1>4, <1>9, FileAssumption DEF Pending, Sized
<1>11. Pending(w, r, n)
  BY <1>4, <1>8, <1>10 DEF Pending
<1> QED BY <1>1, <1>2, <1>4, <1>5, <1>6, <1>11

-----------------------------------------------------------------------------
(* A settings file, and an edit that fits it. *)

FileSet == [there : BOOLEAN, prof : Nat, id : 0..LastId, opt : Int, hist : Histories]
FileOK(c) ==
  /\ c \in FileSet /\ (~c.there => c = Absent)
  /\ \A k \in DOMAIN c.hist : c.prof # 0 /\ c.hist[k].id = c.id /\ c.id # 0
EditOK(c, e) ==
  /\ e \in EditSet
  /\ e.kind = "save" => e.arg = 2
  /\ e.kind = "id" => c.there /\ c.id = 0 /\ e.arg \in 1..LastId
  /\ e.kind = "front" => c.there /\ c.prof # 0 /\ c.id # 0 /\ e.arg \in Launches
  /\ e.kind \in {"pin", "drop"} => c.there

LEMMA EmptyHistory ==
  ASSUME NEW n \in Nat
  PROVE  <<>> \in Histories /\ Sized(<<>>, n) /\ Len(<<>>) = 0
<1>1. <<>> \in Seq(HistEntry) /\ Len(<<>>) = 0 /\ DOMAIN <<>> = {}
  OBVIOUS
<1>2. <<>> \in Histories
  BY <1>1 DEF Histories, IsInjective, Apps
<1>3. LooseSet(<<>>) = {}
  BY <1>1 DEF LooseSet
<1>4. Len(Unpinned(<<>>)) = 0
  BY <1>2, <1>3, HistoryCounted, FS_EmptySet
<1> QED BY <1>1, <1>2, <1>4, FileAssumption DEF Sized

LEMMA FixedFiles ==
  ASSUME TRUE
  PROVE  /\ FileOK(Absent) /\ FileOK(Defaults) /\ FileOK(Source) /\ Absent.hist = <<>> /\ Defaults.hist = <<>> /\ Source.hist = <<>>
         /\ Absent \in FileSet /\ ~Absent.there
<1>1. <<>> \in Histories /\ DOMAIN <<>> = {}
  BY EmptyHistory
<1>2. Absent \in FileSet /\ Absent.hist = <<>> /\ ~Absent.there
  BY <1>1, FileAssumption DEF Absent, FileSet
<1>3. PICK a : a = Absent
  OBVIOUS
<1>4. Defaults \in FileSet /\ Source \in FileSet
  <2>1. Defaults \in FileSet
    BY <1>2, <1>3 DEF Defaults, FileSet
  <2>2. Source \in FileSet
    BY <1>2, <1>3 DEF Source, FileSet
  <2> QED BY <2>1, <2>2
<1>5. Defaults.hist = <<>> /\ Source.hist = <<>> /\ Defaults.there /\ Source.there
  <2>1. Defaults.hist = a.hist /\ Defaults.there
    BY <1>2, <1>3 DEF Defaults, FileSet
  <2>2. Source.hist = a.hist /\ Source.there
    BY <1>2, <1>3 DEF Source, FileSet
  <2> QED BY <1>2, <1>3, <2>1, <2>2
<1> QED BY <1>1, <1>2, <1>4, <1>5 DEF FileOK

(* The file an edit makes, and what it does to the history. *)
LEMMA EditedFile ==
  ASSUME NEW c, FileOK(c), NEW e, EditOK(c, e)
  PROVE  /\ FileOK(Edited(c, e))
         /\ e.kind \in {"save", "opt", "id"} => Edited(c, e).hist = c.hist
         /\ e.kind = "boot" => Edited(c, e).hist \in {c.hist, <<>>}
         /\ e.kind = "del" => Edited(c, e).hist = <<>>
         /\ e.kind = "front" => Edited(c, e).hist = Fronted(c.hist, e.arg, c.id)
         /\ e.kind = "pin" => Edited(c, e).hist = Pinned(c.hist, e.arg, ~IsPinned(c.hist, e.arg))
         /\ e.kind = "drop" => Edited(c, e).hist = Without(c.hist, e.arg)
         /\ e.kind \in {"front", "pin", "drop"} => Edited(c, e).there
<1>1. c \in FileSet /\ c.hist \in Histories /\ (~c.there => c = Absent) /\ e \in EditSet
  BY DEF FileOK, FileSet, EditOK
<1>2. PICK d : d = Edited(c, e)
  OBVIOUS
<1>3. e.kind \in {"boot", "save", "opt", "id", "del", "front", "pin", "drop"}
  BY <1>1 DEF EditSet
<1>4. CASE e.kind = "boot"
  <2>1. d = IF c.there THEN c ELSE Defaults
    BY <1>2, <1>4 DEF Edited
  <2> QED BY <1>2, <1>4, <2>1, FixedFiles
<1>5. CASE e.kind = "save"
  <2>1. d = [c EXCEPT !.there = TRUE, !.prof = e.arg] /\ e.arg = 2
    BY <1>2, <1>5 DEF Edited, EditOK
  <2>2. d \in FileSet /\ d.there /\ d.prof = 2 /\ d.id = c.id /\ d.hist = c.hist
    <3>1. d = [c EXCEPT !.there = TRUE, !.prof = 2]
      BY <2>1
    <3>2. d \in FileSet
      BY <1>1, <3>1 DEF FileSet
    <3>3. d.there /\ d.prof = 2 /\ d.id = c.id /\ d.hist = c.hist
      BY <1>1, <3>1 DEF FileSet
    <3> QED BY <3>2, <3>3
  <2>3. FileOK(d)
    BY <2>2 DEF FileOK
  <2> QED BY <1>2, <1>5, <2>2, <2>3
<1>6. CASE e.kind = "opt"
  <2>1. d = [c EXCEPT !.there = TRUE, !.opt = 1 - @]
    BY <1>2, <1>6 DEF Edited
  <2>2. d \in FileSet /\ d.there /\ d.prof = c.prof /\ d.id = c.id /\ d.hist = c.hist
    <3>1. PICK v : v = 1 - c.opt
      OBVIOUS
    <3>2. v \in Int
      BY <1>1, <3>1 DEF FileSet
    <3>3. d = [c EXCEPT !.there = TRUE, !.opt = v]
      BY <2>1, <3>1
    <3>4. d \in FileSet
      BY <1>1, <3>2, <3>3 DEF FileSet
    <3>5. d.there /\ d.prof = c.prof /\ d.id = c.id /\ d.hist = c.hist
      BY <1>1, <3>3 DEF FileSet
    <3> QED BY <3>4, <3>5
  <2>3. FileOK(d)
    BY <2>2 DEF FileOK
  <2> QED BY <1>2, <1>6, <2>2, <2>3
<1>7. CASE e.kind = "id"
  <2>1. d = [c EXCEPT !.id = e.arg] /\ e.arg \in 1..LastId /\ c.there /\ c.id = 0
    BY <1>2, <1>7 DEF Edited, EditOK
  <2>2. d \in FileSet /\ d.there /\ d.hist = c.hist
    BY <1>1, <2>1, FileAssumption DEF FileSet
  <2>3. DOMAIN c.hist = {}
    BY <2>1 DEF FileOK
  <2>4. FileOK(d)
    BY <2>2, <2>3 DEF FileOK
  <2> QED BY <1>2, <1>7, <2>2, <2>4
<1>8. CASE e.kind = "del"
  <2>1. d = [c EXCEPT !.prof = 0, !.id = 0, !.hist = <<>>]
    BY <1>2, <1>8 DEF Edited
  <2>2. d \in FileSet /\ d.there = c.there /\ d.hist = <<>> /\ DOMAIN d.hist = {}
    <3>1. <<>> \in Histories /\ DOMAIN <<>> = {} /\ 0 \in Nat /\ 0 \in 0..LastId
      BY EmptyHistory, FileAssumption
    <3>2. d \in FileSet
      BY <1>1, <2>1, <3>1 DEF FileSet
    <3>3. d.there = c.there /\ d.hist = <<>>
      BY <1>1, <2>1 DEF FileSet
    <3> QED BY <3>1, <3>2, <3>3
  <2>3. ~c.there => d = Absent
    <3>1. ASSUME c = Absent PROVE d = Absent
      BY <2>1, <3>1 DEF Absent
    <3> QED BY <1>1, <3>1
  <2>4. FileOK(d)
    BY <2>2, <2>3 DEF FileOK
  <2> QED BY <1>2, <1>8, <2>2, <2>4
<1>9. CASE e.kind \in {"front", "pin", "drop"}
  <2>1. PICK h : h = IF e.kind = "front" THEN Fronted(c.hist, e.arg, c.id)
                     ELSE IF e.kind = "pin" THEN Pinned(c.hist, e.arg, ~IsPinned(c.hist, e.arg))
                     ELSE Without(c.hist, e.arg)
    OBVIOUS
  <2>2. d = [c EXCEPT !.hist = h] /\ c.there
    BY <1>2, <1>9, <2>1 DEF Edited, EditOK
  <2>3. h \in Histories /\ \A n \in DOMAIN h : h[n].id = c.id /\ c.prof # 0 /\ c.id # 0
    <3>1. CASE e.kind = "front"
      <4>1. e.arg \in Launches /\ c.id \in 0..LastId /\ c.prof # 0 /\ c.id # 0 /\ h = Fronted(c.hist, e.arg, c.id)
        BY <1>1, <2>1, <3>1 DEF EditOK, FileSet
      <4>2. h \in Histories /\ \A n \in DOMAIN h : h[n].id = c.id \/ \E k \in DOMAIN c.hist : h[n] = c.hist[k]
        BY <1>1, <4>1, FrontedHistory
      <4> QED BY <4>1, <4>2 DEF FileOK
    <3>2. CASE e.kind = "pin"
      <4>1. PICK pin : pin = ~IsPinned(c.hist, e.arg)
        OBVIOUS
      <4>2. h = Pinned(c.hist, e.arg, pin) /\ pin \in BOOLEAN
        BY <2>1, <3>2, <4>1 DEF IsPinned
      <4>3. h \in Histories /\ \A n \in DOMAIN h : n \in DOMAIN c.hist /\ h[n].id = c.hist[n].id
        BY <1>1, <4>2, PinnedHistory
      <4> QED BY <4>3 DEF FileOK
    <3>3. CASE e.kind = "drop"
      <4>1. h = Without(c.hist, e.arg)
        BY <2>1, <3>3
      <4>2. h \in Histories /\ \A n \in DOMAIN h : \E k \in DOMAIN c.hist : h[n] = c.hist[k]
        BY <1>1, <4>1, WithoutHistory
      <4> QED BY <4>2 DEF FileOK
    <3> QED BY <1>9, <3>1, <3>2, <3>3
  <2>4. d \in FileSet /\ d.there /\ d.prof = c.prof /\ d.id = c.id /\ d.hist = h
    BY <1>1, <2>2, <2>3 DEF FileSet
  <2>5. FileOK(d)
    BY <2>3, <2>4 DEF FileOK
  <2> QED BY <1>2, <1>9, <2>1, <2>4, <2>5
<1> QED BY <1>3, <1>4, <1>5, <1>6, <1>7, <1>8, <1>9

(* A change of the file that is under way: t is what is left of it.        *)
Underway(c, t, n) ==
  /\ t \in Seq(EditSet)
  /\ t = <<>> => Sized(c.hist, n)
  /\ t # <<>> => /\ EditOK(c, Head(t)) /\ Sized(c.hist, n + 1)
                 /\ Pending(Edited(c, Head(t)).hist, Tail(t), n)
                 /\ Tail(t) # <<>> => Edited(c, Head(t)).there

LEMMA EditDone ==
  ASSUME NEW c, FileOK(c), NEW n \in Nat, NEW t, Underway(c, t, n), t # <<>>
  PROVE  FileOK(Edited(c, Head(t))) /\ Underway(Edited(c, Head(t)), Tail(t), n)
<1>1. PICK d : d = Edited(c, Head(t))
  OBVIOUS
<1>2. PICK r : r = Tail(t)
  OBVIOUS
<1>3. FileOK(d) /\ Pending(d.hist, r, n) /\ (r # <<>> => d.there)
  BY <1>1, <1>2, EditedFile DEF Underway
<1>4. d.hist \in Histories /\ r \in Seq(EditSet)
  BY <1>3 DEF FileOK, FileSet, Pending
<1>5. CASE r = <<>>
  <2>1. Sized(d.hist, n)
    BY <1>3, <1>4, <1>5, NothingPending
  <2> QED BY <1>1, <1>2, <1>3, <1>4, <1>5, <2>1 DEF Underway
<1>6. CASE r # <<>>
  <2>1. PICK e : e = Head(r)
    OBVIOUS
  <2>2. e \in EditSet /\ e.kind = "drop" /\ Pending(Without(d.hist, e.arg), Tail(r), n)
    BY <1>3, <1>4, <1>6, <2>1, DropDone
  <2>3. EditOK(d, e)
    BY <1>3, <1>6, <2>2 DEF EditOK
  <2>4. Edited(d, e).hist = Without(d.hist, e.arg) /\ Edited(d, e).there
    BY <1>3, <2>2, <2>3, EditedFile
  <2>5. Sized(d.hist, n + 1)
    BY <1>3 DEF Pending
  <2>6. Underway(d, r, n)
    BY <1>4, <1>6, <2>1, <2>2, <2>3, <2>4, <2>5 DEF Underway
  <2> QED BY <1>1, <1>2, <1>3, <2>6
<1> QED BY <1>5, <1>6

-----------------------------------------------------------------------------
(* The instances, and the pending import.  Whoever holds the mutex is in   *)
(* the middle of a change that fits the file; nobody else has staged one.  *)

JobSet == [pc : {"idle", "wait", "held", "staged", "down"},
           op : {None, "boot", "save", "opt", "delete", "ensure", "remember", "pin", "remove", "arm", "finish", "restore"},
           arg : Launches \cup {None, 2}, todo : Seq(EditSet), stage : FileSet]
JobOK(i, k, o, c, n) ==
  /\ k.pc \in {"held", "staged"} <=> o = i
  /\ k.op = "save" => k.arg = 2
  /\ k.op \in {"remember", "pin", "remove"} => k.arg \in Launches
  /\ o = i => Underway(c, k.todo, n)
  /\ k.pc = "staged" => k.todo # <<>> /\ k.stage = Edited(c, Head(k.todo))
JobsInv(J, o, c, n) == J \in [Instances -> JobSet] /\ \A i \in Instances : JobOK(i, J[i], o, c, n)
ImportSet == [phase : {None, "prepared", "arming", "armed", "resume", "undo", "done"}, had : BOOLEAN, previous : FileSet,
              changed : BOOLEAN, outcome : {None, "imported", "kept", "stranded", "restored"}]
ImportOK(m, n) ==
  m \in ImportSet /\ FileOK(m.previous) /\ (~m.had => m.previous = Absent) /\ Sized(m.previous.hist, n)
FileLedger(c, o, d, n) ==
  /\ FileOK(c) /\ o \in Instances \cup {None} /\ d \in Nat /\ n \in 0..LastId
  /\ o = None => Sized(c.hist, d)
Accounted == undone \/ want = file
FileInv ==
  FileLedger(file, owner, deaths, ids) /\ Accounted /\ ~clobbered /\ ImportOK(import, deaths) /\ JobsInv(job, owner, file, deaths)

(* The others go on with the file, or none of them has the mutex. *)
OthersKeep(t, o, c, n, p, d, m) == (p = o /\ d = c /\ m = n) \/ (o \in {None, t} /\ p \in {None, t})

LEMMA JobReplaced ==
  ASSUME NEW J, NEW U, NEW o, NEW c, NEW n, NEW p, NEW d, NEW m, NEW t \in Instances, NEW k \in JobSet,
         JobsInv(J, o, c, n), ReplacedBy(J, t, k, U), JobOK(t, k, p, d, m), OthersKeep(t, o, c, n, p, d, m)
  PROVE  JobsInv(U, p, d, m)
<1>1. U \in [Instances -> JobSet] /\ U[t] = k /\ \A s \in Instances \ {t} : U[s] = J[s]
  BY DEF JobsInv, ReplacedBy
<1>2. \A s \in Instances : JobOK(s, U[s], p, d, m)
  <2> TAKE s \in Instances
  <2>1. CASE s = t
    BY <1>1, <2>1
  <2>2. CASE s # t
    <3>1. JobOK(s, J[s], o, c, n) /\ U[s] = J[s]
      BY <1>1, <2>2 DEF JobsInv
    <3>2. CASE p = o /\ d = c /\ m = n
      BY <3>1, <3>2
    <3>3. CASE o \in {None, t} /\ p \in {None, t}
      <4>1. o # s /\ p # s
        BY <2>2, <3>3, FileAssumption DEF None
      <4> QED BY <3>1, <4>1 DEF JobOK
    <3> QED BY <3>2, <3>3 DEF OthersKeep
  <2> QED BY <2>1, <2>2
<1> QED BY <1>1, <1>2 DEF JobsInv

LEMMA JobRests ==
  ASSUME NEW J, NEW U, NEW o, NEW c, NEW n, NEW p, NEW d, NEW m, NEW t \in Instances, NEW k \in {Nothing, Down},
         JobsInv(J, o, c, n), U = [J EXCEPT ![t] = k], p # t, OthersKeep(t, o, c, n, p, d, m)
  PROVE  JobsInv(U, p, d, m)
<1>1. Absent \in FileSet /\ <<>> \in Seq(EditSet)
  BY FixedFiles
<1>2. k \in JobSet /\ k.pc \in {"idle", "down"} /\ k.op = None
  <2>1. PICK a : a = Absent
    OBVIOUS
  <2>2. CASE k = Nothing
    <3>1. k = [pc |-> "idle", op |-> None, arg |-> None, todo |-> <<>>, stage |-> a]
      BY <2>1, <2>2 DEF Nothing
    <3> QED BY <1>1, <2>1, <3>1 DEF JobSet
  <2>3. CASE k = Down
    <3>1. k = [pc |-> "down", op |-> None, arg |-> None, todo |-> <<>>, stage |-> a]
      BY <2>1, <2>3 DEF Nothing, Down
    <3> QED BY <1>1, <2>1, <3>1 DEF JobSet
  <2> QED BY <2>2, <2>3
<1>3. JobOK(t, k, p, d, m)
  BY <1>2 DEF JobOK, None
<1>4. ReplacedBy(J, t, k, U)
  BY DEF ReplacedBy
<1> QED BY <1>2, <1>3, <1>4, JobReplaced

WaitingJob(op, arg) == [Nothing EXCEPT !.pc = "wait", !.op = op, !.arg = arg]

LEMMA JobBegins ==
  ASSUME NEW J, NEW U, NEW o, NEW c, NEW n, NEW p, NEW d, NEW m, NEW t \in Instances,
         NEW op \in {"boot", "save", "opt", "delete", "ensure", "remember", "pin", "remove", "arm", "finish", "restore"},
         NEW arg \in Launches \cup {None, 2},
         op = "save" => arg = 2, op \in {"remember", "pin", "remove"} => arg \in Launches,
         JobsInv(J, o, c, n), ReplacedBy(J, t, WaitingJob(op, arg), U),
         p # t, OthersKeep(t, o, c, n, p, d, m)
  PROVE  JobsInv(U, p, d, m)
<1>1. Absent \in FileSet /\ <<>> \in Seq(EditSet)
  BY FixedFiles
<1>2. PICK k : k = WaitingJob(op, arg)
  OBVIOUS
<1>3. k \in JobSet /\ k.pc = "wait" /\ k.op = op /\ k.arg = arg
  BY <1>1, <1>2 DEF WaitingJob, Nothing, JobSet, None
<1>4. JobOK(t, k, p, d, m)
  BY <1>3 DEF JobOK
<1> QED BY <1>2, <1>3, <1>4, JobReplaced

LEMMA MoreDeaths ==
  ASSUME NEW h \in Histories, NEW n \in Nat, Sized(h, n)
  PROVE  Sized(h, n + 1)
<1>1. Len(h) \in Nat /\ Len(Unpinned(h)) \in Nat
  BY HistoryCounted
<1> QED BY <1>1, FileAssumption DEF Sized

LEMMA ImportLasts ==
  ASSUME NEW n \in Nat, ImportOK(import, n)
  PROVE  ImportOK(import, n + 1)
<1>1. import.previous.hist \in Histories
  BY DEF ImportOK, FileOK, FileSet
<1> QED BY <1>1, MoreDeaths DEF ImportOK

LEMMA NoImportOK ==
  ASSUME NEW n \in Nat
  PROVE  ImportOK(NoImport, n)
<1>1. FileOK(Absent) /\ Absent \in FileSet /\ Absent.hist = <<>> /\ Sized(<<>>, n)
  BY FixedFiles, EmptyHistory
<1>2. NoImport \in ImportSet /\ NoImport.previous = Absent
  BY <1>1 DEF NoImport, ImportSet, None
<1> QED BY <1>1, <1>2 DEF ImportOK

-----------------------------------------------------------------------------
(* What a change consists of, decided from the file, fits the file. *)

LEMMA OneEdit ==
  ASSUME NEW c, FileOK(c), NEW n \in Nat, Sized(c.hist, n), NEW e, EditOK(c, e), Sized(Edited(c, e).hist, n)
  PROVE  Underway(c, <<e>>, n)
<1>1. e \in EditSet /\ c.hist \in Histories
  BY DEF EditOK, FileOK, FileSet
<1>2. PICK t : t = <<e>>
  OBVIOUS
<1>3. t \in Seq(EditSet) /\ t # <<>> /\ Head(t) = e /\ Tail(t) = <<>>
  BY <1>1, <1>2
<1>4. PICK d : d = Edited(c, e)
  OBVIOUS
<1>5. d.hist \in Histories
  BY <1>4, EditedFile DEF FileOK, FileSet
<1>6. Pending(d.hist, <<>>, n)
  BY <1>4, <1>5, NothingPending
<1>7. Sized(c.hist, n + 1)
  BY <1>1, MoreDeaths
<1>8. Underway(c, t, n)
  BY <1>3, <1>4, <1>6, <1>7 DEF Underway
<1> QED BY <1>2, <1>8

LEMMA SameOrEmpty ==
  ASSUME NEW c, FileOK(c), NEW n \in Nat, Sized(c.hist, n), NEW e, EditOK(c, e),
         e.kind \in {"boot", "save", "opt", "id", "del"}
  PROVE  Underway(c, <<e>>, n)
<1>1. Edited(c, e).hist \in {c.hist, <<>>}
  BY EditedFile
<1>2. Sized(<<>>, n)
  BY EmptyHistory
<1>3. Sized(Edited(c, e).hist, n)
  BY <1>1, <1>2
<1> QED BY <1>3, OneEdit

LEMMA EditThenDrops ==
  ASSUME NEW c, FileOK(c), NEW n \in Nat, Sized(c.hist, n), NEW e, EditOK(c, e), e.kind \in {"front", "pin", "drop"},
         NEW h, h = Edited(c, e).hist, Sized(h, n + 1), Len(h) - Len(Surplus(h)) <= KeepMost + n
  PROVE  Underway(c, <<e>> \o Drops(h), n)
<1>1. e \in EditSet /\ c.hist \in Histories
  BY DEF EditOK, FileOK, FileSet
<1>2. h \in Histories /\ Edited(c, e).there
  BY EditedFile DEF FileOK, FileSet
<1>3. PICK r : r = Drops(h)
  OBVIOUS
<1>4. Pending(h, r, n) /\ r \in Seq(EditSet)
  BY <1>2, <1>3, DropsPending DEF Pending
<1>5. PICK t : t = <<e>> \o r
  OBVIOUS
<1>6. t \in Seq(EditSet) /\ t # <<>> /\ Head(t) = e /\ Tail(t) = r
  BY <1>1, <1>4, <1>5
<1>7. Sized(c.hist, n + 1)
  BY <1>1, MoreDeaths
<1>8. Underway(c, t, n)
  BY <1>2, <1>4, <1>6, <1>7 DEF Underway
<1> QED BY <1>3, <1>5, <1>8

(* One entry more at most. *)
LEMMA OneMore ==
  ASSUME NEW h \in Histories, NEW g \in Histories, NEW a, NEW n \in Nat, Sized(h, n),
         AppSet(g) \subseteq AppSet(h) \cup {a}, LooseSet(g) \subseteq LooseSet(h) \cup {a}
  PROVE  Sized(g, n + 1)
<1>1. /\ IsFiniteSet(AppSet(h)) /\ Len(h) = Cardinality(AppSet(h)) /\ Len(h) \in Nat
      /\ IsFiniteSet(LooseSet(h)) /\ Len(Unpinned(h)) = Cardinality(LooseSet(h)) /\ Len(Unpinned(h)) \in Nat
  BY HistoryCounted
<1>2. Len(g) = Cardinality(AppSet(g)) /\ Len(Unpinned(g)) = Cardinality(LooseSet(g)) /\ Len(g) \in Nat /\ Len(Unpinned(g)) \in Nat
  BY HistoryCounted
<1>3. Cardinality(AppSet(g)) <= Cardinality(AppSet(h)) + 1
  <2>1. PICK S : S = AppSet(h) \cup {a}
    OBVIOUS
  <2>2. IsFiniteSet(S) /\ Cardinality(S) = IF a \in AppSet(h) THEN Cardinality(AppSet(h)) ELSE Cardinality(AppSet(h)) + 1
    BY <1>1, <2>1, FS_AddElement
  <2>3. Cardinality(AppSet(g)) <= Cardinality(S)
    BY <2>1, <2>2, FS_Subset
  <2> QED BY <1>1, <1>2, <2>2, <2>3
<1>4. Cardinality(LooseSet(g)) <= Cardinality(LooseSet(h)) + 1
  <2>1. PICK S : S = LooseSet(h) \cup {a}
    OBVIOUS
  <2>2. IsFiniteSet(S) /\ Cardinality(S) = IF a \in LooseSet(h) THEN Cardinality(LooseSet(h)) ELSE Cardinality(LooseSet(h)) + 1
    BY <1>1, <2>1, FS_AddElement
  <2>3. Cardinality(LooseSet(g)) <= Cardinality(S)
    BY <2>1, <2>2, FS_Subset
  <2> QED BY <1>1, <1>2, <2>2, <2>3
<1> QED BY <1>1, <1>2, <1>3, <1>4, FileAssumption DEF Sized

LEMMA NoneMore ==
  ASSUME NEW h \in Histories, NEW g \in Histories, NEW n \in Nat, Sized(h, n), AppSet(g) \subseteq AppSet(h)
  PROVE  Len(g) <= KeepMost + n /\ Len(g) - Len(Surplus(g)) <= KeepMost + n
<1>1. IsFiniteSet(AppSet(h)) /\ Len(h) = Cardinality(AppSet(h)) /\ Len(h) \in Nat
  BY HistoryCounted
<1>2. Len(g) = Cardinality(AppSet(g)) /\ Len(g) \in Nat
  BY HistoryCounted
<1>3. Cardinality(AppSet(g)) <= Cardinality(AppSet(h))
  BY <1>1, FS_Subset
<1>4. Len(Surplus(g)) \in Nat
  BY SurplusHistory, LenProperties
<1> QED BY <1>1, <1>2, <1>3, <1>4, FileAssumption DEF Sized

LEMMA PlanFits ==
  ASSUME FileInv, owner = None, NEW i \in Instances
  PROVE  Underway(file, Plan(i, job[i].op, job[i].arg), deaths)
<1>1. FileOK(file) /\ Sized(file.hist, deaths) /\ deaths \in Nat /\ ids \in 0..LastId
  BY DEF FileInv, FileLedger
<1>2. PICK k : k = job[i]
  OBVIOUS
<1>3. PICK c : c = file
  OBVIOUS
<1>4. PICK n : n = deaths
  OBVIOUS
<1>5. k \in JobSet /\ JobOK(i, k, owner, file, deaths)
  BY <1>2 DEF FileInv, JobsInv
<1>6. /\ k.arg \in Launches \cup {None, 2} /\ (k.op = "save" => k.arg = 2)
      /\ k.op \in {"remember", "pin", "remove"} => k.arg \in Launches
  BY <1>5 DEF JobOK, JobSet
<1>7. FileOK(c) /\ n \in Nat /\ Sized(c.hist, n) /\ c.hist \in Histories
  BY <1>1, <1>3, <1>4 DEF FileOK, FileSet
<1>8. c.prof # 0 => c.there
  BY <1>7 DEF FileOK, Absent
<1>9. Underway(c, <<>>, n)
  BY <1>7 DEF Underway
<1>10. PICK t : t = Plan(i, k.op, k.arg)
  OBVIOUS
<1>11. ReadBound(i) => c.prof # 0 /\ c.id # 0 /\ c.there
  BY <1>3, <1>8 DEF ReadBound
<1>12. CASE k.op = "boot"
  <2>1. t = <<>> \/ t = <<Edit("boot", None)>>
    BY <1>10, <1>12 DEF Plan
  <2>2. EditOK(c, Edit("boot", None)) /\ Edit("boot", None).kind = "boot"
    BY DEF EditOK, Edit, EditSet
  <2>3. Underway(c, t, n)
    BY <1>7, <1>9, <2>1, <2>2, SameOrEmpty
  <2> QED BY <1>2, <1>3, <1>4, <1>10, <2>3
<1>13. CASE k.op \in {"save", "opt"}
  <2>1. PICK e : e = Edit(k.op, k.arg)
    OBVIOUS
  <2>2. t = <<e>>
    BY <1>10, <1>13, <2>1 DEF Plan
  <2>3. e.kind = k.op /\ e.arg = k.arg /\ e \in EditSet
    BY <1>6, <1>13, <2>1 DEF Edit, EditSet
  <2>4. EditOK(c, e) /\ e.kind \in {"save", "opt"}
    BY <1>6, <1>13, <2>3 DEF EditOK
  <2>5. Underway(c, t, n)
    BY <1>7, <2>2, <2>4, SameOrEmpty
  <2> QED BY <1>2, <1>3, <1>4, <1>10, <2>5
<1>14. CASE k.op = "delete"
  <2>1. PICK e : e = Edit("del", None)
    OBVIOUS
  <2>2. t = <<e>>
    BY <1>10, <1>14, <2>1 DEF Plan
  <2>3. EditOK(c, e) /\ e.kind = "del"
    BY <2>1 DEF EditOK, Edit, EditSet
  <2>4. Underway(c, t, n)
    BY <1>7, <2>2, <2>3, SameOrEmpty
  <2> QED BY <1>2, <1>3, <1>4, <1>10, <2>4
<1>15. CASE k.op = "ensure"
  <2>1. t = EnsureProfileId
    BY <1>10, <1>15 DEF Plan
  <2>2. CASE c.prof = 0 \/ c.id # 0 \/ ids = LastId
    <3>1. t = <<>>
      BY <1>3, <2>1, <2>2 DEF EnsureProfileId
    <3> QED BY <1>2, <1>3, <1>4, <1>9, <1>10, <3>1
  <2>3. CASE ~(c.prof = 0 \/ c.id # 0 \/ ids = LastId)
    <3>1. PICK v : v = ids + 1
      OBVIOUS
    <3>2. v \in 1..LastId /\ v \in 0..LastId
      BY <1>1, <2>3, <3>1, FileAssumption
    <3>3. PICK e : e = Edit("id", v)
      OBVIOUS
    <3>4. t = <<e>>
      BY <1>3, <2>1, <2>3, <3>1, <3>3 DEF EnsureProfileId
    <3>5. e.kind = "id" /\ e.arg = v /\ e \in EditSet
      BY <3>2, <3>3 DEF Edit, EditSet
    <3>6. EditOK(c, e)
      BY <1>8, <2>3, <3>2, <3>5 DEF EditOK
    <3>7. Underway(c, t, n)
      BY <1>7, <3>4, <3>5, <3>6, SameOrEmpty
    <3> QED BY <1>2, <1>3, <1>4, <1>10, <3>7
  <2> QED BY <2>2, <2>3
<1>16. CASE k.op = "remember"
  <2>1. t = Remember(i, k.arg)
    BY <1>10, <1>16 DEF Plan
  <2>2. PICK h : h = Fronted(c.hist, k.arg, c.id)
    OBVIOUS
  <2>3. CASE ~ReadBound(i) \/ TooMany(h)
    <3>1. t = <<>>
      BY <1>3, <2>1, <2>2, <2>3 DEF Remember
    <3> QED BY <1>2, <1>3, <1>4, <1>9, <1>10, <3>1
  <2>4. CASE ReadBound(i) /\ ~TooMany(h)
    <3>1. PICK e : e = Edit("front", k.arg)
      OBVIOUS
    <3>2. t = <<e>> \o Drops(h)
      BY <1>3, <2>1, <2>2, <2>4, <3>1 DEF Remember
    <3>3. k.arg \in Launches
      BY <1>6, <1>16
    <3>4. e.kind = "front" /\ e.arg = k.arg /\ e \in EditSet
      BY <3>1, <3>3 DEF Edit, EditSet
    <3>5. EditOK(c, e)
      BY <1>11, <2>4, <3>3, <3>4 DEF EditOK
    <3>6. h = Edited(c, e).hist
      BY <1>7, <2>2, <3>4, <3>5, EditedFile
    <3>7. c.id \in 0..LastId
      BY <1>7 DEF FileOK, FileSet
    <3>8. h \in Histories /\ AppSet(h) = AppSet(c.hist) \cup {k.arg} /\ LooseSet(h) \subseteq LooseSet(c.hist) \cup {k.arg}
      BY <1>7, <2>2, <3>3, <3>7, FrontedHistory
    <3>9. Sized(h, n + 1)
      BY <1>7, <3>8, OneMore
    <3>10. Len(h) - Len(Surplus(h)) <= KeepMost + n
      <4>1. Len(h) \in Nat /\ Len(Surplus(h)) \in Nat
        BY <3>8, HistoryCounted, SurplusHistory, LenProperties
      <4> QED BY <1>7, <2>4, <4>1, FileAssumption DEF TooMany
    <3>11. Underway(c, t, n)
      BY <1>7, <3>2, <3>4, <3>5, <3>6, <3>9, <3>10, EditThenDrops
    <3> QED BY <1>2, <1>3, <1>4, <1>10, <3>11
  <2> QED BY <2>3, <2>4
<1>17. CASE k.op = "pin"
  <2>1. t = SetPinned(i, k.arg)
    BY <1>10, <1>17 DEF Plan
  <2>2. CASE ~ReadBound(i) \/ k.arg \notin ToSet(Apps(file.hist))
    <3>1. t = <<>>
      BY <2>1, <2>2 DEF SetPinned
    <3> QED BY <1>2, <1>3, <1>4, <1>9, <1>10, <3>1
  <2>3. CASE ReadBound(i) /\ k.arg \in ToSet(Apps(file.hist))
    <3>1. PICK e : e = Edit("pin", k.arg)
      OBVIOUS
    <3>2. PICK pin : pin = ~IsPinned(c.hist, k.arg)
      OBVIOUS
    <3>3. PICK h : h = Pinned(c.hist, k.arg, pin)
      OBVIOUS
    <3>4. t = <<e>> \o Drops(h)
      BY <1>3, <2>1, <2>3, <3>1, <3>2, <3>3 DEF SetPinned
    <3>5. k.arg \in Launches /\ pin \in BOOLEAN
      BY <1>6, <1>17, <3>2 DEF IsPinned
    <3>6. e.kind = "pin" /\ e.arg = k.arg /\ e \in EditSet
      BY <3>1, <3>5 DEF Edit, EditSet
    <3>7. EditOK(c, e)
      BY <1>11, <2>3, <3>6 DEF EditOK
    <3>8. h = Edited(c, e).hist
      BY <1>7, <3>2, <3>3, <3>6, <3>7, EditedFile
    <3>9. h \in Histories /\ AppSet(h) = AppSet(c.hist) /\ LooseSet(h) \subseteq LooseSet(c.hist) \cup {k.arg}
      BY <1>7, <3>3, <3>5, PinnedHistory
    <3>10. Sized(h, n + 1)
      BY <1>7, <3>9, OneMore
    <3>11. Len(h) - Len(Surplus(h)) <= KeepMost + n
      BY <1>7, <3>9, NoneMore
    <3>12. Underway(c, t, n)
      BY <1>7, <3>4, <3>6, <3>7, <3>8, <3>10, <3>11, EditThenDrops
    <3> QED BY <1>2, <1>3, <1>4, <1>10, <3>12
  <2> QED BY <2>2, <2>3
<1>18. CASE k.op = "remove"
  <2>1. t = RemoveLaunch(i, k.arg)
    BY <1>10, <1>18 DEF Plan
  <2>2. CASE ~ReadBound(i) \/ k.arg \notin ToSet(Apps(file.hist))
    <3>1. t = <<>>
      BY <2>1, <2>2 DEF RemoveLaunch
    <3> QED BY <1>2, <1>3, <1>4, <1>9, <1>10, <3>1
  <2>3. CASE ReadBound(i) /\ k.arg \in ToSet(Apps(file.hist))
    <3>1. PICK e : e = Edit("drop", k.arg)
      OBVIOUS
    <3>2. PICK h : h = Without(c.hist, k.arg)
      OBVIOUS
    <3>3. t = <<e>> \o Drops(h)
      BY <1>3, <2>1, <2>3, <3>1, <3>2 DEF RemoveLaunch
    <3>4. k.arg \in Launches
      BY <1>6, <1>18
    <3>5. e.kind = "drop" /\ e.arg = k.arg /\ e \in EditSet
      BY <3>1, <3>4 DEF Edit, EditSet
    <3>6. EditOK(c, e)
      BY <1>11, <2>3, <3>5 DEF EditOK
    <3>7. h = Edited(c, e).hist
      BY <1>7, <3>2, <3>5, <3>6, EditedFile
    <3>8. h \in Histories /\ AppSet(h) \subseteq AppSet(c.hist) /\ LooseSet(h) \subseteq LooseSet(c.hist)
      BY <1>7, <3>2, WithoutHistory
    <3>9. Sized(h, n + 1)
      BY <1>7, <3>8, OneMore
    <3>10. Len(h) - Len(Surplus(h)) <= KeepMost + n
      BY <1>7, <3>8, NoneMore
    <3>11. Underway(c, t, n)
      BY <1>7, <3>3, <3>5, <3>6, <3>7, <3>9, <3>10, EditThenDrops
    <3> QED BY <1>2, <1>3, <1>4, <1>10, <3>11
  <2> QED BY <2>2, <2>3
<1>19. CASE k.op \notin {"boot", "save", "opt", "delete", "ensure", "remember", "pin", "remove"}
  <2>1. t = <<>>
    BY <1>10, <1>19 DEF Plan
  <2> QED BY <1>2, <1>3, <1>4, <1>9, <1>10, <2>1
<1> QED BY <1>12, <1>13, <1>14, <1>15, <1>16, <1>17, <1>18, <1>19

-----------------------------------------------------------------------------
(* The steps.  Most leave the file alone, or change it for one instance. *)

LEMMA FileSame ==
  ASSUME FileInv, UNCHANGED <<file, want, undone, owner, deaths, ids, clobbered>>, ImportOK(import', deaths),
         JobsInv(job', owner, file, deaths)
  PROVE  FileInv'
BY DEF FileInv, Accounted

LEMMA ChangeStep ==
  ASSUME FileInv, NEW i \in Instances, Change(i) \/ Initialize(i)
  PROVE  FileInv'
<1>1. /\ UNCHANGED <<file, want, undone, owner, deaths, ids, clobbered, import>>
      /\ JobsInv(job, owner, file, deaths) /\ ImportOK(import', deaths)
  BY DEF FileInv, Change, Initialize
<1>2. owner # i
  BY <1>1 DEF Change, Initialize, Idling, JobsInv, JobOK
<1>3. PICK op \in {"boot", "save", "opt", "delete", "ensure", "remember", "pin", "remove"}, arg \in Launches \cup {None, 2} :
         /\ op = "save" => arg = 2
         /\ op \in {"remember", "pin", "remove"} => arg \in Launches
         /\ Begin(i, op, arg)
  BY DEF Change, Initialize
<1>4. OthersKeep(i, owner, file, deaths, owner, file, deaths)
  BY DEF OthersKeep
<1>5. ReplacedBy(job, i, WaitingJob(op, arg), job')
  BY <1>3 DEF Begin, ReplacedBy, WaitingJob
<1>6. JobsInv(job', owner, file, deaths)
  BY <1>1, <1>2, <1>3, <1>4, <1>5, JobBegins
<1> QED BY <1>1, <1>6, FileSame

LEMMA EnterStep ==
  ASSUME FileInv, NEW i \in Instances, Enter(i)
  PROVE  FileInv'
<1>1. PICK t : t = Plan(i, job[i].op, job[i].arg)
  OBVIOUS
<1>2. owner = None /\ owner' = i /\ UNCHANGED <<file, want, undone, deaths, clobbered, import>>
  BY DEF Enter, Lock
<1>3. Underway(file, t, deaths) /\ t \in Seq(EditSet)
  BY <1>1, <1>2, PlanFits DEF Underway
<1>4. PICK j : j = job[i]
  OBVIOUS
<1>5. j \in JobSet /\ JobOK(i, j, owner, file, deaths)
  BY <1>4 DEF FileInv, JobsInv
<1>6. PICK k : k = [j EXCEPT !.pc = "held", !.todo = t]
  OBVIOUS
<1>7. k \in JobSet /\ k.pc = "held" /\ k.op = j.op /\ k.arg = j.arg /\ k.todo = t
  BY <1>3, <1>5, <1>6 DEF JobSet
<1>8. JobOK(i, k, i, file, deaths)
  BY <1>3, <1>5, <1>7 DEF JobOK
<1>9. ReplacedBy(job, i, k, job')
  BY <1>1, <1>4, <1>6 DEF Enter, ReplacedBy
<1>10. OthersKeep(i, owner, file, deaths, i, file, deaths)
  BY <1>2 DEF OthersKeep
<1>11. JobsInv(job', i, file, deaths)
  BY <1>7, <1>8, <1>9, <1>10, JobReplaced DEF FileInv
<1>12. ids' \in 0..LastId
  <2>1. ids \in 0..LastId
    BY DEF FileInv, FileLedger
  <2>2. CASE ids' = ids
    BY <2>1, <2>2
  <2>3. CASE ids' # ids
    <3>1. ids' = ids + 1 /\ EnsureProfileId # <<>>
      BY <2>3 DEF Enter
    <3>2. ids # LastId
      BY <3>1 DEF EnsureProfileId
    <3> QED BY <2>1, <3>1, <3>2, FileAssumption
  <2> QED BY <2>2, <2>3
<1>13. FileLedger(file, i, deaths, ids')
  BY <1>2, <1>12, FileAssumption DEF FileInv, FileLedger, None
<1> QED BY <1>2, <1>11, <1>13 DEF FileInv, Accounted

LEMMA TimeOutStep ==
  ASSUME FileInv, NEW i \in Instances, TimeOut(i)
  PROVE  FileInv'
<1>1. JobsInv(job, owner, file, deaths) /\ ImportOK(import, deaths) /\ deaths \in Nat
  BY DEF FileInv, FileLedger
<1>2. owner # i /\ UNCHANGED <<file, want, undone, owner, deaths, ids, clobbered>>
  BY DEF TimeOut
<1>3. PICK k \in {Nothing, Down} : job' = [job EXCEPT ![i] = k]
  BY DEF TimeOut
<1>4. OthersKeep(i, owner, file, deaths, owner, file, deaths)
  BY DEF OthersKeep
<1>5. JobsInv(job', owner, file, deaths)
  BY <1>1, <1>2, <1>3, <1>4, JobRests
<1>6. ImportOK(import', deaths)
  BY <1>1, NoImportOK DEF TimeOut
<1> QED BY <1>2, <1>5, <1>6, FileSame

LEMMA CopyStep ==
  ASSUME FileInv, NEW i \in Instances, Stage(i)
  PROVE  FileInv'
<1>1. /\ UNCHANGED <<file, want, undone, owner, deaths, ids, clobbered, import>> /\ FileOK(file) /\ deaths \in Nat
      /\ JobsInv(job, owner, file, deaths) /\ ImportOK(import', deaths)
  BY DEF FileInv, FileLedger, Stage
<1>2. PICK j : j = job[i]
  OBVIOUS
<1>3. j \in JobSet /\ JobOK(i, j, owner, file, deaths) /\ j.pc = "held" /\ j.todo # <<>>
  BY <1>1, <1>2 DEF JobsInv, Stage
<1>4. owner = i /\ Underway(file, j.todo, deaths)
  BY <1>3 DEF JobOK
<1>5. PICK d : d = Edited(file, Head(j.todo))
  OBVIOUS
<1>6. d \in FileSet
  BY <1>1, <1>3, <1>4, <1>5, EditDone DEF FileOK
<1>7. PICK k : k = [j EXCEPT !.pc = "staged", !.stage = d]
  OBVIOUS
<1>8. k \in JobSet /\ k.pc = "staged" /\ k.op = j.op /\ k.arg = j.arg /\ k.todo = j.todo /\ k.stage = d
  BY <1>3, <1>6, <1>7 DEF JobSet
<1>9. JobOK(i, k, owner, file, deaths)
  BY <1>3, <1>4, <1>5, <1>8 DEF JobOK
<1>10. ReplacedBy(job, i, k, job')
  BY <1>2, <1>5, <1>7 DEF Stage, ReplacedBy
<1>11. OthersKeep(i, owner, file, deaths, owner, file, deaths)
  BY DEF OthersKeep
<1>12. JobsInv(job', owner, file, deaths)
  BY <1>1, <1>8, <1>9, <1>10, <1>11, JobReplaced
<1> QED BY <1>1, <1>12, FileSame

LEMMA ReplaceStep ==
  ASSUME FileInv, NEW i \in Instances, Replace(i)
  PROVE  FileInv'
<1>1. /\ UNCHANGED <<owner, deaths, ids, clobbered, undone, import>> /\ FileOK(file) /\ deaths \in Nat /\ Accounted
      /\ JobsInv(job, owner, file, deaths) /\ FileLedger(file, owner, deaths, ids)
  BY DEF FileInv, FileLedger, Replace
<1>2. PICK j : j = job[i]
  OBVIOUS
<1>3. j \in JobSet /\ JobOK(i, j, owner, file, deaths) /\ j.pc = "staged"
  BY <1>1, <1>2 DEF JobsInv, Replace
<1>4. owner = i /\ j.todo # <<>> /\ Underway(file, j.todo, deaths) /\ j.stage = Edited(file, Head(j.todo))
  BY <1>3 DEF JobOK
<1>5. PICK d : d = j.stage
  OBVIOUS
<1>6. PICK r : r = Tail(j.todo)
  OBVIOUS
<1>7. FileOK(d) /\ Underway(d, r, deaths) /\ r \in Seq(EditSet)
  BY <1>1, <1>4, <1>5, <1>6, EditDone DEF Underway
<1>8. file' = d /\ Accounted'
  BY <1>1, <1>2, <1>4, <1>5 DEF Replace, Accounted
<1>9. PICK a : a = Absent
  OBVIOUS
<1>10. a \in FileSet
  BY <1>9, FixedFiles
<1>11. PICK k : k = [j EXCEPT !.pc = "held", !.todo = r, !.stage = a]
  OBVIOUS
<1>12. k \in JobSet /\ k.pc = "held" /\ k.op = j.op /\ k.arg = j.arg /\ k.todo = r
  BY <1>3, <1>7, <1>10, <1>11 DEF JobSet
<1>13. JobOK(i, k, i, d, deaths)
  BY <1>3, <1>7, <1>12 DEF JobOK
<1>14. ReplacedBy(job, i, k, job')
  BY <1>2, <1>6, <1>9, <1>11 DEF Replace, ReplacedBy
<1>15. OthersKeep(i, i, file, deaths, i, d, deaths)
  BY DEF OthersKeep
<1>16. JobsInv(job', i, d, deaths)
  BY <1>1, <1>4, <1>12, <1>13, <1>14, <1>15, JobReplaced
<1>17. FileLedger(d, i, deaths, ids)
  BY <1>1, <1>4, <1>7, FileAssumption DEF FileLedger, None
<1> QED BY <1>1, <1>4, <1>8, <1>16, <1>17 DEF FileInv

LEMMA LeaveStep ==
  ASSUME FileInv, NEW i \in Instances, Leave(i)
  PROVE  FileInv'
<1>1. /\ UNCHANGED <<file, want, undone, deaths, ids, clobbered, import>> /\ owner' = None
      /\ JobsInv(job, owner, file, deaths) /\ FileLedger(file, owner, deaths, ids)
  BY DEF FileInv, Leave
<1>2. JobOK(i, job[i], owner, file, deaths) /\ job[i].pc = "held" /\ job[i].todo = <<>>
  BY <1>1 DEF JobsInv, Leave
<1>3. owner = i /\ Sized(file.hist, deaths)
  BY <1>2 DEF JobOK, Underway
<1>4. OthersKeep(i, owner, file, deaths, None, file, deaths) /\ None # i
  BY <1>3, FileAssumption DEF OthersKeep, None
<1>5. JobsInv(job', None, file, deaths)
  BY <1>1, <1>4, JobRests DEF Leave
<1>6. FileLedger(file, None, deaths, ids)
  BY <1>1, <1>3 DEF FileLedger
<1> QED BY <1>1, <1>5, <1>6 DEF FileInv, Accounted

(* Whoever loses the mutex in the middle of a change leaves one entry more *)
(* at most.                                                                *)
LEMMA MutexLost ==
  ASSUME FileInv, NEW i \in Instances, owner = i
  PROVE  FileLedger(file, None, deaths + 1, ids) /\ ImportOK(import, deaths + 1)
<1>1. FileLedger(file, owner, deaths, ids) /\ ImportOK(import, deaths) /\ JobOK(i, job[i], owner, file, deaths)
  BY DEF FileInv, JobsInv
<1>2. Underway(file, job[i].todo, deaths) /\ FileOK(file) /\ deaths \in Nat /\ file.hist \in Histories
  BY <1>1 DEF JobOK, FileLedger, FileOK, FileSet
<1>3. Sized(file.hist, deaths + 1)
  BY <1>2, MoreDeaths DEF Underway
<1>4. deaths + 1 \in Nat
  BY <1>2
<1> QED BY <1>1, <1>2, <1>3, <1>4, ImportLasts DEF FileLedger

LEMMA FailStep ==
  ASSUME FileInv, NEW i \in Instances, Fail(i)
  PROVE  FileInv'
<1>1. /\ UNCHANGED <<file, want, undone, ids, clobbered, import>> /\ owner' = None /\ deaths' = deaths + 1
      /\ JobsInv(job, owner, file, deaths)
  BY DEF FileInv, Fail
<1>2. owner = i
  BY <1>1 DEF JobsInv, JobOK, Fail
<1>3. PICK k \in {Nothing, Down} : job' = [job EXCEPT ![i] = k]
  BY DEF Fail
<1>4. OthersKeep(i, owner, file, deaths, None, file, deaths + 1) /\ None # i
  BY <1>2, FileAssumption DEF OthersKeep, None
<1>5. JobsInv(job', None, file, deaths + 1)
  BY <1>1, <1>3, <1>4, JobRests
<1> QED BY <1>1, <1>2, <1>5, MutexLost DEF FileInv, Accounted

LEMMA DieStep ==
  ASSUME FileInv, NEW i \in Instances, Die(i)
  PROVE  FileInv'
<1>1. /\ UNCHANGED <<file, want, undone, ids, clobbered>> /\ job' = [job EXCEPT ![i] = Down]
      /\ JobsInv(job, owner, file, deaths) /\ ImportOK(import, deaths) /\ deaths \in Nat
  BY DEF FileInv, FileLedger, Die
<1>2. import' \in {NoImport, import}
  BY DEF Die
<1>3. CASE owner = i
  <2>1. owner' = None /\ deaths' = deaths + 1
    BY <1>3 DEF Die
  <2>2. OthersKeep(i, owner, file, deaths, None, file, deaths + 1) /\ None # i
    BY <1>3, FileAssumption DEF OthersKeep, None
  <2>3. JobsInv(job', None, file, deaths + 1)
    BY <1>1, <2>2, JobRests
  <2>4. deaths + 1 \in Nat
    BY <1>1
  <2>5. ImportOK(import', deaths + 1)
    BY <1>2, <1>3, <2>4, MutexLost, NoImportOK
  <2> QED BY <1>1, <1>3, <2>1, <2>3, <2>5, MutexLost DEF FileInv, Accounted
<1>4. CASE owner # i
  <2>1. owner' = owner /\ deaths' = deaths
    BY <1>4 DEF Die
  <2>2. OthersKeep(i, owner, file, deaths, owner, file, deaths)
    BY DEF OthersKeep
  <2>3. JobsInv(job', owner, file, deaths)
    BY <1>1, <1>4, <2>2, JobRests
  <2>4. ImportOK(import', deaths)
    BY <1>1, <1>2, NoImportOK
  <2> QED BY <1>1, <2>1, <2>3, <2>4, FileSame
<1> QED BY <1>3, <1>4

-----------------------------------------------------------------------------
(* The import. *)

LEMMA ImporterIdle ==
  ASSUME FileInv, job[Importer].pc \notin {"held", "staged"}
  PROVE  /\ JobsInv(job, owner, file, deaths) /\ owner # Importer /\ ImportOK(import, deaths) /\ deaths \in Nat
         /\ OthersKeep(Importer, owner, file, deaths, owner, file, deaths) /\ Importer \in Instances
<1>1. JobsInv(job, owner, file, deaths) /\ ImportOK(import, deaths) /\ deaths \in Nat /\ Importer \in Instances
  BY FileAssumption DEF FileInv, FileLedger
<1>2. owner # Importer
  BY <1>1 DEF JobsInv, JobOK
<1> QED BY <1>1, <1>2 DEF OthersKeep

(* The importer waits for a step of the import, or rests. *)
LEMMA ImporterMoves ==
  ASSUME FileInv, job[Importer].pc \notin {"held", "staged"},
         \/ job' = job
         \/ \E k \in {Nothing, Down} : job' = [job EXCEPT ![Importer] = k]
         \/ \E op \in {"arm", "finish", "restore"} : Begin(Importer, op, None)
  PROVE  JobsInv(job', owner, file, deaths)
<1>1. CASE job' = job
  BY <1>1, ImporterIdle
<1>2. CASE \E k \in {Nothing, Down} : job' = [job EXCEPT ![Importer] = k]
  BY <1>2, ImporterIdle, JobRests
<1>3. CASE \E op \in {"arm", "finish", "restore"} : Begin(Importer, op, None)
  <2>1. PICK op \in {"arm", "finish", "restore"} : Begin(Importer, op, None)
    BY <1>3
  <2>2. ReplacedBy(job, Importer, WaitingJob(op, None), job')
    BY <2>1 DEF Begin, ReplacedBy, WaitingJob
  <2>3. None \in Launches \cup {None, 2} /\ op # "save" /\ op \notin {"remember", "pin", "remove"}
        /\ op \in {"boot", "save", "opt", "delete", "ensure", "remember", "pin", "remove", "arm", "finish", "restore"}
    OBVIOUS
  <2> QED BY <2>2, <2>3, ImporterIdle, JobBegins
<1> QED BY <1>1, <1>2, <1>3

(* The same with a file that is put in place of the one there is. *)
LEMMA FilePut ==
  ASSUME FileInv, owner = None, NEW c, FileOK(c), Sized(c.hist, deaths), file' = c, Accounted',
         UNCHANGED <<owner, deaths, ids>>, ~clobbered', ImportOK(import', deaths),
         \/ \E k \in {Nothing, Down} : job' = [job EXCEPT ![Importer] = k]
         \/ \E op \in {"arm", "finish", "restore"} : Begin(Importer, op, None)
  PROVE  FileInv'
<1>1. JobsInv(job, owner, file, deaths) /\ Importer \in Instances /\ owner # Importer
  BY FileAssumption DEF FileInv, None
<1>2. OthersKeep(Importer, owner, file, deaths, owner, c, deaths)
  BY DEF OthersKeep
<1>3. JobsInv(job', owner, c, deaths)
  <2>1. CASE \E k \in {Nothing, Down} : job' = [job EXCEPT ![Importer] = k]
    BY <1>1, <1>2, <2>1, JobRests
  <2>2. CASE \E op \in {"arm", "finish", "restore"} : Begin(Importer, op, None)
    <3>1. PICK op \in {"arm", "finish", "restore"} : Begin(Importer, op, None)
      BY <2>2
    <3>2. ReplacedBy(job, Importer, WaitingJob(op, None), job')
      BY <3>1 DEF Begin, ReplacedBy, WaitingJob
    <3>3. None \in Launches \cup {None, 2} /\ op # "save" /\ op \notin {"remember", "pin", "remove"}
          /\ op \in {"boot", "save", "opt", "delete", "ensure", "remember", "pin", "remove", "arm", "finish", "restore"}
      OBVIOUS
    <3> QED BY <1>1, <1>2, <3>2, <3>3, JobBegins
  <2> QED BY <2>1, <2>2
<1>4. FileLedger(c, owner, deaths, ids)
  BY DEF FileInv, FileLedger
<1> QED BY <1>3, <1>4 DEF FileInv

(* The fields an import may change, one by one. *)
LEMMA ImportFields ==
  ASSUME NEW n, ImportOK(import, n)
  PROVE  /\ \A phase \in {None, "prepared", "arming", "armed", "resume", "undo", "done"} :
               ImportOK([import EXCEPT !.phase = phase], n)
         /\ ImportOK([import EXCEPT !.phase = "resume", !.changed = TRUE], n)
         /\ \A outcome \in {None, "imported", "kept", "stranded", "restored"} : ImportOK(ImportEnds(outcome), n)
<1>1. import \in ImportSet /\ import.changed \in BOOLEAN
  BY DEF ImportOK, ImportSet
<1>2. ASSUME NEW phase \in {None, "prepared", "arming", "armed", "resume", "undo", "done"}
      PROVE  ImportOK([import EXCEPT !.phase = phase], n)
  <2>1. PICK m : m = [import EXCEPT !.phase = phase]
    OBVIOUS
  <2>2. m \in ImportSet /\ m.previous = import.previous /\ m.had = import.had
    BY <1>1, <2>1 DEF ImportSet
  <2> QED BY <2>1, <2>2 DEF ImportOK
<1>3. ImportOK([import EXCEPT !.phase = "resume", !.changed = TRUE], n)
  <2>1. PICK m : m = [import EXCEPT !.phase = "resume", !.changed = TRUE]
    OBVIOUS
  <2>2. m \in ImportSet /\ m.previous = import.previous /\ m.had = import.had
    BY <1>1, <2>1 DEF ImportSet
  <2> QED BY <2>1, <2>2 DEF ImportOK
<1>4. ASSUME NEW outcome \in {None, "imported", "kept", "stranded", "restored"}
      PROVE  ImportOK(ImportEnds(outcome), n)
  <2>1. PICK m : m = ImportEnds(outcome)
    OBVIOUS
  <2>2. m \in ImportSet /\ m.previous = import.previous /\ m.had = import.had
    BY <1>1, <2>1 DEF ImportSet, ImportEnds
  <2> QED BY <2>1, <2>2 DEF ImportOK
<1> QED BY <1>2, <1>3, <1>4

LEMMA PrepareStep ==
  ASSUME FileInv, Prepare
  PROVE  FileInv'
<1>1. UNCHANGED <<file, want, undone, owner, job, ids, deaths, clobbered>> /\ file.there \in BOOLEAN /\ deaths \in Nat
  BY DEF Prepare, FileInv, FileLedger, FileOK, FileSet
<1>2. PICK m : m = [NoImport EXCEPT !.phase = "prepared", !.had = file.there]
  OBVIOUS
<1>3. ImportOK(NoImport, deaths)
  BY <1>1, NoImportOK
<1>4. m \in ImportSet /\ m.previous = NoImport.previous /\ NoImport.previous = Absent
  <2>1. NoImport \in ImportSet
    BY <1>3 DEF ImportOK
  <2>2. m \in ImportSet /\ m.previous = NoImport.previous
    BY <1>1, <1>2, <2>1 DEF ImportSet
  <2>3. NoImport.previous = Absent
    BY DEF NoImport
  <2> QED BY <2>2, <2>3
<1>5. ImportOK(import', deaths)
  BY <1>2, <1>3, <1>4 DEF Prepare, ImportOK
<1> QED BY <1>1, <1>5 DEF FileInv, Accounted

LEMMA ConfirmStep ==
  ASSUME FileInv, Confirm
  PROVE  FileInv'
<1>1. UNCHANGED <<file, want, undone, owner, ids, deaths, clobbered>> /\ job[Importer].pc = "idle"
  BY DEF Confirm, Idling
<1>2. JobsInv(job', owner, file, deaths)
  BY <1>1, ImporterMoves DEF Confirm
<1>3. ImportOK(import', deaths)
  BY <1>1, ImporterIdle, NoImportOK, ImportFields DEF Confirm
<1> QED BY <1>1, <1>2, <1>3, FileSame

LEMMA ArmStep ==
  ASSUME FileInv, ArmRestart
  PROVE  FileInv'
<1>1. UNCHANGED <<file, want, undone, owner, ids, deaths, clobbered>> /\ job[Importer].pc = "wait" /\ owner = None
  BY DEF ArmRestart, Holds
<1>2. JobsInv(job', owner, file, deaths)
  BY <1>1, ImporterMoves DEF ArmRestart
<1>3. ImportOK(import, deaths) /\ deaths \in Nat /\ FileOK(file) /\ Sized(file.hist, deaths) /\ file \in FileSet
  BY <1>1 DEF FileInv, FileLedger, FileOK
<1>4. CASE file.there = import.had /\ import' = [import EXCEPT !.phase = "armed", !.previous = file]
  <2>1. import' \in ImportSet /\ import'.previous = file /\ import'.had = import.had
    BY <1>3, <1>4 DEF ImportOK, ImportSet
  <2>2. ~import'.had => file = Absent
    BY <1>3, <1>4, <2>1 DEF FileOK
  <2>3. ImportOK(import', deaths)
    BY <1>3, <2>1, <2>2 DEF ImportOK
  <2> QED BY <1>1, <1>2, <2>3, FileSame
<1>5. CASE import' = NoImport
  BY <1>1, <1>2, <1>3, <1>5, FileSame, NoImportOK
<1> QED BY <1>4, <1>5 DEF ArmRestart

LEMMA ReplacedStep ==
  ASSUME FileInv, FinishReplaced
  PROVE  FileInv'
<1>1. /\ owner = None /\ file' = Source /\ want' = Source /\ UNCHANGED <<owner, deaths, ids>>
      /\ FileOK(file) /\ Accounted /\ ~clobbered /\ ImportOK(import, deaths) /\ deaths \in Nat
  BY DEF FinishReplaced, Holds, FileInv, FileLedger
<1>2. file = import.previous
  <2>1. CASE import.had
    BY <1>1, <2>1 DEF FinishReplaced, Unchanged
  <2>2. CASE ~import.had
    <3>1. ~file.there /\ import.previous = Absent
      BY <1>1, <2>2 DEF FinishReplaced, Unchanged, ImportOK
    <3> QED BY <1>1, <3>1 DEF FileOK
  <2> QED BY <2>1, <2>2
<1>3. ~clobbered' /\ Accounted'
  BY <1>1, <1>2 DEF FinishReplaced, Accounted
<1>4. FileOK(Source) /\ Sized(Source.hist, deaths)
  BY <1>1, FixedFiles, EmptyHistory
<1>5. ImportOK(import', deaths)
  BY <1>1, ImportFields DEF FinishReplaced
<1>6. \/ \E k \in {Nothing, Down} : job' = [job EXCEPT ![Importer] = k]
      \/ \E op \in {"arm", "finish", "restore"} : Begin(Importer, op, None)
  BY DEF FinishReplaced
<1> QED BY <1>1, <1>3, <1>4, <1>5, <1>6, FilePut

LEMMA RestoreStep ==
  ASSUME FileInv, Restore
  PROVE  FileInv'
<1>1. /\ owner = None /\ file' = Restored /\ UNCHANGED <<owner, deaths, ids, clobbered>>
      /\ ~clobbered /\ ImportOK(import, deaths) /\ deaths \in Nat
  BY DEF Restore, Holds, FileInv, FileLedger
<1>2. FileOK(Restored) /\ Sized(Restored.hist, deaths)
  BY <1>1, FixedFiles, EmptyHistory DEF Restored, ImportOK
<1>3. ImportOK(import', deaths)
  BY <1>1, ImportFields DEF Restore
<1>4. \E k \in {Nothing, Down} : job' = [job EXCEPT ![Importer] = k]
  BY DEF Restore
<1>5. Accounted'
  BY DEF Restore, Accounted
<1> QED BY <1>1, <1>2, <1>3, <1>4, <1>5, FilePut

LEMMA OtherImportSteps ==
  ASSUME FileInv, FinishRefused \/ FinishNotReplaced \/ Resume \/ RestoreFails \/ ImporterExits
  PROVE  FileInv'
<1>1. UNCHANGED <<file, want, undone, owner, ids, deaths, clobbered>> /\ job[Importer].pc \in {"wait", "idle"}
  BY DEF FinishRefused, FinishNotReplaced, Resume, RestoreFails, ImporterExits, Holds
<1>2. \/ job' = job
      \/ \E k \in {Nothing, Down} : job' = [job EXCEPT ![Importer] = k]
      \/ \E op \in {"arm", "finish", "restore"} : Begin(Importer, op, None)
  BY DEF FinishRefused, FinishNotReplaced, Resume, RestoreFails, ImporterExits
<1>3. JobsInv(job', owner, file, deaths)
  BY <1>1, <1>2, ImporterMoves
<1>4. ImportOK(import', deaths)
  <2>1. ImportOK(import, deaths) /\ deaths \in Nat
    BY DEF FileInv, FileLedger
  <2>2. \/ import' = NoImport
        \/ import' = [import EXCEPT !.phase = "resume"] \/ import' = [import EXCEPT !.phase = "undo"]
        \/ \E outcome \in {"imported", "kept", "stranded"} : import' = ImportEnds(outcome)
    BY DEF FinishRefused, FinishNotReplaced, Resume, RestoreFails, ImporterExits
  <2> QED BY <2>1, <2>2, ImportFields, NoImportOK
<1> QED BY <1>1, <1>3, <1>4, FileSame

LEMMA FileStep ==
  ASSUME FileInv, [FileNext]_fileVars
  PROVE  FileInv'
<1>1. CASE UNCHANGED fileVars
  BY <1>1 DEF fileVars, FileInv, Accounted
<1> QED BY <1>1, ChangeStep, EnterStep, TimeOutStep, CopyStep, ReplaceStep, LeaveStep, FailStep, DieStep, PrepareStep,
           ConfirmStep, ArmStep, ReplacedStep, RestoreStep, OtherImportSteps DEF FileNext

LEMMA FileBegins ==
  ASSUME FileInit
  PROVE  FileInv
<1>1. FileLedger(file, owner, deaths, ids)
  <2>1. file \in {Absent, Defaults} /\ want = file /\ owner = None /\ deaths = 0 /\ ids = 0
    BY DEF FileInit
  <2>2. Sized(<<>>, 0)
    BY EmptyHistory
  <2> QED BY <2>1, <2>2, FixedFiles, FileAssumption DEF FileLedger
<1>2. ImportOK(import, deaths) /\ ~clobbered /\ Accounted
  <2>1. import = NoImport /\ deaths = 0 /\ clobbered = FALSE /\ Accounted
    BY DEF FileInit, Accounted
  <2> QED BY <2>1, NoImportOK
<1>3. JobsInv(job, owner, file, deaths)
  <2>1. Absent \in FileSet /\ <<>> \in Seq(EditSet)
    BY FixedFiles
  <2>2. PICK a : a = Absent
    OBVIOUS
  <2>3. Down = [pc |-> "down", op |-> None, arg |-> None, todo |-> <<>>, stage |-> a]
    BY <2>2 DEF Nothing, Down
  <2>4. Down \in JobSet /\ Down.pc = "down" /\ Down.op = None
    BY <2>1, <2>2, <2>3 DEF JobSet
  <2>5. job \in [Instances -> JobSet] /\ \A i \in Instances : job[i] = Down /\ owner # i
    BY <2>4, FileAssumption DEF FileInit, None
  <2>6. \A i \in Instances : JobOK(i, Down, owner, file, deaths)
    BY <2>4, <2>5 DEF JobOK, None
  <2> QED BY <2>5, <2>6 DEF JobsInv
<1> QED BY <1>1, <1>2, <1>3 DEF FileInv

LEMMA FileInvSays ==
  ASSUME FileInv
  PROVE  FileSound
<1>1. /\ FileOK(file) /\ Accounted /\ owner \in Instances \cup {None} /\ deaths \in Nat
      /\ owner = None => Sized(file.hist, deaths)
  BY DEF FileInv, FileLedger
<1>2. file \in FileSet /\ file.hist \in Histories
  BY <1>1 DEF FileOK, FileSet
<1>3. FileTypeOK
  <2>1. file.id \in 0..LastId
    BY <1>2 DEF FileSet
  <2>2. \A i \in Instances : job[i].pc \in {"idle", "wait", "held", "staged", "down"}
    BY DEF FileInv, JobsInv, JobSet
  <2> QED BY <1>1, <2>1, <2>2 DEF FileTypeOK
<1>4. NoUpdateLost
  BY <1>1 DEF NoUpdateLost, Accounted
<1>5. HistoryOwned
  BY <1>1 DEF HistoryOwned, FileOK
<1>6. HistoryBounded
  BY <1>1, <1>2 DEF HistoryBounded, Histories, Sized
<1>7. ImportSound
  BY DEF ImportSound, FileInv
<1> QED BY <1>3, <1>4, <1>5, <1>6, <1>7 DEF FileSound

(* Whatever instances share the settings file, and wherever they die: no   *)
(* change is lost but to the restore of an import, a history belongs to    *)
(* the profile that exists and has the size it may have but for one entry  *)
(* for each change cut short, and an import replaces only what it has      *)
(* backed up.                                                              *)
THEOREM FileHolds == FileSpec => []FileSound
<1>1. FileInit => FileInv
  BY FileBegins
<1>2. FileInv /\ [FileNext]_fileVars => FileInv'
  BY FileStep
<1>3. FileInv => FileSound
  BY FileInvSays
<1> QED BY <1>1, <1>2, <1>3, PTL DEF FileSpec

-----------------------------------------------------------------------------
(* The profile page.  What it shows, what a box asks and what runs, each    *)
(* with the ghosts that say what it ought to be.                            *)

Drafts == {"a", "b", "bad"}
FormSet == [list : SUBSET Names, selected : Names \cup {NoName}, text : Names \cup {Empty},
            draft : Names \cup {Empty}, loaded : Names \cup {NoName}, fields : Drafts,
            dirty : BOOLEAN, runtimeDirty : BOOLEAN]
FormOK(p) == p \in FormSet /\ p.selected \in p.list \cup {NoName}
RunSet == [running : BOOLEAN, valid : BOOLEAN, info : Drafts \cup {NoName}, settings : Drafts \cup {NoName},
           child : Drafts \cup {NoName}, target : Drafts \cup {NoName}, name : Names \cup {Empty, NoName}]
Doings == {Quiet, Step("proceed", NoName), Step("target", "start"), Step("info", "start"), Step("engine", "start"),
           Step("target", "apply"), Step("info", "apply")}

(* A box asks about a profile, and knows the name the draft had; only the  *)
(* answer "yes" to it is carried out in two steps.                         *)
BoxSet == [op : {NoName, "start", "select", "new", "paste", "delete"}, name : Names \cup {NoName},
           previous : Names \cup {Empty, NoName}]
BoxOK(k, d) ==
  /\ k \in BoxSet /\ d \in Doings
  /\ k.op = NoName => k = NoQuestion
  /\ k.op # NoName => k.previous \in Names \cup {Empty}
  /\ k.op \in {"select", "delete"} => k.name \in Names
  /\ d.step = "proceed" => k.op \in {"select", "new", "paste"}

DraftOK(p, e, s) == (e => p.dirty) /\ (~p.dirty /\ p.loaded # NoName => p.fields = s)

(* The name in the field is the draft's, and of a page without the mark the *)
(* name it was loaded under; only while the user is asked whether to leave  *)
(* a draft for another profile does the field name that one already.        *)
WellNamed(p) == p.text = p.draft /\ (~p.dirty /\ p.loaded # NoName => p.text = p.loaded)
TitleOK(p, k, d, x) ==
  ~x => /\ k.op # "select" \/ d.step = "proceed" => WellNamed(p)
        /\ k.op \in {"select", "new", "paste"} /\ d.step # "proceed" => p.dirty /\ k.previous = p.draft

(* What runs is what was applied last, and how far a start or an apply is.  *)
RunOK(r, d, a, p) ==
  /\ r \in RunSet
  /\ p.runtimeDirty => r.running
  /\ d.step \in {"idle", "proceed"} =>
       /\ r.valid <=> r.running
       /\ r.running => /\ r.info = a /\ r.target = a /\ r.settings = a /\ r.child = a
                       /\ ~p.runtimeDirty => p.fields = a
  /\ d.step \in {"target", "info", "engine"} => p.fields = a /\ r.child = a
  /\ d.step \in {"info", "engine"} => r.target = a
  /\ d.step \in {"target", "info"} => /\ r.valid <=> r.running
                                      /\ r.running => r.info = r.settings
  /\ d.step = "target" /\ r.running => r.info = r.target
  /\ d.goal = "apply" => r.running
  /\ d.step = "engine" => r.valid /\ r.info = a /\ r.settings = a

NameOf(p) == IF p.selected # NoName THEN p.selected ELSE p.text
StartOK(p, d) == d.goal = "start" => NameOf(p) \in p.list

PageInv ==
  /\ disk \in [Names -> Contents \cup {NoName}] /\ FormOK(form) /\ BoxOK(asking, doing)
  /\ DraftOK(form, edited, seen) /\ TitleOK(form, asking, doing, crossed)
  /\ RunOK(run, doing, applied, form) /\ StartOK(form, doing)

(* The steps of a start, an apply and an answered box are told apart.       *)
LEMMA DoingKinds ==
  /\ Quiet.step = "idle" /\ Quiet.goal = NoName /\ Quiet \in Doings
  /\ \A s, g : Step(s, g).step = s /\ Step(s, g).goal = g
  /\ \A d \in Doings : /\ d = Step(d.step, d.goal) /\ (d.step = "idle" => d = Quiet)
                       /\ d.goal \in {"start", "apply"} <=> d.step \in {"target", "info", "engine"}
                       /\ d.goal = "apply" => d.step \in {"target", "info"}
                       /\ d.step \in {"idle", "proceed", "target", "info", "engine"}
BY DEF Doings, Quiet, Step, NoName

(* How the page changes. *)
LEMMA FormLoaded ==
  ASSUME NEW p, FormOK(p), NEW n \in Names, NEW c, Loadable(c), run \in RunSet, NEW q, q = UILoadCfg(p, n, c)
  PROVE  /\ FormOK(q) /\ q.list = p.list /\ q.text = n /\ q.draft = n /\ q.loaded = n /\ ~q.dirty
         /\ (q.runtimeDirty <=> p.runtimeDirty \/ run.running) /\ (n \in p.list => q.selected = n)
<1>1. ShownAs(c) \in Drafts
  BY DEF Loadable, Contents, ShownAs, Drafts
<1>2. (p.runtimeDirty \/ run.running) \in BOOLEAN
  OBVIOUS
<1> QED BY <1>1, <1>2 DEF UILoadCfg, FormOK, FormSet

LEMMA FormFresh ==
  ASSUME NEW p, FormOK(p), NEW n \in Names, NEW f \in Drafts, run \in RunSet, NEW q, q = NewDraft(p, n, f)
  PROVE  /\ FormOK(q) /\ q.text = n /\ q.draft = n /\ q.loaded = NoName /\ q.dirty
         /\ (q.runtimeDirty <=> run.running)
<1>1. run.running \in BOOLEAN
  BY DEF RunSet
<1> QED BY <1>1 DEF NewDraft, FormOK, FormSet

LEMMA FormSaved ==
  ASSUME NEW p, FormOK(p), NEW n \in Names, NEW q, q = Saved(p, n)
  PROVE  /\ FormOK(q) /\ q.list = p.list \cup {n} /\ q.selected = n /\ q.text = n /\ q.draft = n /\ q.loaded = n
         /\ ~q.dirty /\ q.fields = p.fields /\ q.runtimeDirty = p.runtimeDirty
BY DEF Saved, FormOK, FormSet

LEMMA FormRestored ==
  ASSUME NEW p, FormOK(p), NEW q, q = RestoreProfileSelection(p)
  PROVE  /\ FormOK(q) /\ q.list = p.list /\ q.text = p.draft /\ q.draft = p.draft /\ q.loaded = p.loaded
         /\ q.dirty = p.dirty /\ q.fields = p.fields /\ q.runtimeDirty = p.runtimeDirty
BY DEF RestoreProfileSelection, FormOK, FormSet

LEMMA FormRefreshed ==
  ASSUME NEW p, FormOK(p), NEW q, q = Refreshed(p)
  PROVE  /\ FormOK(q) /\ q.text = p.text /\ q.fields = p.fields /\ q.runtimeDirty = p.runtimeDirty
         /\ \/ q.loaded = p.loaded /\ q.draft = p.draft /\ q.dirty = p.dirty
            \/ q.loaded = NoName /\ q.draft = p.text /\ q.dirty
<1>1. PICK S : S = Sections
  OBVIOUS
<1>2. S \subseteq Names
  BY <1>1 DEF Sections
<1>3. PICK s : s = IF p.selected # NoName /\ p.text \in S THEN p.text ELSE NoName
  OBVIOUS
<1>4. s \in S \cup {NoName}
  BY <1>3
<1>5. PICK r : r = [p EXCEPT !.list = S, !.selected = s]
  OBVIOUS
<1>6. /\ FormOK(r) /\ r.text = p.text /\ r.draft = p.draft /\ r.loaded = p.loaded /\ r.dirty = p.dirty
      /\ r.fields = p.fields /\ r.runtimeDirty = p.runtimeDirty
  BY <1>2, <1>4, <1>5 DEF FormOK, FormSet
<1>7. q = IF p.loaded # NoName /\ p.loaded \notin S
          THEN [r EXCEPT !.loaded = NoName, !.draft = p.text, !.dirty = TRUE] ELSE r
  BY <1>1, <1>3, <1>5 DEF Refreshed
<1>8. CASE p.loaded # NoName /\ p.loaded \notin S
  <2>1. q = [r EXCEPT !.loaded = NoName, !.draft = p.text, !.dirty = TRUE]
    BY <1>7, <1>8
  <2>2. p.text \in Names \cup {Empty}
    BY DEF FormOK, FormSet
  <2> QED BY <1>6, <2>1, <2>2 DEF FormOK, FormSet
<1>9. CASE ~(p.loaded # NoName /\ p.loaded \notin S)
  BY <1>6, <1>7, <1>9
<1> QED BY <1>8, <1>9

(* Whether anything but the page matters to what runs while nothing is      *)
(* started or applied. *)
Resting(d) == d.step \in {"idle", "proceed"}
RunKept(p, q) == (q.runtimeDirty => run.running) /\ (run.running /\ ~q.runtimeDirty => ~p.runtimeDirty /\ q.fields = p.fields)

LEMMA RunStays ==
  ASSUME NEW d, NEW e, Resting(d), Resting(e), d \in Doings, e \in Doings, NEW p, NEW q,
         RunOK(run, d, applied, p), RunKept(p, q)
  PROVE  RunOK(run, e, applied, q) /\ StartOK(q, e)
<1>1. e.goal \notin {"start", "apply"} /\ e.step \notin {"target", "info", "engine"}
  BY DoingKinds DEF Resting
<1> QED BY <1>1 DEF RunOK, RunKept, Resting, StartOK

(* What the page shows after the user let go of its draft. *)
LEMMA Proceeds ==
  ASSUME PageInv, Resting(doing), NEW op, NEW n, NEW p, FormOK(p), DraftOK(p, edited, seen),
         RunKept(form, p), op = "select" => n \in Names,
         Proceed(op, n, p)
  PROVE  /\ FormOK(form') /\ DraftOK(form', edited', seen') /\ RunKept(form, form')
         /\ (op = "select" /\ (~p.dirty /\ p.loaded # NoName => p.draft = p.loaded)) \/ WellNamed(p) => WellNamed(form')
<1> USE DEF DraftOK, WellNamed, RunKept
<1>1. run \in RunSet
  BY DEF PageInv, RunOK
<1>2. CASE /\ op = "select" /\ Load(n)
           /\ form' = UILoadCfg(p, n, disk[n]) /\ edited' = FALSE /\ seen' = form'.fields
  <2>1. n \in Names /\ Loadable(disk[n])
    BY <1>2 DEF Load
  <2>2. PICK c, q : c = disk[n] /\ q = UILoadCfg(p, n, c)
    OBVIOUS
  <2>3. /\ FormOK(q) /\ q.text = n /\ q.draft = n /\ q.loaded = n
        /\ (q.runtimeDirty <=> p.runtimeDirty \/ run.running)
    BY <1>1, <2>1, <2>2, FormLoaded
  <2> QED BY <1>2, <2>2, <2>3
<1>3. CASE /\ op = "select" /\ ~Load(n)
           /\ form' = Refreshed(RestoreProfileSelection(p)) /\ UNCHANGED <<edited, seen>>
  <2>1. PICK r : r = RestoreProfileSelection(p)
    OBVIOUS
  <2>2. /\ FormOK(r) /\ r.text = p.draft /\ r.draft = p.draft /\ r.loaded = p.loaded
        /\ r.dirty = p.dirty /\ r.fields = p.fields /\ r.runtimeDirty = p.runtimeDirty
    BY <2>1, FormRestored
  <2>3. /\ FormOK(form') /\ form'.text = r.text /\ form'.fields = r.fields /\ form'.runtimeDirty = r.runtimeDirty
        /\ \/ form'.loaded = r.loaded /\ form'.draft = r.draft /\ form'.dirty = r.dirty
           \/ form'.loaded = NoName /\ form'.draft = r.text /\ form'.dirty
    BY <1>3, <2>1, <2>2, FormRefreshed
  <2> QED BY <1>3, <2>2, <2>3
<1>4. ASSUME NEW m \in Names, NEW f \in Drafts, form' = NewDraft(Refreshed(p), m, f), seen' = form'.fields
      PROVE  FormOK(form') /\ DraftOK(form', edited', seen') /\ RunKept(form, form') /\ WellNamed(form')
  <2>1. FormOK(Refreshed(p))
    BY FormRefreshed
  <2>2. PICK r, q : r = Refreshed(p) /\ q = NewDraft(r, m, f)
    OBVIOUS
  <2>3. /\ FormOK(q) /\ q.text = m /\ q.draft = m /\ q.loaded = NoName /\ q.dirty
        /\ (q.runtimeDirty <=> run.running)
    BY <1>1, <2>1, <2>2, FormFresh
  <2> QED BY <1>4, <2>2, <2>3
<1>5. CASE /\ op = "new" /\ \E m \in Names : NewName(m) /\ form' = NewDraft(Refreshed(p), m, "bad")
           /\ edited' = FALSE /\ seen' = form'.fields
  BY <1>4, <1>5 DEF Drafts
<1>6. CASE /\ op = "paste"
           /\ \E m \in Names, f \in {"a", "b"} : NewName(m) /\ form' = NewDraft(Refreshed(p), m, f)
           /\ edited' = TRUE /\ seen' = form'.fields
  BY <1>4, <1>6 DEF Drafts
<1>7. CASE /\ op \in {"new", "paste"} /\ form' = p /\ UNCHANGED <<edited, seen>>
  BY <1>7
<1> QED BY <1>2, <1>3, <1>5, <1>6, <1>7 DEF Proceed

(* A step that starts and applies nothing. *)
LEMMA PageMoves ==
  ASSUME PageInv, Resting(doing), Resting(doing'), disk' \in [Names -> Contents \cup {NoName}], FormOK(form'),
         BoxOK(asking', doing'), DraftOK(form', edited', seen'), TitleOK(form', asking', doing', crossed'),
         RunKept(form, form'), UNCHANGED <<run, applied>>
  PROVE  PageInv'
<1>1. doing \in Doings /\ doing' \in Doings /\ RunOK(run, doing, applied, form)
  BY DEF PageInv, BoxOK
<1>2. RunOK(run, doing', applied, form') /\ StartOK(form', doing')
  BY <1>1, RunStays
<1> QED BY <1>2 DEF PageInv

(* What a step that waits for nothing finds. *)
LEMMA AtQuiet ==
  ASSUME PageInv, doing = Quiet
  PROVE  /\ Resting(doing) /\ Quiet \in Doings /\ RunOK(run, Quiet, applied, form) /\ run \in RunSet
         /\ Quiet.step = "idle" /\ Quiet.goal = NoName /\ FormOK(form) /\ disk \in [Names -> Contents \cup {NoName}]
         /\ NoQuestion.op = NoName /\ BoxOK(NoQuestion, Quiet)
<1>1. Quiet.step = "idle" /\ Quiet.goal = NoName /\ Quiet \in Doings
  BY DoingKinds
<1>2. NoQuestion.op = NoName /\ NoQuestion \in BoxSet
  BY DEF NoQuestion, BoxSet
<1>3. BoxOK(NoQuestion, Quiet)
  BY <1>1, <1>2 DEF BoxOK, NoName
<1> QED BY <1>1, <1>2, <1>3 DEF PageInv, RunOK, Resting

LEMMA AtIdle ==
  ASSUME PageInv, PageIdle
  PROVE  /\ doing = Quiet /\ asking = NoQuestion /\ (~crossed => WellNamed(form))
         /\ DraftOK(form, edited, seen)
<1>1. doing = Quiet /\ asking = NoQuestion
  BY DEF PageIdle
<1>2. NoQuestion.op = NoName
  BY DEF NoQuestion
<1> QED BY <1>1, <1>2 DEF PageInv, TitleOK, NoName

(* The title of a page nobody is asked about. *)
LEMMA TitleAlone ==
  ASSUME NEW p, NEW x, ~x => WellNamed(p), NEW d
  PROVE  TitleOK(p, NoQuestion, d, x)
BY DEF TitleOK, NoQuestion, NoName

LEMMA FieldChangedStep ==
  ASSUME PageInv, OnProfileFieldChanged
  PROVE  PageInv'
<1>1. PageIdle /\ UNCHANGED <<disk, run, doing, asking, seen, applied, crossed>> /\ edited' = TRUE
  BY DEF OnProfileFieldChanged
<1>2. PICK f \in Drafts : form' = [form EXCEPT !.fields = f, !.dirty = TRUE, !.runtimeDirty = run.running]
  BY DEF OnProfileFieldChanged, Drafts
<1>3. run.running \in BOOLEAN /\ doing = Quiet /\ FormOK(form)
  BY <1>1, AtIdle, AtQuiet DEF RunSet
<1>4. /\ FormOK(form') /\ form'.dirty /\ (form'.runtimeDirty <=> run.running) /\ form'.text = form.text
      /\ form'.draft = form.draft
  BY <1>2, <1>3 DEF FormOK, FormSet
<1>5. ~crossed => WellNamed(form')
  BY <1>1, <1>4, AtIdle DEF WellNamed
<1>6. DraftOK(form', edited', seen') /\ RunKept(form, form')
  BY <1>4 DEF DraftOK, RunKept
<1> QED BY <1>1, <1>3, <1>4, <1>5, <1>6, AtIdle, AtQuiet, TitleAlone, PageMoves

LEMMA NameChangedStep ==
  ASSUME PageInv, OnCbnEditchangeComboCfgs
  PROVE  PageInv'
<1>1. PageIdle /\ UNCHANGED <<disk, run, doing, asking, seen, applied, crossed>> /\ edited' = TRUE
  BY DEF OnCbnEditchangeComboCfgs
<1>2. PICK n \in Names \cup {Empty} :
        form' = [form EXCEPT !.selected = NoName, !.text = n, !.draft = n, !.dirty = TRUE]
  BY DEF OnCbnEditchangeComboCfgs
<1>3. doing = Quiet /\ FormOK(form) /\ RunOK(run, Quiet, applied, form)
  BY <1>1, AtIdle, AtQuiet
<1>4. /\ FormOK(form') /\ form'.dirty /\ form'.runtimeDirty = form.runtimeDirty /\ form'.fields = form.fields
      /\ form'.text = form'.draft
  BY <1>2, <1>3 DEF FormOK, FormSet
<1>5. WellNamed(form') /\ DraftOK(form', edited', seen') /\ RunKept(form, form')
  BY <1>3, <1>4 DEF WellNamed, DraftOK, RunKept, RunOK
<1> QED BY <1>1, <1>3, <1>4, <1>5, AtIdle, AtQuiet, TitleAlone, PageMoves

LEMMA DropdownStep ==
  ASSUME PageInv, OnCbnDropdownComboCfgs
  PROVE  PageInv'
<1>1. PageIdle /\ form' = Refreshed(form) /\ UNCHANGED <<disk, run, doing, asking, edited, seen, applied, crossed>>
  BY DEF OnCbnDropdownComboCfgs
<1>2. doing = Quiet /\ FormOK(form) /\ RunOK(run, Quiet, applied, form)
  BY <1>1, AtIdle, AtQuiet
<1>3. PICK q : q = Refreshed(form)
  OBVIOUS
<1>4. /\ FormOK(q) /\ q.text = form.text /\ q.fields = form.fields /\ q.runtimeDirty = form.runtimeDirty
      /\ \/ q.loaded = form.loaded /\ q.draft = form.draft /\ q.dirty = form.dirty
         \/ q.loaded = NoName /\ q.draft = form.text /\ q.dirty
  BY <1>2, <1>3, FormRefreshed
<1>5. (~crossed => WellNamed(q)) /\ DraftOK(q, edited, seen) /\ RunKept(form, q)
  BY <1>1, <1>2, <1>4, AtIdle DEF WellNamed, DraftOK, RunKept, RunOK
<1> QED BY <1>1, <1>2, <1>3, <1>4, <1>5, AtIdle, AtQuiet, TitleAlone, PageMoves

(* The first step of a start or an apply. *)
LEMMA Publishes ==
  ASSUME RunOK(run, Quiet, applied, form), NEW q, FormOK(q), q.runtimeDirty => run.running,
         NEW goal \in {"start", "apply"}, goal = "apply" => run.running,
         NEW r, r = [run EXCEPT !.child = q.fields]
  PROVE  RunOK(r, Step("target", goal), q.fields, q)
<1>1. PICK f : f = q.fields
  OBVIOUS
<1>2. f \in Drafts /\ run \in RunSet
  BY <1>1 DEF FormOK, FormSet, RunOK
<1>3. /\ r \in RunSet /\ r.child = f /\ r.running = run.running /\ r.valid = run.valid /\ r.info = run.info
      /\ r.settings = run.settings /\ r.target = run.target
  BY <1>1, <1>2 DEF RunSet
<1>4. /\ run.valid <=> run.running
      /\ run.running => run.info = run.settings /\ run.info = run.target
  BY DoingKinds DEF RunOK
<1>5. PICK d : d = Step("target", goal)
  OBVIOUS
<1>6. d.step = "target" /\ d.goal = goal
  BY <1>5, DoingKinds
<1> QED BY <1>1, <1>3, <1>4, <1>5, <1>6 DEF RunOK

(* A page that names its profile starts it. *)
LEMMA PageStarts ==
  ASSUME PageInv, doing = Quiet, NEW goal \in {"start", "apply"}, goal = "apply" => run.running,
         disk' \in [Names -> Contents \cup {NoName}], FormOK(form'), form'.runtimeDirty => run.running,
         goal = "start" => NameOf(form') \in form'.list,
         run' = [run EXCEPT !.child = form'.fields], doing' = Step("target", goal), applied' = form'.fields,
         asking' \in {asking, NoQuestion}, DraftOK(form', edited', seen'),
         TitleOK(form', asking', doing', crossed')
  PROVE  PageInv'
<1>1. RunOK(run', doing', applied', form')
  BY AtQuiet, Publishes
<1>2. doing'.step = "target" /\ doing'.goal = goal /\ doing' \in Doings
  BY DoingKinds DEF Doings
<1>3. BoxOK(asking, Quiet) /\ BoxOK(NoQuestion, Quiet)
  BY AtQuiet DEF PageInv
<1>4. BoxOK(asking', doing')
  BY <1>2, <1>3 DEF BoxOK
<1>5. StartOK(form', doing')
  BY <1>2 DEF StartOK
<1> QED BY <1>1, <1>4, <1>5 DEF PageInv

(* A draft that can be saved has a name, and what is written is a section. *)
LEMMA SavedFile ==
  ASSUME PageInv, NEW n \in Names \cup {Empty}, SaveCurrentProfile(n)
  PROVE  /\ SaveName(n) \in Names /\ disk' \in [Names -> Contents \cup {NoName}]
         /\ edited' = FALSE /\ seen' = form.fields
<1>1. /\ SaveName(n) # Empty /\ form.fields # "bad" /\ disk' = [disk EXCEPT ![SaveName(n)] = form.fields]
      /\ edited' = FALSE /\ seen' = form.fields
  BY DEF SaveCurrentProfile, CanSave, GetSettings
<1>2. /\ form.fields \in {"a", "b"} /\ disk \in [Names -> Contents \cup {NoName}]
      /\ form.text \in Names \cup {Empty}
  BY <1>1 DEF PageInv, FormOK, FormSet, Drafts
<1>3. form.fields \in Contents
  BY <1>2 DEF Contents
<1>4. SaveName(n) \in Names
  BY <1>1, <1>2 DEF SaveName
<1> QED BY <1>1, <1>2, <1>3, <1>4

(* The page after a save. *)
LEMMA SavedPage ==
  ASSUME PageInv, NEW n \in Names, NEW q, q = Saved(form, n), doing = Quiet
  PROVE  /\ FormOK(q) /\ WellNamed(q) /\ DraftOK(q, FALSE, form.fields) /\ RunKept(form, q) /\ NameOf(q) \in q.list
         /\ q.fields = form.fields /\ (q.runtimeDirty => run.running) /\ q.draft = n
<1>1. FormOK(form) /\ RunOK(run, Quiet, applied, form)
  BY AtQuiet
<1>2. /\ FormOK(q) /\ q.list = form.list \cup {n} /\ q.selected = n /\ q.text = n /\ q.draft = n /\ q.loaded = n
      /\ ~q.dirty /\ q.fields = form.fields /\ q.runtimeDirty = form.runtimeDirty
  BY <1>1, FormSaved
<1>3. n # NoName
  BY PageAssumption DEF NoName
<1> QED BY <1>1, <1>2, <1>3 DEF WellNamed, DraftOK, RunKept, NameOf, RunOK

LEMMA SaveStep ==
  ASSUME PageInv, OnCfgoptSave
  PROVE  PageInv'
<1>1. PageIdle /\ SaveCurrentProfile(form.text) /\ form' = Saved(form, form.text) /\ UNCHANGED <<asking, crossed>>
  BY DEF OnCfgoptSave
<1>2. doing = Quiet /\ asking = NoQuestion
  BY <1>1, AtIdle
<1>3. form.text \in Names \cup {Empty}
  BY DEF PageInv, FormOK, FormSet
<1>4. form.text \in Names /\ disk' \in [Names -> Contents \cup {NoName}] /\ edited' = FALSE /\ seen' = form.fields
  <2>1. SaveName(form.text) = form.text
    BY DEF SaveName
  <2> QED BY <1>1, <1>3, <2>1, SavedFile
<1>5. /\ FormOK(form') /\ WellNamed(form') /\ DraftOK(form', FALSE, form.fields) /\ RunKept(form, form')
      /\ form'.fields = form.fields /\ (form'.runtimeDirty => run.running)
  BY <1>1, <1>2, <1>4, SavedPage
<1>6. CASE run.running
  <2>1. run' = [run EXCEPT !.child = form.fields] /\ doing' = Step("target", "apply") /\ applied' = form.fields
    BY <1>6 DEF OnCfgoptSave, PublishChildFilterSnapshot
  <2>2. TitleOK(form', asking', doing', crossed')
    BY <1>1, <1>2, <1>5, TitleAlone
  <2> QED BY <1>1, <1>2, <1>4, <1>5, <1>6, <2>1, <2>2, PageStarts
<1>7. CASE ~run.running
  <2>1. UNCHANGED <<run, doing, applied>>
    BY <1>7 DEF OnCfgoptSave
  <2> QED BY <1>1, <1>2, <1>4, <1>5, <2>1, AtQuiet, TitleAlone, PageMoves
<1> QED BY <1>6, <1>7

(* A box that opens on an idle page, which keeps its draft and all that runs. *)
LEMMA BoxOpens ==
  ASSUME PageInv, PageIdle, NEW op \in {"start", "select", "new", "paste", "delete"}, NEW n \in Names \cup {NoName},
         op \in {"select", "delete"} => n \in Names, asking' = Box(op, n),
         FormOK(form'), form'.draft = form.draft, form'.dirty = form.dirty, form'.loaded = form.loaded,
         form'.fields = form.fields, form'.runtimeDirty = form.runtimeDirty,
         op # "select" => form'.text = form.text, op \in {"select", "new", "paste"} => form.dirty,
         UNCHANGED <<disk, run, doing, edited, seen, applied, crossed>>
  PROVE  PageInv'
<1>1. doing = Quiet /\ (~crossed => WellNamed(form)) /\ DraftOK(form, edited, seen)
  BY AtIdle
<1>2. form.draft \in Names \cup {Empty} /\ RunOK(run, Quiet, applied, form)
  BY <1>1, AtQuiet DEF FormOK, FormSet
<1>3. asking'.op = op /\ asking'.name = n /\ asking'.previous = form.draft /\ asking' \in BoxSet
  BY <1>2 DEF Box, BoxSet
<1>4. Quiet.step = "idle" /\ Quiet \in Doings /\ Resting(Quiet)
  BY <1>1, AtQuiet
<1>5. BoxOK(asking', doing') /\ TitleOK(form', asking', doing', crossed')
  BY <1>1, <1>2, <1>3, <1>4 DEF BoxOK, TitleOK, WellNamed, NoName
<1>6. DraftOK(form', edited', seen') /\ RunKept(form, form')
  BY <1>1, <1>2 DEF DraftOK, RunKept, RunOK
<1>7. disk' \in [Names -> Contents \cup {NoName}]
  BY DEF PageInv
<1> QED BY <1>1, <1>4, <1>5, <1>6, <1>7, PageMoves

LEMMA StartProxyStep ==
  ASSUME PageInv, StartProxy
  PROVE  PageInv'
<1>1. PageIdle /\ UNCHANGED <<disk, form, edited, seen, crossed>>
  BY DEF StartProxy
<1>2. /\ doing = Quiet /\ asking = NoQuestion /\ (~crossed => WellNamed(form)) /\ DraftOK(form, edited, seen)
      /\ FormOK(form) /\ disk \in [Names -> Contents \cup {NoName}] /\ RunOK(run, Quiet, applied, form)
  BY <1>1, AtIdle, AtQuiet
<1>3. CASE GetCurrentProfileName \in form.list /\ PublishChildFilterSnapshot("start") /\ UNCHANGED asking
  <2>1. run' = [run EXCEPT !.child = form.fields] /\ doing' = Step("target", "start") /\ applied' = form.fields
    BY <1>3 DEF PublishChildFilterSnapshot
  <2>2. NameOf(form) \in form.list /\ (form.runtimeDirty => run.running)
    BY <1>2, <1>3 DEF GetCurrentProfileName, NameOf, RunOK
  <2>3. TitleOK(form', asking', doing', crossed')
    BY <1>1, <1>2, <1>3, TitleAlone
  <2> QED BY <1>1, <1>2, <1>3, <2>1, <2>2, <2>3, PageStarts
<1>4. CASE asking' = Box("start", NoName) /\ UNCHANGED <<run, doing, applied>>
  BY <1>1, <1>2, <1>4, BoxOpens
<1> QED BY <1>3, <1>4 DEF StartProxy

LEMMA AnswerStartStep ==
  ASSUME PageInv, AnswerStart
  PROVE  PageInv'
<1>1. doing = Quiet /\ asking.op = "start" /\ asking' = NoQuestion /\ UNCHANGED crossed
  BY DEF AnswerStart
<1>2. FormOK(form) /\ disk \in [Names -> Contents \cup {NoName}] /\ RunOK(run, Quiet, applied, form) /\ Resting(doing)
  BY <1>1, AtQuiet
<1>3. CASE UNCHANGED <<disk, form, run, doing, edited, seen, applied>>
  <2>1. (~crossed => WellNamed(form)) /\ DraftOK(form, edited, seen)
    BY <1>1 DEF PageInv, TitleOK
  <2>2. RunKept(form, form)
    BY <1>2 DEF RunKept, RunOK
  <2> QED BY <1>1, <1>2, <1>3, <2>1, <2>2, AtQuiet, TitleAlone, PageMoves
<1>4. CASE SaveCurrentProfile(StartName) /\ form' = Saved(form, StartName) /\ PublishChildFilterSnapshot("start")
  <2>1. StartName \in Names
    BY <1>2, PageAssumption DEF StartName, FormOK, FormSet
  <2>2. disk' \in [Names -> Contents \cup {NoName}] /\ edited' = FALSE /\ seen' = form.fields
    BY <1>4, <2>1, SavedFile
  <2>3. /\ FormOK(form') /\ WellNamed(form') /\ DraftOK(form', FALSE, form.fields) /\ NameOf(form') \in form'.list
        /\ form'.fields = form.fields /\ (form'.runtimeDirty => run.running)
    BY <1>1, <1>4, <2>1, SavedPage
  <2>4. run' = [run EXCEPT !.child = form.fields] /\ doing' = Step("target", "start") /\ applied' = form.fields
    BY <1>4 DEF PublishChildFilterSnapshot
  <2>5. TitleOK(form', asking', doing', crossed')
    BY <1>1, <2>3, TitleAlone
  <2> QED BY <1>1, <2>2, <2>3, <2>4, <2>5, PageStarts
<1> QED BY <1>3, <1>4 DEF AnswerStart

(* The page is not touched while something is started or applied. *)
LEMMA RunMoves ==
  ASSUME PageInv, UNCHANGED <<disk, asking, edited, seen, crossed>>, FormOK(form'),
         form' = form \/ form' = [form EXCEPT !.runtimeDirty = FALSE],
         doing' \in Doings, doing'.step # "proceed", doing.step # "proceed",
         doing'.goal = "start" => doing.goal = "start", RunOK(run', doing', applied', form')
  PROVE  PageInv'
<1>1. /\ form'.list = form.list /\ form'.selected = form.selected /\ form'.text = form.text /\ form'.draft = form.draft
      /\ form'.loaded = form.loaded /\ form'.fields = form.fields /\ form'.dirty = form.dirty
  BY DEF PageInv, FormOK, FormSet
<1>2. DraftOK(form', edited', seen') /\ TitleOK(form', asking', doing', crossed') /\ StartOK(form', doing')
  BY <1>1 DEF PageInv, DraftOK, TitleOK, WellNamed, StartOK, NameOf
<1>3. BoxOK(asking', doing')
  BY DEF PageInv, BoxOK
<1> QED BY <1>2, <1>3 DEF PageInv

LEMMA StopStep ==
  ASSUME PageInv, StopProxy
  PROVE  PageInv'
<1>1. /\ doing = Quiet /\ run' = [run EXCEPT !.running = FALSE, !.valid = FALSE, !.name = NoName]
      /\ form' = [form EXCEPT !.runtimeDirty = FALSE]
      /\ UNCHANGED <<disk, doing, asking, edited, seen, applied, crossed>>
  BY DEF StopProxy
<1>2. FormOK(form) /\ run \in RunSet /\ Quiet.step = "idle" /\ Quiet.goal = NoName /\ Quiet \in Doings
  BY <1>1, AtQuiet
<1>3. FormOK(form') /\ ~form'.runtimeDirty
  BY <1>1, <1>2 DEF FormOK, FormSet
<1>4. run' \in RunSet /\ ~run'.running /\ ~run'.valid
  BY <1>1, <1>2 DEF RunSet
<1>5. RunOK(run', doing', applied', form')
  BY <1>1, <1>2, <1>3, <1>4 DEF RunOK, NoName
<1> QED BY <1>1, <1>2, <1>3, <1>5, RunMoves DEF NoName

LEMMA TargetStep ==
  ASSUME PageInv, PublishTargetFilterSnapshot
  PROVE  PageInv'
<1>1. /\ doing.step = "target" /\ doing' = Step("info", doing.goal) /\ run' = [run EXCEPT !.target = form.fields]
      /\ UNCHANGED <<disk, form, asking, edited, seen, applied, crossed>>
  BY DEF PublishTargetFilterSnapshot
<1>2. FormOK(form) /\ RunOK(run, doing, applied, form) /\ doing \in Doings
  BY DEF PageInv, BoxOK
<1>3. doing'.step = "info" /\ doing'.goal = doing.goal /\ doing.goal \in {"start", "apply"}
  BY <1>1, <1>2, DoingKinds
<1>4. doing' \in Doings
  BY <1>1, <1>3 DEF Doings
<1>5. form.fields \in Drafts /\ run \in RunSet
  BY <1>2 DEF FormOK, FormSet, RunOK
<1>6. /\ run' \in RunSet /\ run'.target = form.fields /\ run'.running = run.running /\ run'.valid = run.valid
      /\ run'.info = run.info /\ run'.settings = run.settings /\ run'.child = run.child
  BY <1>1, <1>5 DEF RunSet
<1>7. RunOK(run', doing', applied', form')
  BY <1>1, <1>2, <1>3, <1>6 DEF RunOK
<1> QED BY <1>1, <1>2, <1>3, <1>4, <1>7, RunMoves

LEMMA StartInfoStep ==
  ASSUME PageInv, StartProxyInfo
  PROVE  PageInv'
<1>1. /\ doing = Step("info", "start") /\ doing' = Step("engine", "start")
      /\ run' = [run EXCEPT !.info = form.fields, !.settings = form.fields, !.valid = TRUE]
      /\ UNCHANGED <<disk, form, asking, edited, seen, applied, crossed>>
  BY DEF StartProxyInfo
<1>2. FormOK(form) /\ RunOK(run, doing, applied, form)
  BY DEF PageInv
<1>3. doing.step = "info" /\ doing.goal = "start" /\ doing'.step = "engine" /\ doing'.goal = "start" /\ doing' \in Doings
  BY <1>1, DoingKinds DEF Doings
<1>4. form.fields \in Drafts /\ run \in RunSet
  BY <1>2 DEF FormOK, FormSet, RunOK
<1>5. /\ run' \in RunSet /\ run'.info = form.fields /\ run'.settings = form.fields /\ run'.valid
      /\ run'.running = run.running /\ run'.target = run.target /\ run'.child = run.child
  BY <1>1, <1>4 DEF RunSet
<1>6. RunOK(run', doing', applied', form')
  BY <1>1, <1>2, <1>3, <1>5 DEF RunOK
<1> QED BY <1>1, <1>2, <1>3, <1>6, RunMoves

(* The name a running proxy has. *)
LEMMA NameTyped ==
  ASSUME PageInv
  PROVE  GetCurrentProfileName \in Names \cup {Empty, NoName}
BY DEF PageInv, FormOK, FormSet, GetCurrentProfileName

LEMMA StartEngineStep ==
  ASSUME PageInv, StartProxyEngine
  PROVE  PageInv'
<1>1. doing.step = "engine" /\ doing' = Quiet /\ UNCHANGED <<disk, asking, edited, seen, applied, crossed>>
  BY DEF StartProxyEngine
<1>2. FormOK(form) /\ RunOK(run, doing, applied, form) /\ run \in RunSet
  BY DEF PageInv, RunOK
<1>3. doing'.step = "idle" /\ doing'.goal = NoName /\ doing' \in Doings
  BY <1>1, DoingKinds
<1>4. PICK n : n = GetCurrentProfileName
  OBVIOUS
<1>5. CASE /\ run' = [run EXCEPT !.running = TRUE, !.name = GetCurrentProfileName]
           /\ form' = [form EXCEPT !.runtimeDirty = FALSE]
  <2>1. FormOK(form') /\ ~form'.runtimeDirty /\ form'.fields = form.fields
    BY <1>2, <1>5 DEF FormOK, FormSet
  <2>2. /\ run' \in RunSet /\ run'.running /\ run'.valid = run.valid /\ run'.info = run.info
        /\ run'.settings = run.settings /\ run'.child = run.child /\ run'.target = run.target
    BY <1>2, <1>4, <1>5, NameTyped DEF RunSet
  <2>3. RunOK(run', doing', applied', form')
    BY <1>1, <1>2, <1>3, <2>1, <2>2 DEF RunOK, NoName
  <2> QED BY <1>1, <1>3, <1>5, <2>1, <2>3, RunMoves DEF NoName
<1>6. CASE ~run.running /\ run' = [run EXCEPT !.valid = FALSE] /\ UNCHANGED form
  <2>1. run' \in RunSet /\ ~run'.running /\ ~run'.valid
    BY <1>2, <1>6 DEF RunSet
  <2>2. RunOK(run', doing', applied', form')
    BY <1>1, <1>2, <1>3, <1>6, <2>1 DEF RunOK, NoName
  <2> QED BY <1>1, <1>2, <1>3, <1>6, <2>2, RunMoves DEF NoName
<1> QED BY <1>5, <1>6 DEF StartProxyEngine

LEMMA ApplyInfoStep ==
  ASSUME PageInv, ApplyRuntimeSettingsInfo
  PROVE  PageInv'
<1>1. /\ doing = Step("info", "apply") /\ doing' = Quiet
      /\ run' = [run EXCEPT !.info = form.fields, !.settings = form.fields, !.valid = TRUE,
                            !.name = GetCurrentProfileName]
      /\ form' = [form EXCEPT !.runtimeDirty = FALSE]
      /\ UNCHANGED <<disk, asking, edited, seen, applied, crossed>>
  BY DEF ApplyRuntimeSettingsInfo
<1>2. FormOK(form) /\ RunOK(run, doing, applied, form) /\ run \in RunSet
  BY DEF PageInv, RunOK
<1>3. /\ doing.step = "info" /\ doing.goal = "apply"
      /\ doing'.step = "idle" /\ doing'.goal = NoName /\ doing' \in Doings
  BY <1>1, DoingKinds
<1>4. form.fields \in Drafts /\ GetCurrentProfileName \in Names \cup {Empty, NoName}
  BY <1>2, NameTyped DEF FormOK, FormSet
<1>5. FormOK(form') /\ ~form'.runtimeDirty /\ form'.fields = form.fields
  BY <1>1, <1>2 DEF FormOK, FormSet
<1>6. /\ run' \in RunSet /\ run'.running = run.running /\ run'.valid /\ run'.info = form.fields
      /\ run'.settings = form.fields /\ run'.child = run.child /\ run'.target = run.target
  BY <1>1, <1>2, <1>4 DEF RunSet
<1>7. RunOK(run', doing', applied', form')
  BY <1>1, <1>2, <1>3, <1>5, <1>6 DEF RunOK, NoName
<1> QED BY <1>1, <1>3, <1>5, <1>7, RunMoves DEF NoName

LEMMA ChooseStep ==
  ASSUME PageInv, NEW op \in {"select", "new", "paste"}, NEW n \in Names \cup {NoName}, op = "select" => n \in Names,
         Choose(op, n)
  PROVE  PageInv'
<1>1. PageIdle /\ UNCHANGED <<disk, run, doing, applied, crossed>> /\ (op = "select" => n \in form.list)
  BY DEF Choose
<1>2. /\ doing = Quiet /\ asking = NoQuestion /\ (~crossed => WellNamed(form)) /\ DraftOK(form, edited, seen)
      /\ FormOK(form) /\ disk \in [Names -> Contents \cup {NoName}] /\ RunOK(run, Quiet, applied, form) /\ Resting(doing)
  BY <1>1, AtIdle, AtQuiet
<1>3. PICK p : p = IF op = "select" THEN [form EXCEPT !.selected = n, !.text = n] ELSE form
  OBVIOUS
<1>4. /\ FormOK(p) /\ p.draft = form.draft /\ p.dirty = form.dirty /\ p.loaded = form.loaded /\ p.fields = form.fields
      /\ p.runtimeDirty = form.runtimeDirty /\ (op # "select" => p = form)
  <2>1. CASE op = "select"
    <3>1. p = [form EXCEPT !.selected = n, !.text = n] /\ n \in form.list /\ n \in Names
      BY <1>1, <1>3, <2>1
    <3> QED BY <1>2, <2>1, <3>1 DEF FormOK, FormSet
  <2>2. CASE op # "select"
    BY <1>2, <1>3, <2>2
  <2> QED BY <2>1, <2>2
<1>5. RunKept(form, p) /\ DraftOK(p, edited, seen)
  BY <1>2, <1>4 DEF RunKept, RunOK, DraftOK
<1>6. \/ op = "select" /\ ~Load(n) /\ form' = Refreshed(RestoreProfileSelection(p)) /\ UNCHANGED <<asking, edited, seen>>
      \/ form.dirty /\ asking' = Box(op, n) /\ form' = p /\ UNCHANGED <<edited, seen>>
      \/ Proceed(op, n, p) /\ UNCHANGED asking
  BY <1>3 DEF Choose
<1>7. CASE Proceed(op, n, p) /\ UNCHANGED asking
  <2>1. (~crossed => p.dirty \/ p.loaded = NoName \/ p.draft = p.loaded) /\ (op # "select" => p = form)
    BY <1>2, <1>4 DEF WellNamed
  <2>2. FormOK(form') /\ DraftOK(form', edited', seen') /\ RunKept(form, form') /\ (~crossed => WellNamed(form'))
    BY <1>2, <1>4, <1>5, <1>7, <2>1, Proceeds
  <2> QED BY <1>1, <1>2, <1>7, <2>2, AtQuiet, TitleAlone, PageMoves
<1>8. CASE op = "select" /\ ~Load(n) /\ form' = Refreshed(RestoreProfileSelection(p)) /\ UNCHANGED <<asking, edited, seen>>
  <2>1. Proceed(op, n, p)
    BY <1>8 DEF Proceed
  <2> QED BY <1>7, <1>8, <2>1
<1>9. CASE form.dirty /\ asking' = Box(op, n) /\ form' = p /\ UNCHANGED <<edited, seen>>
  BY <1>1, <1>2, <1>4, <1>9, BoxOpens
<1> QED BY <1>6, <1>7, <1>8, <1>9

(* A box that waits for its answer. *)
LEMMA AtBox ==
  ASSUME PageInv, Asks({"select", "new", "paste"})
  PROVE  /\ doing = Quiet /\ asking.op \in {"select", "new", "paste"} /\ (asking.op = "select" => asking.name \in Names)
         /\ asking.previous \in Names \cup {Empty} /\ DraftOK(form, edited, seen)
         /\ ~crossed => form.dirty /\ asking.previous = form.draft /\ (asking.op # "select" => WellNamed(form))
<1>1. doing = Quiet /\ asking.op \in {"select", "new", "paste"}
  BY DEF Asks
<1>2. Quiet.step = "idle"
  BY DoingKinds
<1> QED BY <1>1, <1>2 DEF PageInv, BoxOK, TitleOK, NoName

LEMMA KeepDraftStep ==
  ASSUME PageInv, KeepDraft
  PROVE  PageInv'
<1>1. /\ Asks({"select", "new", "paste"}) /\ asking' = NoQuestion
      /\ UNCHANGED <<disk, run, doing, edited, seen, applied, crossed>>
  BY DEF KeepDraft
<1>2. /\ doing = Quiet /\ asking.previous \in Names \cup {Empty} /\ DraftOK(form, edited, seen)
      /\ ~crossed => form.dirty /\ asking.previous = form.draft /\ (asking.op # "select" => WellNamed(form))
  BY <1>1, AtBox
<1>3. /\ FormOK(form) /\ disk \in [Names -> Contents \cup {NoName}] /\ RunOK(run, Quiet, applied, form) /\ Resting(doing)
  BY <1>2, AtQuiet
<1>4. FormOK(form') /\ DraftOK(form', edited, seen) /\ RunKept(form, form') /\ (~crossed => WellNamed(form'))
  <2>1. CASE asking.op = "select"
    <3>1. PICK p : p = [form EXCEPT !.draft = asking.previous]
      OBVIOUS
    <3>2. /\ FormOK(p) /\ p.draft = asking.previous /\ p.dirty = form.dirty /\ p.loaded = form.loaded
          /\ p.fields = form.fields /\ p.runtimeDirty = form.runtimeDirty
      BY <1>2, <1>3, <3>1 DEF FormOK, FormSet
    <3>3. PICK q : q = RestoreProfileSelection(p)
      OBVIOUS
    <3>4. form' = q
      BY <2>1, <3>1, <3>3 DEF KeepDraft
    <3>5. /\ FormOK(q) /\ q.text = p.draft /\ q.draft = p.draft /\ q.loaded = p.loaded /\ q.dirty = p.dirty
          /\ q.fields = p.fields /\ q.runtimeDirty = p.runtimeDirty
      BY <3>2, <3>3, FormRestored
    <3> QED BY <1>2, <1>3, <3>2, <3>4, <3>5 DEF DraftOK, RunKept, WellNamed, RunOK
  <2>2. CASE asking.op # "select"
    <3>1. form' = form
      BY <2>2 DEF KeepDraft
    <3> QED BY <1>2, <1>3, <2>2, <3>1 DEF DraftOK, RunKept, RunOK
  <2> QED BY <2>1, <2>2
<1> QED BY <1>1, <1>2, <1>3, <1>4, AtQuiet, TitleAlone, PageMoves

LEMMA DiscardStep ==
  ASSUME PageInv, Discard
  PROVE  PageInv'
<1>1. /\ Asks({"select", "new", "paste"}) /\ asking' = NoQuestion /\ Proceed(asking.op, asking.name, form)
      /\ UNCHANGED <<disk, run, doing, applied, crossed>>
  BY DEF Discard
<1>2. /\ doing = Quiet /\ (asking.op = "select" => asking.name \in Names) /\ DraftOK(form, edited, seen)
      /\ ~crossed => form.dirty /\ (asking.op # "select" => WellNamed(form))
  BY <1>1, AtBox
<1>3. /\ FormOK(form) /\ disk \in [Names -> Contents \cup {NoName}] /\ RunOK(run, Quiet, applied, form) /\ Resting(doing)
  BY <1>2, AtQuiet
<1>4. RunKept(form, form)
  BY <1>3 DEF RunKept, RunOK
<1>5. FormOK(form') /\ DraftOK(form', edited', seen') /\ RunKept(form, form') /\ (~crossed => WellNamed(form'))
  BY <1>1, <1>2, <1>3, <1>4, Proceeds
<1> QED BY <1>1, <1>2, <1>3, <1>5, AtQuiet, TitleAlone, PageMoves

LEMMA SaveFirstStep ==
  ASSUME PageInv, SaveFirst
  PROVE  PageInv'
<1>1. /\ Asks({"select", "new", "paste"}) /\ doing' = Step("proceed", NoName) /\ SaveCurrentProfile(form.draft)
      /\ form' = Saved(form, SaveName(form.draft)) /\ UNCHANGED <<run, asking, applied, crossed>>
  BY DEF SaveFirst
<1>2. doing = Quiet /\ asking.op \in {"select", "new", "paste"}
  BY <1>1, AtBox
<1>3. FormOK(form) /\ Resting(doing) /\ form.draft \in Names \cup {Empty}
  BY <1>2, AtQuiet DEF FormOK, FormSet
<1>4. SaveName(form.draft) \in Names /\ disk' \in [Names -> Contents \cup {NoName}] /\ edited' = FALSE /\ seen' = form.fields
  BY <1>1, <1>3, SavedFile
<1>5. FormOK(form') /\ WellNamed(form') /\ DraftOK(form', FALSE, form.fields) /\ RunKept(form, form')
  BY <1>1, <1>2, <1>4, SavedPage
<1>6. doing'.step = "proceed" /\ doing' \in Doings /\ Resting(doing')
  BY <1>1, DoingKinds DEF Doings, Resting
<1>7. BoxOK(asking', doing') /\ TitleOK(form', asking', doing', crossed')
  BY <1>1, <1>2, <1>5, <1>6 DEF PageInv, BoxOK, TitleOK
<1> QED BY <1>1, <1>3, <1>4, <1>5, <1>6, <1>7, PageMoves

LEMMA ProceedSavedStep ==
  ASSUME PageInv, ProceedSaved
  PROVE  PageInv'
<1>1. /\ doing.step = "proceed" /\ doing' = Quiet /\ asking' = NoQuestion /\ Proceed(asking.op, asking.name, form)
      /\ UNCHANGED <<disk, run, applied, crossed>>
  BY DEF ProceedSaved
<1>2. /\ FormOK(form) /\ disk \in [Names -> Contents \cup {NoName}] /\ RunOK(run, doing, applied, form)
      /\ (asking.op = "select" => asking.name \in Names) /\ DraftOK(form, edited, seen) /\ (~crossed => WellNamed(form))
  BY <1>1 DEF PageInv, BoxOK, TitleOK
<1>3. Resting(doing) /\ Resting(doing') /\ RunKept(form, form)
  BY <1>1, <1>2, DoingKinds DEF Resting, RunKept, RunOK
<1>4. FormOK(form') /\ DraftOK(form', edited', seen') /\ RunKept(form, form') /\ (~crossed => WellNamed(form'))
  BY <1>1, <1>2, <1>3, Proceeds
<1>5. BoxOK(asking', doing')
  BY <1>1, DoingKinds DEF BoxOK, BoxSet, NoQuestion, NoName
<1> QED BY <1>1, <1>2, <1>3, <1>4, <1>5, TitleAlone, PageMoves

LEMMA DeleteProfileStep ==
  ASSUME PageInv, OnCfgoptDelete
  PROVE  PageInv'
<1>1. /\ PageIdle /\ form.selected # NoName /\ asking' = Box("delete", form.selected)
      /\ UNCHANGED <<disk, form, run, doing, edited, seen, applied, crossed>>
  BY DEF OnCfgoptDelete
<1>2. FormOK(form) /\ form.selected \in Names
  BY <1>1 DEF PageInv, FormOK, FormSet
<1> QED BY <1>1, <1>2, BoxOpens

LEMMA AnswerDeleteStep ==
  ASSUME PageInv, AnswerDelete
  PROVE  PageInv'
<1>1. /\ doing = Quiet /\ asking.op = "delete" /\ asking' = NoQuestion
      /\ UNCHANGED <<run, doing, edited, seen, applied, crossed>>
  BY DEF AnswerDelete, Asks
<1>2. /\ FormOK(form) /\ disk \in [Names -> Contents \cup {NoName}] /\ RunOK(run, Quiet, applied, form) /\ Resting(doing)
  BY <1>1, AtQuiet
<1>3. asking.name \in Names /\ DraftOK(form, edited, seen) /\ (~crossed => WellNamed(form))
  BY <1>1 DEF PageInv, BoxOK, TitleOK
<1>4. CASE UNCHANGED <<disk, form>>
  <2>1. RunKept(form, form)
    BY <1>2 DEF RunKept, RunOK
  <2> QED BY <1>1, <1>2, <1>3, <1>4, <2>1, AtQuiet, TitleAlone, PageMoves
<1>5. CASE /\ disk' = [disk EXCEPT ![asking.name] = NoName]
           /\ \E r \in Row(asking.name) :
                form' = [form EXCEPT !.list = @ \ {r}, !.selected = NoName, !.text = asking.name,
                                     !.draft = asking.name, !.loaded = NoName, !.dirty = TRUE]
  <2>1. PICK r : form' = [form EXCEPT !.list = form.list \ {r}, !.selected = NoName, !.text = asking.name,
                                      !.draft = asking.name, !.loaded = NoName, !.dirty = TRUE]
    BY <1>5
  <2>2. /\ FormOK(form') /\ form'.text = asking.name /\ form'.draft = asking.name /\ form'.dirty
        /\ form'.fields = form.fields /\ form'.runtimeDirty = form.runtimeDirty
    BY <1>2, <1>3, <2>1 DEF FormOK, FormSet
  <2>3. DraftOK(form', edited, seen) /\ WellNamed(form') /\ RunKept(form, form')
    BY <1>2, <2>2 DEF DraftOK, WellNamed, RunKept, RunOK
  <2>4. disk' \in [Names -> Contents \cup {NoName}]
    BY <1>2, <1>5
  <2> QED BY <1>1, <1>2, <2>2, <2>3, <2>4, AtQuiet, TitleAlone, PageMoves
<1> QED BY <1>4, <1>5 DEF AnswerDelete

LEMMA ElsewhereStep ==
  ASSUME PageInv, Elsewhere
  PROVE  PageInv'
<1>1. UNCHANGED <<form, run, doing, asking, edited, seen, applied, crossed>>
  BY DEF Elsewhere
<1>2. PICK n \in Names, c \in Contents \cup {NoName} : disk' = [disk EXCEPT ![n] = c]
  BY DEF Elsewhere
<1>3. disk' \in [Names -> Contents \cup {NoName}]
  BY <1>2 DEF PageInv
<1> QED BY <1>1, <1>3 DEF PageInv

(* The tray loads and starts a profile of the list, from the draft as it is *)
(* or from the draft that was saved first. *)
LEMMA TrayHolds ==
  ASSUME PageInv, doing = Quiet, UNCHANGED asking, NEW p, FormOK(p), RunKept(form, p), NEW n \in p.list,
         NEW d \in [Names -> Contents \cup {NoName}], disk' \in [Names -> Contents \cup {NoName}],
         ~crossed' => asking = NoQuestion /\ WellNamed(p), TrayShows(p, d, n), TrayStarts(d, n)
  PROVE  PageInv'
<1>1. n \in Names /\ run \in RunSet /\ Resting(Quiet) /\ BoxOK(asking, Quiet)
  BY AtQuiet DEF FormOK, FormSet, PageInv
<1>2. n # NoName
  BY <1>1, PageAssumption DEF NoName
<1>3. /\ FormOK(form') /\ DraftOK(form', edited', seen') /\ RunKept(form, form') /\ (~crossed' => WellNamed(form'))
      /\ Loadable(d[n]) => NameOf(form') \in form'.list
  <2>1. CASE Loadable(d[n])
    <3>1. PICK c, q : c = d[n] /\ q = UILoadCfg(p, n, c)
      OBVIOUS
    <3>2. /\ FormOK(q) /\ q.list = p.list /\ q.text = n /\ q.draft = n /\ q.loaded = n /\ ~q.dirty
          /\ (q.runtimeDirty <=> p.runtimeDirty \/ run.running) /\ q.selected = n
      BY <1>1, <2>1, <3>1, FormLoaded
    <3>3. form' = q /\ edited' = FALSE /\ seen' = q.fields
      BY <2>1, <3>1 DEF TrayShows
    <3> QED BY <1>2, <3>2, <3>3 DEF DraftOK, RunKept, WellNamed, NameOf
  <2>2. CASE ~Loadable(d[n])
    <3>1. form' = p /\ (edited' <=> edited /\ p.dirty) /\ seen' = IF p.dirty THEN seen ELSE p.fields
      BY <2>2 DEF TrayShows
    <3>2. DraftOK(p, edited', seen')
      BY <3>1 DEF DraftOK
    <3> QED BY <2>2, <3>1, <3>2
  <2> QED BY <2>1, <2>2
<1>4. CASE UNCHANGED <<run, doing, applied>>
  <2>1. TitleOK(form', asking', doing', crossed')
    BY <1>3, TitleAlone DEF TitleOK
  <2> QED BY <1>1, <1>3, <1>4, <2>1, PageMoves
<1>5. CASE /\ Loadable(d[n]) /\ run' = [run EXCEPT !.child = form'.fields]
           /\ doing' = Step("target", "start") /\ applied' = form'.fields
  <2>1. TitleOK(form', asking', doing', crossed')
    BY <1>3, TitleAlone DEF TitleOK
  <2>2. form'.runtimeDirty => run.running
    BY <1>3 DEF RunKept
  <2> QED BY <1>3, <1>5, <2>1, <2>2, PageStarts
<1> QED BY <1>4, <1>5 DEF TrayStarts

LEMMA TrayStep ==
  ASSUME PageInv, StartProxyFromTaskbarProfile
  PROVE  PageInv'
<1>1. doing = Quiet /\ UNCHANGED asking /\ (crossed' <=> crossed \/ asking # NoQuestion)
  BY DEF StartProxyFromTaskbarProfile
<1>2. /\ FormOK(form) /\ disk \in [Names -> Contents \cup {NoName}] /\ RunOK(run, Quiet, applied, form)
      /\ NoQuestion.op = NoName
  BY <1>1, AtQuiet
<1>3. ~crossed' => asking = NoQuestion /\ WellNamed(form)
  BY <1>1, <1>2 DEF PageInv, TitleOK, NoName
<1>4. PICK n \in form.list :
        \/ TrayShows(form, disk, n) /\ TrayStarts(disk, n) /\ UNCHANGED disk
        \/ /\ form.dirty /\ CanSave(form.draft)
           /\ disk' = [disk EXCEPT ![SaveName(form.draft)] = form.fields]
           /\ TrayShows(Saved(form, SaveName(form.draft)), disk', n) /\ TrayStarts(disk', n)
  BY DEF StartProxyFromTaskbarProfile
<1>5. CASE TrayShows(form, disk, n) /\ TrayStarts(disk, n) /\ UNCHANGED disk
  <2>1. RunKept(form, form)
    BY <1>2 DEF RunKept, RunOK
  <2> QED BY <1>1, <1>2, <1>3, <1>5, <2>1, TrayHolds
<1>6. CASE /\ CanSave(form.draft) /\ disk' = [disk EXCEPT ![SaveName(form.draft)] = form.fields]
           /\ TrayShows(Saved(form, SaveName(form.draft)), disk', n) /\ TrayStarts(disk', n)
  <2>1. SaveName(form.draft) \in Names /\ form.fields \in Contents
    BY <1>2, <1>6 DEF CanSave, SaveName, GetSettings, FormOK, FormSet, Drafts, Contents
  <2>2. disk' \in [Names -> Contents \cup {NoName}]
    BY <1>2, <1>6, <2>1
  <2>3. PICK p : p = Saved(form, SaveName(form.draft))
    OBVIOUS
  <2>4. /\ FormOK(p) /\ WellNamed(p) /\ RunKept(form, p)
    BY <1>1, <2>1, <2>3, SavedPage
  <2>5. n \in p.list
    BY <1>2, <2>1, <2>3, FormSaved
  <2> QED BY <1>1, <1>3, <1>6, <2>2, <2>3, <2>4, <2>5, TrayHolds
<1> QED BY <1>4, <1>5, <1>6

LEMMA PageBegins ==
  ASSUME PageInit
  PROVE  PageInv
<1>1. /\ run = Stopped /\ disk \in [Names -> {NoName, "a", "old", "broken"}] /\ doing = Quiet /\ asking = NoQuestion
      /\ edited = FALSE /\ seen = form.fields
  BY DEF PageInit, OnInitDialog
<1>2. disk \in [Names -> Contents \cup {NoName}]
  BY <1>1 DEF Contents
<1>3. run \in RunSet /\ ~run.running /\ ~run.valid
  BY <1>1 DEF Stopped, RunSet, NoName
<1>4. PICK L : L = {m \in Names : Load(m)}
  OBVIOUS
<1>5. PICK b : b = [Blank EXCEPT !.list = L]
  OBVIOUS
<1>6. FormOK(b) /\ b.list = L /\ WellNamed(b) /\ ~b.dirty /\ ~b.runtimeDirty
  BY <1>4, <1>5 DEF Blank, FormOK, FormSet, Drafts, WellNamed
<1>7. FormOK(form) /\ WellNamed(form) /\ ~form.runtimeDirty
  <2>1. CASE \E n \in Names : Load(n) /\ form = UILoadCfg(b, n, disk[n])
    <3>1. PICK n \in Names : Load(n) /\ form = UILoadCfg(b, n, disk[n])
      BY <2>1
    <3>2. PICK c : c = disk[n]
      OBVIOUS
    <3>3. Loadable(c) /\ form = UILoadCfg(b, n, c)
      BY <3>1, <3>2 DEF Load
    <3>4. /\ FormOK(form) /\ form.text = n /\ form.draft = n /\ form.loaded = n
          /\ (form.runtimeDirty <=> b.runtimeDirty \/ run.running)
      BY <1>3, <1>6, <3>3, FormLoaded
    <3> QED BY <1>3, <1>6, <3>4 DEF WellNamed
  <2>2. CASE form = b
    BY <1>6, <2>2
  <2>3. CASE form = [Blank EXCEPT !.text = FirstName, !.draft = FirstName, !.dirty = TRUE]
    BY <2>3, PageAssumption DEF Blank, FormOK, FormSet, Drafts, WellNamed
  <2> QED BY <1>4, <1>5, <2>1, <2>2, <2>3 DEF PageInit, OnInitDialog
<1>8. Quiet.step = "idle" /\ Quiet.goal = NoName /\ Quiet \in Doings
  BY DoingKinds
<1>9. BoxOK(NoQuestion, Quiet)
  BY <1>8 DEF BoxOK, BoxSet, NoQuestion, NoName
<1>10. RunOK(run, Quiet, applied, form) /\ StartOK(form, Quiet) /\ DraftOK(form, edited, seen)
  BY <1>1, <1>3, <1>7, <1>8 DEF RunOK, StartOK, DraftOK, NoName
<1> QED BY <1>1, <1>2, <1>7, <1>9, <1>10, TitleAlone DEF PageInv

LEMMA PageStep ==
  ASSUME PageInv, [PageNext]_pageVars
  PROVE  PageInv'
<1>1. CASE UNCHANGED pageVars
  BY <1>1 DEF pageVars, PageInv
<1>2. CASE OnSelect \/ OnNewProfile \/ OnPasteProfile
  BY <1>2, ChooseStep DEF OnSelect, OnNewProfile, OnPasteProfile
<1>3. CASE \/ OnProfileFieldChanged \/ OnCbnEditchangeComboCfgs \/ OnCbnDropdownComboCfgs
           \/ OnCfgoptSave \/ StartProxy \/ AnswerStart \/ StopProxy
  BY <1>3, FieldChangedStep, NameChangedStep, DropdownStep, SaveStep, StartProxyStep, AnswerStartStep, StopStep
<1>4. CASE PublishTargetFilterSnapshot \/ StartProxyInfo \/ StartProxyEngine \/ ApplyRuntimeSettingsInfo
  BY <1>4, TargetStep, StartInfoStep, StartEngineStep, ApplyInfoStep
<1>5. CASE \/ KeepDraft \/ Discard \/ SaveFirst \/ ProceedSaved \/ OnCfgoptDelete \/ AnswerDelete
           \/ StartProxyFromTaskbarProfile \/ Elsewhere
  BY <1>5, KeepDraftStep, DiscardStep, SaveFirstStep, ProceedSavedStep, DeleteProfileStep, AnswerDeleteStep, TrayStep,
     ElsewhereStep
<1> QED BY <1>1, <1>2, <1>3, <1>4, <1>5 DEF PageNext

LEMMA PageInvSound ==
  ASSUME PageInv
  PROVE  PageSound
<1>1. PageTypeOK /\ EditsKept
  BY DEF PageInv, FormOK, FormSet, Drafts, DraftOK, PageTypeOK, EditsKept
<1>2. doing \in Doings /\ RunOK(run, doing, applied, form)
  BY DEF PageInv, BoxOK
<1>3. /\ doing.step \in {"idle", "proceed", "target", "info", "engine"}
      /\ doing = Quiet => doing.step = "idle"
      /\ doing.step = "engine" => doing.goal = "start"
  BY <1>2, DoingKinds
<1>4. CleanIsShown
  <2>1. PageIdle /\ ~crossed => WellNamed(form)
    BY AtIdle
  <2> QED BY <2>1 DEF PageInv, DraftOK, CleanIsShown, WellNamed
<1>5. RunsApplied
  BY <1>2, <1>3 DEF RunOK, RunsApplied, GetProxyInfo
<1>6. FilterFirst
  BY <1>2, <1>3 DEF RunOK, FilterFirst, GetProxyInfo
<1>7. StartedSaved
  BY <1>3 DEF PageInv, StartOK, NameOf, StartedSaved, GetCurrentProfileName
<1> QED BY <1>1, <1>4, <1>5, <1>6, <1>7 DEF PageSound

(* The profile page loses no edit silently, calls "saved" and "applied"     *)
(* only what it shows, publishes the filter before the upstream it belongs  *)
(* to, and starts nothing under a name the list has not, whatever the tray  *)
(* and other instances do while a box is open (Page1.cpp).                  *)
THEOREM PageHolds == PageSpec => []PageSound
<1>1. PageInit => PageInv
  BY PageBegins
<1>2. PageInv /\ [PageNext]_pageVars => PageInv'
  BY PageStep
<1>3. PageInv => PageSound
  BY PageInvSound
<1> QED BY <1>1, <1>2, <1>3, PTL DEF PageSpec
=============================================================================
