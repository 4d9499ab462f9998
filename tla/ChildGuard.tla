----------------------------- MODULE ChildGuard -----------------------------
(***************************************************************************)
(* Child processes of a proxied program, from creation to release, and the *)
(* watchdog that recovers the ones nobody releases.                        *)
(*                                                                         *)
(* A hooked process (CHookWinsock) creates every child suspended, asks the *)
(* reception centre whether to inject it, injects, resumes it and reports  *)
(* the release.  The creator may die at any step; CheckSuspendedChildren   *)
(* (every 30 s) terminates a suspended child whose creator is gone, that   *)
(* carries the marker of this GUI in its environment and that nobody       *)
(* reported as released or as hooked.  The process registry, which the     *)
(* watchdog consults, outlives the service and is pruned by a GUI timer.   *)
(*                                                                         *)
(* A process is a PID with a creation time; PIDs are reused.  Messages     *)
(* that carry no answer, and connections to the local TCP server, wait in  *)
(* `wire' until the centre takes them: their senders may be gone by then,  *)
(* and so may the centre.                                                  *)
(***************************************************************************)
EXTENDS Integers, FiniteSets, FiniteSetsExt

CONSTANTS Pids,      \* process identifiers, positive integers
          Scopes     \* the situations to explore, see MCControlPlane

ASSUME PidAssumption == Pids \subseteq Nat \ {0}

VARIABLES scope,     \* the chosen situation: bounds and inputs
          proc,      \* PID -> the process that has it now
          births,    \* creation times handed out so far
          making,    \* PID -> FinishChildCreation under way in that process
          wire,      \* one-way messages written and not yet handled
          gui,       \* [n: which GUI process, since: its creation time]
          up,        \* is the reception centre running?
          stops,     \* service stops so far (bound)
          registry,  \* PID -> CProcessRegistry entry, of the GUI process
          released,  \* PID -> m_ReleasedChildren: creation time, 0 if absent
          observed,  \* PID -> m_SuspendedChildObservations
          processed, \* PID -> m_ProcessedSuspendedChildren, 0 if absent
          sweep,     \* CheckSuspendedChildren under way
          prune,     \* CProcessRegistry::PruneExited under way
          told,      \* history: lifetimes whose release this centre recorded
          joined,    \* history: lifetimes this GUI's registry accepted
          overtaken, \* history: told between a sweep's snapshot and its prune
          mistaken,  \* history: registered for the connection of another lifetime
          victims    \* history: what the watchdog terminated

centre == <<up, stops, released, observed, processed, sweep>>
book   == <<registry, prune>>
ghosts == <<told, joined, overtaken, mistaken, victims>>
vars   == <<scope, proc, births, making, wire, gui, centre, book, ghosts>>

-----------------------------------------------------------------------------
(* Processes. `markers' are the child-guard variables in its environment,  *)
(* one per GUI process that ever had one; `guard' is m_ChildGuardName of   *)
(* its hook (0: not installed); `arm' is the pipe an injected trampoline   *)
(* will hand to gp_HookWinsock when the thread runs.                       *)

Nobody == [born |-> 0, parent |-> 0, maker |-> 0, creator |-> "root",
           markers |-> {}, held |-> "none", cpu |-> 0, old |-> FALSE,
           hook |-> "no", arm |-> 0, pipe |-> 0, guard |-> 0,
           wanted |-> FALSE, cigEnv |-> FALSE, cig |-> FALSE]

Alive(p)   == proc[p].born # 0
Running(p) == Alive(p) /\ proc[p].held = "none"
Idle       == [child |-> 0, born |-> 0, own |-> FALSE, linked |-> FALSE, stage |-> "idle"]
NoEntry    == [born |-> 0, state |-> "pending", path |-> FALSE]
NoSight    == [born |-> 0, cpu |-> 0, checks |-> 0]
Sight(q)   == [born |-> q.born, parent |-> q.parent, creator |-> q.creator,
               stopped |-> q.held # "none", cpu |-> q.cpu, old |-> q.old]
NoSweep    == [stage |-> "idle", snap |-> [p \in Pids |-> Sight(Nobody)], todo |-> {},
               next |-> [p \in Pids |-> NoSight], target |-> 0]
NoPrune    == [stage |-> "idle", copy |-> [p \in Pids |-> NoEntry],
               snap |-> [p \in Pids |-> 0], todo |-> {}]

(* The first program, hooked and registered by the first GUI. *)
FirstProcess == [Nobody EXCEPT !.born = 1, !.markers = {1}, !.hook = "on", !.pipe = 1, !.guard = 1]

Init ==
  /\ scope \in Scopes
  /\ proc = [p \in Pids |-> IF p = 1 THEN FirstProcess ELSE Nobody]
  /\ births = 1
  /\ making = [p \in Pids |-> Idle]
  /\ wire = {}
  /\ gui = [n |-> 1, since |-> 0]
  /\ up = TRUE
  /\ stops = 0
  /\ registry = [p \in Pids |-> IF p = 1 THEN [born |-> 1, state |-> "succeeded", path |-> TRUE]
                                ELSE NoEntry]
  /\ released = [p \in Pids |-> 0]
  /\ observed = [p \in Pids |-> NoSight]
  /\ processed = [p \in Pids |-> 0]
  /\ sweep = NoSweep
  /\ prune = NoPrune
  /\ told = {} /\ joined = {1} /\ overtaken = {} /\ mistaken = {} /\ victims = {}

(* A new process at a free PID. *)
Born(c, fields) ==
  /\ ~Alive(c)
  /\ births < scope.births
  /\ births' = births + 1
  /\ proc' = [proc EXCEPT ![c] = [fields EXCEPT !.born = births + 1]]

-----------------------------------------------------------------------------
(* The rest of the system: programs that start, run, stop, suspend one     *)
(* another and exit.                                                       *)

(* A program starts outside ProxyLane. *)
Start(c) ==
  /\ scope.starts
  /\ Born(c, Nobody)
  /\ UNCHANGED <<scope, making, wire, gui, centre, book, ghosts>>

(* A program that is not hooked creates a child; the environment, markers  *)
(* included, is inherited.                                                 *)
PlainCreate(p, c, suspended) ==
  /\ scope.plain
  /\ Running(p) /\ proc[p].hook # "on"
  /\ Born(c, [Nobody EXCEPT !.parent = p, !.maker = proc[p].born, !.creator = "unhooked",
                            !.markers = proc[p].markers, !.cigEnv = proc[p].cigEnv,
                            !.held = IF suspended THEN "caller" ELSE "none"])
  /\ UNCHANGED <<scope, making, wire, gui, centre, book, ghosts>>

Exit(p) ==
  /\ Alive(p)
  /\ proc' = [proc EXCEPT ![p] = Nobody]
  /\ making' = [making EXCEPT ![p] = Idle]
  /\ UNCHANGED <<scope, births, wire, gui, centre, book, ghosts>>

Run(p) ==
  /\ Running(p) /\ proc[p].cpu < scope.cpus
  /\ proc' = [proc EXCEPT ![p].cpu = @ + 1]
  /\ UNCHANGED <<scope, births, making, wire, gui, centre, book, ghosts>>

(* Sixty seconds pass for a process (CHILD_GUARD_MINIMUM_AGE_100NS); only  *)
(* the age of a suspended one is ever looked at.                           *)
Age(p) ==
  /\ Alive(p) /\ ~proc[p].old /\ proc[p].held # "none"
  /\ proc' = [proc EXCEPT ![p].old = TRUE]
  /\ UNCHANGED <<scope, births, making, wire, gui, centre, book, ghosts>>

(* A debugger or a job freezes a process, and the owner of a suspension    *)
(* that is not ProxyLane's ends it.                                        *)
Freeze(p) ==
  /\ scope.foreign
  /\ Running(p) /\ making[p].stage = "idle"
  /\ proc' = [proc EXCEPT ![p].held = "other"]
  /\ UNCHANGED <<scope, births, making, wire, gui, centre, book, ghosts>>

Thaw(p) ==
  /\ proc[p].held \in {"other", "caller"}
  /\ proc' = [proc EXCEPT ![p].held = "none"]
  /\ UNCHANGED <<scope, births, making, wire, gui, centre, book, ghosts>>

-----------------------------------------------------------------------------
(* Creation of a child by a hooked process.                                *)

(* BuildChildEnvironment: the marker of this hook and a deferred-policy    *)
(* entry are taken out of the block, then put back if they are to be set.  *)
BuildChildEnvironment(base, addMarker, name) ==
  (base \ {name}) \cup (IF addMarker /\ name # 0 THEN {name} ELSE {})

(* The caller's environment block: none (inherit), a copy of its own with  *)
(* changes, or one built from nothing.                                     *)
BlockMarkers(p, block) == IF block = "fresh" THEN {} ELSE proc[p].markers

(* CScopedMitigationDeferral: a code-integrity policy asked for in the     *)
(* startup attributes is cleared there and carried in the environment.     *)
Deferred(wanted, built) == wanted /\ built

(* The trampoline call and what precedes it: the suspension is added when  *)
(* the caller did not ask for one, the code-integrity policy is taken out  *)
(* of the startup attributes, the environment is rewritten where needed.   *)
(* `built' is FALSE where the block cannot be read: the caller's block is  *)
(* then passed on as it is.                                                *)
ChildOf(p, own, block, wanted, built) ==
  LET g == proc[p].guard
      rewrite == \/ g # 0 /\ (~own \/ block # "inherit")
                 \/ wanted
      base == BlockMarkers(p, block)
  IN [Nobody EXCEPT
        !.parent = p, !.maker = proc[p].born,
        !.creator = IF built THEN "hooked" ELSE "raw",
        !.markers = IF rewrite /\ built THEN BuildChildEnvironment(base, own, g) ELSE base,
        !.held = IF own THEN "pl" ELSE "caller",
        !.wanted = wanted, !.cigEnv = Deferred(wanted, built)]

(* inhook_CreateProcessInternalW, up to the return of the real function;   *)
(* FinishChildCreation follows on the same thread.                         *)
CreateProcessInternalW(p, c, own, block, wanted, built) ==
  /\ Running(p) /\ proc[p].hook = "on" /\ making[p].stage = "idle" /\ c # p
  /\ wanted => scope.cig
  /\ ~built => scope.unbuilt /\ (wanted \/ ~own \/ block # "inherit")
  /\ Born(c, ChildOf(p, own, block, wanted, built))
  /\ making' = [making EXCEPT ![p] = [child |-> c, born |-> births + 1, own |-> own,
                                      linked |-> FALSE, stage |-> "connect"]]
  /\ UNCHANGED <<scope, wire, gui, centre, book, ghosts>>

(* inhook_CreateProcessWithLogonW: no block means the other user's, which  *)
(* carries no marker, and no policy is deferred.                           *)
CreateProcessWithLogonW(p, c, own, block) ==
  /\ scope.logon
  /\ Running(p) /\ proc[p].hook = "on" /\ making[p].stage = "idle" /\ c # p
  /\ LET base == IF block = "inherit" THEN {} ELSE BlockMarkers(p, block)
         g == proc[p].guard
     IN Born(c, [Nobody EXCEPT !.parent = p, !.maker = proc[p].born, !.creator = "hooked",
                   !.held = IF own THEN "pl" ELSE "caller",
                   !.markers = IF block # "inherit" /\ g # 0
                               THEN BuildChildEnvironment(base, own, g) ELSE base])
  /\ making' = [making EXCEPT ![p] = [child |-> c, born |-> births + 1, own |-> own,
                                      linked |-> FALSE, stage |-> "connect"]]
  /\ UNCHANGED <<scope, wire, gui, centre, book, ghosts>>

(* TryCreateAppLauncher: an AppsFolder launch is replaced by ProxyLane's   *)
(* own helper, with the caller's flags and without the marker; it is not   *)
(* injected, and its creation is the whole of the call.                    *)
TryCreateAppLauncher(p, c, suspended) ==
  /\ scope.logon
  /\ Running(p) /\ proc[p].hook = "on" /\ making[p].stage = "idle" /\ c # p
  /\ Born(c, [Nobody EXCEPT !.parent = p, !.maker = proc[p].born, !.creator = "hooked",
                !.markers = BuildChildEnvironment(proc[p].markers, FALSE, proc[p].guard),
                !.held = IF suspended THEN "caller" ELSE "none"])
  /\ UNCHANGED <<scope, making, wire, gui, centre, book, ghosts>>

-----------------------------------------------------------------------------
(* FinishChildCreation, one step per thing another process can see.        *)

(* InjectDll: a trampoline for the thread's next instruction loads the     *)
(* hook and hands it the name of the pipe.                                 *)
InjectDll(q, pipe) == [q EXCEPT !.arm = pipe]

Served(p) == up /\ proc[p].pipe = gui.n
Same(m)   == proc[m.child].born = m.born
At(p, s)  == Alive(p) /\ making[p].stage = s
OtherState == <<scope, births, gui, centre, book, ghosts>>

(* CPRCPipeClient::Connect; the creation time was read before. *)
FinishConnect(p) ==
  /\ At(p, "connect")
  /\ making' = [making EXCEPT ![p] = [@ EXCEPT !.linked = Served(p),
                                              !.stage = IF Served(p) THEN "ask" ELSE "resume"]]
  /\ UNCHANGED <<proc, wire, OtherState>>

(* PRCShouldInjectNewProcess: the filter's answer, and the grant an        *)
(* AppContainer child needs; no answer counts as no.                       *)
FinishAsk(p, answer) ==
  /\ At(p, "ask")
  /\ answer => Served(p)
  /\ making' = [making EXCEPT ![p].stage = IF answer THEN "inject" ELSE "resume"]
  /\ UNCHANGED <<proc, wire, OtherState>>

(* ProxyLaneInjectSuspendedProcess: a trampoline in the main thread, by    *)
(* this process or by the helper of the other word size.                   *)
FinishInject(p, done) ==
  /\ At(p, "inject")
  /\ making' = [making EXCEPT ![p].stage = "resume"]
  /\ proc' = IF done /\ Same(making[p]) THEN [proc EXCEPT ![making[p].child] = InjectDll(@, proc[p].pipe)]
                                        ELSE proc
  /\ UNCHANGED <<wire, OtherState>>

NoticeFirst(p) ==
  /\ At(p, "resume")
  /\ LET m == making[p] IN
     /\ wire' = IF m.own /\ m.linked /\ up
                THEN wire \cup {[kind |-> "released", pid |-> m.child, born |-> m.born, err |-> FALSE]}
                ELSE wire
     /\ making' = [making EXCEPT ![p] = [@ EXCEPT !.linked = FALSE,
                                                 !.stage = IF m.linked THEN "resume" ELSE "idle"]]
     /\ proc' = IF m.own /\ Same(m) /\ ~m.linked THEN [proc EXCEPT ![m.child].held = "none"] ELSE proc
  /\ UNCHANGED OtherState

(* CChildResumeGuard::Resume, only of a suspension ProxyLane added. *)
FinishResume(p) ==
  /\ At(p, "resume")
  /\ LET m == making[p] IN
     /\ proc' = IF m.own /\ Same(m) THEN [proc EXCEPT ![m.child].held = "none"] ELSE proc
     /\ making' = [making EXCEPT ![p] = IF m.own /\ m.linked THEN [m EXCEPT !.stage = "notice"]
                                                             ELSE Idle]
  /\ UNCHANGED <<wire, OtherState>>

(* PRCNotifyChildReleased, after the release. *)
FinishNotice(p) ==
  /\ At(p, "notice")
  /\ wire' = IF up THEN wire \cup {[kind |-> "released", pid |-> making[p].child,
                                    born |-> making[p].born, err |-> FALSE]}
                   ELSE wire
  /\ making' = [making EXCEPT ![p] = Idle]
  /\ UNCHANGED <<proc, OtherState>>

-----------------------------------------------------------------------------
(* Hooks in the injected process.                                          *)

(* The GUI attaches to a running process: AttachToI creates a suspended    *)
(* thread, puts the trampoline in it and resumes it.                       *)
AttachToI(p) ==
  /\ scope.starts
  /\ up /\ Running(p) /\ proc[p].arm = 0
  /\ proc[p].hook = "on" => proc[p].pipe # gui.n
  /\ proc' = [proc EXCEPT ![p] = InjectDll(@, gui.n)]
  /\ UNCHANGED <<scope, births, making, wire, gui, centre, book, ghosts>>

Message(p, kind, err) == [kind |-> kind, pid |-> p, born |-> proc[p].born, err |-> err]

(* RestoreCigPolicy: the deferred policy is consumed and enforced. *)
RestoreCigPolicy(q) == [q EXCEPT !.cigEnv = FALSE, !.cig = @ \/ q.cigEnv]

(* HookWinsock: every detour in one transaction, or none. *)
HookWinsock(q, good) == [q EXCEPT !.hook = IF good THEN "on" ELSE "failed"]

(* EnableHook with the control pipe reached: the marker is set in the      *)
(* environment, and taken out again when the hooks cannot be installed.    *)
EnableHook(q, good) ==
  [HookWinsock(q, good) EXCEPT
     !.markers = IF good THEN @ \cup {q.arm} ELSE @ \ {q.arm},
     !.guard = IF good THEN q.arm ELSE 0,
     !.pipe = IF good THEN q.arm ELSE @,
     !.arm = 0]

(* The identity before the installation, its result after. *)
Announced(p, good) == {Message(p, "register", FALSE), Message(p, "result", ~good)}

(* RebindPRC: a process already hooked moves to the pipe of the new GUI;   *)
(* its marker stays the one of the old.                                    *)
RebindPRC(p, reached) ==
  /\ proc' = [proc EXCEPT ![p] = [@ EXCEPT !.arm = 0, !.pipe = IF reached THEN proc[p].arm ELSE proc[p].pipe]]
  /\ wire' = IF reached THEN wire \cup Announced(p, TRUE)
                        ELSE wire

(* gp_HookWinsock on the trampoline's thread, before the program's entry   *)
(* point.  `outcome' is what pinning the module and installing the hooks   *)
(* come to; without the control pipe there is nobody to report to.  Only a *)
(* failed pin returns before the deferred policy is restored.              *)
gp_HookWinsock(p, outcome) ==
  LET reached == up /\ proc[p].arm = gui.n IN
  /\ Running(p) /\ proc[p].arm # 0
  /\ proc[p].hook = "on" => outcome = "good"
  /\ \/ proc[p].hook = "on" /\ RebindPRC(p, reached)
     \/ /\ proc[p].hook # "on" /\ outcome = "unpinned"
        /\ proc' = [proc EXCEPT ![p] = [@ EXCEPT !.arm = 0, !.hook = "failed"]]
        /\ wire' = IF reached THEN wire \cup {Message(p, "result", TRUE)} ELSE wire
     \/ /\ proc[p].hook # "on" /\ outcome # "unpinned" /\ ~reached
        /\ proc' = [proc EXCEPT ![p] = RestoreCigPolicy([@ EXCEPT !.arm = 0, !.hook = "failed"])]
        /\ wire' = wire
     \/ /\ proc[p].hook # "on" /\ outcome # "unpinned" /\ reached
        /\ proc' = [proc EXCEPT ![p] = RestoreCigPolicy(EnableHook(@, outcome = "good"))]
        /\ wire' = wire \cup Announced(p, outcome = "good")
  /\ UNCHANGED <<scope, births, making, gui, centre, book, ghosts>>

(* HackConnect: a hooked process registers a socket with the centre and    *)
(* connects it to the local TCP server, where it waits to be accepted.     *)
HackConnect(p) ==
  /\ scope.connects
  /\ Running(p) /\ proc[p].hook = "on" /\ Served(p)
  /\ wire' = wire \cup {Message(p, "connect", FALSE)}
  /\ UNCHANGED <<scope, proc, births, making, gui, centre, book, ghosts>>

-----------------------------------------------------------------------------
(* The centre's side: workers take the messages.                           *)

(* QueryProcessCreateTime: unknown when the process cannot be opened. *)
Contradicted(m) == Alive(m.pid) /\ proc[m.pid].born # m.born

(* CProcessRegistry::Register and Update: an older lifetime is refused, a  *)
(* new one starts from nothing, and a success is never overwritten.        *)
EntryFor(e, born) == IF e.born # born THEN [NoEntry EXCEPT !.born = born] ELSE e
Register(e, m) == IF e.born > m.born THEN e ELSE [EntryFor(e, m.born) EXCEPT !.path = TRUE]
Update(e, m) ==
  IF e.born > m.born THEN e
  ELSE LET f == EntryFor(e, m.born) IN
       IF f.state = "succeeded" THEN f
       ELSE [f EXCEPT !.state = IF m.err THEN "failed" ELSE "succeeded"]

(* RegisterProcessIdentity. *)
HandleIdentity(m) ==
  /\ m.kind = "register"
  /\ registry' = [registry EXCEPT ![m.pid] = Register(@, m)]
  /\ joined' = joined \cup {m.born}
  /\ UNCHANGED <<released, told, overtaken, mistaken>>

(* UpdateProcessHookResult. *)
HandleResult(m) ==
  /\ m.kind = "result"
  /\ registry' = [registry EXCEPT ![m.pid] = Update(@, m)]
  /\ joined' = joined \cup {m.born}
  /\ UNCHANGED <<released, told, overtaken, mistaken>>

(* RegisterReleasedChild. *)
HandleReleased(m) ==
  /\ m.kind = "released"
  /\ released' = [released EXCEPT ![m.pid] = m.born]
  /\ told' = told \cup {m.born}
  /\ overtaken' = IF sweep.stage = "prune" /\ sweep.snap[m.pid].born # m.born
                  THEN overtaken \cup {m.born} ELSE overtaken
  /\ UNCHANGED <<registry, joined, mistaken>>

(* GetProcessIdentity: the path of the process that has this PID, unless   *)
(* the record is of an earlier one.                                        *)
GetProcessIdentity(p) == registry[p].path /\ (Alive(p) => registry[p].born = proc[p].born)

(* ResolveProcPath, for a connection being accepted: without a path on     *)
(* record, the process that has the client's PID now is looked up and      *)
(* recorded as hooked, whichever lifetime that is; one that cannot be      *)
(* opened is left out.                                                     *)
ResolveProcPath(m) ==
  /\ ~GetProcessIdentity(m.pid) /\ Alive(m.pid)
  /\ LET seen == Message(m.pid, "result", FALSE)
     IN /\ registry' = [registry EXCEPT ![m.pid] = Update(Register(@, seen), seen)]
        /\ joined' = joined \cup {seen.born}
        /\ mistaken' = IF seen.born = m.born THEN mistaken ELSE mistaken \cup {seen.born}
  /\ UNCHANGED <<released, told, overtaken>>

(* CPRCTcpServer::OnAccept, as far as the registry is concerned. *)
OnAccept(m) ==
  \/ ResolveProcPath(m)
  \/ UNCHANGED <<registry, released, told, joined, overtaken, mistaken>>

Handle(m) ==
  /\ up /\ m \in wire
  /\ wire' = wire \ {m}
  /\ IF m.kind = "connect" THEN OnAccept(m)
     ELSE IF Contradicted(m)
     THEN UNCHANGED <<registry, released, told, joined, overtaken, mistaken>>
     ELSE HandleIdentity(m) \/ HandleResult(m) \/ HandleReleased(m)
  /\ UNCHANGED <<scope, proc, births, making, gui, up, stops, observed, processed, sweep,
                 prune, victims>>

(* DestroyPRC: the workers end, the centre and what it remembers are       *)
(* deleted.  The registry belongs to the GUI process and stays.            *)
DestroyPRC ==
  /\ up /\ stops < scope.stops /\ sweep.stage = "idle"
  /\ up' = FALSE /\ stops' = stops + 1
  /\ wire' = {}
  /\ released' = [p \in Pids |-> 0] /\ processed' = [p \in Pids |-> 0]
  /\ observed' = [p \in Pids |-> NoSight]
  /\ told' = {} /\ overtaken' = {}
  /\ UNCHANGED <<scope, proc, births, making, gui, sweep, book, joined, mistaken, victims>>

CreatePRC ==
  /\ ~up
  /\ up' = TRUE
  /\ UNCHANGED <<scope, proc, births, making, wire, gui, stops, released, observed,
                 processed, sweep, book, ghosts>>

(* The GUI ends and is started again: a new marker (InitializeChildGuard-  *)
(* Info) and an empty registry.                                            *)
RestartGui ==
  /\ gui.n < scope.guis
  /\ gui' = [n |-> gui.n + 1, since |-> births + 1]
  /\ up' = TRUE
  /\ wire' = {}
  /\ registry' = [p \in Pids |-> NoEntry] /\ prune' = NoPrune
  /\ released' = [p \in Pids |-> 0] /\ processed' = [p \in Pids |-> 0]
  /\ observed' = [p \in Pids |-> NoSight] /\ sweep' = NoSweep
  /\ told' = {} /\ joined' = {} /\ overtaken' = {} /\ mistaken' = {}
  /\ UNCHANGED <<scope, proc, births, making, stops, victims>>

-----------------------------------------------------------------------------
(* CProcessRegistry::PruneExited, on the GUI's timer: copy the records,    *)
(* then take one system snapshot, then erase what the snapshot shows gone  *)
(* and the registry still holds for the same lifetime.                     *)

PruneCopy ==
  /\ scope.prunes
  /\ prune.stage = "idle"
  /\ \E p \in Pids : registry[p].born # 0
  /\ prune' = [NoPrune EXCEPT !.stage = "copied", !.copy = registry]
  /\ UNCHANGED <<scope, proc, births, making, wire, gui, centre, registry, ghosts>>

PruneSnapshot ==
  /\ prune.stage = "copied"
  /\ prune' = [prune EXCEPT !.stage = "erase", !.snap = [p \in Pids |-> proc[p].born],
                            !.todo = {p \in Pids : prune.copy[p].born # 0}]
  /\ UNCHANGED <<scope, proc, births, making, wire, gui, centre, registry, ghosts>>

(* HasExited: the system snapshot does not show this lifetime. *)
HasExited(p) == prune.snap[p] # prune.copy[p].born

(* The erasing loop: one record at a time, in key order. *)
PruneErase ==
  /\ prune.stage = "erase"
  /\ IF prune.todo = {} THEN /\ prune' = NoPrune
                             /\ UNCHANGED registry
     ELSE LET p == Min(prune.todo)
          IN /\ prune' = [prune EXCEPT !.todo = @ \ {p}]
             /\ registry' = IF HasExited(p) /\ registry[p].born = prune.copy[p].born
                            THEN [registry EXCEPT ![p] = NoEntry] ELSE registry
  /\ UNCHANGED <<scope, proc, births, making, wire, gui, centre, ghosts>>

-----------------------------------------------------------------------------
(* CheckSuspendedChildren, on the centre's timer.                          *)

(* QueryChildGuardProcessSnapshot. A process has one suspended thread as   *)
(* long as somebody holds it.                                              *)
SweepSnapshot ==
  /\ scope.sweeps
  /\ up /\ sweep.stage = "idle"
  /\ sweep' = [NoSweep EXCEPT !.stage = "prune", !.snap = [p \in Pids |-> Sight(proc[p])]]
  /\ UNCHANGED <<scope, proc, births, making, wire, gui, up, stops, released, observed,
                 processed, book, ghosts>>

(* The parent in the snapshot is the creator, not a later process with its *)
(* PID.                                                                    *)
ParentPresent(snap, q) ==
  /\ q.parent # 0
  /\ snap[q.parent].born # 0 /\ snap[q.parent].born <= q.born

Candidate(snap, q) ==
  /\ q.born # 0 /\ q.born >= gui.since /\ q.old
  /\ q.stopped
  /\ ~ParentPresent(snap, q)

(* Entries of lifetimes the snapshot does not show are dropped; the scan   *)
(* then goes over the candidates in key order.                             *)
SweepPrune ==
  /\ sweep.stage = "prune"
  /\ released' = [p \in Pids |-> IF sweep.snap[p].born = released[p] THEN released[p] ELSE 0]
  /\ observed' = [p \in Pids |-> IF sweep.snap[p].born = observed[p].born THEN observed[p] ELSE NoSight]
  /\ processed' = [p \in Pids |-> IF sweep.snap[p].born = processed[p] THEN processed[p] ELSE 0]
  /\ sweep' = [sweep EXCEPT !.stage = "scan", !.todo = {p \in Pids : Candidate(sweep.snap, sweep.snap[p])}]
  /\ UNCHANGED <<scope, proc, births, making, wire, gui, up, stops, book, ghosts>>

Excluded(p, q) == registry[p].born = q.born \/ released[p] = q.born

ReadRemoteEnvironmentBlock(p) == proc[p].markers

(* RemoteProcessHasChildGuard reads the live process, whoever it is now. *)
RemoteProcessHasChildGuard(p) == gui.n \in ReadRemoteEnvironmentBlock(p)

(* Consecutive sweeps that saw this lifetime with this processor time. *)
Checks(past, q) == IF past.born = q.born /\ past.cpu = q.cpu THEN past.checks + 1 ELSE 1

ScanOnce ==
  /\ sweep.stage = "scan" /\ sweep.target = 0 /\ sweep.todo # {}
  /\ LET p == Min(sweep.todo)
         q == sweep.snap[p]
         shown == /\ ~Excluded(p, q) /\ processed[p] # q.born
                  /\ RemoteProcessHasChildGuard(p)
     IN sweep' = IF ~shown THEN [sweep EXCEPT !.todo = @ \ {p}]
                 ELSE [sweep EXCEPT !.todo = @ \ {p},
                          !.next[p] = [born |-> q.born, cpu |-> q.cpu, checks |-> 1],
                          !.target = p]
  /\ UNCHANGED <<scope, proc, births, making, wire, gui, up, stops, released, observed,
                 processed, book, ghosts>>

(* One entry of the snapshot; what passes twice with the same processor    *)
(* time goes on to the recheck.                                            *)
SweepScan ==
  /\ sweep.stage = "scan" /\ sweep.target = 0 /\ sweep.todo # {}
  /\ LET p == Min(sweep.todo)
         q == sweep.snap[p]
         checks == Checks(observed[p], q)
         shown == /\ ~Excluded(p, q) /\ processed[p] # q.born
                  /\ RemoteProcessHasChildGuard(p)
     IN sweep' = IF ~shown THEN [sweep EXCEPT !.todo = @ \ {p}]
                 ELSE [sweep EXCEPT !.todo = @ \ {p},
                          !.next[p] = [born |-> q.born, cpu |-> q.cpu, checks |-> Min({checks, 2})],
                          !.target = IF checks < 2 THEN 0 ELSE p]
  /\ UNCHANGED <<scope, proc, births, making, wire, gui, up, stops, released, observed,
                 processed, book, ghosts>>

(* Every volatile fact is read again, and the process handle opened here   *)
(* keeps the identity.                                                     *)
SweepRecheck ==
  /\ sweep.stage = "scan" /\ sweep.target # 0
  /\ LET p == sweep.target
         q == sweep.snap[p]
         still == /\ proc[p].born = q.born /\ proc[p].held # "none" /\ proc[p].cpu = q.cpu
                  /\ RemoteProcessHasChildGuard(p)
     IN sweep' = IF still THEN [sweep EXCEPT !.stage = "kill"]
                          ELSE [sweep EXCEPT !.target = 0]
  /\ UNCHANGED <<scope, proc, births, making, wire, gui, up, stops, released, observed,
                 processed, book, ghosts>>

(* The last look at the exclusions, under their lock, then the kill. *)
SweepTerminate ==
  /\ sweep.stage = "kill"
  /\ LET p == sweep.target
         q == sweep.snap[p]
         hit == ~Excluded(p, q) /\ proc[p].born = q.born
     IN /\ proc' = IF hit THEN [proc EXCEPT ![p] = Nobody] ELSE proc
        /\ making' = IF hit THEN [making EXCEPT ![p] = Idle] ELSE making
        /\ processed' = IF hit THEN [processed EXCEPT ![p] = q.born] ELSE processed
        /\ victims' = IF hit THEN victims \cup
                         {[born |-> q.born, held |-> proc[p].held, creator |-> q.creator,
                           watched |-> observed[p].born = q.born /\ observed[p].cpu = q.cpu,
                           told |-> q.born \in told \ overtaken, joined |-> q.born \in joined]}
                      ELSE victims
        /\ sweep' = [sweep EXCEPT !.stage = "scan", !.target = 0]
  /\ UNCHANGED <<scope, births, wire, gui, up, stops, released, observed, book, told, joined,
                 overtaken, mistaken>>

SweepEnd ==
  /\ sweep.stage = "scan" /\ sweep.target = 0 /\ sweep.todo = {}
  /\ observed' = sweep.next
  /\ sweep' = NoSweep
  /\ UNCHANGED <<scope, proc, births, making, wire, gui, up, stops, released, processed,
                 book, ghosts>>

-----------------------------------------------------------------------------
World(p) == Start(p) \/ Exit(p) \/ Run(p) \/ Age(p) \/ Freeze(p) \/ Thaw(p)
Create(p, c) ==
  \/ \E s \in BOOLEAN : PlainCreate(p, c, s) \/ TryCreateAppLauncher(p, c, s)
  \/ \E own \in BOOLEAN, block \in scope.blocks :
        \/ CreateProcessWithLogonW(p, c, own, block)
        \/ \E wanted, built \in BOOLEAN : CreateProcessInternalW(p, c, own, block, wanted, built)
Finish(p) ==
  \/ FinishConnect(p) \/ FinishResume(p) \/ FinishNotice(p)
  \/ \E yes \in scope.answers : FinishAsk(p, yes) \/ FinishInject(p, yes)
Hooked(p) == AttachToI(p) \/ HackConnect(p) \/ \E o \in scope.outcomes : gp_HookWinsock(p, o)
Service == DestroyPRC \/ CreatePRC \/ RestartGui \/ \E m \in wire : Handle(m)
Pruning == PruneCopy \/ PruneSnapshot \/ PruneErase
Sweeping == SweepSnapshot \/ SweepPrune \/ SweepScan \/ SweepRecheck \/ SweepTerminate \/ SweepEnd

Next ==
  \/ \E p \in Pids : World(p) \/ Finish(p) \/ Hooked(p) \/ (\E c \in Pids : Create(p, c))
  \/ Service \/ Pruning \/ Sweeping

Spec == Init /\ [][Next]_vars

-----------------------------------------------------------------------------
(* Types: processes, books and histories keep their shapes. *)
TypeOK ==
  /\ \A p \in Pids :
       /\ proc[p].born \in 0 .. births /\ proc[p].parent \in Pids \cup {0}
       /\ proc[p].markers \subseteq 1 .. gui.n
       /\ proc[p].held \in {"none", "pl", "caller", "other"}
       /\ proc[p].hook \in {"no", "on", "failed"}
       /\ registry[p].state \in {"pending", "succeeded", "failed"}
       /\ released[p] \in 0 .. births /\ processed[p] \in 0 .. births
       /\ observed[p].checks \in 0 .. 2
       /\ making[p].stage \in {"idle", "connect", "ask", "inject", "resume", "notice"}
  /\ sweep.stage \in {"idle", "prune", "scan", "kill"}
  /\ prune.stage \in {"idle", "copied", "erase"}
  /\ \A m \in wire : m.born \in 1 .. births /\ m.pid \in Pids
  /\ told \cup joined \cup overtaken \cup mistaken \subseteq 1 .. births

(* The watchdog terminates nobody whose release reached this centre (but   *)
(* for a notice handled between a sweep's snapshot and its pruning, which  *)
(* the pruning forgets) and nobody the registry of this GUI has met        *)
(* (CheckSuspendedChildren against RegisterReleasedChild, PruneExited and  *)
(* PID reuse).                                                             *)
SparesReleased == \A v \in victims : ~v.told /\ ~v.joined

(* What the watchdog terminates is the lifetime it watched in the sweep    *)
(* before, which has not run since: never a new process with an old PID.   *)
KillsWhatItWatched == \A v \in victims : v.watched

(* A child that a hooked program created suspended for itself is not       *)
(* terminated: the marker is taken out of its environment.  Unhooked       *)
(* programs that inherited the marker, and blocks that cannot be rewritten *)
(* pass it on.                                                             *)
SparesCallers ==
  \A v \in victims : v.held = "caller" => v.creator \in {"raw", "unhooked"}

(* FinishChildCreation leaves no child suspended, on any of its paths: a   *)
(* suspension of ProxyLane's is held only while the creating call is under *)
(* way or after its process is gone.                                       *)
NobodyLeftSuspended ==
  \A c \in Pids :
    proc[c].held = "pl" =>
      LET p == proc[c].parent IN
      \/ proc[p].born # proc[c].maker
      \/ making[p].child = c /\ making[p].born = proc[c].born
         /\ making[p].stage \in {"connect", "ask", "inject", "resume"}

(* No record hides an orphan: a child still in ProxyLane's suspension is   *)
(* neither among the released nor in the registry (the release is recorded *)
(* only after it happened), unless the centre took it for the sender of a  *)
(* connection that an earlier process with its PID had left behind.        *)
NothingHidesAnOrphan ==
  \A c \in Pids : proc[c].held = "pl" =>
    /\ released[c] # proc[c].born /\ processed[c] # proc[c].born
    /\ registry[c].born = proc[c].born => proc[c].born \in mistaken

(* The registry never forgets a process that lives (pruning against        *)
(* concurrent registration and PID reuse), and calls hooked only processes *)
(* whose hooks are installed, with the same exception (ResolveProcPath).   *)
RegistryTrue ==
  \A p \in Pids : Alive(p) =>
    /\ proc[p].born \in joined => registry[p].born = proc[p].born
    /\ registry[p].born = proc[p].born /\ registry[p].state = "succeeded" =>
         proc[p].hook = "on" \/ proc[p].born \in mistaken

(* A process that was created with code integrity asked for enforces it    *)
(* once its hooks are installed (CScopedMitigationDeferral and             *)
(* RestoreCigPolicy), unless the environment could not carry the flags.    *)
PolicyRestored ==
  \A p \in Pids : proc[p].hook = "on" /\ proc[p].wanted /\ proc[p].creator = "hooked" => proc[p].cig

(* The watchdog ends nothing it should not: a released child (SparesReleased), a
   process other than the one it watched (KillsWhatItWatched), a child its
   program suspended for itself (SparesCallers). *)
GuardJust == TypeOK /\ SparesReleased /\ KillsWhatItWatched /\ SparesCallers

(* And it misses nothing: no child stays suspended (NobodyLeftSuspended), no
   record hides an orphan (NothingHidesAnOrphan), the registry forgets no live
   process and calls none hooked that is not (RegistryTrue), and a policy
   deferred for the injection is back afterwards (PolicyRestored). *)
ChildrenSettled == NobodyLeftSuspended /\ NothingHidesAnOrphan /\ RegistryTrue /\ PolicyRestored

=============================================================================
