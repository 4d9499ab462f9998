---------------------------- MODULE BrowserWatch ----------------------------
(***************************************************************************)
(* The watch on launched browsers (BrowserLaunchWatch, CPage3): a browser  *)
(* that is launched while an older instance runs hands its page to that    *)
(* instance and exits, so the page is not proxied.  The user interface     *)
(* remembers the roots it saw before the launch, looks for this pattern    *)
(* for a while, and offers to end or to proxy what it found.               *)
(*                                                                         *)
(* Processes have a PID and a creation time; PIDs are used again.  Each    *)
(* timer event works on one snapshot, which may be incomplete; the dialogs *)
(* are modal, and anything may start or end while they are open.           *)
(***************************************************************************)
EXTENDS Integers, Sequences, FiniteSets, SequencesExt

CONSTANTS Pids,           \* positive integers
          ObservationMs,  \* ticks a launch is observed
          Scopes          \* the situations: bounds and what may happen

VARIABLES scope,     \* the situation, picked at the start
          proc,      \* PID -> [time, role, parent], time 0 if free
          births,    \* creation times given so far
          hooked,    \* identities the registry knows as hooked
          clock, launches,
          obs,       \* what CaptureBrowserCandidates returned, before the launch
          watches,   \* m_browserLaunches
          notices,   \* m_browserNotifications
          active,    \* m_browserNotificationActive
          timer,     \* TIMER_BROWSER_LAUNCH is set
          running,   \* the proxy runs
          dialog,    \* the open warning: stage, what it shows, the choice
          hit,       \* history: lifetimes the actions reached, with what was shown
          displayed  \* history: the notice on the screen

world == <<scope, proc, births, hooked, clock, launches>>
gui   == <<watches, notices, active, timer>>
bvars == <<scope, proc, births, hooked, clock, launches, obs, watches, notices, active, timer, running, dialog, hit,
           displayed>>

-----------------------------------------------------------------------------
Free   == [time |-> 0, role |-> "none", parent |-> 0]
NoObs  == [taken |-> FALSE, cands |-> {}, pre |-> 0]
Closed == [st |-> "closed", shown |-> {}, targets |-> {}, pre |-> 0, terminate |-> FALSE]
Id(p)  == [pid |-> p, time |-> proc[p].time]
Nodes  == {p \in Pids : proc[p].time > 0}

Init ==
  /\ scope \in Scopes
  /\ proc = [p \in Pids |-> Free] /\ births = 0 /\ hooked = {} /\ clock = 0 /\ launches = 0
  /\ obs = NoObs /\ watches = <<>> /\ notices = <<>> /\ active = FALSE /\ timer = FALSE
  /\ running = TRUE /\ dialog = Closed /\ hit = {} /\ displayed = {}

(* Parent: a live process of the browser that is not younger. *)
Parent(p) ==
  LET q == proc[p].parent
  IN  IF q \in Nodes \ {p} /\ proc[q].time <= proc[p].time THEN q ELSE 0

IsRoot(p) == proc[p].role = "main" \/ (proc[p].role = "unknown" /\ Parent(p) = 0)

(* The nearest root above a network service.  A parent is older, so the    *)
(* walk ends.                                                              *)
RECURSIVE RootOf(_)
RootOf(p) == LET q == Parent(p) IN IF q = 0 \/ IsRoot(q) THEN q ELSE RootOf(q)

Networks(r) == {p \in Nodes : proc[p].role = "network" /\ RootOf(p) = r}

(* Instances, and those of them that existed before and whose traffic is   *)
(* not all hooked.                                                         *)
Instances == {p \in Nodes : IsRoot(p)}
Covered(r) ==
  /\ proc[r].role = "main" /\ Id(r) \in hooked
  /\ Networks(r) # {} /\ \A n \in Networks(r) : Id(n) \in hooked
Existed(r, cands) == Id(r) \in cands
IncompleteInstances(cands) == {r \in Instances : Existed(r, cands) /\ ~Covered(r)}

(* Matches: the lifetime is in the snapshot. *)
Matches(id) == id.pid \in Nodes /\ id = Id(id.pid)

(* Evaluate: nothing is inferred from a late timer or a failed snapshot. *)
Found(o) == {c \in o.cands : c.pid # o.launched.pid /\ Matches(c)}
Evaluate(o, complete) ==
  IF clock - o.started > ObservationMs THEN "discard"
  ELSE IF ~complete \/ Matches(o.launched) THEN "pending"
  ELSE IF Found(o) = {} THEN "discard" ELSE "suggest"

-----------------------------------------------------------------------------
(* Processes come, go and are hooked. *)
Spawn(p, role, parent) ==
  /\ proc[p] = Free /\ births < scope.births
  /\ births' = births + 1
  /\ proc' = [proc EXCEPT ![p] = [time |-> births', role |-> role, parent |-> parent]]
  /\ UNCHANGED <<scope, hooked, clock, launches, obs, gui, running, dialog, hit, displayed>>

Exit(p) ==
  /\ proc[p] # Free /\ proc' = [proc EXCEPT ![p] = Free]
  /\ UNCHANGED <<scope, births, hooked, clock, launches, obs, gui, running, dialog, hit, displayed>>

Report(p) ==
  /\ proc[p].role \in scope.reports /\ proc[p] # Free /\ Id(p) \notin hooked /\ hooked' = hooked \cup {Id(p)}
  /\ UNCHANGED <<scope, proc, births, clock, launches, obs, gui, running, dialog, hit, displayed>>

Tick ==
  /\ clock < scope.time /\ watches # <<>> /\ clock' = clock + 1
  /\ UNCHANGED <<scope, proc, births, hooked, launches, obs, gui, running, dialog, hit, displayed>>

Proxy ==
  /\ scope.toggles /\ running' = ~running
  /\ UNCHANGED <<world, obs, gui, dialog, hit, displayed>>

(* CaptureBrowserCandidates, before the browser is started.  Roots that    *)
(* are hooked already are kept: their network service may not be.          *)
CaptureBrowserCandidates ==
  /\ running /\ ~obs.taken /\ launches < scope.launches /\ dialog.st = "closed"
  /\ obs' = [taken |-> TRUE, cands |-> {Id(r) : r \in Instances}, pre |-> births]
  /\ UNCHANGED <<world, gui, running, dialog, hit, displayed>>

(* The browser is started, injected and resumed; WatchBrowserLaunch. *)
WatchBrowserLaunch(p) ==
  /\ obs.taken /\ proc[p] = Free /\ births < scope.births
  /\ births' = births + 1 /\ launches' = launches + 1
  /\ proc' = [proc EXCEPT ![p] = [time |-> births', role |-> "main", parent |-> 0]]
  /\ hooked' = hooked \cup {[pid |-> p, time |-> births']}
  /\ obs' = NoObs
  /\ IF obs.cands = {} THEN UNCHANGED <<watches, timer>>
     ELSE /\ watches' = Append(watches, [launched |-> [pid |-> p, time |-> births'], started |-> clock,
                                         cands |-> obs.cands, pre |-> obs.pre])
          /\ timer' = TRUE
  /\ UNCHANGED <<scope, clock, notices, active, running, dialog, hit, displayed>>

-----------------------------------------------------------------------------
(* The books of the user interface, as a record the handlers work on. *)
Books == [watches |-> watches, notices |-> notices, active |-> active, timer |-> timer]
Write(b) == watches' = b.watches /\ notices' = b.notices /\ active' = b.active /\ timer' = b.timer

(* DismissBrowserNotification. *)
Dismiss(b) ==
  IF ~b.active THEN b
  ELSE [b EXCEPT !.active = FALSE, !.notices = Tail(@), !.timer = @ \/ Tail(b.notices) # <<>>]

(* ClearBrowserNotifications. *)
Clear(b) == [b EXCEPT !.active = FALSE, !.notices = <<>>, !.watches = <<>>]

(* A launch that ended as a handoff is merged into a notice about the same *)
(* lifetimes, or becomes one of its own.                                   *)
Merge(b, n) ==
  LET i == SelectInSeq(b.notices, LAMBDA m : m.cands \cap n.cands # {})
  IN  IF i = 0 THEN [b EXCEPT !.notices = Append(@, n)]
      ELSE [b EXCEPT !.notices[i].cands = @ \cup n.cands, !.notices[i].pre = IF @ < n.pre THEN n.pre ELSE @]

Judge(b, o, complete) ==
  LET result == Evaluate(o, complete)
      left == IncompleteInstances(Found(o))
  IN  IF result = "pending" THEN [b EXCEPT !.watches = Append(@, o)]
      ELSE IF result = "discard" \/ left = {} THEN b
      ELSE Merge(b, [cands |-> {Id(r) : r \in left}, pre |-> o.pre])

Judged(complete) ==
  FoldLeft(LAMBDA b, o : Judge(b, o, complete), [Books EXCEPT !.watches = <<>>], watches)

(* The first notice is shown if none is; the timer goes when nothing is    *)
(* left for it.                                                            *)
Shown(b, ok) ==
  IF b.active \/ b.notices = <<>> THEN b
  ELSE IF ok THEN [b EXCEPT !.active = TRUE] ELSE Dismiss([b EXCEPT !.active = TRUE])
Rest(b) == IF b.watches = <<>> /\ (b.active \/ b.notices = <<>>) THEN [b EXCEPT !.timer = FALSE] ELSE b

(* The notice on the screen after a step. *)
Display(b) == displayed' = IF ~b.active \/ b.notices = <<>> THEN {} ELSE IF active THEN displayed ELSE b.notices[1].cands

CheckBrowserLaunches(complete, ok) ==
  /\ timer /\ dialog.st = "closed"
  /\ LET b == IF running THEN Rest(Shown(Judged(complete), ok)) ELSE [Clear(Books) EXCEPT !.timer = FALSE]
     IN  Write(b) /\ Display(b)
  /\ UNCHANGED <<world, obs, running, dialog, hit>>

(* The notice times out or is closed. *)
DismissBrowserNotification ==
  /\ active /\ LET b == Dismiss(Books) IN Write(b) /\ Display(b)
  /\ UNCHANGED <<world, obs, running, dialog, hit>>

(* OpenBrowserNotification: the notice goes, and what is still incomplete  *)
(* of it is shown in the dialog.                                           *)
OpenBrowserNotification(complete) ==
  /\ active /\ dialog.st = "closed"
  /\ LET b == Dismiss(Books)
         left == IncompleteInstances(notices[1].cands)
     IN  /\ Write(b) /\ Display(b)
         /\ IF ~running \/ ~complete \/ left = {} THEN UNCHANGED dialog
            ELSE dialog' = [Closed EXCEPT !.st = "open", !.pre = notices[1].pre,
                            !.shown = {Id(p) : p \in left \cup UNION {Networks(r) : r \in left}}]
  /\ UNCHANGED <<world, obs, running, hit>>

(* The user chooses, or closes the dialog. *)
Choose(choice) ==
  /\ dialog.st = "open"
  /\ dialog' = IF choice = "close" THEN Closed
               ELSE [dialog EXCEPT !.st = "apply", !.terminate = choice = "terminate"]
  /\ UNCHANGED <<world, obs, gui, running, hit, displayed>>

(* ApplyBrowserProcessAction: of what was shown, what the snapshot still   *)
(* has; ending it is confirmed first.  OpenForTermination and HookProcess  *)
(* compare the creation time on the handle they act on.                    *)
StillThere(complete) ==
  IF ~complete THEN {}
  ELSE {id \in dialog.shown : Matches(id) /\ (dialog.terminate \/ id \notin hooked)}
Confirm(complete, yes) ==
  /\ dialog.st = "apply"
  /\ dialog' = IF StillThere(complete) = {} \/ (dialog.terminate /\ ~yes) THEN Closed
               ELSE [dialog EXCEPT !.st = "act", !.targets = StillThere(complete)]
  /\ UNCHANGED <<world, obs, gui, running, hit, displayed>>

PidAlive(id)      == id.pid \in Nodes
SameLifetime(id)  == Matches(id)
ApplyBrowserProcessAction ==
  LET reached == {id.pid : id \in {i \in dialog.targets : (dialog.terminate \/ running) /\ SameLifetime(i)}}
  IN
  /\ dialog.st = "act" /\ dialog' = Closed
  /\ hit' = hit \cup {[id |-> Id(p), shown |-> dialog.shown] : p \in reached}
  /\ IF dialog.terminate
       THEN proc' = [p \in Pids |-> IF p \in reached THEN Free ELSE proc[p]] /\ UNCHANGED hooked
       ELSE hooked' = hooked \cup {Id(p) : p \in reached} /\ UNCHANGED proc
  /\ UNCHANGED <<scope, births, clock, launches, obs, gui, running, displayed>>

Next ==
  \/ \E p \in Pids : Exit(p) \/ Report(p) \/ WatchBrowserLaunch(p)
  \/ \E p \in Pids, role \in scope.roles \ {"network"} : Spawn(p, role, 0)
  \/ \E p \in Pids, q \in Pids : "network" \in scope.roles /\ proc[q] # Free /\ Spawn(p, "network", q)
  \/ Tick \/ Proxy \/ CaptureBrowserCandidates \/ DismissBrowserNotification
  \/ \E complete \in scope.complete, ok \in BOOLEAN : CheckBrowserLaunches(complete, ok) \/ Confirm(complete, ok)
  \/ \E complete \in scope.complete : OpenBrowserNotification(complete)
  \/ \E choice \in {"close", "terminate", "proxy"} : Choose(choice)
  \/ ApplyBrowserProcessAction

Spec == Init /\ [][Next]_bvars

-----------------------------------------------------------------------------
(* Types; a notice that is active exists. *)
WatchTypeOK ==
  /\ births \in 0..scope.births /\ clock \in 0..scope.time
  /\ active => notices # <<>>
  /\ dialog.st \in {"closed", "open", "apply", "act"}

(* The user is warned only of instances that ran before the launch: what a *)
(* notice or the dialog names is never a process that got the PID of one   *)
(* later.                                                                  *)
WarnsOfOld ==
  /\ \A i \in DOMAIN notices : \A c \in notices[i].cands : c.time <= notices[i].pre
  /\ \A id \in dialog.shown : Matches(id) /\ IsRoot(id.pid) => id.time <= dialog.pre

(* Ending and proxying reach only lifetimes the dialog showed, whatever    *)
(* ended, started or took a PID over while it was open.                    *)
ActionExact == \A h \in hit : h.id \in h.shown

(* Work that needs the timer has it: an observed launch, or a notice that  *)
(* waits for the one on the screen to go.                                  *)
TimerRuns == watches # <<>> \/ (notices # <<>> /\ ~active) => timer

(* The notice on the screen is the one a click opens: launches judged      *)
(* meanwhile come after it or are merged into it.                          *)
ShownIsFront == active => displayed \subseteq notices[1].cands

=============================================================================
