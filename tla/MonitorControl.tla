--------------------------- MODULE MonitorControl ---------------------------
(***************************************************************************)
(* The switch of the monitor: QueryProtocol and ShutdownProtocol in        *)
(* MitmBridge.cpp, with the watchdog thread of a monitoring session, and   *)
(* the state of the Rust module they keep in step with (plm_protocol in    *)
(* lib.rs, whose control requests exclude each other).                     *)
(*                                                                         *)
(* The user's commands and the proxy's shutdown come from different        *)
(* threads; connections read the host's flags at any time.  What a runtime *)
(* records is in Capture.tla; here it is there or not, and sound or sick.  *)
(***************************************************************************)
EXTENDS Integers, FiniteSets

CONSTANTS Callers,     \* threads that issue monitor_start and monitor_stop
          MonitorPlans

VARIABLES mplan,   \* commands, shutdowns, what may fail
          flags,   \* modes: enabledMode and quicEnabled; streamMonitoring; monitorGeneration
          rt,      \* MONITORING, the runtime, RECORDING_VIEW
          lock,    \* monitorControlLock
          cmd,    \* the commands under way
          dogs     \* the watchdogs: generation and where they are

monVars == <<mplan, flags, rt, lock, cmd, dogs>>

-----------------------------------------------------------------------------
Free == 0
Dog == 9
ASSUME MonAssumption == Free \notin Callers /\ Dog \notin Callers

(* session: the generation whose start set the flags; hasty: a watchdog    *)
(* looked before that; torn: a start failed after it had stopped the       *)
(* session before it.                                                      *)
MonInit ==
  /\ mplan \in MonitorPlans
  /\ flags = [modes |-> {}, stream |-> FALSE, gen |-> 0, session |-> 0, hasty |-> FALSE, torn |-> FALSE]
  /\ rt = [monitoring |-> FALSE, runtime |-> "none", view |-> FALSE]
  /\ lock = Free
  /\ cmd = [c \in Callers |-> [at |-> "idle", modes |-> {}]]
  /\ dogs = {}

Off(f) == [f EXCEPT !.modes = {}, !.stream = FALSE]
SwitchedOff(f) == [Off(f) EXCEPT !.gen = @ + 1]
Fails == {FALSE} \cup (IF mplan.fails THEN {TRUE} ELSE {})
Done(c) == lock' = Free /\ cmd' = [cmd EXCEPT ![c] = [at |-> "idle", modes |-> {}]]
Goes(c, at) == cmd' = [cmd EXCEPT ![c].at = at] /\ lock' = lock

-----------------------------------------------------------------------------
(* plm_protocol: analysis_start replaces a sick runtime, analysis_stop     *)
(* keeps it for its records, shutdown takes it and leaves the mode.        *)
MayStart(x) == ~x.view
AnalysisStart(x, fails) ==
  IF ~MayStart(x) THEN x
  ELSE [x EXCEPT !.monitoring = ~fails, !.runtime = IF fails THEN "none" ELSE "sound"]
AnalysisStop(x) == [x EXCEPT !.monitoring = FALSE]

(* monitor_start and monitor_stop, under the lock. *)
Command(c, what, modes) ==
  /\ cmd[c].at = "idle" /\ lock = Free /\ mplan.commands > 0
  /\ mplan' = [mplan EXCEPT !.commands = @ - 1]
  /\ lock' = c /\ cmd' = [cmd EXCEPT ![c] = [at |-> what, modes |-> modes]]
  /\ UNCHANGED <<flags, rt, dogs>>

(* Everything that may be refused is asked before anything is changed. *)
StartRefused(c) ==
  cmd[c].at = "start" /\ mplan.fails /\ Done(c) /\ UNCHANGED <<mplan, flags, rt, dogs>>
StartFailed(f) == SwitchedOff(f)
StartQuery(c) ==
  /\ cmd[c].at = "start"
  /\ \E fails \in Fails :
       /\ rt' = AnalysisStart(rt, fails)
       /\ IF fails \/ ~MayStart(rt) THEN flags' = StartFailed(flags) /\ Done(c)
          ELSE flags' = [flags EXCEPT !.gen = @ + 1] /\ Goes(c, "spawn")
  /\ UNCHANGED <<mplan, dogs>>
StartSpawn(c) ==
  /\ cmd[c].at = "spawn"
  /\ \/ dogs' = dogs \cup {[gen |-> flags.gen, at |-> "sleep"]} /\ Goes(c, "store") /\ UNCHANGED <<flags, rt>>
     \/ /\ mplan.fails /\ dogs' = dogs /\ rt' = AnalysisStop(rt) /\ Done(c)
        /\ flags' = [flags EXCEPT !.torn = flags.stream]
  /\ UNCHANGED mplan
StartStore(c) ==
  /\ cmd[c].at = "store"
  /\ flags' = [flags EXCEPT !.modes = cmd[c].modes, !.stream = TRUE, !.session = flags.gen,
                            !.hasty = ~\E d \in dogs : d.gen = flags.gen, !.torn = FALSE]
  /\ Done(c) /\ UNCHANGED <<mplan, rt, dogs>>

StopFlags(c) ==
  /\ cmd[c].at = "stop" /\ flags' = SwitchedOff(flags) /\ Goes(c, "stopping") /\ UNCHANGED <<mplan, rt, dogs>>
StopQuery(c) ==
  /\ cmd[c].at = "stopping" /\ rt' = AnalysisStop(rt) /\ Done(c)
  /\ \E fails \in Fails : flags' = IF fails THEN SwitchedOff(flags) ELSE flags
  /\ UNCHANGED <<mplan, dogs>>

-----------------------------------------------------------------------------
(* The watchdog.  It looks and asks without the lock, and looks again when *)
(* it has it.                                                              *)
Moves(d, at) == dogs' = (dogs \ {d}) \cup (IF at = "end" THEN {} ELSE {[d EXCEPT !.at = at]})
StillOn(d) == flags.stream
Current(d) == flags.gen = d.gen /\ flags.stream

DogLooks(d) ==
  /\ d.at = "sleep" /\ Moves(d, IF Current(d) THEN "ask" ELSE "end") /\ UNCHANGED <<mplan, flags, rt, lock, cmd>>
AfterStatus(x) == IF x.runtime = "sick" THEN "act" ELSE "sleep"
DogAsks(d) ==
  /\ d.at = "ask" /\ Moves(d, AfterStatus(rt))
  /\ UNCHANGED <<mplan, flags, rt, lock, cmd>>
StillCurrent(d) == Current(d)
MayEnter(owner) == owner = Free
DogActs(d) ==
  /\ d.at = "act" /\ MayEnter(lock)
  /\ IF StillCurrent(d)
       THEN flags' = SwitchedOff(flags) /\ lock' = Dog /\ Moves(d, "stop")
     ELSE flags' = flags /\ lock' = lock /\ Moves(d, "end")
  /\ UNCHANGED <<mplan, rt, cmd>>
DogStops(d) ==
  /\ d.at = "stop" /\ rt' = AnalysisStop(rt) /\ lock' = Free /\ Moves(d, "end")
  /\ UNCHANGED <<mplan, flags, cmd>>

(* ShutdownProtocol, when the proxy stops. *)
ShutdownProtocol ==
  /\ mplan.shutdowns > 0 /\ mplan' = [mplan EXCEPT !.shutdowns = @ - 1]
  /\ flags' = [flags EXCEPT !.modes = @ \ {"quic"}] /\ rt' = [rt EXCEPT !.runtime = "none"]
  /\ UNCHANGED <<lock, cmd, dogs>>

(* A connection makes the runtime anew; a worker of it dies, or the disk   *)
(* is full; a recording is opened to read it, or closed.                   *)
ProtocolRuntime ==
  /\ rt.monitoring /\ rt.runtime = "none" /\ rt' = [rt EXCEPT !.runtime = "sound"]
  /\ UNCHANGED <<mplan, flags, lock, cmd, dogs>>
Sickens ==
  /\ mplan.sick /\ rt.runtime = "sound" /\ rt' = [rt EXCEPT !.runtime = "sick"]
  /\ UNCHANGED <<mplan, flags, lock, cmd, dogs>>
RecordingView ==
  /\ mplan.views /\ ~rt.monitoring /\ rt' = [rt EXCEPT !.view = ~@]
  /\ UNCHANGED <<mplan, flags, lock, cmd, dogs>>

MonNext ==
  \/ \E c \in Callers :
       \/ \E modes \in SUBSET {"decrypt", "quic"} : Command(c, "start", modes)
       \/ Command(c, "stop", {})
       \/ StartRefused(c) \/ StartQuery(c) \/ StartSpawn(c) \/ StartStore(c) \/ StopFlags(c) \/ StopQuery(c)
  \/ \E d \in dogs : DogLooks(d) \/ DogAsks(d) \/ DogActs(d) \/ DogStops(d)
  \/ ShutdownProtocol \/ ProtocolRuntime \/ Sickens \/ RecordingView

MonSpec == MonInit /\ [][MonNext]_monVars

-----------------------------------------------------------------------------
(* Types; the lock is held by whoever is in the middle of something. *)
MonitorTypeOK ==
  /\ lock \in Callers \cup {Free, Dog} /\ flags.session <= flags.gen
  /\ \A c \in Callers : cmd[c].at # "idle" <=> lock = c
  /\ lock = Dog <=> \E d \in dogs : d.at = "stop"

(* Between commands the host intercepts only what the module monitors.     *)
FlagsFollow == lock = Free /\ ~flags.torn /\ (flags.stream \/ flags.modes # {}) => rt.monitoring

(* A watchdog ends the session it was started for and no other, whatever   *)
(* was stopped and started while it waited for the lock.                   *)
OwnSessionOnly ==
  [][\A d \in dogs : d.at = "act" /\ [d EXCEPT !.at = "stop"] \in dogs' => d.gen = flags.session]_monVars

(* A session that is on has its watchdog, so a module that stopped         *)
(* recording does not go on unseen.                                        *)
Watched ==
  lock = Free /\ flags.stream /\ ~flags.torn /\ ~flags.hasty => \E d \in dogs : d.gen = flags.gen

(* No recording is open for reading while the module monitors. *)
ViewExcludes == ~(rt.view /\ rt.monitoring)

(* The switch: between commands the host intercepts only what the module   *)
(* monitors, a session that is on has its watchdog, which ends its own     *)
(* session and no other, and no recording is read meanwhile.               *)
SwitchSound == [](MonitorTypeOK /\ FlagsFollow /\ Watched /\ ViewExcludes) /\ OwnSessionOnly

=============================================================================
