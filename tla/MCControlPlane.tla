--------------------------- MODULE MCControlPlane ---------------------------
(* The control plane for TLC: the children of hooked programs and their    *)
(* watchdog (ChildGuard), or the control pipe with its services            *)
(* (ControlPipe).  They meet in the reception centre's object only, so one *)
(* of the two moves in a behaviour and the other stays at its start.       *)
EXTENDS ChildGuard, ControlPipe

VARIABLE moves

(* Situations of ChildGuard: a creator that dies, callers with their own   *)
(* suspensions, foreign freezes, unhooked intermediates, the registry      *)
(* against PID reuse, a second GUI, the deferred policy, connections       *)
(* accepted after their process is gone.                                   *)
Base    == [births |-> 3, cpus |-> 0, guis |-> 1, stops |-> 0, blocks |-> {"inherit"},
            answers |-> BOOLEAN, plain |-> FALSE, foreign |-> FALSE, cig |-> FALSE, starts |-> FALSE,
            sweeps |-> TRUE, prunes |-> FALSE, name |-> "base",
            unbuilt |-> FALSE, logon |-> FALSE, connects |-> FALSE, outcomes |-> {"good"}]
Callers == [Base EXCEPT !.births = 2, !.blocks = {"inherit", "copy", "fresh"}, !.unbuilt = TRUE,
                        !.logon = TRUE, !.name = "callers"]
Frozen  == [Base EXCEPT !.births = 2, !.foreign = TRUE, !.cpus = 1, !.answers = {FALSE}, !.stops = 1,
                        !.name = "frozen"]
Plain   == [Base EXCEPT !.plain = TRUE, !.answers = {FALSE}, !.name = "plain"]
Books   == [Base EXCEPT !.starts = TRUE, !.sweeps = FALSE, !.prunes = TRUE, !.blocks = {},
                        !.name = "books"]
Again   == [Base EXCEPT !.births = 2, !.guis = 2, !.starts = TRUE, !.name = "again"]
Policy  == [Base EXCEPT !.births = 2, !.sweeps = FALSE, !.plain = TRUE, !.cig = TRUE, !.unbuilt = TRUE,
                        !.starts = TRUE, !.stops = 1, !.outcomes = {"good", "bad", "unpinned"},
                        !.name = "policy"]
Dials   == [Base EXCEPT !.connects = TRUE, !.sweeps = FALSE, !.answers = {TRUE}, !.name = "dials"]
MCScopes == {Dials, Base, Callers, Frozen, Plain, Books, Again, Policy}

(* Situations of ControlPipe: clients that come and go while the service   *)
(* stops, failing starts, grants across services, one helper and its       *)
(* retries over time, two helpers, a full history, browser reports in any  *)
(* order, a full table.                                                    *)
Serving == [stops |-> 1, faults |-> {}, kinds |-> {"plain", "drop"}, room |-> 2, times |-> {},
            table |-> 2, who |-> {1, 2}]
Faulty  == [Serving EXCEPT !.faults = {"unsupported", "failed", "nopipe", "nothread"}, !.stops = 2,
                           !.kinds = {"plain"}, !.who = {1}]
Grants  == [Serving EXCEPT !.kinds = {"inject"}, !.stops = 2, !.faults = {"nopipe"}, !.who = {1}]
Helper  == [Serving EXCEPT !.kinds = {"launch"}, !.stops = 2, !.times = {1, 3, 6}, !.who = {1}]
Helpers == [Helper EXCEPT !.times = {}, !.stops = 1, !.who = {1, 2}]
Crowded == [Helper EXCEPT !.room = 1, !.times = {6}, !.stops = 1, !.who = {1, 2}]
Browser == [Serving EXCEPT !.kinds = {"quic"}, !.stops = 2, !.who = {1}]
Small   == [Browser EXCEPT !.table = 1, !.stops = 1, !.who = {1, 2}]
MCPlans == {Serving, Faulty, Grants, Helper, Helpers, Crowded, Browser, Small}

MCInit ==
  /\ moves \in {"guard", "pipe"}
  /\ Init /\ PipeInit
  /\ moves = "guard" => plan = Serving
  /\ moves = "pipe" => scope = Base

MCNext ==
  \/ moves = "guard" /\ Next /\ UNCHANGED <<moves, pvars>>
  \/ moves = "pipe" /\ PipeNext /\ UNCHANGED <<moves, vars>>

MCSpec == MCInit /\ [][MCNext]_<<moves, vars, pvars>>
=============================================================================
