--------------------------- MODULE MCInterception ---------------------------
(* What is done to an intercepted connection, for TLC: a TLS session       *)
(* (MitmSession), the UDP flows that may be QUIC (QuicFlow), the requests  *)
(* of an intercepted QUIC connection (QuicForward), or the switch of the   *)
(* monitor (MonitorControl).  They share the switch's flags only, which    *)
(* QuicFlow and MitmSession read as an input, so one of the four moves in  *)
(* a behaviour and the others stay at their start.                         *)
EXTENDS MitmSession, MonitorControl

CONSTANTS Flows, HeldMax, ByteMax, SlotMax, BridgeMax, LiveMax, QueueMax, PumpMax, SendMax, QuicPlans,
          JobMax, InfoMax, ForwardPlans

VARIABLES moves,
          qplan, fl, slots, held, active, enabled, compat,
          hplan, h, q, rw

flowVars    == <<qplan, fl, slots, held, active, enabled, compat>>
forwardVars == <<hplan, h, q, rw>>

Quic    == INSTANCE QuicFlow
Fwd     == INSTANCE QuicForward

(* Situations of MitmSession: what the two ends say and what goes wrong. *)
Talk(app, up) == [burst |-> 2, app |-> app, up |-> up, recording |-> FALSE, window |-> 2, resets |-> FALSE,
                  cuts |-> FALSE, lates |-> FALSE, verdicts |-> {TRUE}, over |-> ""]
MCPlans == {
  [Talk(<<"hello", "finish", "a1", "close">>, <<"flight", "u1", "close">>) EXCEPT !.window = 1],
  [Talk(<<"bit", "part", "hello", "finish", "a1">>, <<"flight", "u1">>)
     EXCEPT !.resets = TRUE, !.cuts = TRUE, !.lates = TRUE],
  [Talk(<<"hello", "ccs", "finish", "ech">>, <<"flight", "ccs", "u1">>) EXCEPT !.verdicts = BOOLEAN],
  [Talk(<<"hello", "finish">>, <<"flight", "u1", "u2">>)
     EXCEPT !.recording = TRUE, !.resets = TRUE, !.cuts = TRUE],
  [Talk(<<"bit", "a1", "a2">>, <<"u1">>) EXCEPT !.window = 1, !.resets = TRUE, !.lates = TRUE],
  [Talk(<<"a1">>, <<"u1", "u2", "u1", "u2">>) EXCEPT !.window = 1],
  [Talk(<<"hello", "ccs", "finish">>, <<"flight", "u1", "u2">>) EXCEPT !.recording = TRUE, !.burst = 3]}
  \cup {[Talk(<<"bit", "part", "hello", "finish">>, <<"flight", "u1">>) EXCEPT !.over = what] :
          what \in {"hello", "deferred", "queue"}}

(* Situations of QuicFlow: two connections one after the other on a flow   *)
(* that closes, a pending process that turns ready with an unknown version *)
(* between and a late datagram of the first connection behind it, held     *)
(* datagrams with everything switched off meanwhile, and two flows that    *)
(* compete for one live connection.                                        *)
Packets(one, two) == [script |-> [f \in Flows |-> IF f = 1 THEN one ELSE two], compat |-> "Ready",
                      closes |-> FALSE, disables |-> FALSE, reports |-> {}]
MCQuicPlans == {
  [Packets(<<<<"h", 1>>, <<"d", 1>>, <<"h", 2>>, <<"d", 2>>>>, <<>>) EXCEPT !.closes = TRUE],
  [Packets(<<<<"i", 1>>, <<"h", 1>>, <<"d", 1>>, <<"x", 2>>, <<"d", 1>>, <<"d", 2>>>>, <<>>)
     EXCEPT !.compat = "Pending", !.reports = {"Ready"}],
  [Packets(<<<<"i", 1>>, <<"i", 1>>, <<"i", 1>>, <<"h", 1>>, <<"d", 1>>>>, <<<<"i", 1>>, <<"n", 1>>>>)
     EXCEPT !.compat = "Pending", !.closes = TRUE, !.disables = TRUE, !.reports = {"Ready", "Unavailable"}],
  Packets(<<<<"h", 1>>>>, <<<<"h", 1>>>>)}

(* Situations of QuicForward: three requests with GOAWAYs, one with bodies *)
(* and faults, two with answers, and a stream of another protocol.         *)
Asks(n, body, response) == [requests |-> n, body |-> body, response |-> response, faults |-> FALSE,
                            origin |-> FALSE, leaves |-> FALSE, offers |-> <<"h3">>]
MCForwardPlans == {
  [Asks(3, 0, 0) EXCEPT !.origin = TRUE, !.leaves = TRUE],
  [Asks(1, 2, 4) EXCEPT !.faults = TRUE, !.leaves = TRUE],
  Asks(2, 0, 2),
  [Asks(0, 2, 0) EXCEPT !.faults = TRUE, !.leaves = TRUE, !.offers = <<"h3", "hq">>]}

(* Situations of MonitorControl: failing commands and a shutdown, and      *)
(* recordings that are opened to be read.                                  *)
Switch == [commands |-> 3, shutdowns |-> 0, fails |-> FALSE, sick |-> TRUE, views |-> FALSE]
MCMonitorPlans == {[Switch EXCEPT !.shutdowns = 1, !.fails = TRUE], [Switch EXCEPT !.views = TRUE]}

Rest(plans) == CHOOSE x \in plans : TRUE

MCInit ==
  /\ moves \in {"session", "flow", "forward", "switch"}
  /\ Init /\ Quic!QInit /\ Fwd!HInit /\ MonInit
  /\ moves # "session" => plan = Rest(Plans)
  /\ moves # "flow" => qplan = Rest(QuicPlans)
  /\ moves # "forward" => hplan = Rest(ForwardPlans)
  /\ moves # "switch" => mplan = Rest(MonitorPlans)

MCNext ==
  \/ moves = "session" /\ Next /\ UNCHANGED <<moves, flowVars, forwardVars, monVars>>
  \/ moves = "flow" /\ Quic!QNext /\ UNCHANGED <<moves, mvars, forwardVars, monVars>>
  \/ moves = "forward" /\ Fwd!HNext /\ UNCHANGED <<moves, mvars, flowVars, monVars>>
  \/ moves = "switch" /\ MonNext /\ UNCHANGED <<moves, mvars, flowVars, forwardVars>>

MCSpec == MCInit /\ [][MCNext]_<<moves, mvars, flowVars, forwardVars, monVars>>

(* The properties of the instanced modules, where each part is explained;  *)
(* a part that does not move is looked at in the behaviours where it does. *)

(* A UDP flow: the bridge's counters are those of its flows, a datagram    *)
(* goes on once, in order and under its own keys (unless it is late), a    *)
(* held one has a timer or a decision coming, and an intercepted connection ends once, with its *)
(* last datagrams sent and nothing called after it.  The requests of an    *)
(* intercepted connection: both legs speak one protocol, a GOAWAY and a    *)
(* refusal tell the truth about what reached the server, a body ends only  *)
(* where its sender ended it, and what goes on was recorded.               *)
QuicSound ==
  /\ moves = "flow" => /\ Quic!QuicTypeOK /\ Quic!CountersBalance /\ Quic!OnceInOrder /\ Quic!KeysMatch
                       /\ Quic!NoLateWake /\ Quic!FarewellSent /\ Quic!EndsOnce /\ Quic!HeldIsWatched
  /\ moves = "forward" => /\ Fwd!ForwardTypeOK /\ Fwd!LegsAgree /\ Fwd!GoawayIsHonest /\ Fwd!RetryIsSafe
                          /\ Fwd!NoFalseEnd /\ Fwd!WholeResponseKept /\ Fwd!SeenBeforeSent /\ Fwd!CopyIsWhole
=============================================================================
