----------------------------- MODULE MCTcpRelay -----------------------------
(* The forwarding of a connection for TLC, in two behaviours that share no *)
(* state: one task between its two sockets (TcpRelay, with the refinement  *)
(* of TcpPipe), or the helper window that brings the sockets of a thread   *)
(* their events (SocketWindow).                                            *)
EXTENDS TcpRelayRefinement

CONSTANTS Movers,   \* the behaviours of a run: of {"relay", "window"}
          Objects, Handles, Lookups, Size, Margin, Waiting, Reaches

VARIABLES moves, reach, sock, table, place, held, members, queue, asked, adds, mixed, dropped, strayed
wv == <<reach, sock, table, place, held, members, queue, asked, adds, mixed, dropped, strayed>>

Window == INSTANCE SocketWindow

(* Situations of SocketWindow: slots go round, the table grows, lookups.   *)
Reach(objects, lookups, most) == [objects |-> objects, lookups |-> lookups, most |-> most]
MCReaches == {Reach({"a", "b"}, {}, 5), Reach(Objects, {}, 3), Reach({"a", "b"}, Lookups, 3)}

MCInit ==
  /\ moves \in Movers /\ Init
  /\ reach \in (IF moves = "window" THEN Reaches ELSE {Reach(Objects, {}, 3)}) /\ Window!WindowInit

MCNext ==
  \/ moves = "relay" /\ Next /\ UNCHANGED <<moves, wv>>
  \/ moves = "window" /\ Window!WindowNext /\ UNCHANGED <<moves, vars>>

MCSpec == MCInit /\ [][MCNext]_<<moves, vars, wv>>
MCFairSpec == MCSpec /\ Fairness

(* The helper window hands every message of an open socket to that socket: *)
(* its table agrees with the sockets, it lives as long as they do, and     *)
(* slots, handles, addresses and lookups that are used again do not bring  *)
(* a waiting message to a later socket too soon.                           *)
WindowSound ==
  moves = "window" => /\ Window!WindowTypeOK /\ Window!TableExact /\ Window!WindowOutlives
                      /\ Window!NotMixedUp /\ Window!NothingDropped /\ Window!AnswersOwn
=============================================================================
