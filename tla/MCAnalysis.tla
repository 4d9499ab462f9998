----------------------------- MODULE MCAnalysis -----------------------------
(* The analysis service for TLC: the capture of monitored streams          *)
(* (Capture) or their recording on disk (Recording).  The first hands      *)
(* payload to the second and shares no state with it, so one of the two    *)
(* moves in a behaviour and the other stays at its start.                  *)
EXTENDS Naturals

CONSTANTS Streams, QueueMax, Limit, Keep, PollMax, CaptureScopes,
          Entries, EntryBytes, TotalBytes, RecordingScopes

VARIABLES moves,
          captureScope, monitoring, epoch, gate, stopping, tap, tapTicket, events, analyst, conn, active,
          parsers, rec, sequence, ctl, ui,
          recordingScope, env, prod, ticket, queue, clock, open, worker, wk, jr, look, view

captureVars   == <<captureScope, monitoring, epoch, gate, stopping, tap, tapTicket, events, analyst, conn, active,
                   parsers, rec, sequence, ctl, ui>>
recordingVars == <<recordingScope, env, prod, ticket, queue, clock, open, worker, wk, jr, look, view>>

Cap == INSTANCE Capture WITH Scopes <- CaptureScopes, scope <- captureScope, ticket <- tapTicket,
                             queue <- events, worker <- analyst
Rec == INSTANCE Recording WITH Scopes <- RecordingScopes, scope <- recordingScope

(* Situations of Capture: a preview or a recording; the kinds of stream;   *)
(* chunks of each; control requests.                                       *)
Capturing(retained, kinds, chunks, requests) ==
  [retained |-> retained, kind |-> kinds, chunks |-> chunks, requests |-> requests,
   notes |-> 0, processes |-> 0, polls |-> 0, drops |-> FALSE, panic |-> FALSE, disk |-> FALSE]
Both    == [s \in Streams |-> "parsed"]
Mixed   == [s \in Streams |-> IF s = 1 THEN "parsed" ELSE "direct"]
Preview == Capturing(FALSE, Both, 1, <<"stop", "start", "stop">>)
Retain  == Capturing(TRUE, Both, 1, <<"stop", "shutdown">>)
Captured ==
  {[Preview EXCEPT !.notes = 1, !.polls = 1],
   [Capturing(FALSE, Mixed, 2, <<"shutdown">>) EXCEPT !.drops = TRUE, !.polls = 2],
   [Capturing(FALSE, Both, 1, <<"stop">>) EXCEPT !.panic = TRUE, !.polls = 1],
   [Retain EXCEPT !.processes = 1, !.polls = 1],
   [Retain EXCEPT !.disk = TRUE],
   [Retain EXCEPT !.panic = TRUE, !.processes = 1]}

(* Situations of Recording: entries of some kinds with so many chunks      *)
(* each; the faults and reads that may happen; the capacity, with every    *)
(* point of an event at which it can be reached.                           *)
Case(retained, entries, kinds, chunks, capacity, faults, requests) ==
  [retained |-> retained, entries |-> entries, kind |-> [e \in Entries |-> kinds[e]],
   chunks |-> [e \in Entries |-> chunks[e]], completes |-> [e \in Entries |-> TRUE], capacity |-> capacity,
   faults |-> faults, requests |-> requests, reads |-> 0, ticks |-> 0]
Plain == <<"stream", "stream", "stream">>
Web   == <<"stream", "http", "unused">>
Lossy(chunks, faults) == Case(FALSE, 2, Plain, chunks, 0, faults, {"shutdown"})
Kept(kinds, chunks, capacity, faults) == Case(TRUE, 1, kinds, chunks, capacity, faults, {"stop", "shutdown"})
Recorded ==
  {Lossy(<<2, 1, 1>>, {}), Lossy(<<1, 0, 1>>, {"remove"}), [Lossy(<<1, 0, 1>>, {"payload"}) EXCEPT !.reads = 1],
   Lossy(<<1, 0, 0>>, {"panic"}), Lossy(<<1, 0, 0>>, {"crash"})}
  \cup {[Kept(Web, <<1, 0, 0>>, c, {}) EXCEPT !.ticks = 1] : c \in 7..20}
  \cup {Kept(Web, <<1, 0, 0>>, 40, {f}) :
            f \in {"detail", "row", "line", "stop", "payload", "panic", "crash", "issue"}}
  \cup {[Kept(<<"packed", "stream", "unused">>, <<1, 0, 0>>, c, {"decode"}) EXCEPT !.completes[1] = d] :
            c \in {13, 40}, d \in BOOLEAN}
  \cup {[Kept(<<"http", "stream", "unused">>, <<2, 0, 0>>, 40, {"spill"}) EXCEPT !.reads = 1]}
  \cup {[Kept(Plain, <<1, 0, 0>>, c, {}) EXCEPT !.entries = 2] : c \in {12, 40}}

MCInit ==
  /\ moves \in {"capture", "record"}
  /\ captureScope \in (IF moves = "capture" THEN CaptureScopes ELSE {[Retain EXCEPT !.disk = TRUE]}) /\ Cap!Init
  /\ recordingScope \in (IF moves = "record" THEN RecordingScopes ELSE {Lossy(<<2, 1, 1>>, {})}) /\ Rec!Init

MCNext ==
  \/ moves = "capture" /\ Cap!Next /\ UNCHANGED <<moves, recordingVars>>
  \/ moves = "record" /\ Rec!Next /\ UNCHANGED <<moves, captureVars>>

MCSpec == MCInit /\ [][MCNext]_<<moves, captureVars, recordingVars>>

(* The properties of the instanced modules, where each part is explained;  *)
(* a part that does not move is looked at in the behaviours where it does. *)

(* The capture counts exactly (pending events of a stream, the slots of    *)
(* live connections and parsers, the records a consumer was told of), what *)
(* it calls complete is whole, the answer to a stop request is a barrier,  *)
(* and after it nothing is published until the next start.                 *)
CaptureSound ==
  /\ [](moves = "capture" => /\ Cap!TypeOK /\ Cap!PendingExact /\ Cap!SlotsExact /\ Cap!PollAccounts
                            /\ Cap!CompleteIsWhole /\ Cap!StopIsFinal /\ Cap!CompletedIsWhole)
  /\ Cap!NothingLate
(* The files of a run are accounted, within the capacity; a payload is     *)
(* whole or its entry says that it is not, and what a preview counts is    *)
(* there; an index that opens shows the last committed detail of every     *)
(* entry; a completed manifest stands over whole payloads; only a whole    *)
(* body is said to be decoded completely.                                  *)
RecordingSound ==
  moves = "record" => /\ Rec!TypeOK /\ Rec!QuotaKept /\ Rec!WholeOrSaid /\ Rec!PreviewIsReadable
                      /\ Rec!SealedIndexWhole /\ Rec!CompletedArchive /\ Rec!DecodedIsWhole
=============================================================================
