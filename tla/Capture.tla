------------------------------ MODULE Capture ------------------------------
(***************************************************************************)
(* The protocol-analysis runtime of ProxyLaneMitm (protocol.rs) and the    *)
(* control requests that start and stop it (plm_protocol of lib.rs).       *)
(*                                                                         *)
(* Forwarding threads own taps.  Under the capture gate a tap puts its     *)
(* events into one bounded queue; the analysis worker takes them, keeps a  *)
(* stream per tap and hands payload to the cache.  A preview drops what    *)
(* does not fit and marks the tap lost; a retained recording waits instead,*)
(* with the gate held.  The payload cache is used here by its promise, an  *)
(* append is stored or the entry says that it is short; module Recording   *)
(* has its inside.  Payload is counted in chunks, both directions together.*)
(***************************************************************************)
EXTENDS Naturals, FiniteSets, Sequences, SequencesExt, FiniteSetsExt

CONSTANTS Streams,    \* connections and requests: a set of naturals, their capture ids
          QueueMax,   \* QUEUE
          Limit,      \* options.connections: taps of a preview, and parsers
          Keep,       \* RECORDS
          PollMax,    \* the limit of a poll
          Scopes      \* what may happen in a behaviour: see MCAnalysis

VARIABLES scope,      \* the member of Scopes this behaviour explores
          monitoring, \* MONITORING
          epoch,      \* capture_epoch: odd while capture is open
          gate,       \* the tap that waits with capture_epoch locked, 0 if none
          stopping,   \* Runtime.stopping
          tap,        \* what the owner of each Tap did
          ticket,     \* the Ticket shared by tap and worker
          queue,      \* the sync_channel of events
          worker,     \* "run", "unwound" (receiver dropped), "dead", "gone"
          conn,       \* Worker.connections
          active,     \* Runtime.active
          parsers,    \* Runtime.parsers
          rec,        \* recording::State and the counters of the process journal
          sequence,   \* PublishedResults.sequence
          ctl,        \* the thread inside plm_protocol's control requests
          ui          \* the consumer that polls records

gateVars == <<epoch, gate, stopping>>
workVars == <<worker, conn, active, parsers>>
vars == <<scope, monitoring, gateVars, tap, ticket, queue, workVars, rec, sequence, ctl, ui>>

Retained == scope.retained
Event(t, s) == [t |-> t, s |-> s]
Room == Len(queue) < QueueMax
Connected == worker = "run"

\* What recording_failed() answers: WorkerFailure, or the state of the recording.
RecordingFailed == worker = "dead" \/ rec.stopped

Init ==
    /\ scope \in Scopes
    /\ monitoring = TRUE
    /\ epoch = 1 /\ gate = 0 /\ stopping = FALSE
    /\ tap = [s \in Streams |-> [st |-> "none", epoch |-> 0, wait |-> "none",
                                 offered |-> 0, taken |-> 0, ended |-> FALSE]]
    /\ ticket = [s \in Streams |-> [pending |-> 0, closed |-> FALSE, lost |-> FALSE, slot |-> FALSE]]
    /\ queue = <<>>
    /\ worker = "run"
    /\ conn = [s \in Streams |-> [st |-> "none", deferred |-> FALSE, spool |-> 0, got |-> 0,
                                  stored |-> 0, short |-> FALSE, ended |-> FALSE, complete |-> FALSE]]
    /\ active = 0 /\ parsers = 0
    /\ rec = [stopped |-> FALSE, gaps |-> 0, queued |-> 0, resumed |-> 0,
              inflight |-> 0, admitted |-> 0, logged |-> 0, manifest |-> "recording"]
    /\ sequence = 0
    /\ ctl = [st |-> "idle", done |-> 0, ok |-> TRUE]
    /\ ui = [st |-> "idle", after |-> 0, seen |-> 0, missed |-> 0, polls |-> 0]

-----------------------------------------------------------------------------
(* Recording state. *)

\* State::issue(gap): counted only while the recording accepts.
Gap(r) == IF Retained /\ ~r.stopped /\ r.manifest = "recording"
          THEN [r EXCEPT !.gaps = @ + 1] ELSE r

\* fail_recording("analysis worker unavailable").
FailRecording(r) == [r EXCEPT !.stopped = @ \/ Retained]

-----------------------------------------------------------------------------
(* Taps. *)

\* tap_at, send and data compare the gate with the epoch the owner read.
MayCapture(s) == /\ tap[s].epoch = epoch /\ epoch % 2 = 1
                 /\ ~stopping /\ ~RecordingFailed

\* Tap::accepting
Accepting(s) == ~ticket[s].lost /\ ~ticket[s].closed /\ MayCapture(s)

\* protocol_runtime(): the owner reads the epoch when its connection starts.
ReadEpoch(s) ==
    /\ tap[s].st = "none" /\ monitoring /\ ~stopping
    /\ gate = 0
    /\ tap' = [tap EXCEPT ![s].st = "known", ![s].epoch = epoch]
    /\ UNCHANGED <<scope, monitoring, gateVars, ticket, queue, workVars, rec, sequence, ctl, ui>>

\* The parser slot of tap_at: HTTP/3 and raw QUIC streams need none.
SlotFor(s) == scope.kind[s] = "parsed" /\ parsers < Limit

\* The refusals of tap_at: gate, stream limit, no parser for a preview.
Refused(s) == \/ ~MayCapture(s)
              \/ ~Retained /\ active >= Limit
              \/ ~Retained /\ scope.kind[s] = "parsed" /\ ~SlotFor(s)

\* submit() of the Open event failed: the counters go back.
OpenFails(s) ==
    /\ tap' = [tap EXCEPT ![s].st = "refused", ![s].wait = "none"]
    /\ rec' = IF Connected THEN Gap(rec) ELSE FailRecording(Gap(rec))
    /\ UNCHANGED queue

\* tap_at
TapAt(s) ==
    /\ tap[s].st = "known" /\ gate = 0
    /\ \/ /\ Refused(s)
          /\ tap' = [tap EXCEPT ![s].st = "refused"]
          /\ UNCHANGED <<gate, ticket, queue, active, parsers, rec>>
       \/ /\ ~Refused(s)
          /\ \/ /\ Connected /\ Room
                /\ queue' = Append(queue, Event("open", s))
                /\ tap' = [tap EXCEPT ![s].st = "held"]
                /\ UNCHANGED <<gate, rec>>
             \/ /\ Connected /\ ~Room /\ Retained
                /\ gate' = s
                /\ tap' = [tap EXCEPT ![s].st = "held", ![s].wait = "open"]
                /\ UNCHANGED <<queue, rec>>
             \/ /\ ~Connected \/ (~Room /\ ~Retained)
                /\ OpenFails(s)
                /\ UNCHANGED gate
          /\ LET kept == tap'[s].st = "held"
                 slot == SlotFor(s)
             IN  /\ active' = active + IF kept THEN 1 ELSE 0
                 /\ parsers' = parsers + IF kept /\ slot THEN 1 ELSE 0
                 /\ ticket' = [ticket EXCEPT ![s].slot = kept /\ slot]
    /\ UNCHANGED <<scope, monitoring, epoch, stopping, worker, conn, sequence, ctl, ui>>

\* What a call offers to the tap: one chunk more, or the end of the stream.
Offered(s, t) == [tap[s] EXCEPT !.offered = @ + IF t = "data" THEN 1 ELSE 0, !.ended = @ \/ t = "eof"]
Taken(r, t) == [r EXCEPT !.taken = @ + IF t = "data" THEN 1 ELSE 0]

MayCall(s, t) ==
    /\ tap[s].st = "held" /\ gate = 0 /\ ~tap[s].ended
    /\ t = "data" => tap[s].offered < scope.chunks
    /\ t = "eof" => tap[s].offered = scope.chunks

\* enqueue: pending counts the event before the worker can see it; an event that
\* does not fit marks the ticket lost first and takes the count back last.
Enqueue(s, t) ==
    \/ /\ Connected /\ Room
       /\ queue' = Append(queue, Event(t, s))
       /\ ticket' = [ticket EXCEPT ![s].pending = @ + 1]
       /\ tap' = [tap EXCEPT ![s] = Taken(Offered(s, t), t)]
       /\ UNCHANGED <<gate, rec>>
    \/ /\ Connected /\ ~Room /\ Retained
       /\ gate' = s
       /\ ticket' = [ticket EXCEPT ![s].pending = @ + 1]
       /\ tap' = [tap EXCEPT ![s] = [Offered(s, t) EXCEPT !.wait = t]]
       /\ UNCHANGED <<queue, rec>>
    \/ /\ ~Connected \/ (~Room /\ ~Retained)
       /\ ticket' = [ticket EXCEPT ![s].lost = TRUE]
       /\ tap' = [tap EXCEPT ![s] = Offered(s, t)]
       /\ rec' = IF Connected THEN Gap(rec) ELSE FailRecording(Gap(rec))
       /\ UNCHANGED <<gate, queue>>

\* Tap::data, datagram, eof, note, http3 and transport_result.
Send(s, t) ==
    /\ MayCall(s, t)
    /\ IF Accepting(s)
       THEN Enqueue(s, t)
       ELSE /\ tap' = [tap EXCEPT ![s] = Offered(s, t)]
            /\ UNCHANGED <<gate, ticket, queue, rec>>
    /\ UNCHANGED <<scope, monitoring, epoch, stopping, workVars, sequence, ctl, ui>>

\* try_data and send_async of a recording never wait under the gate: a full
\* queue leaves the event with the caller, who comes back when there is space.
TrySend(s, t) ==
    /\ Retained /\ MayCall(s, t) /\ Accepting(s)
    /\ IF Connected
       THEN /\ Room
            /\ queue' = Append(queue, Event(t, s))
            /\ ticket' = [ticket EXCEPT ![s].pending = @ + 1]
            /\ tap' = [tap EXCEPT ![s] = Taken(Offered(s, t), t)]
            /\ UNCHANGED rec
       ELSE /\ rec' = FailRecording(rec)
            /\ tap' = [tap EXCEPT ![s] = Offered(s, t)]
            /\ UNCHANGED <<queue, ticket>>
    /\ UNCHANGED <<scope, monitoring, gateVars, workVars, sequence, ctl, ui>>

\* The send() a recording blocked in: room appeared, or the receiver is gone.
SendWakes(s) ==
    LET t == tap[s].wait IN
    /\ gate = s
    /\ Room \/ ~Connected
    /\ gate' = 0
    /\ IF Connected
       THEN /\ queue' = Append(queue, Event(t, s))
            /\ tap' = [tap EXCEPT ![s] = [Taken(@, t) EXCEPT !.wait = "none"]]
            /\ UNCHANGED <<ticket, active, parsers, rec>>
       ELSE IF t = "open"
       THEN /\ OpenFails(s)
            /\ active' = active - 1
            /\ parsers' = parsers - IF ticket[s].slot THEN 1 ELSE 0
            /\ UNCHANGED ticket
       ELSE /\ ticket' = [ticket EXCEPT ![s].lost = TRUE, ![s].pending = @ - 1]
            /\ tap' = [tap EXCEPT ![s].wait = "none"]
            /\ rec' = FailRecording(Gap(rec))
            /\ UNCHANGED <<queue, active, parsers>>
    /\ UNCHANGED <<scope, monitoring, epoch, stopping, worker, conn, sequence, ctl, ui>>

\* Drop for Tap: the flag is out of band, no event is needed.
DropTap(s) ==
    /\ tap[s].st = "held" /\ gate # s
    /\ tap' = [tap EXCEPT ![s].st = "dropped"]
    /\ ticket' = [ticket EXCEPT ![s].closed = TRUE]
    /\ UNCHANGED <<scope, monitoring, gateVars, queue, workVars, rec, sequence, ctl, ui>>

\* Mutant: the epoch of the connection is not compared with the gate.
LifecycleAlways(s) ==
    /\ tap[s].st \in {"known", "held"} /\ sequence < scope.notes /\ gate = 0
    /\ sequence' = sequence + 1
    /\ UNCHANGED <<scope, monitoring, gateVars, tap, ticket, queue, workVars, rec, ctl, ui>>

\* Runtime::lifecycle: a result written under the gate, without the worker.
Lifecycle(s) ==
    /\ tap[s].st \in {"known", "held"} /\ sequence < scope.notes /\ gate = 0
    /\ MayCapture(s)
    /\ sequence' = sequence + 1
    /\ UNCHANGED <<scope, monitoring, gateVars, tap, ticket, queue, workVars, rec, ctl, ui>>

-----------------------------------------------------------------------------
(* Creation notices of processes, written without the worker. *)

\* record_process_with: admitted under the gate...
AdmitProcess ==
    /\ Retained /\ rec.admitted < scope.processes /\ gate = 0
    /\ epoch % 2 = 1 /\ ~stopping /\ ~RecordingFailed
    /\ rec' = [rec EXCEPT !.inflight = @ + 1, !.admitted = @ + 1]
    /\ UNCHANGED <<scope, monitoring, gateVars, tap, ticket, queue, workVars, sequence, ctl, ui>>

\* ... and handed to the disk worker outside it; Admission::drop counts down.
LogProcess ==
    /\ rec.inflight > 0
    /\ rec' = [rec EXCEPT !.inflight = @ - 1,
                          !.logged = @ + IF rec.manifest = "recording" /\ ~rec.stopped THEN 1 ELSE 0,
                          !.stopped = @ \/ rec.manifest # "recording"]
    /\ UNCHANGED <<scope, monitoring, gateVars, tap, ticket, queue, workVars, sequence, ctl, ui>>

-----------------------------------------------------------------------------
(* The analysis worker. *)

Live(c) == {s \in Streams : c[s].st = "live"}

\* opaque_data and CacheRef::append: a preview's full cache queue stops the entry
\* for good, a recording that stopped takes nothing more.
Stored(c, n, drop) ==
    IF c.short \/ RecordingFailed THEN c
    ELSE IF drop THEN [c EXCEPT !.short = TRUE]
    ELSE [c EXCEPT !.stored = @ + n]

\* Worker::data on n chunks.
Analysed(c, n, drop) == Stored([c EXCEPT !.got = @ + n], n, drop)

\* replay: the backlog file goes through the parser at last.
Replay(c) == IF RecordingFailed
             THEN [c EXCEPT !.deferred = FALSE]
             ELSE [Analysed([c EXCEPT !.deferred = FALSE], c.spool, FALSE) EXCEPT !.spool = 0]
Replayed(c, S) == {s \in S : c[s].deferred /\ ~RecordingFailed}

\* What the worker changes while it handles an event.
Work == [conn |-> conn, ticket |-> ticket, active |-> active, parsers |-> parsers,
         rec |-> rec, sequence |-> sequence]
Becomes(w) ==
    /\ conn' = w.conn /\ ticket' = w.ticket /\ active' = w.active /\ parsers' = w.parsers
    /\ rec' = w.rec /\ sequence' = w.sequence

\* The end of one stream in reap: replay what is left, finish_stream, publish.
Reaped(c, lost) ==
    LET d == IF c.deferred THEN Replay(c) ELSE c
        whole == d.ended /\ ~lost
    IN  [d EXCEPT !.st = "done", !.complete = whole, !.short = @ \/ ~whole]

\* The streams reap(all) ends.
ToReap(w, all) ==
    {s \in Live(w.conn) : all \/ (w.ticket[s].pending = 0 /\ (w.ticket[s].closed \/ w.ticket[s].lost))}

\* Mutant: the parser slot of a stream that ends is not given back.
ReapKeepSlot(w, all) ==
    LET R == ToReap(w, all) IN
    [w EXCEPT !.conn = [s \in Streams |-> IF s \in R THEN Reaped(@[s], w.ticket[s].lost) ELSE @[s]],
              !.active = @ - Cardinality(R),
              !.sequence = @ + Cardinality(R)]

\* reap
Reap(w, all) ==
    LET R == ToReap(w, all) IN
    [w EXCEPT !.conn = [s \in Streams |-> IF s \in R THEN Reaped(@[s], w.ticket[s].lost) ELSE @[s]],
              !.active = @ - Cardinality(R),
              !.parsers = @ - Cardinality({s \in R : w.ticket[s].slot}),
              !.rec.resumed = @ + Cardinality(Replayed(w.conn, R)),
              !.sequence = @ + Cardinality(R)]

\* The deferred streams that progress gives the free parser slots to, oldest first.
Promoted(w) ==
    LET D == {s \in Live(w.conn) : w.conn[s].deferred}
        n == IF w.parsers < Limit THEN Limit - w.parsers ELSE 0
    IN  {s \in D : Cardinality({x \in D : x < s}) < n}

\* progress
Progress(w) ==
    LET P == Promoted(w) IN
    [w EXCEPT !.conn = [s \in Streams |-> IF s \in P THEN Replay(@[s]) ELSE @[s]],
              !.ticket = [s \in Streams |-> [@[s] EXCEPT !.slot = @ \/ s \in P]],
              !.parsers = @ + Cardinality(P),
              !.rec.resumed = @ + Cardinality(Replayed(w.conn, P))]

\* Event::Open: a recording without a parser slot spools its stream to disk.
OnOpen(w, s) ==
    LET spooled == scope.kind[s] = "parsed" /\ ~w.ticket[s].slot IN
    [w EXCEPT !.conn[s].st = "live", !.conn[s].deferred = spooled,
              !.rec.queued = @ + IF spooled /\ ~RecordingFailed THEN 1 ELSE 0,
              !.sequence = @ + 1]

\* Event::Data, Datagram and Http3: the count falls after the data was handled.
OnData(w, s, drop) ==
    [w EXCEPT !.conn[s] = IF @.st # "live" THEN @
                          ELSE IF @.deferred THEN [@ EXCEPT !.spool = @ + 1]
                          ELSE Analysed(@, 1, drop),
              !.ticket[s].pending = @ - 1]

\* Event::Eof, the clean end of both directions together.
OnEof(w, s) ==
    [w EXCEPT !.conn[s].ended = @ \/ w.conn[s].st = "live", !.ticket[s].pending = @ - 1]

\* Event::StopCapture: every ticket is closed and every stream reaped.
OnStopCapture(w) ==
    Reap([w EXCEPT !.ticket = [s \in Streams |-> [@[s] EXCEPT !.closed = @ \/ w.conn[s].st = "live"]]], TRUE)

\* Event::Barrier, before its reply.
OnBarrier(w) == Progress(Reap(w, FALSE))

\* run_notifying: one event, then reap.
Handle ==
    /\ Connected /\ queue # <<>>
    /\ queue' = Tail(queue)
    /\ LET e == Head(queue) IN
       \/ /\ e.t = "open" /\ Becomes(Reap(OnOpen(Work, e.s), FALSE))
          /\ UNCHANGED <<worker, ctl, ui>>
       \/ /\ e.t = "data"
          /\ \E drop \in IF scope.drops THEN BOOLEAN ELSE {FALSE} : Becomes(Reap(OnData(Work, e.s, drop), FALSE))
          /\ UNCHANGED <<worker, ctl, ui>>
       \/ /\ e.t = "eof" /\ Becomes(Reap(OnEof(Work, e.s), FALSE))
          /\ UNCHANGED <<worker, ctl, ui>>
       \/ /\ e.t = "stop" /\ Becomes(OnStopCapture(Work))
          /\ ctl' = [ctl EXCEPT !.st = "write"]
          /\ UNCHANGED <<worker, ui>>
       \/ /\ e.t = "barrier" /\ Becomes(OnBarrier(Work))
          /\ ui' = [ui EXCEPT !.st = "answered"]
          /\ UNCHANGED <<worker, ctl>>
       \/ /\ e.t = "shutdown" /\ Becomes(Reap(Work, TRUE))
          /\ worker' = "gone"
          /\ UNCHANGED <<ctl, ui>>
    /\ UNCHANGED <<scope, monitoring, gateVars, tap>>

\* recv_timeout expired, or 500 ms passed: reap notices a drop without an event,
\* progress a parser that became free.
Tick ==
    /\ Connected /\ (ToReap(Work, FALSE) # {} \/ Promoted(Work) # {})
    /\ \E due \in BOOLEAN :
          LET w == Reap(Work, FALSE) IN Becomes(IF due THEN Progress(w) ELSE w)
    /\ UNCHANGED <<scope, monitoring, gateVars, tap, queue, worker, ctl, ui>>

\* A panic while an event is handled: unwinding drops the receiver and with it
\* the queued events and their reply channels.
Panic ==
    /\ scope.panic /\ Connected /\ queue # <<>>
    /\ worker' = "unwound" /\ queue' = <<>>
    /\ UNCHANGED <<scope, monitoring, gateVars, tap, ticket, conn, active, parsers, rec, sequence, ctl, ui>>

\* The handler behind catch_unwind: analysis_worker_failed, then WorkerFailure::set.
ReportPanic ==
    /\ worker = "unwound"
    /\ worker' = "dead"
    /\ rec' = [rec EXCEPT !.gaps = @ + IF Retained THEN 1 ELSE 0, !.stopped = @ \/ Retained]
    /\ UNCHANGED <<scope, monitoring, gateVars, tap, ticket, queue, conn, active, parsers, sequence, ctl, ui>>

\* The disk worker stops the recording: quota, disk or sync failure.
DiskStops ==
    /\ scope.disk /\ Retained /\ ~rec.stopped /\ rec.manifest = "recording"
    /\ rec' = [rec EXCEPT !.stopped = TRUE]
    /\ UNCHANGED <<scope, monitoring, gateVars, tap, ticket, queue, workVars, sequence, ctl, ui>>

-----------------------------------------------------------------------------
(* Control requests: serialised by PROTOCOL_CONTROL. *)

Request == scope.requests[ctl.done + 1]
Requested(r) == ctl.st = "idle" /\ ctl.done < Len(scope.requests) /\ Request = r
Goto(st) == ctl' = [ctl EXCEPT !.st = st]
Answer(ok) == ctl' = [ctl EXCEPT !.st = "idle", !.done = @ + 1, !.ok = ok]

\* analysis_start on a runtime that is kept: start_capture.
StartCapture ==
    /\ Requested("start") /\ ~Retained /\ worker # "dead" /\ gate = 0
    /\ epoch' = epoch + IF epoch % 2 = 0 THEN 1 ELSE 0
    /\ monitoring' = TRUE
    /\ Answer(TRUE)
    /\ UNCHANGED <<scope, gate, stopping, tap, ticket, queue, workVars, rec, sequence, ui>>

\* analysis_stop: monitoring ends, then the gate is closed.
StopRequested ==
    /\ Requested("stop")
    /\ monitoring' = FALSE
    /\ Goto("close")
    /\ UNCHANGED <<scope, gateVars, tap, ticket, queue, workVars, rec, sequence, ui>>

CloseGate ==
    /\ ctl.st = "close" /\ gate = 0
    /\ epoch' = epoch + IF epoch % 2 = 1 THEN 1 ELSE 0
    /\ Goto("drain")
    /\ UNCHANGED <<scope, monitoring, gate, stopping, tap, ticket, queue, workVars, rec, sequence, ui>>

\* Mutant: the reply of the worker is not awaited.
StopNoWait ==
    /\ ctl.st = "drain" /\ rec.inflight = 0
    /\ Connected /\ Room /\ queue' = Append(queue, Event("stop", 0)) /\ Goto("write")
    /\ UNCHANGED <<scope, monitoring, gateVars, tap, ticket, workVars, rec, sequence, ui>>

\* drain_process_events, then the StopCapture event; without a worker its reply
\* fails at once and the cache is still finished.
SendStop ==
    /\ ctl.st = "drain" /\ rec.inflight = 0
    /\ IF Connected
       THEN /\ Room /\ queue' = Append(queue, Event("stop", 0)) /\ Goto("reply")
       ELSE Goto("write") /\ UNCHANGED queue
    /\ UNCHANGED <<scope, monitoring, gateVars, tap, ticket, workVars, rec, sequence, ui>>

\* The reply channel was dropped with the queue.
ReplyLost ==
    /\ ctl.st = "reply" /\ ~Connected
    /\ Goto("write")
    /\ UNCHANGED <<scope, monitoring, gateVars, tap, ticket, queue, workVars, rec, sequence, ui>>

\* The cache barriers: stats, then finish_recording seals the journal.
FinishRecording ==
    /\ ctl.st = "write"
    /\ rec' = IF Retained /\ rec.manifest = "recording"
              THEN [rec EXCEPT !.manifest = IF rec.stopped THEN "stopped" ELSE "completed"] ELSE rec
    /\ Answer(Connected)
    /\ UNCHANGED <<scope, monitoring, gateVars, tap, ticket, queue, workVars, sequence, ui>>

\* shutdown: the runtime leaves its slot, stopping is set under the gate.
ShutdownRequested ==
    /\ Requested("shutdown") /\ gate = 0
    /\ stopping' = TRUE
    /\ Goto("join")
    /\ UNCHANGED <<scope, monitoring, epoch, gate, tap, ticket, queue, workVars, rec, sequence, ui>>

SendShutdown ==
    /\ ctl.st = "join" /\ rec.inflight = 0
    /\ \/ Connected /\ Room /\ queue' = Append(queue, Event("shutdown", 0))
       \/ ~Connected /\ UNCHANGED queue
    /\ Goto("joining")
    /\ UNCHANGED <<scope, monitoring, gateVars, tap, ticket, workVars, rec, sequence, ui>>

\* The worker has returned; cache.shutdown finishes the journal.
Joined ==
    /\ ctl.st = "joining" /\ worker \in {"gone", "dead"}
    /\ Goto("gone")
    /\ rec' = IF Retained /\ rec.manifest = "recording"
              THEN [rec EXCEPT !.manifest = IF rec.stopped THEN "stopped" ELSE "completed"] ELSE rec
    /\ UNCHANGED <<scope, monitoring, gateVars, tap, ticket, queue, workVars, sequence, ui>>

-----------------------------------------------------------------------------
(* The consumer. *)

\* The oldest record that Results::add has not evicted.
Oldest == IF sequence > Keep THEN sequence - Keep + 1 ELSE 1

\* query("poll") on the published records.
PollRecords ==
    LET from == Max({ui.after + 1, Oldest})
        n == Min({PollMax, sequence + 1 - from})
    IN  ui' = [ui EXCEPT !.st = "idle",
                         !.after = IF n = 0 THEN @ ELSE from + n - 1,
                         !.seen = @ + n,
                         !.missed = @ + (from - (ui.after + 1))]

\* query: only a live preview of a recording reads without a barrier.
Query ==
    /\ ui.st = "idle" /\ ui.polls < scope.polls /\ worker # "dead" /\ ~stopping
    /\ \/ /\ Retained /\ PollRecords /\ UNCHANGED queue
       \/ /\ ~Retained /\ Connected /\ Room
          /\ queue' = Append(queue, Event("barrier", 0))
          /\ ui' = [ui EXCEPT !.st = "asked", !.polls = @ + 1]
    /\ UNCHANGED <<scope, monitoring, gateVars, tap, ticket, workVars, rec, sequence, ctl>>

QueryAnswered ==
    /\ ui.st = "answered"
    /\ PollRecords
    /\ UNCHANGED <<scope, monitoring, gateVars, tap, ticket, queue, workVars, rec, sequence, ctl>>

\* "analysis worker unavailable"
QueryFails ==
    /\ ui.st = "asked" /\ ~Connected
    /\ ui' = [ui EXCEPT !.st = "idle"]
    /\ UNCHANGED <<scope, monitoring, gateVars, tap, ticket, queue, workVars, rec, sequence, ctl>>

-----------------------------------------------------------------------------
\* All owners are done, every request was answered and nothing waits.
Finished ==
    /\ ctl.st \in {"idle", "gone"} /\ ctl.done = Len(scope.requests) - IF ctl.st = "gone" THEN 1 ELSE 0
    /\ gate = 0 /\ ui.st = "idle" /\ rec.inflight = 0
    /\ \A s \in Streams : tap[s].st \in {"none", "known", "refused", "dropped"}

Next ==
    \/ \E s \in Streams :
          \/ ReadEpoch(s) \/ TapAt(s) \/ SendWakes(s) \/ DropTap(s) \/ Lifecycle(s)
          \/ \E t \in {"data", "eof"} : Send(s, t) \/ TrySend(s, t)
    \/ AdmitProcess \/ LogProcess
    \/ Handle \/ Tick \/ Panic \/ ReportPanic \/ DiskStops
    \/ StartCapture \/ StopRequested \/ CloseGate \/ SendStop \/ ReplyLost \/ FinishRecording
    \/ ShutdownRequested \/ SendShutdown \/ Joined
    \/ Query \/ QueryAnswered \/ QueryFails
    \/ Finished /\ UNCHANGED vars

Spec == Init /\ [][Next]_vars

-----------------------------------------------------------------------------
(* Properties *)

TypeOK ==
    /\ scope \in Scopes
    /\ monitoring \in BOOLEAN /\ epoch \in 1 .. 10 /\ gate \in {0} \cup Streams /\ stopping \in BOOLEAN
    /\ Len(queue) <= QueueMax
    /\ worker \in {"run", "unwound", "dead", "gone"}
    /\ active \in 0 .. Cardinality(Streams) /\ parsers \in 0 .. Limit
    /\ \A s \in Streams : /\ ticket[s].pending \in Nat
                          /\ conn[s].st \in {"none", "live", "done"}

InQueue(s, T) == Cardinality({i \in DOMAIN queue : queue[i].s = s /\ queue[i].t \in T})
                 + IF tap[s].wait \in T THEN 1 ELSE 0

\* Ticket.pending is exactly the number of the tap's events the worker has yet to
\* handle: reap reads it as "nothing more will come", so a count that is one short
\* ends a stream with its data still queued, and one too many keeps it forever.
PendingExact ==
    Connected => \A s \in Streams : ticket[s].pending = InQueue(s, {"data", "eof"})

\* Runtime.active and Runtime.parsers count the streams that are open, on every
\* path: admission refused half way, a full queue, replay into a freed slot, stop.
\* A leak would refuse taps for the rest of the run.
SlotsExact ==
    Connected =>
       LET open == {s \in Streams : conn[s].st = "live" \/ InQueue(s, {"open"}) = 1} IN
       /\ active = Cardinality(open)
       /\ parsers = Cardinality({s \in open : ticket[s].slot})

\* A stream that is reported complete has no hole: everything its owner offered
\* since the connection began was analysed, and the payload entry that does not
\* call itself short holds all of it.
CompleteIsWhole ==
    \A s \in Streams :
        conn[s].complete /\ ~RecordingFailed =>
            /\ conn[s].got = tap[s].offered
            /\ ~conn[s].short => conn[s].stored = tap[s].offered

\* When analysis_stop has answered, the barrier held: no stream is open, no event
\* of one is queued, no notice is in flight, and every tap finds the gate shut.
StopIsFinal ==
    ctl.st = "idle" /\ epoch % 2 = 0 /\ Connected =>
        /\ Live(conn) = {} /\ active = 0 /\ parsers = 0 /\ rec.inflight = 0
        /\ \A s \in Streams : InQueue(s, {"open", "data", "eof"}) = 0

\* A recording whose manifest says completed without a gap holds every chunk that
\* a tap accepted, every notice that was admitted and no backlog, unless its status
\* (or the worker's last breath) says that the worker died.
CompletedIsWhole ==
    rec.manifest = "completed" /\ rec.gaps = 0 /\ ~rec.stopped /\ worker # "unwound" =>
        /\ rec.logged = rec.admitted /\ rec.queued = rec.resumed
        /\ \A s \in Streams : conn[s].stored = tap[s].taken

\* Every record up to the consumer's position was delivered to it or counted in
\* some lost_before, across evictions between two polls.
PollAccounts == ui.seen + ui.missed = ui.after

\* After stop answered, nothing is published until the next start.
NothingLate == [][ctl.st = "idle" /\ epoch % 2 = 0 /\ worker # "gone" => sequence' = sequence]_vars

=============================================================================
