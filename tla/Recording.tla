----------------------------- MODULE Recording -----------------------------
(***************************************************************************)
(* The payload cache of ProxyLaneProtocol (cache.rs), its recording format *)
(* (recording*.rs) and the reader of finished recordings.                  *)
(*                                                                         *)
(* Producers (parsers, on the analysis thread) register entries, append    *)
(* chunks and finish them through one bounded queue; a single disk worker  *)
(* takes the commands.  An ordinary cache is lossy: what does not fit the  *)
(* queue is dropped, finished entries are evicted for room.  A retained    *)
(* recording waits for the queue, pages entries out to metadata files, and *)
(* keeps a journal: a detail file per entry, a list index with one row per *)
(* change of a detail, an event line, all charged to one capacity.         *)
(* A chunk, a file, a row, a line and the manifest are one unit each; the  *)
(* two directions of an entry are counted together.                        *)
(***************************************************************************)
EXTENDS Naturals, FiniteSets, Sequences, SequencesExt, FiniteSetsExt

CONSTANTS Entries,     \* entries by their id: a set of naturals
          QueueMax,    \* queue_chunks
          EntryBytes,  \* entry_bytes of a lossy cache
          TotalBytes,  \* total_bytes of a lossy cache
          Scopes       \* what may happen in a behaviour: see MCAnalysis

VARIABLES scope,    \* the member of Scopes this behaviour explores
          env,      \* the faults and reads that may still happen; closed: no new entries
          prod,     \* the producer of each entry
          ticket,   \* the Ticket of each entry
          queue,    \* the sync_channel of commands
          clock,    \* Inner.completion
          open,     \* Inner.sender is present
          worker,   \* "run", "dead" (panicked), "gone" (left), "crashed"
          wk,       \* Worker: records, saved metadata, payload files, used_bytes
          jr,       \* Journal and recording::State
          look,     \* the last answer a window got about a payload
          view      \* what the reader found: "none", "open", "refused", "rebuilt"

vars == <<scope, env, prod, ticket, queue, clock, open, worker, wk, jr, look, view>>

Retained == scope.retained
MaxEntries == scope.entries   \* max_entries
Reserve == 3              \* RESERVE: the final manifest, one pending row, the end row
ManifestReserve == 1      \* the 8192 bytes charge keeps free

NoDetail == [on |-> FALSE, typed |-> FALSE, bytes |-> 0, fin |-> FALSE, pend |-> 0,
             short |-> FALSE, end |-> FALSE, dec |-> "none"]
NoSaved == [on |-> FALSE, bytes |-> 0, fin |-> FALSE, pend |-> 0, short |-> FALSE, info |-> FALSE]
NoRecord == [st |-> "no", stored |-> 0, stopped |-> FALSE, dirty |-> FALSE]

\* The journal a new recording starts with: header row, manifest, one event line, the reserve.
NewJournal ==
    [used |-> Reserve + 3, lines |-> 1, stopped |-> FALSE, quota |-> FALSE, ended |-> FALSE,
     detail |-> [e \in Entries |-> NoDetail], rows |-> <<>>, sealed |-> FALSE, torn |-> FALSE,
     failed |-> FALSE, pend |-> <<>>, reserve |-> TRUE, issues |-> 0, gaps |-> 0,
     manifest |-> "recording", lock |-> TRUE]

Init ==
    /\ scope \in Scopes
    /\ env = [faults |-> scope.faults, reads |-> scope.reads, ticks |-> scope.ticks, closed |-> FALSE]
    /\ prod = [e \in Entries |-> [pc |-> 1, sent |-> 0, wait |-> FALSE, ref |-> "held"]]
    /\ ticket = [e \in Entries |-> [accepting |-> TRUE, pending |-> 0, order |-> 0,
                                    short |-> FALSE, bytes |-> 0, evicted |-> FALSE, info |-> FALSE]]
    /\ queue = <<>> /\ clock = 1 /\ open = TRUE /\ worker = "run"
    /\ wk = [rec |-> [e \in Entries |-> NoRecord], saved |-> [e \in Entries |-> NoSaved],
             file |-> [e \in Entries |-> 0], restored |-> 0, used |-> 0]
    /\ jr = NewJournal
    /\ look = [st |-> "none", e |-> 0, size |-> 0]
    /\ view = "none"

-----------------------------------------------------------------------------
(* Worker operations are functions on the state the worker can change:     *)
(* x.t the tickets, x.w the worker, x.j the journal, x.ok the last Result. *)

Work == [t |-> ticket, w |-> wk, j |-> jr, ok |-> TRUE]
Becomes(x) == ticket' = x.t /\ wk' = x.w /\ jr' = x.j
Failed(x) == [x EXCEPT !.ok = FALSE]
Accepts(j) == ~j.stopped /\ ~j.ended

\* Ticket::stop keeps the first reason; State::stop ends the recording.
StopTicket(x, e) == [x EXCEPT !.t[e].accepting = FALSE, !.t[e].short = TRUE]
StopState(x) == [x EXCEPT !.j.stopped = @ \/ Retained]

\* Ticket::snapshot
Snapshot(t) == [on |-> TRUE, bytes |-> t.bytes, fin |-> t.order # 0, pend |-> t.pending,
                short |-> t.short, info |-> t.info]

\* Journal::charge of one unit; the disk reserve ends a recording in the same way.
Charge(x) ==
    IF x.j.stopped THEN Failed(x)
    ELSE IF x.j.used + 1 > scope.capacity - ManifestReserve
         THEN [Failed(x) EXCEPT !.j.stopped = TRUE, !.j.quota = TRUE]
         ELSE [x EXCEPT !.ok = TRUE, !.j.used = @ + 1]

\* The list row of a detail (recording_index::summary).
Row(e, d) == [e |-> e, bytes |-> d.bytes,
              complete |-> IF scope.kind[e] = "stream" THEN d.fin /\ ~d.short ELSE d.end]
RowsOf(rows, e) == SelectSeq(rows, LAMBDA r : r.e = e)
Latest(rows, e) == IF RowsOf(rows, e) = <<>> THEN [e |-> 0] ELSE Last(RowsOf(rows, e))

\* working_file of the session detail: charge the new file, write, refund the old one.
DetailWritten(y, e, d, f) ==
    IF ~y.ok THEN y
    ELSE IF f = "detail" THEN [Failed(y) EXCEPT !.j.failed = TRUE]
    ELSE [y EXCEPT !.j.detail[e] = d, !.j.used = @ - IF y.j.detail[e].on THEN 1 ELSE 0]
WriteDetail(x, e, d, f) ==
    IF x.j.detail[e] = d THEN [x EXCEPT !.ok = TRUE]
    ELSE DetailWritten(Charge(x), e, d, f)

\* Mutant: a row refused by the quota is forgotten.
RowForgotten(y, r) == y
\* list_snapshot: the first row the quota refused is kept for the end.
RowRefused(y, r) ==
    IF y.j.quota /\ y.j.pend = <<>> THEN [y EXCEPT !.j.pend = <<r>>] ELSE [y EXCEPT !.j.failed = TRUE]

\* list_write.
ListWrite(y, r, f) ==
    IF ~y.ok THEN RowRefused(y, r)
    ELSE IF f = "row" THEN [Failed(y) EXCEPT !.j.failed = TRUE, !.j.torn = TRUE]
    ELSE [y EXCEPT !.j.rows = Append(@, r)]
\* list_snapshot: the detail is committed before its row is.
ListSnapshot(x, e, d, f) ==
    IF ~x.ok THEN x
    ELSE IF ~d.typed \/ Latest(x.j.rows, e) = Row(e, d) THEN [x EXCEPT !.ok = TRUE]
    ELSE ListWrite(IF f = "stop" THEN Failed(StopState(x)) ELSE Charge(x), Row(e, d), f)

\* The append-only event line.
LineWritten(y, f) == IF ~y.ok THEN y ELSE IF f = "line" THEN Failed(y) ELSE [y EXCEPT !.j.lines = @ + 1]
EventLine(x, f) == IF x.ok THEN LineWritten(Charge(x), f) ELSE x

\* Journal::event with the projection of recording_view: d is the new detail.
\* Worker::event stops the recording on an error.
OrStop(x) == IF x.ok THEN x ELSE StopState(x)
JournalEvent(x, e, d, f) ==
    IF x.j.ended THEN [x EXCEPT !.ok = TRUE]
    ELSE IF x.j.stopped THEN Failed(x)
    ELSE OrStop(EventLine(ListSnapshot(WriteDetail(x, e, d, f), e, d, f), f))

\* What the projection of each event type makes of the saved detail.
Registered(d) == [d EXCEPT !.on = TRUE]
Headed(d) == [d EXCEPT !.on = TRUE, !.typed = TRUE]
Ended(d) == [d EXCEPT !.on = TRUE, !.typed = TRUE, !.end = TRUE]
Checked(e, d, t) == [d EXCEPT !.on = TRUE, !.typed = @ \/ scope.kind[e] = "stream",
                              !.bytes = t.bytes, !.fin = t.order # 0, !.pend = t.pending, !.short = t.short]
Decoded(d, s) == [d EXCEPT !.dec = s]

\* check_entry: sync the payload, write the checkpoint, close the files of a finished entry.
CheckEntry(x, e, f) ==
    IF ~Retained \/ ~x.w.rec[e].dirty THEN x
    ELSE JournalEvent([x EXCEPT !.w.rec[e].dirty = FALSE], e, Checked(e, x.j.detail[e], x.t[e]), f)

InOrder == SetToSortSeq(Entries, LAMBDA a, b : a < b)
CheckAll(x, f) == FoldLeft(LAMBDA y, e : CheckEntry(y, e, f), x, InOrder)

-----------------------------------------------------------------------------
(* Records: the entries whose metadata is in memory. *)

Held(x) == {e \in Entries : x.w.rec[e].st # "no"}

\* The order Worker::oldest compares: a restored copy counts as finished first.
Order(x, e) == IF x.w.rec[e].st = "copy" THEN 1 ELSE x.t[e].order
Idle(x, e) == x.w.rec[e].st = "copy" \/ (x.t[e].order # 0 /\ x.t[e].pending = 0)
Evictable(x) == {e \in Held(x) : Idle(x, e)}
\* Worker::oldest (of equal orders the smaller id); a recording takes any entry then.
Oldest(x) == CHOOSE e \in Evictable(x) : \A o \in Evictable(x) :
                 Order(x, e) < Order(x, o) \/ (Order(x, e) = Order(x, o) /\ e <= o)
Victims(x) == IF Evictable(x) # {} THEN {Oldest(x)}
              ELSE IF Retained THEN {Min(Held(x))} ELSE {}

\* evict of a recording: the metadata goes to its working file.
Metadata(x, e) == IF x.w.rec[e].st = "copy" THEN [x.w.saved[e] EXCEPT !.fin = TRUE] ELSE Snapshot(x.t[e])
PagedOut(y, e, s) ==
    IF ~y.ok THEN y
    ELSE [y EXCEPT !.w.saved[e] = s, !.w.rec[e] = NoRecord,
                   !.j.used = @ - IF y.w.saved[e] # s /\ y.w.saved[e].on THEN 1 ELSE 0]
PageOut(x, e) ==
    PagedOut(IF x.w.saved[e] = Metadata(x, e) THEN [x EXCEPT !.ok = TRUE] ELSE Charge(x), e, Metadata(x, e))

\* evict of a lossy cache: the payload goes.
Discard(x, e, f) ==
    LET y == [StopTicket(x, e) EXCEPT !.t[e].evicted = TRUE]
    IN  IF f = "remove" /\ y.w.file[e] # 0 THEN Failed(y)
        ELSE [y EXCEPT !.ok = TRUE, !.w.used = @ - y.w.rec[e].stored, !.w.file[e] = 0,
                       !.w.rec[e] = NoRecord, !.t[e].bytes = 0]
Evict(x, e, f) == IF Retained THEN PageOut(x, e) ELSE Discard(x, e, f)

\* Room for one more record: at most one is evicted.
MakeRoom(x, f) ==
    IF Cardinality(Held(x)) < MaxEntries \/ Victims(x) = {} THEN [x EXCEPT !.ok = TRUE]
    ELSE Evict(x, CHOOSE v \in Victims(x) : TRUE, f)

\* restore_live: the producer's own ticket becomes the record again.
Readmitted(y, e) ==
    IF ~y.ok THEN y
    ELSE [y EXCEPT !.w.rec[e] = [st |-> "own", stored |-> y.t[e].bytes, stopped |-> y.t[e].short, dirty |-> TRUE]]
RestoreLive(x, e, f) ==
    IF x.w.rec[e].st = "own" THEN x
    ELSE Readmitted(MakeRoom([x EXCEPT !.w.rec[e] = NoRecord, !.w.restored = IF @ = e THEN 0 ELSE @], f), e)

\* restore: a read-only copy of a paged-out entry, one at a time.
Restore(x, e) ==
    IF e \in Held(x) \/ ~Retained \/ ~x.w.saved[e].on THEN x
    ELSE LET y == IF x.w.restored # 0 THEN [x EXCEPT !.w.rec[x.w.restored] = NoRecord] ELSE x
         IN  [y EXCEPT !.w.restored = e,
                       !.w.rec[e] = [st |-> "copy", stored |-> x.w.saved[e].bytes,
                                     stopped |-> TRUE, dirty |-> FALSE]]

-----------------------------------------------------------------------------
(* The commands. *)

Admitted(y, e, f) ==
    IF ~y.ok THEN StopState(StopTicket(y, e))
    ELSE [IF Retained THEN JournalEvent(y, e, Registered(y.j.detail[e]), f) ELSE y
            EXCEPT !.w.rec[e] = [st |-> "own", stored |-> 0, stopped |-> FALSE, dirty |-> TRUE]]
Register(x, e, f) ==
    IF Cardinality(Held(x)) >= MaxEntries /\ Victims(x) = {} THEN StopTicket(x, e)
    ELSE Admitted(MakeRoom(x, f), e, f)

\* Worker::stop
StopEntry(x, e) == StopState(StopTicket([x EXCEPT !.w.rec[e].stopped = @ \/ x.w.rec[e].st # "no"], e))

\* The write of one chunk; a failed one leaves the file as it was or grown.
Store(x, e, f) ==
    IF f = "payload" THEN StopEntry(x, e)
    ELSE [x EXCEPT !.w.file[e] = @ + 1, !.w.rec[e].stored = @ + 1, !.w.rec[e].dirty = TRUE,
                   !.t[e].bytes = x.w.rec[e].stored + 1,
                   !.w.used = @ + IF Retained THEN 0 ELSE 1]

\* A lossy cache evicts the oldest finished entries until the chunk fits.
FinishedFirst(x) == SetToSortSeq(Evictable(x), LAMBDA a, b : Order(x, a) < Order(x, b))
EvictForRoom(x, f) ==
    FoldLeft(LAMBDA y, e : IF ~y.ok \/ y.w.used < TotalBytes THEN y ELSE Evict(y, e, f),
             [x EXCEPT !.ok = TRUE], FinishedFirst(x))

StoreOrStop(y, e, f) ==
    IF ~y.ok \/ (~Retained /\ y.w.used >= TotalBytes) THEN StopEntry(y, e) ELSE Store(y, e, f)
AppendLossy(x, e, f) ==
    IF x.w.rec[e].st = "no" \/ x.w.rec[e].stopped THEN x
    ELSE IF x.w.rec[e].stored >= EntryBytes THEN StopEntry(x, e)
    ELSE StoreOrStop(EvictForRoom(x, f), e, f)

AppendRetained(y, e, f) ==
    IF y.w.rec[e].st # "own" THEN StopState(y)
    ELSE IF y.w.rec[e].stopped \/ ~Accepts(y.j) THEN y
    ELSE StoreOrStop(Charge(y), e, f)

\* Command::Append: the chunk stays pending while it is written.
AppendChunk(x, e, f) ==
    [IF Retained THEN AppendRetained(RestoreLive(x, e, f), e, f) ELSE AppendLossy(x, e, f)
       EXCEPT !.t[e].pending = @ - 1]

\* recording_decode::run: the output of a compressed body is charged too.
SourceWhole(x, e) == scope.completes[e] /\ x.w.rec[e].stored = prod[e].sent
DecodeState(x, e, ok) == IF ok /\ SourceWhole(x, e) THEN "complete"
                         ELSE IF x.w.rec[e].stored # 0 THEN "partial" ELSE "failed"

Unpacked(a) == IF a.ok THEN Charge(a) ELSE a
DecodeFails(b, f) == IF b.ok /\ f = "decode" THEN Failed(StopState(b)) ELSE b
DecodeEnds(c, e, f) == JournalEvent(c, e, Decoded(c.j.detail[e], DecodeState(c, e, c.ok)), f)
DecodeRun(x, e, f) ==
    IF scope.kind[e] = "stream" \/ ~Accepts(x.j) THEN x
    ELSE DecodeEnds(DecodeFails(IF scope.kind[e] = "packed"
                                  THEN Unpacked(JournalEvent(x, e, Decoded(x.j.detail[e], "decoding"), f))
                                ELSE [x EXCEPT !.ok = TRUE], f), e, f)

\* Worker::finished: the last checkpoint of the entry, then the decoding of its body.
FinishRecord(y, e, f) ==
    IF y.w.rec[e].st # "own" THEN StopState(y)
    ELSE DecodeRun(CheckEntry([y EXCEPT !.w.rec[e].dirty = TRUE], e, f), e, f)
FinishEntry(x, e, f) == FinishRecord(RestoreLive(x, e, f), e, f)

\* Journal::issues: a line for every notice of a gap.
Notices(x) ==
    IF x.j.stopped \/ x.j.issues = 0 THEN x
    ELSE LineWritten(Charge([x EXCEPT !.j.issues = 0]), "none")

\* Journal::finish: the last rows are paid from the reserve, never through charge.
FreeReserve(n) ==
    IF n.j.reserve THEN [n EXCEPT !.j.reserve = FALSE, !.j.used = @ - Reserve]
    ELSE [StopState(n) EXCEPT !.j.failed = TRUE]
Seal(x, f) ==
    IF ~x.j.failed /\ f # "row"
      THEN [x EXCEPT !.j.rows = @ \o x.j.pend, !.j.pend = <<>>, !.j.sealed = TRUE, !.j.used = @ + Len(x.j.pend) + 1]
    ELSE [x EXCEPT !.j.failed = TRUE, !.j.torn = @ \/ ~x.j.failed, !.j.stopped = @ \/ ~x.j.failed]
Manifest(s) ==
    [s EXCEPT !.j.ended = TRUE, !.j.lock = FALSE, !.j.manifest = IF s.j.stopped THEN "stopped" ELSE "completed"]
Finish(x, f) == IF x.j.ended THEN x ELSE Manifest(Seal(FreeReserve(Notices(x)), f))

\* Worker::checkpoint, every second and at the end.
FinishIfStopped(x, f) == IF x.j.stopped THEN Finish(x, f) ELSE x
Checkpoint(x, f) == IF Retained THEN FinishIfStopped(Notices(CheckAll(x, f)), f) ELSE x

\* Query::Reference: the ticket of an exchange that was paged out with its parser state.
Reference(x, e, f) ==
    IF x.w.rec[e].st = "own" THEN [x EXCEPT !.ok = TRUE]
    ELSE IF ~x.w.saved[e].on THEN Failed(x)
    ELSE LET s == x.w.saved[e]
         IN  RestoreLive([x EXCEPT !.t[e] = [accepting |-> ~s.short, pending |-> 0,
                                             order |-> IF s.fin THEN 1 ELSE 0, short |-> s.short,
                                             bytes |-> s.bytes, evicted |-> FALSE, info |-> s.info]], e, f)

\* The guard of Query::Read for a decoded body; the info of an entry is set when it is finished.
DecodeAllowed(x, e) ==
    /\ x.w.rec[e].st # "no" /\ ~x.t[e].evicted
    /\ LET s == Metadata(x, e)
       IN  s.fin /\ s.pend = 0 /\ s.info /\ scope.completes[e] /\ x.w.rec[e].stored = prod[e].sent

\* One command of the queue.
Perform(x, c, f) ==
    CASE c.t = "register" -> Register(x, c.e, f)
      [] c.t = "append"   -> AppendChunk(x, c.e, f)
      [] c.t = "head"     -> JournalEvent(x, c.e, Headed(x.j.detail[c.e]), f)
      [] c.t = "end"      -> JournalEvent(x, c.e, Ended(x.j.detail[c.e]), f)
      [] c.t = "finished" -> FinishEntry(x, c.e, f)
      [] c.t \in {"status", "decode"} -> Restore(x, c.e)
      [] c.t = "reference" -> Reference(x, c.e, f)
      [] c.t = "stop"     -> Finish(Checkpoint(x, f), f)

-----------------------------------------------------------------------------
(* Producers. *)

Plan(e) ==
    LET chunks == [i \in 1..scope.chunks[e] |-> "append"]
    IN  IF scope.kind[e] = "unused" THEN <<>>
        ELSE IF scope.kind[e] = "stream" THEN <<"register">> \o chunks \o <<"finished">>
        ELSE <<"register", "head">> \o chunks \o <<"end", "finished">>
Command(t, e) == [t |-> t, e |-> e]
Done(e) == prod[e].pc > Len(Plan(e))
Alive == worker # "crashed"
Sending == open /\ worker = "run"
Room == Len(queue) < QueueMax

\* A call that sends nothing: the recording is over, or the ticket was stopped.
Skips(e, c) ==
    \/ c \in {"head", "end"} /\ (~Retained \/ ~Accepts(jr))
    \/ c = "append" /\ (~ticket[e].accepting \/ (Retained /\ ~Accepts(jr)))
    \/ c = "finished" /\ (~Retained \/ ticket[e].order # 0)

\* What the call does to the ticket before it sends: CacheRef::append and finish_stream.
Touched(e, c) ==
    CASE c = "append" /\ ~Skips(e, c) -> [ticket[e] EXCEPT !.pending = @ + 1]
      [] c = "finished" /\ ticket[e].order = 0 ->
            LET cut == scope.kind[e] = "stream" /\ ~scope.completes[e]
            IN  [ticket[e] EXCEPT !.order = clock, !.info = TRUE, !.short = @ \/ cut, !.accepting = @ /\ ~cut]
      [] OTHER -> ticket[e]

\* Mutant: a chunk the full queue refused is not a loss.
RefusedSilently(t, c) == IF c = "append" THEN [t EXCEPT !.pending = @ - 1] ELSE t
\* The error path of a send: the chunk is given back, the ticket is stopped.
Refused(t, c) ==
    CASE c = "append" -> [t EXCEPT !.pending = @ - 1, !.accepting = FALSE, !.short = TRUE]
      [] c = "register" -> [t EXCEPT !.accepting = FALSE, !.short = TRUE]
      [] OTHER -> t

\* Inner::fail, unless the queue was full.
Broken == jr' = IF Sending THEN jr ELSE [jr EXCEPT !.stopped = @ \/ Retained]

Produce(e) ==
    /\ Alive /\ prod[e].ref = "held" /\ ~prod[e].wait /\ ~Done(e)
    /\ env.closed => prod[e].pc > 1
    /\ LET c == Plan(e)[prod[e].pc]
           blocks == ~Skips(e, c) /\ Sending /\ ~Room /\ Retained
           sends == ~Skips(e, c) /\ Sending /\ Room
           fails == ~Skips(e, c) /\ ~sends /\ ~blocks
       IN  /\ prod' = [prod EXCEPT ![e].pc = @ + 1, ![e].wait = blocks,
                                   ![e].sent = @ + IF c = "append" THEN 1 ELSE 0]
           /\ ticket' = [ticket EXCEPT ![e] = IF fails THEN Refused(Touched(e, c), c) ELSE Touched(e, c)]
           /\ clock' = clock + IF c = "finished" /\ ticket[e].order = 0 THEN 1 ELSE 0
           /\ queue' = IF sends THEN Append(queue, Command(c, e)) ELSE queue
           /\ IF fails THEN Broken ELSE UNCHANGED jr
    /\ UNCHANGED <<scope, env, open, worker, wk, look, view>>

\* The blocking send of a recording ends: with room, or with the receiver gone.
Unblock(e) ==
    /\ Alive /\ prod[e].wait
    /\ LET c == Plan(e)[prod[e].pc - 1]
       IN  \/ /\ worker = "run" /\ Room
              /\ queue' = Append(queue, Command(c, e))
              /\ UNCHANGED <<ticket, jr>>
           \/ /\ worker # "run"
              /\ ticket' = [ticket EXCEPT ![e] = Refused(@, c)]
              /\ jr' = [jr EXCEPT !.stopped = TRUE]
              /\ UNCHANGED queue
    /\ prod' = [prod EXCEPT ![e].wait = FALSE]
    /\ UNCHANGED <<scope, env, clock, open, worker, wk, look, view>>

\* pending.rs: an exchange that waits for its answer is paged out with its ticket.
Spill(e) ==
    /\ Alive /\ "spill" \in env.faults /\ scope.kind[e] # "stream"
    /\ prod[e].ref = "held" /\ ~prod[e].wait /\ prod[e].pc > 2 /\ ~Done(e)
    /\ prod' = [prod EXCEPT ![e].ref = "spilled"]
    /\ env' = [env EXCEPT !.faults = @ \ {"spill"}]
    /\ UNCHANGED <<scope, ticket, queue, clock, open, worker, wk, jr, look, view>>

\* PayloadCache::reference when the exchange is loaded again.
Ask(e) ==
    /\ prod[e].ref = "spilled" /\ Sending /\ Room
    /\ prod' = [prod EXCEPT ![e].ref = "asked"]
    /\ queue' = Append(queue, Command("reference", e))
    /\ UNCHANGED <<scope, env, ticket, clock, open, worker, wk, jr, look, view>>

-----------------------------------------------------------------------------
(* The disk worker. *)

\* A fault is taken only where it makes a difference: x is what happens, calm what would without.
Faults == {"none"} \cup env.faults
Tells(f, x, calm) == f = "none" \/ x # calm
Spent(f) == env' = [env EXCEPT !.faults = @ \ {f}]

WorkerStep ==
    /\ worker = "run" /\ queue # <<>>
    /\ \E c \in {Head(queue)}, f \in Faults : \E x \in {Perform(Work, c, f)} :
         /\ Tells(f, x, Perform(Work, c, "none")) /\ Becomes(x) /\ Spent(f)
         /\ prod' = IF c.t = "reference" THEN [prod EXCEPT ![c.e].ref = IF x.ok THEN "held" ELSE "lost"] ELSE prod
         /\ look' = IF c.t # "decode" THEN look
                    ELSE [st |-> IF DecodeAllowed(x, c.e) THEN "decoded" ELSE "refused",
                          e |-> c.e, size |-> x.w.rec[c.e].stored]
    /\ queue' = Tail(queue)
    /\ UNCHANGED <<scope, clock, open, worker, view>>

\* The checkpoint of every second.
Tick ==
    /\ worker = "run" /\ Retained /\ env.ticks > 0
    /\ \E f \in Faults : \E x \in {Checkpoint(Work, f)} :
         /\ Tells(f, x, Checkpoint(Work, "none")) /\ Becomes(x)
         /\ env' = [env EXCEPT !.ticks = @ - 1, !.faults = @ \ {f}]
    /\ UNCHANGED <<scope, prod, queue, clock, open, worker, look, view>>

\* The worker's end: tickets that are still in memory are stopped, a lossy run is removed.
Leave(x) ==
    [x EXCEPT !.t = [e \in Entries |-> IF e \in Held(x) THEN StopTicket(x, e).t[e] ELSE x.t[e]],
              !.w = [@ EXCEPT !.rec = [e \in Entries |-> NoRecord],
                              !.file = IF Retained THEN @ ELSE [e \in Entries |-> 0],
                              !.used = IF Retained THEN @ ELSE 0]]

LastWrites(x, f) == IF Retained THEN Finish(Checkpoint(x, f), f) ELSE x

\* The last sender is gone and the queue is drained.
WorkerLeave ==
    /\ worker = "run" /\ ~open /\ queue = <<>> /\ \A e \in Entries : ~prod[e].wait
    /\ \E f \in Faults : \E x \in {LastWrites(Work, f)} :
         Tells(f, x, LastWrites(Work, "none")) /\ Becomes(Leave(x)) /\ Spent(f)
    /\ worker' = "gone"
    /\ UNCHANGED <<scope, prod, queue, clock, open, look, view>>

\* How far a handler came when it unwound or the process died: nothing of it, or the
\* detail without its row.
Halfway ==
    {Work} \cup
    IF queue = <<>> \/ ~Retained \/ ~Accepts(jr) THEN {}
    ELSE LET c == Head(queue)
             d == jr.detail[c.e]
         IN  CASE c.t = "head" -> {WriteDetail(Work, c.e, Headed(d), "none")}
               [] c.t = "end" -> {WriteDetail(Work, c.e, Ended(d), "none")}
               [] c.t = "finished" -> {WriteDetail(Work, c.e, Checked(c.e, d, ticket[c.e]), "none")}
               [] OTHER -> {}

\* worker_panicked: the index is not trusted any more, the terminal manifest is written again.
Panicked(x) == [x EXCEPT !.j.failed = TRUE, !.j.stopped = TRUE, !.j.ended = FALSE, !.j.gaps = @ + 1]

\* catch_unwind of the worker thread: the receiver is dropped before the last disk writes.
WorkerPanics ==
    /\ worker = "run" /\ "panic" \in env.faults
    /\ \E x \in Halfway : Becomes(Leave(IF Retained THEN Finish(Panicked(x), "none") ELSE x))
    /\ worker' = "dead" /\ queue' = <<>>
    /\ prod' = [e \in Entries |-> IF prod[e].ref = "asked" THEN [prod[e] EXCEPT !.ref = "lost"] ELSE prod[e]]
    /\ Spent("panic")
    /\ UNCHANGED <<scope, clock, open, look, view>>

\* The process ends in the middle; what was written stays.
Crash ==
    /\ worker = "run" /\ "crash" \in env.faults
    /\ \E x \in Halfway : wk' = x.w /\ jr' = [x.j EXCEPT !.lock = FALSE]
    /\ worker' = "crashed" /\ open' = FALSE /\ queue' = <<>>
    /\ Spent("crash")
    /\ UNCHANGED <<scope, prod, ticket, clock, look, view>>

\* RunDirectory::create of the next process removes the run nobody owns.
RecoverRun ==
    /\ worker = "crashed" /\ ~Retained /\ \E e \in Entries : wk.file[e] # 0
    /\ wk' = [wk EXCEPT !.file = [e \in Entries |-> 0]]
    /\ UNCHANGED <<scope, env, prod, ticket, queue, clock, open, worker, jr, look, view>>

-----------------------------------------------------------------------------
(* The others. *)

\* A status or read request of the window.
Status(e) ==
    /\ Sending /\ Room /\ env.reads > 0 /\ prod[e].pc > 1
    /\ \E t \in {"status", "decode"} : queue' = Append(queue, Command(t, e))
    /\ env' = [env EXCEPT !.reads = @ - 1]
    /\ UNCHANGED <<scope, prod, ticket, clock, open, worker, wk, jr, look, view>>

\* preview::Reader::snapshot: the ticket while it is admitted or published, the saved entry after.
PreviewSize(e) == IF wk.saved[e].on /\ wk.rec[e].st # "own" THEN wk.saved[e].bytes ELSE ticket[e].bytes

\* A live preview takes the count without the worker and reads the file later.
Preview(e) ==
    /\ Alive /\ Retained /\ env.reads > 0 /\ prod[e].pc > 1 /\ look.st = "none"
    /\ look' = [st |-> "preview", e |-> e, size |-> PreviewSize(e)]
    /\ env' = [env EXCEPT !.reads = @ - 1]
    /\ UNCHANGED <<scope, prod, ticket, queue, clock, open, worker, wk, jr, view>>

\* recording_issue of the analysis thread.
Issue ==
    /\ Alive /\ Retained /\ "issue" \in env.faults /\ Accepts(jr)
    /\ jr' = [jr EXCEPT !.issues = @ + 1, !.gaps = @ + 1]
    /\ Spent("issue")
    /\ UNCHANGED <<scope, prod, ticket, queue, clock, open, worker, wk, look, view>>

Quiet == \A e \in Entries : ~prod[e].wait /\ (Done(e) \/ prod[e].pc = 1 \/ prod[e].ref = "lost")

\* finish_recording: the capture has closed its gate and drained its own queue before (module
\* Capture, StopIsFinal), so no producer is under way and none starts.
StopRecording ==
    /\ Retained /\ Sending /\ Room /\ Quiet /\ "stop" \in scope.requests
    /\ ~env.closed
    /\ queue' = Append(queue, Command("stop", 0))
    /\ env' = [env EXCEPT !.closed = TRUE]
    /\ UNCHANGED <<scope, prod, ticket, clock, open, worker, wk, jr, look, view>>

\* Inner::shutdown: no more senders.
Shutdown ==
    /\ Alive /\ open /\ "shutdown" \in scope.requests
    /\ Retained => Quiet
    /\ open' = FALSE /\ env' = [env EXCEPT !.closed = @ \/ Retained]
    /\ UNCHANGED <<scope, prod, ticket, queue, clock, worker, wk, jr, look, view>>

\* Reader::load_index: the header, contiguous rows, the end row and nothing behind it.
Openable == jr.sealed /\ ~jr.torn
Over == worker \in {"gone", "dead", "crashed"}

ReaderOpen ==
    /\ Retained /\ view = "none" /\ (Over \/ jr.ended)
    /\ view' = IF Openable THEN "open" ELSE "refused"
    /\ UNCHANGED <<scope, env, prod, ticket, queue, clock, open, worker, wk, jr, look>>

\* Reader::rebuild: from the detail files, under the lock of the index.
ReaderRebuild ==
    /\ view = "refused" /\ ~jr.lock
    /\ jr' = [jr EXCEPT !.sealed = TRUE, !.torn = FALSE,
                        !.rows = SetToSeq({Row(e, jr.detail[e]) : e \in {d \in Entries : jr.detail[d].typed}})]
    /\ view' = "rebuilt"
    /\ UNCHANGED <<scope, env, prod, ticket, queue, clock, open, worker, wk, look>>

Finished ==
    /\ Over /\ (Alive => \A e \in Entries : ~prod[e].wait)
    /\ UNCHANGED vars

Next ==
    \/ \E e \in Entries : Produce(e) \/ Unblock(e) \/ Spill(e) \/ Ask(e) \/ Status(e) \/ Preview(e)
    \/ WorkerStep \/ Tick \/ WorkerLeave \/ WorkerPanics \/ Crash \/ RecoverRun
    \/ Issue \/ StopRecording \/ Shutdown
    \/ ReaderOpen \/ ReaderRebuild
    \/ Finished

Spec == Init /\ [][Next]_vars

-----------------------------------------------------------------------------
(* Properties. *)

\* The state stays in its types.
TypeOK ==
    /\ worker \in {"run", "dead", "gone", "crashed"} /\ open \in BOOLEAN /\ clock \in Nat
    /\ \A e \in Entries :
        /\ ticket[e].pending \in Nat /\ ticket[e].order \in Nat /\ ticket[e].bytes \in Nat
        /\ wk.rec[e].st \in {"no", "own", "copy"} /\ wk.rec[e].stored \in Nat /\ wk.file[e] \in Nat
        /\ prod[e].ref \in {"held", "spilled", "asked", "lost"}
    /\ wk.restored \in Entries \cup {0} /\ wk.used \in Nat /\ jr.used \in Nat
    /\ view \in {"none", "open", "refused", "rebuilt"}

One(b) == IF b THEN 1 ELSE 0
PayloadBytes == MapThenSumSet(LAMBDA e : wk.file[e], Entries)
MetadataFiles == MapThenSumSet(LAMBDA e : One(jr.detail[e].on) + One(wk.saved[e].on), Entries)
RecordingBytes == PayloadBytes + MetadataFiles + jr.lines + 2 + Len(jr.rows) + One(jr.sealed)
                  + IF jr.reserve THEN Reserve ELSE 0

\* "Quotas ... are enforced by the single disk worker before every write" (cache.rs:1): whatever
\* the files of a run hold is accounted, and the account stays within the capacity, the rows and
\* the manifest written after the quota stopped the recording included.
QuotaKept ==
    IF Retained THEN /\ view # "rebuilt" => RecordingBytes <= jr.used
                     /\ jr.used <= scope.capacity
    ELSE wk.used <= TotalBytes /\ (worker = "run" => PayloadBytes = wk.used)

\* A payload is whole or the entry says that it is not: a finished entry with no chunk pending and
\* no reason has on disk every chunk its producer had, as long as the recording goes on. Evictions,
\* paging out and back in, refused chunks, failed writes and a dead worker do not change that.
WholeOrSaid ==
    \A e \in Entries :
        (/\ ticket[e].order # 0 /\ ticket[e].pending = 0 /\ ~ticket[e].short
         /\ Done(e) /\ prod[e].ref = "held" /\ Alive
         /\ Retained => Accepts(jr))
        => wk.file[e] = prod[e].sent /\ ticket[e].bytes = wk.file[e]

\* A live preview reads a file the worker goes on writing (cache_preview.rs:44): the count it took,
\* from the ticket, or from the metadata of an entry that was paged out meanwhile, is there to read
\* whenever it reads; so is what a checkpoint says.
PreviewIsReadable ==
    Retained => /\ look.st = "preview" => look.size <= wk.file[look.e]
                /\ \A e \in Entries : jr.detail[e].bytes <= wk.file[e]

\* An index the reader opens without a rebuild shows the last committed detail of every entry,
\* whether the recording was completed, stopped by its quota in the middle of an event, failed
\* by an I/O error, killed, or ended by a panic of its worker.
SealedIndexWhole ==
    Openable => \A e \in Entries :
        jr.detail[e].typed => Latest(jr.rows, e) = Row(e, jr.detail[e])

\* A manifest that says "completed" stands over whole payloads: the checkpoint and the row of every
\* entry its producer finished count all of its bytes, and no chunk is pending.
CompletedArchive ==
    jr.manifest = "completed" /\ Retained => \A e \in Entries :
        Done(e) /\ prod[e].pc > 1 =>
                   /\ jr.detail[e].fin /\ jr.detail[e].pend = 0
                   /\ jr.detail[e].bytes = prod[e].sent /\ wk.file[e] = prod[e].sent

\* "Never claim success" (recording_decode.rs:143): a body is recorded or shown as decoded completely
\* only when all of its source is on disk and its parser saw it end.
DecodedIsWhole ==
    /\ \A e \in Entries : jr.detail[e].dec = "complete" =>
           scope.completes[e] /\ wk.file[e] = prod[e].sent
    /\ look.st = "decoded" /\ Alive /\ ~ticket[look.e].evicted =>
           scope.completes[look.e] /\ look.size = prod[look.e].sent

=============================================================================
