---------------------------- MODULE QuicForward ----------------------------
(***************************************************************************)
(* What a terminated QUIC connection forwards.  Its two legs: the one to   *)
(* the origin first, then the application's.  HTTP/3: the loop that        *)
(* accepts requests and drains on GOAWAY (serve in quic_live.rs) and the   *)
(* task of a request, which drives its upload and its response at once     *)
(* (forward).  Other protocols: a stream copied in both directions (copy   *)
(* and relay in quic_raw.rs).                                              *)
(*                                                                         *)
(* Stream IDs are counted 0, 1, 2 (0, 4, 8 on the wire).  A body is a      *)
(* number of pieces; the libraries h3 and quinn are external, a stream     *)
(* may end with "fin" or be reset, or stopped by its reader.               *)
(***************************************************************************)
EXTENDS Integers, Sequences, FiniteSets, Functions

CONSTANTS JobMax,      \* FORWARD_STREAMS
          InfoMax,     \* 16 informational responses
          ForwardPlans

VARIABLES hplan,  \* the requests, the pieces of a body, what goes wrong
          h,      \* the loop
          q,      \* the requests
          rw      \* a stream of another protocol, by direction

hvars == <<hplan, h, q, rw>>

-----------------------------------------------------------------------------
Ids == 0..(hplan.requests - 1)
Dirs == {0, 1}

(* app and up: what the two ends have sent, and how it ended; to and from: *)
(* what was passed on, and how; seen: recorded.                            *)
NewRequest == [st |-> "none", app |-> 0, appEnd |-> "open", stopped |-> "no",
               sent |-> 0, sentEnd |-> "open", upload |-> "run", upStops |-> "no",
               resp |-> <<>>, got |-> 0, back |-> <<>>, backEnd |-> "open", download |-> "run",
               quits |-> FALSE, info |-> 0, seen0 |-> 0, seen1 |-> 0, dispatched |-> FALSE, code |-> "none"]
NewStream == [src |-> 0, srcEnd |-> "open", read |-> 0, held |-> 0, moved |-> 0, dstEnd |-> "open",
              dstStops |-> FALSE, srcStopped |-> FALSE, seen |-> 0, clean |-> FALSE, over |-> FALSE]

HInit ==
  /\ hplan \in ForwardPlans
  /\ h = [st |-> "dial", offer |-> "none", up |-> "none", told |-> "no", waited |-> FALSE, draining |-> FALSE, goaway |-> -1, last |-> 0, high |-> 0, driver |-> TRUE, wanted |-> FALSE]
  /\ q = [r \in 0..2 |-> NewRequest]
  /\ rw = [d \in Dirs |-> NewStream]

Live(r) == q[r].st \in {"resolve", "dispatch", "transfer"}
Jobs == {r \in Ids : Live(r)}
Idle == UNCHANGED <<hplan, h, rw>>
Set(r, x) == q' = [q EXCEPT ![r] = x] /\ Idle

-----------------------------------------------------------------------------
(* serve, before it forwards: the origin selects among the protocols the   *)
(* application offers; what it selects is all the application is offered.  *)
(* When the origin fails, the application's handshake still completes, to  *)
(* tell it so.                                                             *)
Leg(x) == UNCHANGED <<hplan, q, rw>> /\ h' = x
Selected(result) == IF result \in Range(hplan.offers) THEN result ELSE hplan.offers[1]
Dial(result) ==
  /\ h.st = "dial"
  /\ Leg([h EXCEPT !.st = "wait", !.up = IF result \in Range(hplan.offers) THEN result ELSE "failed", !.offer = Selected(result)])
GivesUp(came) == [h EXCEPT !.st = "end"]
Arrived(came) ==
  IF ~came THEN [h EXCEPT !.st = "end", !.waited = TRUE]
  ELSE IF h.up = "failed" THEN [h EXCEPT !.st = "end", !.told = "failed"] ELSE [h EXCEPT !.st = "run"]
AppHandshake(came) == h.st = "wait" /\ Leg(Arrived(came))

(* serve of the other protocols: one leg ends, the other is told how.      *)
RawEnds(how) ==
  /\ h.st = "run" /\ h.offer # "h3" /\ hplan.leaves
  /\ h' = [h EXCEPT !.st = "end", !.told = how]
  /\ rw' = [d \in Dirs |-> [rw[d] EXCEPT !.over = TRUE]]
  /\ UNCHANGED <<hplan, q>>

-----------------------------------------------------------------------------
(* h3's shutdown(n) announces n IDs above the last one accepted. *)
Goaway(x, n) == [x EXCEPT !.goaway = x.last + n, !.draining = TRUE]
AboveLast(x) == 1
Above(x) == x.high - x.last + 1

(* serve: a request stream was accepted. *)
Larger(a, b) == IF a > b THEN a ELSE b
MayAccept == Cardinality(Jobs) < JobMax
Accept(r) ==
  /\ h.st = "run" /\ h.offer = "h3" /\ MayAccept /\ q[r].st = "arrived"
  /\ h' = [h EXCEPT !.last = r, !.high = Larger(@, r)]
  /\ q' = [q EXCEPT ![r].st = IF h.draining THEN "rejected" ELSE "resolve",
                    ![r].code = IF h.draining THEN "rejected" ELSE @,
                    ![r].backEnd = IF h.draining THEN "reset" ELSE @,
                    ![r].stopped = IF h.draining THEN "rejected" ELSE @]
  /\ UNCHANGED <<hplan, rw>>

(* A request asked for it, or the connection to the origin has ended. *)
Drain ==
  /\ h.st = "run" /\ ~h.draining /\ h.wanted /\ h' = Goaway(h, Above(h)) /\ UNCHANGED <<hplan, q, rw>>
DriverEnds ==
  /\ h.st = "run" /\ h.offer = "h3" /\ h.driver /\ hplan.origin
  /\ h' = IF h.draining THEN [h EXCEPT !.driver = FALSE] ELSE Goaway([h EXCEPT !.driver = FALSE], Above(h))
  /\ UNCHANGED <<hplan, q, rw>>

(* The application asks for no more: the loop waits for the close, then    *)
(* ends what is left, as it does when the connection is lost.              *)
NoMore ==
  /\ h.st = "run" /\ h.offer = "h3" /\ hplan.leaves
  /\ h' = [(IF h.draining THEN h ELSE Goaway(h, Above(h))) EXCEPT !.st = "closing"]
  /\ UNCHANGED <<hplan, q, rw>>
Ends ==
  /\ h.st = "closing" \/ (h.st = "run" /\ h.offer = "h3" /\ hplan.leaves)
  /\ h' = [h EXCEPT !.st = "end"]
  /\ q' = [r \in DOMAIN q |-> IF Live(r) THEN [q[r] EXCEPT !.st = "aborted"] ELSE q[r]]
  /\ UNCHANGED <<hplan, rw>>

-----------------------------------------------------------------------------
(* forward: the head of the request is dispatched.  Only a GOAWAY known    *)
(* before that makes a retry safe.                                         *)
Failed(x, code) ==
  [x EXCEPT !.st = "failed", !.code = code, !.backEnd = "reset", !.stopped = code]
DispatchCode(why) == IF why = "closing" THEN "rejected" ELSE "internal"
Resolve(r, ok) ==
  /\ q[r].st = "resolve" /\ Set(r, [q[r] EXCEPT !.st = IF ok THEN "dispatch" ELSE "failed"])
Dispatch(r, why) ==
  /\ q[r].st = "dispatch"
  /\ h' = IF why = "closing" THEN [h EXCEPT !.wanted = TRUE] ELSE h
  /\ q' = [q EXCEPT ![r] = IF why = "ok" THEN [@ EXCEPT !.st = "transfer", !.dispatched = TRUE]
                           ELSE Failed([@ EXCEPT !.dispatched = why = "lost"], DispatchCode(why))]
  /\ UNCHANGED <<hplan, rw>>

(* The select over the two halves: a failed half resets the request, never *)
(* ends it; a finished response ends it whatever the upload does.          *)
Cancel(x) ==
  [x EXCEPT !.st = "failed", !.code = "cancelled", !.stopped = "cancelled",
            !.backEnd = IF @ = "open" THEN "reset" ELSE @, !.sentEnd = IF @ = "open" THEN "reset" ELSE @]
Complete(x) ==
  IF x.upload = "complete" THEN [x EXCEPT !.st = "done"]
  ELSE [x EXCEPT !.st = "done", !.stopped = IF @ = "no" THEN "noerr" ELSE @,
                 !.sentEnd = IF @ = "open" THEN "reset" ELSE @]
Settled(x) ==
  CASE x.upload = "error" \/ x.download = "error" -> Cancel(x)
    [] x.download = "ok" -> Complete(x)
    [] OTHER -> x

(* The upload, one step: recorded, then sent.  An origin that stops it     *)
(* ends the upload, not the request.                                       *)
UploadStopped(x) == [x EXCEPT !.stopped = x.upStops, !.upload = "early"]
SentOn(x) == [x EXCEPT !.sent = @ + 1, !.seen0 = @ + 1]
Uploaded(x) ==
  CASE x.sent < x.app /\ x.upStops = "no" -> SentOn(x)
    [] x.sent < x.app /\ x.upStops # "no" -> UploadStopped([x EXCEPT !.seen0 = @ + 1])
    [] x.sent = x.app /\ x.appEnd = "fin" /\ x.upStops # "no" -> UploadStopped(x)
    [] x.sent = x.app /\ x.appEnd = "fin" /\ x.upStops = "no" -> [x EXCEPT !.sentEnd = "fin", !.upload = "complete"]
    [] x.sent = x.app /\ x.appEnd = "noerr" -> [x EXCEPT !.sentEnd = "reset", !.upload = "early"]
    [] x.sent = x.app /\ x.appEnd = "reset" -> [x EXCEPT !.upload = "error"]
Upload(r) ==
  /\ q[r].st = "transfer" /\ q[r].upload = "run" /\ (q[r].sent < q[r].app \/ q[r].appEnd # "open")
  /\ Set(r, Settled(Uploaded(q[r])))

(* The response, one step: heads, pieces, the end. *)
Downloaded(x) ==
  LET t == x.resp[x.got + 1]
      y == [x EXCEPT !.got = @ + 1]
      z == [y EXCEPT !.seen1 = @ + 1, !.info = IF t = "info" THEN @ + 1 ELSE @]
  IN  CASE t = "reset" \/ (t = "info" /\ x.info = InfoMax) -> [y EXCEPT !.download = "error"]
        [] t # "reset" /\ x.quits -> [z EXCEPT !.download = "error"]
        [] t = "fin" /\ ~x.quits -> [z EXCEPT !.back = Append(@, t), !.backEnd = "fin", !.download = "ok"]
        [] OTHER -> [z EXCEPT !.back = Append(@, t)]
Download(r) ==
  /\ q[r].st = "transfer" /\ q[r].download = "run" /\ q[r].got < Len(q[r].resp)
  /\ Set(r, Settled(Downloaded(q[r])))

(* The two ends. *)
AppOpens(r) == h.st = "run" /\ h.offer = "h3" /\ q[r].st = "none" /\ r \in Ids /\ Set(r, [q[r] EXCEPT !.st = "arrived"])
AppSends(r) ==
  q[r].st # "none" /\ q[r].appEnd = "open" /\ q[r].app < hplan.body /\ Set(r, [q[r] EXCEPT !.app = @ + 1])
AppEnds(r, how) ==
  /\ q[r].st # "none" /\ q[r].appEnd = "open"
  /\ \/ how = "fin" /\ q[r].app = hplan.body
     \/ how = "reset" /\ hplan.faults
     \/ how = "noerr" /\ hplan.faults /\ q[r].backEnd = "fin"
  /\ Set(r, [q[r] EXCEPT !.appEnd = how])
AppQuits(r) ==
  hplan.faults /\ q[r].st = "transfer" /\ ~q[r].quits /\ Set(r, [q[r] EXCEPT !.quits = TRUE])
OriginSends(r, t) ==
  LET x == q[r]
  IN  /\ x.dispatched /\ Len(x.resp) < hplan.response /\ \A k \in DOMAIN x.resp : x.resp[k] \notin {"fin", "reset"}
      /\ \/ t = "info" /\ hplan.faults /\ \A k \in DOMAIN x.resp : x.resp[k] = "info"
         \/ t = "head" /\ \A k \in DOMAIN x.resp : x.resp[k] = "info"
         \/ t \in {"b", "fin"} /\ \E k \in DOMAIN x.resp : x.resp[k] = "head"
         \/ t = "reset" /\ hplan.faults
      /\ Set(r, [x EXCEPT !.resp = Append(@, t)])
OriginStops(r, code) ==
  hplan.faults /\ q[r].dispatched /\ q[r].upStops = "no" /\ Set(r, [q[r] EXCEPT !.upStops = code])

-----------------------------------------------------------------------------
(* copy, one direction of a stream of another protocol. *)
Copies == h.st = "run" /\ h.offer # "h3"
CopyStep(d, x) == rw' = [rw EXCEPT ![d] = x] /\ UNCHANGED <<hplan, h, q>>
CopyReads(d) ==
  /\ ~rw[d].over /\ rw[d].held = 0 /\ rw[d].read < rw[d].src
  /\ CopyStep(d, [rw[d] EXCEPT !.held = 1, !.read = @ + 1, !.seen = @ + 1])
CopyWrites(d) ==
  /\ ~rw[d].over /\ rw[d].held = 1
  /\ CopyStep(d, IF rw[d].dstStops THEN [rw[d] EXCEPT !.over = TRUE, !.srcStopped = TRUE]
                 ELSE [rw[d] EXCEPT !.held = 0, !.moved = @ + 1])
CopyEnds(d) ==
  /\ ~rw[d].over /\ rw[d].held = 0 /\ rw[d].read = rw[d].src /\ rw[d].srcEnd # "open"
  /\ CopyStep(d, IF rw[d].srcEnd = "fin" THEN [rw[d] EXCEPT !.over = TRUE, !.dstEnd = IF rw[d].dstStops THEN @ ELSE "fin", !.clean = TRUE]
                 ELSE [rw[d] EXCEPT !.over = TRUE, !.dstEnd = "reset"])
CopyStopped(d) ==
  /\ ~rw[d].over /\ rw[d].held = 0 /\ rw[d].dstStops
  /\ CopyStep(d, [rw[d] EXCEPT !.over = TRUE, !.srcStopped = TRUE])
SourceSends(d) ==
  Copies /\ rw[d].srcEnd = "open" /\ rw[d].src < hplan.body /\ CopyStep(d, [rw[d] EXCEPT !.src = @ + 1])
SourceEnds(d, how) ==
  Copies /\ rw[d].srcEnd = "open" /\ CopyStep(d, [rw[d] EXCEPT !.srcEnd = how])
TargetStops(d) ==
  Copies /\ hplan.faults /\ ~rw[d].dstStops /\ CopyStep(d, [rw[d] EXCEPT !.dstStops = TRUE])

HNext ==
  \/ \E result \in {"h3", "hq", "fails"} : Dial(result)
  \/ \E came \in BOOLEAN : AppHandshake(came)
  \/ \E how \in {"closed", "lost"} : RawEnds(how)
  \/ Drain \/ DriverEnds \/ NoMore \/ Ends
  \/ \E r \in Ids :
       \/ Accept(r) \/ Upload(r) \/ Download(r) \/ AppQuits(r) \/ AppOpens(r) \/ AppSends(r)
       \/ \E ok \in BOOLEAN : Resolve(r, ok)
       \/ \E why \in {"ok", "closing", "lost"} : Dispatch(r, why)
       \/ \E how \in {"fin", "reset", "noerr"} : AppEnds(r, how)
       \/ \E t \in {"info", "head", "b", "fin", "reset"} : OriginSends(r, t)
       \/ \E code \in {"noerr", "cancelled"} : OriginStops(r, code)
  \/ \E d \in Dirs :
       \/ CopyReads(d) \/ CopyWrites(d) \/ CopyEnds(d) \/ CopyStopped(d) \/ SourceSends(d) \/ TargetStops(d)
       \/ \E how \in {"fin", "reset"} : SourceEnds(d, how)

HSpec == HInit /\ [][HNext]_hvars

-----------------------------------------------------------------------------
(* Types, and the number of requests at work. *)
ForwardTypeOK ==
  /\ h.st \in {"dial", "wait", "run", "closing", "end"} /\ Cardinality(Jobs) <= JobMax
  /\ \A r \in Ids : q[r].info <= InfoMax /\ q[r].sent <= q[r].app /\ q[r].got <= Len(q[r].resp)

(* Both legs speak the protocol the origin selected among the offered      *)
(* ones; an application whose origin failed has been told, or never came.  *)
LegsAgree ==
  /\ h.st \in {"run", "closing"} => h.offer = h.up /\ h.up \in Range(hplan.offers)
  /\ h.st = "end" /\ h.up = "failed" => h.told # "no" \/ h.waited

(* GOAWAY is above every request that may have been worked on, in whatever *)
(* order they were accepted, and a request at or above it never is.        *)
GoawayIsHonest ==
  h.goaway >= 0 => \A r \in Ids : q[r].st \notin {"none", "arrived", "rejected"} => r < h.goaway

(* A request that the application is told to retry was not passed on.      *)
RetryIsSafe == \A r \in Ids : q[r].code = "rejected" => ~q[r].dispatched

(* An end is passed on only as it was: a response ends at the application  *)
(* only when the origin ended it and all of it was passed on, an upload at *)
(* the origin only when the application ended it.                          *)
NoFalseEnd ==
  \A r \in Ids :
    /\ q[r].backEnd = "fin" => q[r].resp # <<>> /\ q[r].resp[Len(q[r].resp)] = "fin" /\ q[r].back = q[r].resp
    /\ q[r].sentEnd = "fin" => q[r].appEnd = "fin" /\ q[r].sent = q[r].app

(* A request that was passed on fails only for a reason of its own, before *)
(* its response ended: an origin that stops the upload early, or an        *)
(* application that ends it without error, does not lose the answer.       *)
WholeResponseKept ==
  \A r \in Ids :
    q[r].code = "cancelled" =>
      /\ q[r].backEnd # "fin"
      /\ \/ q[r].appEnd = "reset" \/ q[r].quits
         \/ \E k \in DOMAIN q[r].resp : q[r].resp[k] = "reset"
         \/ Cardinality({k \in DOMAIN q[r].resp : q[r].resp[k] = "info"}) > InfoMax

(* What was passed on has been recorded. *)
SeenBeforeSent ==
  /\ \A r \in Ids : q[r].sent <= q[r].seen0 /\ Len(q[r].back) <= q[r].seen1
  /\ \A d \in Dirs : rw[d].moved <= rw[d].seen

(* A copied stream is ended, and its record called clean, only when all of *)
(* it has arrived; a reset stays a reset.                                  *)
CopyIsWhole ==
  \A d \in Dirs :
    rw[d].dstEnd = "fin" \/ rw[d].clean => rw[d].srcEnd = "fin" /\ rw[d].moved = rw[d].src

=============================================================================
