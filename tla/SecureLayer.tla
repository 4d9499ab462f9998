---------------------------- MODULE SecureLayer ----------------------------
(* CAsyncSecureSocketLayer: the TLS layer between the socket to a secure proxy
   and the layers above it.  The raw stream carries records: handshake records,
   data (one unit each, the number of its position) and close_notify.

   The window thread runs one handler at a time, and records may arrive between
   two recv() calls of a handler, so PumpTls and the drain of OnClose take one
   step per recv (pc).  The rustls session is external: it decrypts a record
   when it is fed one and encrypts what it is given. *)
EXTENDS Integers, Sequences, FiniteSets, Lists

CONSTANTS
    Chunk,      \* units of data one recv() returns at most (TLS_CHUNK)
    Low,        \* PLAINTEXT_LOW_WATER
    High,       \* PLAINTEXT_HIGH_WATER
    Most,       \* MAX_BUFFERED_DATA
    RecvRoom,   \* units of data the kernel's receive buffer holds
    SendRoom,   \* records the kernel's send buffer holds
    Scopes      \* bounds of one behaviour: in, out: units the proxy and the upper
                \* layer send (the latter shuts down only if it sends); fail: the
                \* connection may be reset; early: FIN may come before
                \* everything ahead of it has been read

ASSUME SecureAssumption ==
    /\ Chunk \in Nat \ {0} /\ Low \in Nat /\ High \in Nat \ {0} /\ Most \in Nat
    /\ Low < High /\ RecvRoom \in Nat \ {0} /\ SendRoom \in Nat \ {0}
    /\ High + Chunk + RecvRoom <= Most
    /\ Scopes \subseteq [in : Nat, out : Nat, fail : BOOLEAN, early : BOOLEAN]

VARIABLES
    net,    \* the kernel and the proxy behind it
    lay,    \* the layer and its session
    above,  \* the layer above
    msgs,   \* posted window messages
    pc,     \* where the thread is: in the message loop, PumpTls, OnClose
    scope
vars == <<net, lay, above, msgs, pc, scope>>

(* Records. *)
Client == -1       \* ClientHello
Hello == -2        \* the proxy's first record
Finished == -3     \* the last record of the proxy's flight
Reply == -4        \* what the client answers to it
CloseNotify == -5
Flight == <<Hello, Finished>>
Incoming == scope.in
Outgoing == scope.out
Payload(n) == [i \in 1..n |-> i]
Records == (-5..-1) \cup (1..(Incoming + Outgoing))
IsData(r) == r > 0
(* The units in some records; the other records are a few bytes.               *)
Units(recs) == Cardinality({i \in DOMAIN recs : IsData(recs[i])})
Msgs == [to : {"layer", "up"}, ev : {"READ", "WRITE", "CONNECT", "CLOSE"}, err : BOOLEAN]

TypeOK ==
    /\ net.wire \in Seq(Records) /\ net.inq \in Seq(Records)
    /\ Units(net.inq) <= RecvRoom /\ net.room \in 0..SendRoom
    /\ net.out \in Seq(Records)
    /\ {net.fin, net.rst, net.finOut} \subseteq BOOLEAN
    /\ net.armed \subseteq {"READ", "WRITE", "CONNECT", "CLOSE"}
    /\ lay.state \in {"connecting", "connected", "closed", "aborted"}
    /\ lay.crit \in BOOLEAN /\ lay.seen \in 0..Len(Flight)
    /\ lay.tls \in Seq(Records) /\ lay.plain \in Seq(1..Incoming)
    /\ {lay.ready, lay.notified, lay.readClosed, lay.eofGiven, lay.paused,
        lay.pendingShut} \subseteq BOOLEAN
    /\ above.got \in Seq(1..Incoming) /\ above.sent \in 0..Outgoing
    /\ {above.connected, above.eof, above.failed, above.stalled, above.shut, above.closed} \subseteq BOOLEAN
    /\ msgs \in Seq(Msgs) /\ pc \in {"loop", "pump", "drain"} /\ scope \in Scopes

(* seen: records of the flight the session has processed; tls: encrypted and
   not sent, in the session or in m_pendingTls; plain: m_plaintext. *)
FreshLayer(state) ==
    [state |-> state, crit |-> FALSE, seen |-> 0, tls |-> <<>>, plain |-> <<>>,
     ready |-> FALSE, notified |-> FALSE, readClosed |-> FALSE, eofGiven |-> FALSE,
     paused |-> FALSE, pendingShut |-> FALSE]
SecureInit ==
    /\ scope \in Scopes
    /\ \E end \in {<<>>, <<CloseNotify>>} :
          net = [wire |-> Flight \o Payload(Incoming) \o end, inq |-> <<>>,
                 fin |-> FALSE, rst |-> FALSE, room |-> SendRoom, out |-> <<>>,
                 finOut |-> FALSE, armed |-> {"READ", "WRITE", "CONNECT", "CLOSE"}]
    /\ lay = FreshLayer("connecting")
    /\ above = [connected |-> FALSE, got |-> <<>>, eof |-> FALSE, failed |-> FALSE,
                sent |-> 0, stalled |-> FALSE, shut |-> FALSE, closed |-> FALSE]
    /\ msgs = <<>> /\ pc = "loop"

-----------------------------------------------------------------------------
(* What a handler changes: the network, the layer and the messages it posts.
   A handler that is FALSE for ok has met an error. *)
AsIs == [n |-> net, l |-> lay, m |-> msgs, ok |-> TRUE]
Becomes(h) == net' = h.n /\ lay' = h.l /\ msgs' = h.m
Net(h, n) == [h EXCEPT !.n = n]
Lay(h, l) == [h EXCEPT !.l = l]

Post(h, to, ev) == [h EXCEPT !.m = Append(@, [to |-> to, ev |-> ev, err |-> FALSE])]
Smaller(a, b) == IF a <= b THEN a ELSE b

(* TriggerEvent to the layer above, which aborts this one on an error. *)
PassUp(h, ev) == Post(h, "up", ev)
PassError(h, ev) ==
    LET g == [h EXCEPT !.m = Append(@, [to |-> "up", ev |-> ev, err |-> TRUE])]
    IN Lay(g, [h.l EXCEPT !.state = "aborted", !.crit = TRUE])

(* FlushTls: a full send buffer is no error; the kernel owes an FD_WRITE then. *)
FlushTls(h) ==
    LET k == Smaller(Len(h.l.tls), h.n.room) IN
    IF ~h.ok \/ h.l.tls = <<>> THEN h
    ELSE IF h.l.crit \/ h.n.rst THEN [h EXCEPT !.ok = FALSE]
    ELSE Lay(Net(h, [h.n EXCEPT !.out = @ \o SubSeq(h.l.tls, 1, k), !.room = @ - k,
                                !.armed = IF k < Len(h.l.tls) THEN @ \cup {"WRITE"} ELSE @]),
             [h.l EXCEPT !.tls = SubSeq(@, k + 1, Len(@))])

(* The session.  A new one has its first record ready; the last record of the
   proxy's flight makes it write its own; what it is given to encrypt joins the
   records to send; reading ends at close_notify. *)
SessionCreate == <<Client>>
SessionReady(l) == l.seen = Len(Flight)
SessionFeed(l, recs) ==
    LET flight == Cardinality({i \in DOMAIN recs : recs[i] \in {Hello, Finished}}) IN
    [l EXCEPT !.seen = @ + flight,
              !.tls = IF flight > 0 /\ l.seen + flight = Len(Flight)
                      THEN Append(@, Reply) ELSE @]
SessionWrite(l, unit) == [l EXCEPT !.tls = Append(@, unit)]
SessionCloseNotify(l) == [l EXCEPT !.tls = Append(@, CloseNotify)]
Ends(recs) == \E i \in DOMAIN recs : recs[i] = CloseNotify
SessionRead(recs) ==
    Only(recs, {i \in DOMAIN recs : IsData(recs[i]) /\ \A j \in 1..i : recs[j] # CloseNotify})

DrainNoMark(h, recs) ==   \* mutant: the high-water mark is not tested
    LET more == IF h.l.readClosed THEN <<>> ELSE SessionRead(recs)
    IN [Lay(h, [h.l EXCEPT !.plain = @ \o more, !.readClosed = @ \/ Ends(recs)])
        EXCEPT !.ok = h.ok /\ Len(h.l.plain) + Len(more) < Most]
(* DrainPlaintext: the high-water mark pauses the reading unless the session says
   that this is the end; the limit is an error. *)
DrainPlaintext(h, recs) ==
    LET more == IF h.l.readClosed THEN <<>> ELSE SessionRead(recs)
        n == Len(h.l.plain) + Len(more)
    IN [Lay(h, [h.l EXCEPT !.plain = @ \o more,
                           !.readClosed = @ \/ Ends(recs),
                           !.paused = @ \/ (n >= High /\ ~Ends(recs) /\ ~h.l.readClosed)])
        EXCEPT !.ok = h.ok /\ n < Most]
FeedOnce(h, recs) == DrainPlaintext(Lay(h, SessionFeed(h.l, recs)), recs)
(* The session takes what one recv() returned in one go, or a part first. *)
Feed(h, recs, part) ==
    LET g == FeedOnce(h, SubSeq(recs, 1, part)) IN
    IF g.ok THEN FeedOnce(g, SubSeq(recs, part + 1, Len(recs))) ELSE g
Parts(recs) == {0} \cup 1..(Len(recs) - 1)

(* FinishHandshake *)
FinishTwice(h) ==   \* mutant: m_bConnectNotified is not tested
    IF ~h.ok \/ ~SessionReady(h.l) THEN h
    ELSE PassUp(Lay(h, [h.l EXCEPT !.ready = TRUE, !.notified = TRUE]), "CONNECT")
FinishHandshake(h) ==
    IF ~h.ok \/ h.l.ready \/ ~SessionReady(h.l) THEN h
    ELSE LET g == Lay(h, [h.l EXCEPT !.ready = TRUE, !.notified = TRUE]) IN
         IF h.l.notified THEN g ELSE PassUp(g, "CONNECT")

(* ReportFailure *)
ReportFailure(h) == PassError(h, IF h.l.notified THEN "CLOSE" ELSE "CONNECT")

HasPendingRead(l) == l.plain # <<>> \/ (l.readClosed /\ ~l.eofGiven)
AnnounceRead(h) ==
    IF h.l.ready /\ HasPendingRead(h.l) THEN PassUp(h, "READ") ELSE h

-----------------------------------------------------------------------------
(* The layer's handlers, behind CallEvent. *)

Rest == [AsIs EXCEPT !.m = Tail(msgs)]
Enters(state) == Lay(Rest, [lay EXCEPT !.state = state])
Takes(ev, from) ==
    /\ pc = "loop" /\ msgs # <<>> /\ Head(msgs).to = "layer" /\ Head(msgs).ev = ev
    /\ ~lay.crit /\ lay.state = from

(* A message CallEvent does not pass to the layer. *)
Dropped ==
    /\ pc = "loop" /\ msgs # <<>> /\ Head(msgs).to = "layer"
    /\ lay.crit \/ lay.state # IF Head(msgs).ev = "CONNECT" THEN "connecting" ELSE "connected"
    /\ msgs' = Tail(msgs)
    /\ UNCHANGED <<net, lay, above, pc, scope>>

(* StartHandshake: without the transport library there is no session. *)
StartHandshake(h, loads) ==
    IF loads THEN FlushTls(Lay(h, [h.l EXCEPT !.tls = SessionCreate])) ELSE [h EXCEPT !.ok = FALSE]
OnConnect(loads) ==
    LET err == Head(msgs).err
        g == IF err THEN PassError(Enters("aborted"), "CONNECT")
             ELSE FinishHandshake(StartHandshake(Enters("connected"), loads))
    IN /\ Takes("CONNECT", "connecting")
       /\ loads \/ scope.fail
       /\ Becomes(IF g.ok THEN g ELSE ReportFailure(g))
       /\ UNCHANGED <<above, pc, scope>>

(* OnReceive up to the first recv() of PumpTls. *)
OnReceive ==
    LET g == FinishHandshake(FlushTls(Rest)) IN
    /\ Takes("READ", "connected")
    /\ IF Head(msgs).err \/ ~g.ok THEN Becomes(ReportFailure(Rest)) /\ pc' = "loop"
       ELSE IF lay.paused THEN Becomes(AnnounceRead(g)) /\ pc' = "loop"
       ELSE Becomes(g) /\ pc' = "pump"
    /\ UNCHANGED <<above, scope>>

Received(h, k) ==
    Net(h, [h.n EXCEPT !.inq = SubSeq(@, k + 1, Len(@)), !.armed = @ \cup {"READ"}])
NextChunk ==
    SubSeq(net.inq, 1, Cardinality({k \in DOMAIN net.inq : Units(SubSeq(net.inq, 1, k)) <= Chunk}))

(* One recv() of PumpTls, and the end of OnReceive. *)
PumpTls(part) ==
    LET h == Received(AsIs, Len(NextChunk))
        g == FinishHandshake(FlushTls(Feed(h, NextChunk, part)))
    IN /\ pc = "pump"
       /\ IF net.rst \/ lay.crit THEN Becomes(ReportFailure(AsIs)) /\ pc' = "loop"
          ELSE IF NextChunk = <<>>
          THEN /\ pc' = "loop"
               /\ Becomes(IF net.fin THEN ReportFailure(h) ELSE AnnounceRead(h))
          ELSE IF ~g.ok THEN Becomes(ReportFailure(g)) /\ pc' = "loop"
          ELSE IF g.l.paused THEN Becomes(AnnounceRead(g)) /\ pc' = "loop"
          ELSE Becomes(g) /\ pc' = "pump"
       /\ UNCHANGED <<above, scope>>

ShutDownNext(h) == IF h.l.crit THEN h ELSE Net(h, [h.n EXCEPT !.finOut = TRUE])
ShutWhenFlushed(h) ==
    IF ~h.l.pendingShut \/ h.l.tls # <<>> THEN h
    ELSE ShutDownNext(Lay(h, [h.l EXCEPT !.pendingShut = FALSE]))

OnSend ==
    LET g == FinishHandshake(FlushTls(Rest))
        s == ShutWhenFlushed(g)
    IN /\ Takes("WRITE", "connected")
       /\ Becomes(IF Head(msgs).err \/ ~g.ok THEN ReportFailure(g)
                  ELSE IF s.l.notified THEN PassUp(s, "WRITE") ELSE s)
       /\ UNCHANGED <<above, pc, scope>>

(* OnClose up to the first recv() of its drain.  The layer is closed already. *)
OnClose ==
    /\ Takes("CLOSE", "connected")
    /\ IF Head(msgs).err
       THEN Becomes(PassError(Enters("aborted"), "CLOSE")) /\ pc' = "loop"
       ELSE Becomes(Enters("closed")) /\ pc' = "drain"
    /\ UNCHANGED <<above, scope>>

(* One recv() of OnClose, and its end: FIN is the end of the plaintext too. *)
Closed(h) == Lay(h, [h.l EXCEPT !.readClosed = TRUE])
DrainOnClose(part) ==
    LET h == Received(AsIs, Len(NextChunk))
        g == Feed(h, NextChunk, part)
        e == Closed(IF net.rst THEN AsIs ELSE h)
    IN /\ pc = "drain"
       /\ IF NextChunk = <<>> \/ net.rst
          THEN /\ pc' = "loop"
               /\ Becomes(IF lay.ready THEN AnnounceRead(e) ELSE PassUp(e, "CLOSE"))
          ELSE IF ~g.ok THEN Becomes(ReportFailure(Closed(g))) /\ pc' = "loop"
          ELSE Becomes(g) /\ pc' = "drain"
       /\ UNCHANGED <<above, scope>>

-----------------------------------------------------------------------------
(* The layer above: the proxy layer and CPRCTcpPeer. *)

(* Receive, one unit: what is left is announced again, for select() does not
   see it; the end is reported once the plaintext has been read. *)
ResumeNever(h) == h   \* mutant: nobody resumes the reading
ResumeTlsReceive(h) ==
    IF ~h.l.paused \/ h.l.readClosed \/ Len(h.l.plain) > Low THEN h
    ELSE Post(Lay(h, [h.l EXCEPT !.paused = FALSE]), "layer", "READ")
Receive(h) ==
    LET g == Lay(h, [h.l EXCEPT !.plain = Tail(@)]) IN
    ResumeTlsReceive(IF g.l.plain # <<>> \/ (g.l.readClosed /\ ~g.l.eofGiven)
                     THEN PassUp(g, "READ") ELSE g)

Readable == net.inq # <<>> \/ net.fin \/ net.rst

UpTakes(ev) == pc = "loop" /\ msgs # <<>> /\ Head(msgs).to = "up" /\ Head(msgs).ev = ev

(* OnReceive of the peer: it reads once, and again in the same event if the raw
   socket looks readable; it is stalled when its partner cannot send. *)
UpRead(stalls, again) ==
    LET h == IF again THEN AsIs ELSE Rest IN
    /\ UpTakes("READ")
    /\ stalls \/ again => lay.plain # <<>> /\ ~above.stalled
    /\ again => Readable /\ ~stalls
    /\ IF above.stalled \/ above.failed \/ above.eof THEN Becomes(Rest) /\ above' = above
       ELSE IF lay.plain # <<>>
       THEN /\ Becomes(Receive(h))
            /\ above' = [above EXCEPT !.got = Append(@, Head(lay.plain)), !.stalled = stalls]
       ELSE /\ Becomes(Lay(Rest, [lay EXCEPT !.eofGiven = @ \/ lay.readClosed]))
            /\ above' = [above EXCEPT !.eof = lay.readClosed]
    /\ UNCHANGED <<pc, scope>>

(* OnSend of the partner: it could send, and looks whether there is more. *)
UpResume ==
    /\ pc = "loop" /\ above.stalled
    /\ above' = [above EXCEPT !.stalled = FALSE]
    /\ Becomes(IF Readable \/ HasPendingRead(lay) THEN Post(AsIs, "up", "READ") ELSE AsIs)
    /\ UNCHANGED <<pc, scope>>

UpOther ==
    /\ UpTakes("WRITE") \/ UpTakes("CONNECT") \/ UpTakes("CLOSE")
    /\ above' = IF Head(msgs).err \/ Head(msgs).ev = "CLOSE" THEN [above EXCEPT !.failed = TRUE]
                ELSE IF Head(msgs).ev = "CONNECT" THEN [above EXCEPT !.connected = TRUE]
                ELSE above
    /\ Becomes(Rest)
    /\ UNCHANGED <<pc, scope>>

(* Send: refused before the handshake is done; the session takes everything. *)
SendAccepted == lay.ready
UpSend ==
    LET g == FlushTls(Lay(AsIs, SessionWrite(lay, Incoming + above.sent + 1))) IN
    /\ pc = "loop" /\ SendAccepted /\ above.sent < Outgoing /\ ~above.shut /\ ~above.failed
    /\ Becomes(g)
    /\ above' = [above EXCEPT !.sent = IF g.ok THEN @ + 1 ELSE @, !.failed = ~g.ok]
    /\ UNCHANGED <<pc, scope>>

(* ShutDown: close_notify, then FIN when everything has been sent. *)
UpShutDown ==
    LET g == FlushTls(Lay(AsIs, SessionCloseNotify(lay))) IN
    /\ pc = "loop" /\ lay.ready /\ above.connected /\ Outgoing > 0 /\ ~above.shut /\ ~above.failed
    /\ Becomes(IF ~g.ok THEN g ELSE ShutWhenFlushed(Lay(g, [g.l EXCEPT !.pendingShut = TRUE])))
    /\ above' = [above EXCEPT !.shut = TRUE]
    /\ UNCHANGED <<pc, scope>>

(* Close of a peer that is done: ResetTransport; the window forgets the socket. *)
UpClose ==
    /\ pc = "loop" /\ ~above.closed /\ (above.failed \/ (above.eof /\ above.shut))
    /\ lay' = FreshLayer("closed") /\ msgs' = <<>> /\ net' = [net EXCEPT !.armed = {}]
    /\ above' = [above EXCEPT !.closed = TRUE, !.stalled = FALSE]
    /\ UNCHANGED <<pc, scope>>

-----------------------------------------------------------------------------
(* Winsock and the proxy. *)

Owed(ev) ==
    /\ ev \in net.armed
    /\ CASE ev = "CONNECT" -> TRUE
         [] ev = "READ" -> net.inq # <<>>
         [] ev = "WRITE" -> net.room > 0 /\ "CONNECT" \notin net.armed
         [] OTHER -> net.fin \/ net.rst
Notify(ev) ==
    /\ Owed(ev)
    /\ net' = [net EXCEPT !.armed = @ \ {ev}]
    /\ \E err \in (IF ev = "CONNECT" /\ scope.fail THEN BOOLEAN ELSE {net.rst}) :
          msgs' = Append(msgs, [to |-> "layer", ev |-> ev, err |-> err])
    /\ UNCHANGED <<lay, above, pc, scope>>

(* The flight follows the client's first record, the rest at any time later. *)
MoreComes ==
    /\ net.wire # <<>> /\ Units(Append(net.inq, Head(net.wire))) <= RecvRoom
    /\ ~net.fin /\ ~net.rst
    /\ net.out # <<>>
Arrive ==
    /\ MoreComes
    /\ net' = [net EXCEPT !.wire = Tail(@), !.inq = Append(@, Head(net.wire))]
    /\ UNCHANGED <<lay, above, msgs, pc, scope>>

FinComes ==
    /\ net.wire = <<>> /\ ~net.fin /\ ~net.rst
    /\ scope.early \/ (/\ net.inq = <<>> /\ pc = "loop"
                       /\ \A i \in DOMAIN msgs : ~(msgs[i].to = "layer" /\ msgs[i].ev = "READ")
                       /\ ~lay.paused)
FinArrives ==
    /\ FinComes
    /\ net' = [net EXCEPT !.fin = TRUE]
    /\ UNCHANGED <<lay, above, msgs, pc, scope>>

Reset ==
    /\ scope.fail /\ ~net.rst
    /\ net' = [net EXCEPT !.rst = TRUE]
    /\ UNCHANGED <<lay, above, msgs, pc, scope>>

KernelDrain ==
    /\ net.room < SendRoom
    /\ net' = [net EXCEPT !.room = @ + 1]
    /\ UNCHANGED <<lay, above, msgs, pc, scope>>

SecureNext ==
    \/ Dropped \/ (\E loads \in BOOLEAN : OnConnect(loads)) \/ OnReceive \/ OnSend \/ OnClose
    \/ \E part \in Parts(NextChunk) : PumpTls(part) \/ DrainOnClose(part)
    \/ \E stalls, again \in BOOLEAN : UpRead(stalls, again)
    \/ UpResume \/ UpOther \/ UpSend \/ UpShutDown \/ UpClose
    \/ \E ev \in {"CONNECT", "READ", "WRITE", "CLOSE"} : Notify(ev)
    \/ Arrive \/ FinArrives \/ Reset \/ KernelDrain

SecureSpec == SecureInit /\ [][SecureNext]_vars

-----------------------------------------------------------------------------
(* Units reach the upper layer in order and once; the end, only behind all of
   them, whether it comes as close_notify or as FIN, unless the connection is
   reset while records are still to be read behind the FIN. *)
CleanStream ==
    /\ above.got \o lay.plain = Payload(Len(above.got \o lay.plain))
    /\ above.eof => Len(above.got) = Incoming \/ (scope.early /\ net.rst)

(* What leaves is the handshake, the units in order, close_notify; FIN is last,
   although units and close_notify may have to wait for the send buffer. *)
Written == <<Client, Reply>> \o [i \in 1..above.sent |-> Incoming + i]
Shutted == IF above.shut THEN Append(Written, CloseNotify) ELSE Written
NothingInClear ==
    LET all == net.out \o lay.tls IN
    /\ lay.ready => lay.crit \/ net.rst \/ all = Shutted
    /\ ~lay.ready => above.closed \/ Len(net.out) <= 1
    /\ net.finOut => net.out = Shutted

(* The layer above is told once whether the connection stands. *)
OneOutcome ==
    [][\A i \in DOMAIN msgs' :
         /\ msgs'[i].to = "up" /\ msgs'[i].ev = "CONNECT"
         => ~above'.connected /\ \A j \in DOMAIN msgs' :
                msgs'[j].to = "up" /\ msgs'[j].ev = "CONNECT" => i = j]_vars

(* The pause keeps the plaintext below the limit, even with what the drain of
   OnClose, which does not stop at the high-water mark, adds from the kernel's
   buffer; unless the connection fails or FIN comes early, no handler fails. *)
NeverOverflows ==
    /\ Len(lay.plain) < Most
    /\ ~scope.fail /\ ~scope.early => ~lay.crit

(* When nobody has anything left to do, everything the proxy sent has been read,
   and its end: the pump was resumed after every pause and the reader was woken
   for plaintext select() cannot see. *)
AtRest ==
    /\ pc = "loop" /\ msgs = <<>> /\ ~above.stalled /\ ~MoreComes /\ ~FinComes
    /\ \A ev \in {"CONNECT", "READ", "WRITE", "CLOSE"} : ~Owed(ev)
AllRead == AtRest /\ net.room > 0 => net.rst \/ above.failed \/ (above.eof /\ Len(above.got) = Incoming)

(* The plaintext is what the proxy sent, in order, and ends only where the proxy
   ended it (CleanStream); what leaves is the handshake, the units, close_notify
   and then FIN (NothingInClear); the drain of OnClose stays below
   MAX_BUFFERED_DATA (NeverOverflows); and a pump that stopped at its water mark
   is started again (AllRead). *)
StreamSound == TypeOK /\ CleanStream /\ NothingInClear /\ NeverOverflows /\ AllRead

=============================================================================
