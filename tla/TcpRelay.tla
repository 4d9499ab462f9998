------------------------------ MODULE TcpRelay ------------------------------
(***************************************************************************)
(* One TCP forwarding task of the proxy reception centre: the pair of      *)
(* CPRCTcpPeer objects owned by a CTcpProxyTask, "client" (the socket      *)
(* accepted from the hooked application) and "server" (the socket to the   *)
(* proxy or, with NOPROXY, to the destination), together with the          *)
(* CAsyncSocketEx window queue that drives them and the proxy layer that   *)
(* sits under the server peer.                                             *)
(*                                                                         *)
(* One thread handles one window message at a time, so every handler is    *)
(* one action.  The kernel (Winsock) and the two remote endpoints act      *)
(* between any two handlers.  The MITM bridge replaces this forwarding     *)
(* path and is not part of this module (m_pMitm is NULL here).             *)
(*                                                                         *)
(* A payload byte is the number of its position in the stream that its     *)
(* sender writes, so loss, duplication and reordering are all visible.     *)
(***************************************************************************)
EXTENDS Naturals, Sequences, FiniteSets

CONSTANTS
    Proxied,        \* kinds of task: TRUE with a handshake (SOCKS, HTTP), FALSE
                    \* for PROXYTYPE_NOPROXY
    BufSize,        \* MAXTCPBUFSIZE
    EventCap,       \* MAX_EVENT_READ_BYTES, a multiple of BufSize
    SendRoom,       \* free bytes of a kernel send buffer
    ClientBytes,    \* bound: bytes the application writes
    ServerBytes,    \* bound: bytes the destination writes
    MayReset,       \* the remote endpoints may reset their connection
    ServerEndsFirst \* the destination may send FIN before the application

ASSUME RelayAssumption ==
    /\ Proxied \subseteq BOOLEAN /\ MayReset \in BOOLEAN /\ ServerEndsFirst \in BOOLEAN
    /\ BufSize \in Nat \ {0} /\ EventCap \in Nat \ {0}
    /\ SendRoom \in Nat \ {0}
    /\ ClientBytes \in Nat /\ ServerBytes \in Nat

Peers == {"client", "server"}
Other(p) == IF p = "client" THEN "server" ELSE "client"

READ    == "FD_READ"
WRITE   == "FD_WRITE"
CONNECT == "FD_CONNECT"
CLOSE   == "FD_CLOSE"
Events  == {READ, WRITE, CONNECT, CLOSE}

VARIABLES
    \* the kernel's view of each socket and of its remote endpoint
    wrote,      \* wrote[p]: bytes the remote endpoint of p has written
    inq,        \* inq[p]: received bytes that recv() has not returned yet
    fin,        \* fin[p]: the remote endpoint's FIN has arrived
    rst,        \* rst[p]: the connection of p was reset
    out,        \* out[p]: bytes send() accepted on p
    room,       \* room[p]: free space of p's send buffer
    finOut,     \* finOut[p]: p's remote endpoint is told of an orderly end
    armed,      \* armed[p]: notifications WSAAsyncSelect still owes for p
    \* CPRCTcpPeer, CAsyncSocketEx
    buf,        \* buf[p]: m_recvbuf from m_sentpos to m_recvbufpos
    readClosed, \* m_bReadClosed
    writeShut,  \* m_bWriteShutdown
    open,       \* m_SocketData.hSocket # INVALID_SOCKET
    lEvent,     \* m_lEvent
    ready,      \* m_bForwardingReady of the server peer
    status,     \* m_SocketStatus of the server peer: conn | io | close
    \* the proxy layer of the server peer
    layer,      \* m_nLayerState
    crit,       \* m_nCriticalError # 0
    op,         \* m_nProxyOpID # 0: the handshake is in progress
    \* helper window, task
    msgs,       \* posted window messages, oldest first
    task        \* active | deletePending (m_bDeletePending) | gone

netVars   == <<wrote, inq, fin, rst, out, room, finOut, armed>>
peerVars  == <<buf, readClosed, writeShut, open, lEvent, ready, status>>
layerVars == <<layer, crit, op>>
vars == <<netVars, peerVars, layerVars, msgs, task>>

Msgs == [p : Peers, ev : Events, err : BOOLEAN, hop : {"layer", "owner"}]

TypeOK ==
    /\ wrote \in [Peers -> Nat]
    /\ inq \in [Peers -> Seq(Nat)]
    /\ fin \in [Peers -> BOOLEAN]
    /\ rst \in [Peers -> BOOLEAN]
    /\ out \in [Peers -> Seq(Nat)]
    /\ room \in [Peers -> 0..SendRoom]
    /\ finOut \in [Peers -> BOOLEAN]
    /\ armed \in [Peers -> SUBSET Events]
    /\ buf \in [Peers -> Seq(Nat)]
    /\ readClosed \in [Peers -> BOOLEAN]
    /\ writeShut \in [Peers -> BOOLEAN]
    /\ open \in [Peers -> BOOLEAN]
    /\ lEvent \in [Peers -> SUBSET Events]
    /\ ready \in BOOLEAN
    /\ status \in {"conn", "io", "close"}
    /\ layer \in {"connecting", "connected", "closed", "aborted"}
    /\ crit \in BOOLEAN
    /\ op \in BOOLEAN
    /\ msgs \in Seq(Msgs)
    /\ task \in {"active", "deletePending", "gone"}

(***************************************************************************)
(* CTcpProxyTask::SetTaskInfo and ConnectProxy have run: the server socket *)
(* is connecting with every notification requested, the client socket is   *)
(* attached for FD_CLOSE only until the tunnel is up.                      *)
(***************************************************************************)
Init ==
    /\ wrote = [p \in Peers |-> 0]
    /\ inq = [p \in Peers |-> <<>>]
    /\ fin = [p \in Peers |-> FALSE]
    /\ rst = [p \in Peers |-> FALSE]
    /\ out = [p \in Peers |-> <<>>]
    /\ room = [p \in Peers |-> SendRoom]
    /\ finOut = [p \in Peers |-> FALSE]
    /\ armed = [p \in Peers |-> IF p = "client" THEN {CLOSE} ELSE Events]
    /\ buf = [p \in Peers |-> <<>>]
    /\ readClosed = [p \in Peers |-> FALSE]
    /\ writeShut = [p \in Peers |-> FALSE]
    /\ open = [p \in Peers |-> TRUE]
    /\ lEvent = [p \in Peers |-> IF p = "client" THEN {CLOSE} ELSE Events]
    /\ ready = FALSE
    /\ status = "conn"
    /\ layer = "connecting"
    /\ crit = FALSE
    /\ op \in Proxied
    /\ msgs = <<>>
    /\ task = "active"

-----------------------------------------------------------------------------
(* Small operators shared by the handlers.                                 *)

Smaller(a, b) == IF a <= b THEN a ELSE b
Take(s, n) == SubSeq(s, 1, n)
Skip(s, n) == SubSeq(s, n + 1, Len(s))

(* select() reports a socket readable for data, for an end and for an error. *)
Readable(p, q) == q # <<>> \/ fin[p] \/ rst[p]

(* CAsyncSocketEx::TriggerEvent: a peer without layers drops the error code. *)
Trigger(p, ev, err) ==
    [p |-> p, ev |-> ev, hop |-> "owner", err |-> (p = "server" /\ err)]

(* What Send on peer q answers.  The layer refuses while its handshake runs
   (WSAEWOULDBLOCK) and fails after a critical error or before the raw socket
   is connected; the kernel fails after a reset or after shutdown(SD_SEND). *)
HandshakingNever(p) == FALSE   \* mutant: the proxy layer does not refuse
Handshaking(p) == p = "server" /\ op
SendFails(q) ==
    /\ ~Handshaking(q)
    /\ \/ rst[q] \/ finOut[q]
       \/ q = "server" /\ (crit \/ layer = "connecting")
SendSpaceOffByOne(q) == IF Handshaking(q) THEN 0 ELSE room[q] + 1   \* mutant
SendSpace(q) == IF Handshaking(q) THEN 0 ELSE room[q]

(* TransferSend: what stays buffered when k bytes of data were accepted
   (m_sentpos advances, and both positions are cleared at the end). *)
TransferSendRewinds(data, k) == IF k < Len(data) THEN data ELSE <<>>   \* mutant
TransferSend(data, k) == Skip(data, k)

(* Receive on p: an error, or EOF once the bytes left are none. *)
RecvFails(p) == ~Handshaking(p) /\ (rst[p] \/ (p = "server" /\ crit))
AtEof(p, left) == left = <<>> /\ fin[p]

(* AsyncSelect(ev) on p: WSAAsyncSelect only when the peer has no layers. *)
AsyncSelect(p, ev, a) == IF p = "client" THEN [a EXCEPT ![p] = ev] ELSE a

(* recv() on p lets the kernel post FD_READ again, a send() on q that would
   block lets it post FD_WRITE again, when those notifications are wanted. *)
WsaMask(p) == IF p = "client" THEN lEvent["client"] ELSE Events
Rearm(a, p, ev) == [a EXCEPT ![p] = @ \cup ({ev} \cap WsaMask(p))]

-----------------------------------------------------------------------------
(* The tail of the handlers, for the new contents b of the buffers and the
   new read-closed flags rc (up: the value of m_bForwardingReady):
   PropagateHalfClose of p, then TryFinishConnection of p, posting the messages
   m.  The FIONREAD test of PropagateHalfClose finds nothing: after EOF has been
   read inq[p] is empty (see Conserved, ClosedDrained). *)

MayPropagateOnFin(p, b, rc, up) ==   \* mutant: FD_CLOSE instead of Receive = 0
    /\ fin[p] /\ b[p] = <<>> /\ open[Other(p)] /\ ~writeShut[Other(p)]
    /\ (Other(p) = "server" => up)
MayPropagate(p, b, rc, up) ==
    /\ rc[p] /\ b[p] = <<>> /\ open[Other(p)] /\ ~writeShut[Other(p)]
    /\ (Other(p) = "server" => up)

ShutDownReaches(q) ==
    ~rst[q] /\ (q = "server" => ~crit /\ layer # "connecting")

PropagateHalfClose(p, b, rc, up) ==
    IF MayPropagate(p, b, rc, up)
    THEN /\ writeShut' = [writeShut EXCEPT ![Other(p)] = TRUE]
         /\ finOut' = [finOut EXCEPT ![Other(p)] = @ \/ ShutDownReaches(Other(p))]
    ELSE UNCHANGED <<writeShut, finOut>>

FinishedOneSide(b, rc) == \E p \in Peers : rc[p] /\ b[p] = <<>>   \* mutant
FinishedUnlessShut(b, rc) ==                         \* mutant
    \A p \in Peers : rc[p] /\ b[p] = <<>> /\ ~writeShut[p]
Finished(b, rc) == \A p \in Peers : rc[p] /\ b[p] = <<>>

TryFinishConnection(b, rc, st, m) ==
    IF Finished(b, rc)
    THEN /\ open' = [p \in Peers |-> FALSE]
         /\ status' = "close"
         /\ task' = "deletePending"
         /\ msgs' = <<>>      \* WindowProc ignores what closed sockets are sent
    ELSE UNCHANGED <<open, task>> /\ status' = st /\ msgs' = m

Settle(p, b, rc, st, m) ==
    /\ buf' = b
    /\ readClosed' = rc
    /\ PropagateHalfClose(p, b, rc, ready)
    /\ TryFinishConnection(b, rc, st, m)

(* OnClose with an error: both sockets are closed and OnPeerClosed marks the
   task.  AsyncSelect(0) before a Close changes nothing that is read again. *)
CloseBoth ==
    /\ open' = [p \in Peers |-> FALSE]
    /\ status' = "close"
    /\ task' = "deletePending"
    /\ msgs' = <<>>
    /\ UNCHANGED <<netVars, buf, readClosed, writeShut, lEvent, ready, layerVars>>

-----------------------------------------------------------------------------
(* CPRCTcpPeer::OnReceive.  With room r at the partner the loop reads whole
   buffers until one is not sent completely, the socket is drained, EOF is
   returned or the event's read limit is met. *)

ReadAmount(q, r) ==
    Smaller(Len(q), Smaller((r \div BufSize + 1) * BufSize, EventCap))

OnReceive(p, rest) ==
    LET q    == Other(p)
        st   == IF p = "server" \/ inq[p] # <<>> THEN "io" ELSE status
    IN
    \* wait until OnSend has forwarded it; or Receive answers WSAEWOULDBLOCK
    \/ /\ buf[p] # <<>> \/ Handshaking(p)
       /\ msgs' = rest
       /\ status' = IF p = "server" THEN "io" ELSE status
       /\ UNCHANGED <<netVars, buf, readClosed, writeShut, open, lEvent, ready,
                      layerVars, task>>
    \/ /\ buf[p] = <<>> /\ RecvFails(p)
       /\ msgs' = Append(rest, Trigger(p, CLOSE, TRUE))
       /\ status' = IF p = "server" THEN "io" ELSE status
       /\ UNCHANGED <<netVars, buf, readClosed, writeShut, open, lEvent, ready,
                      layerVars, task>>
    \/ /\ buf[p] = <<>> /\ ~Handshaking(p) /\ ~RecvFails(p)
       /\ inq[p] # <<>> /\ SendFails(q) \* the chunk that was read is discarded
       /\ inq' = [inq EXCEPT ![p] = Skip(@, Smaller(BufSize, Len(@)))]
       /\ armed' = Rearm(armed, p, READ)
       /\ msgs' = Append(rest, Trigger(p, CLOSE, FALSE))
       /\ status' = st
       /\ UNCHANGED <<wrote, fin, rst, out, room, finOut, buf, readClosed,
                      writeShut, open, lEvent, ready, layerVars, task>>
    \/ /\ buf[p] = <<>> /\ ~Handshaking(p) /\ ~RecvFails(p)
       /\ inq[p] = <<>> \/ ~SendFails(q)
       /\ LET n    == ReadAmount(inq[p], SendSpace(q))
              k    == Smaller(n, SendSpace(q))
              left == Skip(inq[p], n)
              eof  == k = n /\ AtEof(p, left) /\ n < EventCap
              more == ~eof /\ ~readClosed[p] /\ n >= EventCap /\ Readable(p, left)
              b    == [buf EXCEPT ![p] = TransferSend(Take(inq[p], n), k)]
              rc   == [readClosed EXCEPT ![p] = @ \/ eof]
              blk  == k < n /\ ~Handshaking(q)
              a1   == Rearm(armed, p, READ)
              a2   == IF blk THEN Rearm(a1, q, WRITE) ELSE a1
          IN /\ inq' = [inq EXCEPT ![p] = left]
             /\ out' = [out EXCEPT ![q] = @ \o Take(inq[p], k)]
             /\ room' = [room EXCEPT ![q] = @ - k]
             /\ lEvent' = IF eof THEN [lEvent EXCEPT ![p] = {WRITE, CLOSE}]
                          ELSE lEvent
             /\ armed' = IF eof THEN AsyncSelect(p, {WRITE, CLOSE}, a2) ELSE a2
             /\ Settle(p, b, rc, st,
                       IF more THEN Append(rest, Trigger(p, READ, FALSE)) ELSE rest)
       /\ UNCHANGED <<wrote, fin, rst, ready, layerVars>>

(* CPRCTcpPeer::OnSend on p: forward what the partner q has buffered; when all
   of it went out, reading on q resumes. *)
ResumeNever(q, sentAll) == <<>>   \* mutant: no FD_READ is triggered
ResumeReading(q, sentAll) ==
    IF sentAll /\ Readable(q, inq[q]) THEN <<Trigger(q, READ, FALSE)>> ELSE <<>>

OnSend(p, rest) ==
    LET q    == Other(p)
        st   == IF p = "server" THEN "io" ELSE status
        data == buf[q]
        k    == Smaller(Len(data), SendSpace(p))
    IN
    \/ /\ data # <<>> /\ SendFails(p)
       /\ buf' = [r \in Peers |-> <<>>]
       /\ msgs' = Append(rest, Trigger(p, CLOSE, FALSE))
       /\ status' = st
       /\ UNCHANGED <<netVars, readClosed, writeShut, open, lEvent, ready,
                      layerVars, task>>
    \/ /\ data = <<>> \/ ~SendFails(p)
       /\ out' = [out EXCEPT ![p] = @ \o Take(data, k)]
       /\ room' = [room EXCEPT ![p] = @ - k]
       /\ armed' = IF k < Len(data) /\ ~Handshaking(p)
                   THEN Rearm(armed, p, WRITE) ELSE armed
       /\ Settle(q, [buf EXCEPT ![q] = TransferSend(data, k)], readClosed, st,
                 rest \o ResumeReading(q, data # <<>> /\ k = Len(data)))
       /\ UNCHANGED <<wrote, inq, fin, rst, lEvent, ready, layerVars>>

(* CPRCTcpPeer::OnConnect of the server peer: the tunnel is up, the client
   socket is subscribed to everything and early payload is flushed. *)
OnConnect(err, rest) ==
    \/ err /\ CloseBoth
    \/ /\ ~err
       /\ ready' = TRUE
       /\ lEvent' = [lEvent EXCEPT !["client"] = {READ, WRITE, CLOSE}]
       /\ armed' = AsyncSelect("client", {READ, WRITE, CLOSE}, armed)
       /\ msgs' = rest
            \o (IF buf["client"] # <<>> THEN <<Trigger("server", WRITE, FALSE)>> ELSE <<>>)
            \o (IF room["client"] > 0 THEN <<Trigger("client", WRITE, FALSE)>> ELSE <<>>)
            \o (IF Readable("client", inq["client"])
                THEN <<Trigger("client", READ, FALSE)>> ELSE <<>>)
       /\ PropagateHalfClose("client", buf, readClosed, TRUE)
       /\ UNCHANGED <<wrote, inq, fin, rst, out, room, buf, readClosed, open,
                      status, layerVars, task>>

(* CPRCTcpPeer::OnClose: an orderly close only prompts a drain. *)
OnClose(p, err, rest) ==
    \/ err /\ CloseBoth
    \/ /\ ~err /\ buf[p] # <<>>
       /\ msgs' = rest
       /\ UNCHANGED <<netVars, peerVars, layerVars, task>>
    \/ /\ ~err /\ buf[p] = <<>> /\ readClosed[p]
       /\ Settle(p, buf, readClosed, status, rest)
       /\ UNCHANGED <<wrote, inq, fin, rst, out, room, armed, lEvent, ready,
                      layerVars>>
    \/ /\ ~err /\ buf[p] = <<>> /\ ~readClosed[p]
       /\ lEvent' = [lEvent EXCEPT ![p] = {READ, WRITE, CLOSE}]
       /\ armed' = AsyncSelect(p, {READ, WRITE, CLOSE}, armed)
       /\ msgs' = Append(rest, Trigger(p, READ, FALSE))
       /\ UNCHANGED <<wrote, inq, fin, rst, out, room, finOut, buf, readClosed,
                      writeShut, open, ready, status, layerVars, task>>

-----------------------------------------------------------------------------
(* CAsyncProxySocketLayer under CallEvent, for a Winsock notification of the
   server socket.  A layer TriggerEvent with an error aborts the layer. *)

Post(rest, evs, err) ==
    rest \o [i \in 1..Len(evs) |-> Trigger("server", evs[i], err)]

LayerTrigger(ev, err, l, rest) ==
    /\ layer' = IF ev = CLOSE /\ ~err THEN "closed"
                ELSE IF err /\ ev \in {CLOSE, CONNECT} THEN "aborted" ELSE l
    /\ crit' = (crit \/ (err /\ ev \in {CLOSE, CONNECT}))
    /\ msgs' = Post(rest, <<ev>>, err)

(* The proxy operation failed: FailPendingProxyOperation, Reset. *)
HandshakeFails(rest) ==
    /\ op' = FALSE
    /\ LayerTrigger(CONNECT, TRUE, layer, rest)

(* The last reply granted the request: Reset, then three events. *)
HandshakeSucceeds(rest) ==
    /\ op' = FALSE
    /\ layer' = "connected" /\ crit' = FALSE
    /\ msgs' = Post(rest, <<CONNECT, READ, WRITE>>, FALSE)

LayerIdle(l, rest) ==
    /\ layer' = l /\ op' = op /\ msgs' = rest

LayerOnReceive(rest) ==
    \/ /\ ~op /\ op' = op /\ LayerTrigger(READ, FALSE, layer, rest)
    \/ op /\ LayerIdle(layer, rest) /\ crit' = crit \* reply not complete
    \/ op /\ HandshakeSucceeds(rest)
    \/ op /\ HandshakeFails(rest)

LayerOnSend(rest) ==
    \/ ~op /\ op' = op /\ LayerTrigger(WRITE, FALSE, layer, rest)
    \/ op /\ LayerIdle(layer, rest) /\ crit' = crit \* FlushProxyRequest
    \/ op /\ HandshakeFails(rest)

LayerOnConnect(err, rest) ==
    \/ /\ op /\ ~err /\ LayerIdle("connected", rest) /\ crit' = crit
    \/ /\ op /\ err /\ HandshakeFails(rest)
    \/ /\ ~op /\ op' = op /\ LayerTrigger(CONNECT, err, "connected", rest)

LayerOnClose(err, rest) ==
    \/ op /\ HandshakeFails(rest)
    \/ ~op /\ op' = op /\ LayerTrigger(CLOSE, err, layer, rest)

(* CAsyncSocketExLayer::CallEvent: nothing after a critical error; read, write
   and close only in state connected, connect only in state connecting. *)
Expects(ev) == layer = IF ev = CONNECT THEN "connecting" ELSE "connected"

CallEvent(ev, err, rest) ==
    \/ crit /\ LayerIdle(layer, rest) /\ crit' = crit
    \/ ~crit /\ ~Expects(ev) /\ LayerIdle(layer, rest) /\ crit' = err
    \/ /\ ~crit /\ Expects(ev)
       /\ \/ ev = READ /\ LayerOnReceive(rest)
          \/ ev = WRITE /\ LayerOnSend(rest)
          \/ ev = CONNECT /\ LayerOnConnect(err, rest)
          \/ ev = CLOSE /\ LayerOnClose(err, rest)

-----------------------------------------------------------------------------
(* Winsock.  A notification that is owed is posted at the moment its condition
   holds, so every other step waits until none is owed (Quiet). *)

Connected(p) == p = "server" => CONNECT \notin armed["server"]

Pending(p, ev) ==
    CASE ev = READ -> inq[p] # <<>> \/ Handshaking(p)
      [] ev = WRITE -> room[p] > 0 /\ ~finOut[p]
      [] ev = CLOSE -> fin[p] \/ rst[p]
      [] OTHER -> FALSE

Hop(p) == IF p = "client" THEN "owner" ELSE "layer"

(* Bound: a notification waits while the same message is still in the queue. *)
Queued(p, ev) ==
    \E i \in 1..Len(msgs) : msgs[i].p = p /\ msgs[i].ev = ev /\ msgs[i].hop = Hop(p)

Owed(p, ev) ==
    /\ open[p] /\ Connected(p) /\ ev \in armed[p] /\ Pending(p, ev)
    /\ ~Queued(p, ev)
Quiet == \A p \in Peers, ev \in Events : ~Owed(p, ev)

Notify(p, ev) ==
    /\ Owed(p, ev)
    /\ armed' = [armed EXCEPT ![p] = @ \ {ev}]
    /\ msgs' = Append(msgs, [p |-> p, ev |-> ev, err |-> ev = CLOSE /\ rst[p],
                             hop |-> Hop(p)])
    /\ UNCHANGED <<wrote, inq, fin, rst, out, room, finOut, peerVars, layerVars, task>>

(* connect() of the server socket completes or fails. *)
NotifyConnect(err) ==
    /\ Quiet /\ open["server"] /\ CONNECT \in armed["server"]
    /\ armed' = [armed EXCEPT !["server"] = @ \ {CONNECT}]
    /\ msgs' = Append(msgs, [p |-> "server", ev |-> CONNECT, err |-> err,
                             hop |-> "layer"])
    /\ UNCHANGED <<wrote, inq, fin, rst, out, room, finOut, peerVars, layerVars, task>>

-----------------------------------------------------------------------------
(* CAsyncSocketExHelperWindow::WindowProc: take the oldest message. *)

HasMsg(hop) == Quiet /\ msgs # <<>> /\ Head(msgs).hop = hop

(* A triggered event that m_lEvent masks out (server side only: messages of a
   peer without layers are not filtered). *)
Ignored(m) ==
    m.p = "server" /\ m.hop = "owner" /\ m.ev \notin lEvent["server"]

DropMessage ==
    /\ Quiet /\ msgs # <<>> /\ Ignored(Head(msgs))
    /\ msgs' = Tail(msgs)
    /\ UNCHANGED <<netVars, peerVars, layerVars, task>>

LayerMessage ==
    /\ HasMsg("layer") /\ ~Ignored(Head(msgs))
    /\ CallEvent(Head(msgs).ev, Head(msgs).err, Tail(msgs))
    \* while the operation runs the layer itself calls recv()
    /\ armed' = IF op /\ Head(msgs).ev = READ
                THEN [armed EXCEPT !["server"] = @ \cup {READ}] ELSE armed
    /\ UNCHANGED <<wrote, inq, fin, rst, out, room, finOut, peerVars, task>>

OwnerMessage ==
    /\ HasMsg("owner") /\ ~Ignored(Head(msgs))
    /\ LET m == Head(msgs) IN
       \/ m.ev = READ /\ OnReceive(m.p, Tail(msgs))
       \/ m.ev = WRITE /\ OnSend(m.p, Tail(msgs))
       \/ m.ev = CONNECT /\ OnConnect(m.err, Tail(msgs))
       \/ m.ev = CLOSE /\ OnClose(m.p, m.err, Tail(msgs))

-----------------------------------------------------------------------------
(* Timer and task manager.  The timers are WM_TIMER messages, which Windows
   hands out only when no posted message is waiting. *)

(* CPRCTcpPeer::OnTimer in TM_CONN: the connection attempt has timed out. *)
ConnTimeout ==
    /\ Quiet /\ msgs = <<>> /\ task = "active" /\ open["server"] /\ status = "conn"
    /\ buf' = [buf EXCEPT !["server"] = <<>>]
    /\ msgs' = Append(msgs, Trigger("server", CLOSE, TRUE))
    /\ UNCHANGED <<netVars, readClosed, writeShut, open, lEvent, ready, status,
                   layerVars, task>>

(* CTcpProxyTask::EndTask: the sweep of closed tasks, a selected reconnect, the
   exit of the owning process, RemoveAllTasks. *)
EndTask ==
    /\ open' = [p \in Peers |-> FALSE]
    /\ task' = "gone"
    /\ msgs' = <<>>
    /\ UNCHANGED <<netVars, buf, readClosed, writeShut, lEvent, ready, status,
                   layerVars>>

TimerSweep == msgs = <<>> /\ task = "deletePending" /\ EndTask
TaskAborted == MayReset /\ task = "active" /\ EndTask

-----------------------------------------------------------------------------
(* The remote endpoints. *)

(* The destination speaks only once the tunnel is up. *)
Speaks(p) ==
    /\ open[p] /\ ~fin[p] /\ ~rst[p]
    /\ p = "server" => ~op /\ layer = "connected"

RemoteWrite(p) ==
    /\ Quiet /\ Speaks(p)
    /\ wrote[p] < IF p = "client" THEN ClientBytes ELSE ServerBytes
    /\ wrote' = [wrote EXCEPT ![p] = @ + 1]
    /\ inq' = [inq EXCEPT ![p] = Append(@, wrote[p] + 1)]
    /\ UNCHANGED <<fin, rst, out, room, finOut, armed, peerVars, layerVars, msgs, task>>

(* The end of a stream; a proxy may also hang up during the handshake. *)
RemoteFin(p) ==
    /\ Quiet /\ open[p] /\ ~fin[p] /\ ~rst[p] /\ Connected(p)
    /\ p = "server" /\ ~ServerEndsFirst => finOut["server"]
    /\ fin' = [fin EXCEPT ![p] = TRUE]
    /\ UNCHANGED <<wrote, inq, rst, out, room, finOut, armed, peerVars, layerVars,
                   msgs, task>>

RemoteReset(p) ==
    /\ Quiet /\ MayReset /\ open[p] /\ Connected(p)
    /\ \A q \in Peers : ~rst[q]                 \* bound: one reset
    /\ rst' = [rst EXCEPT ![p] = TRUE]
    /\ UNCHANGED <<wrote, inq, fin, out, room, finOut, armed, peerVars, layerVars,
                   msgs, task>>

RemoteDrain(p) ==
    /\ Quiet /\ open[p] /\ ~rst[p] /\ room[p] < SendRoom
    /\ room' = [room EXCEPT ![p] = SendRoom]
    /\ UNCHANGED <<wrote, inq, fin, rst, out, finOut, armed, peerVars, layerVars,
                   msgs, task>>

-----------------------------------------------------------------------------
Dispatch == DropMessage \/ LayerMessage \/ OwnerMessage

Remote(p) == RemoteWrite(p) \/ RemoteFin(p) \/ RemoteReset(p) \/ RemoteDrain(p)

Next ==
    \/ DropMessage
    \/ LayerMessage
    \/ OwnerMessage
    \/ ConnTimeout
    \/ TimerSweep
    \/ TaskAborted
    \/ \E p \in Peers, ev \in Events : Notify(p, ev)
    \/ \E err \in BOOLEAN : NotifyConnect(err)
    \/ \E p \in Peers : RemoteWrite(p)
    \/ \E p \in Peers : RemoteFin(p)
    \/ \E p \in Peers : RemoteReset(p)
    \/ \E p \in Peers : RemoteDrain(p)

Spec == Init /\ [][Next]_vars

(* The window procedure keeps running, Winsock delivers what it owes, the
   remote endpoints keep reading, connect() and the proxy's finite answer end. *)
Fairness ==
    /\ WF_vars(Dispatch)
    /\ WF_vars(TimerSweep)
    /\ \A p \in Peers : WF_vars(RemoteDrain(p))
    /\ \A p \in Peers, ev \in Events : WF_vars(Notify(p, ev))
    /\ WF_vars(\E err \in BOOLEAN : NotifyConnect(err))
    /\ SF_vars(LayerMessage /\ op /\ ~op')

FairSpec == Spec /\ Fairness

-----------------------------------------------------------------------------
(* s holds the bytes that follow position m of a stream. *)
Follows(s, m) == \A i \in 1..Len(s) : s[i] = m + i
Complete(p) == Follows(out[Other(p)], 0) /\ Len(out[Other(p)]) = wrote[p]

(* What one side wrote reaches the other side in order, without a gap, a
   duplicate or a foreign byte, whatever the sockets, the handshake and the
   buffer of OnReceive / OnSend / TransferSend do. *)
PrefixDelivered ==
    \A p \in Peers :
        Follows(out[Other(p)], 0) /\ Len(out[Other(p)]) <= wrote[p]

(* PropagateHalfClose tells a side of the end of the stream only when the
   other side ended it and every byte of it has been sent. *)
EofAfterAll ==
    \A p \in Peers : finOut[Other(p)] => fin[p] /\ Complete(p)

(* Nothing the application wrote enters the proxy's handshake. *)
NoPayloadInHandshake == op => out["server"] = <<>> /\ ~finOut["server"]

(* An error of its socket, or a critical error of its layer, has condemned p:
   neither Send nor Receive works on it again. *)
Dead(p) == rst[p] \/ (p = "server" /\ crit)
Condemned == \E p \in Peers : Dead(p)

(* The bytes sent, the ones read and not sent, and the ones not read yet are
   exactly the stream that p's remote endpoint writes. *)
InFlight(p) ==
    LET o == out[Other(p)] IN
    /\ Len(o) + Len(buf[p]) + Len(inq[p]) = wrote[p]
    /\ Follows(buf[p], Len(o))
    /\ Follows(inq[p], Len(o) + Len(buf[p]))

(* Bytes are dropped (ClearBuffer) only when one side is dead, and nothing that
   comes after them is sent. *)
Conserved ==
    \A p \in Peers : Dead(Other(p)) \/ (Dead(p) /\ buf[p] = <<>>) \/ InFlight(p)

(* Once Receive returned zero on p nothing of its stream is left to send. *)
ClosedDrained ==
    \A p \in Peers : readClosed[p] =>
        /\ fin[p] /\ buf[p] = <<>> /\ inq[p] = <<>>
        /\ Dead(Other(p)) \/ Complete(p)

(* A finished handshake has left the state connecting; a server peer that is
   still in TM_CONN has read nothing. *)
LayerUp == FALSE \notin Proxied => op \/ layer # "connecting"
UnreadWhileConnecting == status = "conn" => buf["server"] = <<>>

(* The inductive invariant behind PrefixDelivered and EofAfterAll: where every
   byte of OnReceive, TransferSend and OnSend is at any time. *)
DeliveryInv ==
    /\ PrefixDelivered /\ EofAfterAll
    /\ Conserved /\ ClosedDrained /\ LayerUp /\ UnreadWhileConnecting

(* The sockets of a running task are closed only on an error event or when both
   directions have ended and are complete: one EOF preserves the other
   direction (OnReceive, OnClose, TryFinishConnection). *)
OnlyErrorsCut ==
    [][open["client"] /\ task' = "deletePending"
         => Head(msgs).err \/ Condemned \/ \A p \in Peers : fin[p] /\ Complete(p)']_vars

(* An end of stream is passed on to the other side, or the task ends. *)
HalfCloseForwarded ==
    \A p \in Peers : fin[p] ~> (finOut[Other(p)] \/ task # "active")

(* When both sides have ended, the task is released. *)
TaskReleased == (\A p \in Peers : fin[p]) ~> (task = "gone")
=============================================================================
