--------------------------- MODULE ProxyHandshake ---------------------------
(***************************************************************************)
(* CAsyncProxySocketLayer under the server peer: the SOCKS4, SOCKS5 and    *)
(* HTTP CONNECT dialogues with the upstream proxy, CONNECT and UDP         *)
(* ASSOCIATE, up to the moment the tunnel carries the destination's bytes. *)
(*                                                                         *)
(* The proxy's answers arrive in arbitrary pieces and the destination may  *)
(* speak right behind the last one.  A protocol byte is its value; a byte  *)
(* of the destination is 1000 plus its position.  An HTTP header is its    *)
(* status followed by plain bytes and the byte that ends CR LF CR LF.      *)
(* BIND, which ProxyLane never requests, is left out.                      *)
(***************************************************************************)
EXTENDS Naturals, Sequences, FiniteSets

CONSTANTS
    ProxyTypes,  \* the proxy types tried: subset of {"SOCKS4", "SOCKS5", "HTTP"}
    HttpBuf,     \* sizeof cBuff and the limit of m_pStrBuffer (4096)
    ReadBuf,     \* MAXTCPBUFSIZE, what the owner asks Receive for (4096)
    HeaderLens,  \* lengths of the HTTP replies
    NameLen,     \* length of the host name in a SOCKS5 domain reply
    RequestLen,  \* bytes of a request
    Room,        \* free space of the kernel send buffer
    MaxPayload,  \* bound: bytes the destination writes
    MayFail      \* the connection may fail or end at any time

ASSUME HandshakeAssumption ==
    /\ ProxyTypes \subseteq {"SOCKS4", "SOCKS5", "HTTP"}
    /\ HttpBuf \in Nat \ {0} /\ ReadBuf \in Nat \ {0} /\ HttpBuf <= ReadBuf
    /\ HeaderLens \subseteq Nat \ {0, 1}
    /\ NameLen \in 0..255 /\ RequestLen \in Nat \ {0} /\ Room \in Nat \ {0}
    /\ MaxPayload \in Nat /\ MayFail \in BOOLEAN

VARIABLES
    ptype, opId, logon,  \* m_nProxyType, the operation asked for, bUseLogon
    layer,      \* m_nLayerState
    op,         \* m_nProxyOpID # 0
    opState,    \* m_nProxyOpState
    recvBuf,    \* m_pRecvBuffer[0 .. m_nRecvBufferPos)
    strBuf,     \* m_pStrBuffer
    appBuf,     \* m_pAppRecvBuffer from m_nAppRecvBufferPos on
    sendLeft,   \* m_nSendBufferLen - m_nSendBufferPos, 0: m_pSendBuffer is NULL
    room,       \* free space of the kernel send buffer
    inq,        \* bytes recv() has not returned
    wire,       \* bytes of the proxy that are still on their way
    fin, rst,   \* the proxy ended / reset the connection
    armed,      \* FD_ notifications the kernel still owes
    msgs,       \* window messages: [to, ev, err]
    asked,      \* requests the proxy has received in full and not answered
    stage,      \* the proxy's next reply: method | auth | request | done
    verdict,    \* none | granted | refused: what the proxy decided
    wrote,      \* bytes the destination has written
    got,        \* bytes the owner has read
    blocked     \* the owner waits for its partner before it reads again

request == <<ptype, opId, logon>>
buffers == <<recvBuf, strBuf, appBuf, sendLeft>>
proxy   == <<wire, stage, verdict, wrote>>
vars == <<request, layer, op, opState, buffers, room, inq, fin, rst, armed,
          msgs, asked, proxy, got, blocked>>

EOH  == 13
Byte == 0..255 \cup {200, 407, 500} \cup {1000 + i : i \in 1..MaxPayload}
Events == {"FD_CONNECT", "FD_READ", "FD_WRITE", "FD_CLOSE"}
Messages == [to : {"layer", "owner"}, ev : Events, err : BOOLEAN]

TypeOK ==
    /\ ptype \in ProxyTypes /\ opId \in {"connect", "udp"} /\ logon \in BOOLEAN
    /\ layer \in {"connecting", "connected", "closed", "aborted"}
    /\ op \in BOOLEAN /\ opState \in 0..3
    /\ recvBuf \in Seq(Byte) /\ Len(recvBuf) <= 262    \* MAX_HEADER_SIZE
    /\ strBuf \in Seq(Byte) /\ Len(strBuf) <= HttpBuf
    /\ appBuf \in Seq(Byte)
    /\ sendLeft \in 0..RequestLen /\ room \in 0..Room
    /\ inq \in Seq(Byte) /\ wire \in Seq(Byte)
    /\ fin \in BOOLEAN /\ rst \in BOOLEAN
    /\ armed \in SUBSET Events
    /\ msgs \in Seq(Messages)
    /\ asked \in 0..3 /\ stage \in {"method", "auth", "request", "done"}
    /\ verdict \in {"none", "granted", "refused"}
    /\ wrote \in 0..MaxPayload
    /\ got \in Seq(Byte) /\ blocked \in BOOLEAN

(* Connect has stored the destination, set m_nProxyOpID and called connect(). *)
Init ==
    /\ ptype \in ProxyTypes
    /\ opId \in {"connect", "udp"} /\ (opId = "udp" => ptype = "SOCKS5")
    /\ logon \in BOOLEAN
    /\ layer = "connecting" /\ op = TRUE /\ opState = 0
    /\ recvBuf = <<>> /\ strBuf = <<>> /\ appBuf = <<>> /\ sendLeft = 0
    /\ room = Room /\ inq = <<>> /\ wire = <<>>
    /\ fin = FALSE /\ rst = FALSE
    /\ armed = Events /\ msgs = <<>>
    /\ asked = 0 /\ stage = (IF ptype = "SOCKS5" THEN "method" ELSE "request")
    /\ verdict = "none" /\ wrote = 0
    /\ got = <<>> /\ blocked = FALSE

-----------------------------------------------------------------------------
Smaller(a, b) == IF a <= b THEN a ELSE b
Take(s, n) == SubSeq(s, 1, n)
Skip(s, n) == SubSeq(s, n + 1, Len(s))
Owner(ev, err) == [to |-> "owner", ev |-> ev, err |-> err]

(* Every failure: Reset, and TriggerEvent posts one FD_CONNECT with an error,
   which aborts the layer.  Which buffers are freed differs. *)
FailedWithoutReset(rest) ==                            \* mutant
    /\ layer' = "aborted"
    /\ msgs' = Append(rest, Owner("FD_CONNECT", TRUE))
    /\ UNCHANGED <<op, opState, room, appBuf, asked>>
Failed(rest) ==
    /\ op' = FALSE /\ opState' = 0 /\ layer' = "aborted"
    /\ msgs' = Append(rest, Owner("FD_CONNECT", TRUE))
    /\ UNCHANGED <<room, appBuf, asked>>

ClearBuffer == recvBuf' = <<>> /\ strBuf' = <<>>
FailPendingProxyOperation(rest) == Failed(rest) /\ ClearBuffer /\ sendLeft' = 0
FailReply(rest) == Failed(rest) /\ ClearBuffer /\ UNCHANGED sendLeft
FailRead(rest) ==
    /\ Failed(rest) /\ UNCHANGED sendLeft
    /\ IF ptype = "SOCKS5" THEN UNCHANGED <<recvBuf, strBuf>> ELSE ClearBuffer

(* Request granted: Reset, ClearBuffer, the bytes behind an HTTP header are
   kept for Receive, and the owner is told (three events for a CONNECT). *)
GrantedSilently(surplus, rest) ==                      \* mutant
    /\ op' = FALSE /\ opState' = 0
    /\ recvBuf' = <<>> /\ strBuf' = <<>> /\ appBuf' = surplus
    /\ msgs' = Append(rest, Owner("FD_CONNECT", FALSE))
    /\ UNCHANGED <<layer, sendLeft, room, asked>>
Granted(surplus, rest) ==
    /\ op' = FALSE /\ opState' = 0
    /\ recvBuf' = <<>> /\ strBuf' = <<>> /\ appBuf' = surplus
    /\ msgs' = rest \o (IF opId = "connect"
                        THEN <<Owner("FD_CONNECT", FALSE), Owner("FD_READ", FALSE),
                               Owner("FD_WRITE", FALSE)>>
                        ELSE <<Owner("FD_CONNECT", FALSE)>>)
    /\ UNCHANGED <<layer, sendLeft, room, asked>>

(* QueueProxyRequest and FlushProxyRequest: what the kernel takes leaves. *)
Flush(left) ==
    LET k == Smaller(left, room) IN
    /\ sendLeft' = left - k /\ room' = room - k
    /\ asked' = IF k = left THEN asked + 1 ELSE asked

(* A request that cannot be queued (the one before is not out) or sent. *)
SendRequest(state, b, rest) ==
    \/ /\ MayFail \/ sendLeft > 0
       /\ Failed(rest) /\ recvBuf' = b /\ strBuf' = strBuf /\ UNCHANGED sendLeft
    \/ /\ sendLeft = 0 /\ Flush(RequestLen)
       /\ opState' = state
       /\ recvBuf' = <<>> /\ msgs' = rest
       /\ UNCHANGED <<layer, op, strBuf, appBuf>>

-----------------------------------------------------------------------------
(* OnReceive.  The length of the reply expected, given what has arrived. *)

ResponseLength(b) ==
    IF Len(b) < 4 THEN 4
    ELSE IF b[4] = 1 THEN 10
    ELSE IF b[4] = 4 THEN 22
    ELSE IF b[4] = 3 THEN (IF Len(b) < 5 THEN 5 ELSE 7 + b[5])
    ELSE 4
Expected(b) ==
    IF ptype = "SOCKS4" THEN 8
    ELSE IF opState \in {1, 2} THEN 2 ELSE ResponseLength(b)

(* The reply is complete: what it makes the layer do. *)
Socks4Reply(b, rest) ==
    \/ b[1] = 0 /\ b[2] = 90 /\ Granted(<<>>, rest)
    \/ (b[1] # 0 \/ b[2] # 90) /\ FailReply(rest)

MethodReply(b, rest) ==
    \/ b[1] = 5 /\ b[2] = 0 /\ SendRequest(3, b, rest)
    \/ b[1] = 5 /\ b[2] = 2 /\ logon /\ SendRequest(2, b, rest)
    \/ (b[1] # 5 \/ b[2] \notin {0, 2} \/ (b[2] = 2 /\ ~logon))
         /\ FailReply(rest)

AuthReply(b, rest) ==
    \/ b[2] = 0 /\ SendRequest(3, b, rest)
    \/ b[2] # 0 /\ FailReply(rest)

(* UDP ASSOCIATE needs an IPv4 relay, or a name that resolves to one. *)
RequestReply(b, rest) ==
    \/ (b[1] # 5 \/ b[2] # 0) /\ FailReply(rest)
    \/ /\ b[1] = 5 /\ b[2] = 0
       /\ opId = "udp" => b[4] # 4
       /\ Granted(<<>>, rest)
    \/ /\ b[1] = 5 /\ b[2] = 0 /\ opId = "udp" /\ b[4] \in {3, 4}
       /\ FailReply(rest)

BadAtyp(b) == ptype = "SOCKS5" /\ opState = 3 /\ Len(b) >= 4 /\ b[4] \notin {1, 3, 4}

(* The length is computed again after the read. *)
SocksReceive(rest) ==
    LET n == Smaller(Expected(recvBuf) - Len(recvBuf), Len(inq))
        b == recvBuf \o Take(inq, n)
    IN /\ inq' = Skip(inq, n)
       /\ \/ /\ ~BadAtyp(b) /\ Len(b) # Expected(b)
             /\ recvBuf' = b /\ msgs' = rest
             /\ UNCHANGED <<layer, op, opState, strBuf, appBuf, sendLeft, room, asked>>
          \/ BadAtyp(b) /\ FailReply(rest)
          \/ /\ ~BadAtyp(b) /\ Len(b) = Expected(b)
             /\ \/ ptype = "SOCKS4" /\ Socks4Reply(b, rest)
                \/ ptype = "SOCKS5" /\ opState = 1 /\ MethodReply(b, rest)
                \/ ptype = "SOCKS5" /\ opState = 2 /\ AuthReply(b, rest)
                \/ ptype = "SOCKS5" /\ opState = 3 /\ RequestReply(b, rest)

(* HTTP: everything available is read; the end of the header is searched. *)
HeaderEndEarly(b) ==                                         \* mutant
    (CHOOSE i \in 1..Len(b) : b[i] = EOH /\ \A j \in 1..(i - 1) : b[j] # EOH) - 1
HeaderEnd(b) == CHOOSE i \in 1..Len(b) : b[i] = EOH /\ \A j \in 1..(i - 1) : b[j] # EOH
HasEnd(b) == \E i \in 1..Len(b) : b[i] = EOH

HttpReceive(rest) ==
    LET n == Smaller(HttpBuf, Len(inq))
        b == strBuf \o Take(inq, n)
        tooLarge == Len(b) > HttpBuf
    IN /\ inq' = Skip(inq, n)
       /\ \/ tooLarge /\ FailReply(rest)
          \/ ~tooLarge /\ HasEnd(b) /\ b[1] = 200 /\ Granted(Skip(b, HeaderEnd(b)), rest)
          \/ ~tooLarge /\ HasEnd(b) /\ b[1] # 200 /\ FailReply(rest)
          \* the loop goes on: a full buffer grows too large, an end is an error
          \/ /\ ~tooLarge /\ ~HasEnd(b) /\ (n < Len(inq) \/ fin)
             /\ Failed(rest) /\ ClearBuffer
             /\ sendLeft' = IF n < Len(inq) THEN sendLeft ELSE 0
          \/ /\ ~tooLarge /\ ~HasEnd(b) /\ n = Len(inq) /\ ~fin
             /\ strBuf' = b /\ msgs' = rest
             /\ UNCHANGED <<layer, op, opState, recvBuf, appBuf, sendLeft, room, asked>>

Idle(rest) ==
    /\ msgs' = rest
    /\ UNCHANGED <<layer, op, opState, buffers, room, asked>>

(* TriggerEvent of a notification that is passed on. *)
PassOn(ev, err, rest) ==
    /\ layer' = IF ev # "FD_CLOSE" THEN layer ELSE IF err THEN "aborted" ELSE "closed"
    /\ msgs' = Append(rest, Owner(ev, err))
    /\ UNCHANGED <<op, opState, buffers, room, asked>>

(* A send() that could not take everything lets FD_WRITE be posted again. *)
Rearmed(a) == IF sendLeft' > 0 THEN a \cup {"FD_WRITE"} ELSE a

OnReceive(rest) ==
    \/ ~op /\ PassOn("FD_READ", FALSE, rest) /\ UNCHANGED <<inq, armed>>
    \/ /\ op
       /\ \/ opState > 0 /\ rst /\ FailRead(rest) /\ inq' = inq
          \/ /\ opState > 0 /\ ~rst /\ inq = <<>> /\ fin
             /\ FailPendingProxyOperation(rest) /\ inq' = inq
          \* no reply is expected yet, or recv() has none
          \/ (opState = 0 \/ (~rst /\ inq = <<>> /\ ~fin)) /\ Idle(rest) /\ inq' = inq
          \/ opState > 0 /\ ~rst /\ inq # <<>> /\ ptype # "HTTP" /\ SocksReceive(rest)
          \/ opState > 0 /\ ~rst /\ inq # <<>> /\ ptype = "HTTP" /\ HttpReceive(rest)
       /\ armed' = IF opState = 0 THEN armed ELSE Rearmed(armed \cup {"FD_READ"})

(* OnConnect reports a first request it cannot send as FD_CONNECT only for a
   CONNECT.  For UDP ASSOCIATE it is FD_ACCEPT, which does not abort the layer and
   ends in CAsyncSocketEx::OnAccept, empty for these owners: nobody is told. *)
GiveUp(rest) ==
    /\ op' = FALSE /\ opState' = 0 /\ layer' = "connected" /\ msgs' = rest
    /\ ClearBuffer /\ UNCHANGED <<room, appBuf, asked, sendLeft>>

(* OnConnect: the first request; OnSend: the rest of a request. *)
FirstRequest(rest) ==
    \/ /\ Flush(RequestLen)
       /\ layer' = "connected" /\ opState' = 1 /\ msgs' = rest
       /\ UNCHANGED <<op, recvBuf, strBuf, appBuf>>
    \* the request cannot be built (IPv6 over SOCKS4, too long) or sent
    \/ MayFail /\ opId = "connect" /\ FailReply(rest)
    \/ MayFail /\ opId = "udp" /\ GiveUp(rest)

OnConnect(err, rest) ==
    \/ err /\ FailReply(rest)
    \/ ~err /\ FirstRequest(rest)

OnSend(rest) ==
    \/ sendLeft > 0 /\ rst /\ FailPendingProxyOperation(rest)
    \/ /\ sendLeft > 0 /\ ~rst /\ Flush(sendLeft) /\ msgs' = rest
       /\ UNCHANGED <<layer, op, opState, recvBuf, strBuf, appBuf>>
    \/ sendLeft = 0 /\ op /\ Idle(rest)
    \/ sendLeft = 0 /\ ~op /\ PassOn("FD_WRITE", FALSE, rest)

OnClose(err, rest) ==
    \/ op /\ FailPendingProxyOperation(rest)
    \/ ~op /\ PassOn("FD_CLOSE", err, rest)

(* CallEvent: connect in state connecting, the others in state connected. *)
Expects(ev) == layer = IF ev = "FD_CONNECT" THEN "connecting" ELSE "connected"

LayerMessage ==
    /\ msgs # <<>> /\ Head(msgs).to = "layer"
    /\ LET m == Head(msgs)  rest == Tail(msgs) IN
       \/ ~Expects(m.ev) /\ Idle(rest) /\ UNCHANGED <<inq, armed>>
       \/ /\ Expects(m.ev)
          /\ \/ m.ev = "FD_READ" /\ OnReceive(rest)
             \/ /\ m.ev = "FD_WRITE" /\ OnSend(rest) /\ inq' = inq
                /\ armed' = Rearmed(armed)
             \/ /\ m.ev = "FD_CONNECT" /\ OnConnect(m.err, rest) /\ inq' = inq
                /\ armed' = Rearmed(armed)
             \/ m.ev = "FD_CLOSE" /\ OnClose(m.err, rest) /\ UNCHANGED <<inq, armed>>
    /\ UNCHANGED <<request, fin, rst, proxy, got, blocked>>

-----------------------------------------------------------------------------
(* The owner: CPRCTcpPeer reads with Receive until nothing is left, or until
   its partner cannot take more; OnSend of the partner resumes it when select()
   reports the socket readable. *)

Drained ==
    /\ got' = got \o appBuf \o inq
    /\ appBuf' = <<>> /\ inq' = <<>>
    /\ armed' = armed \cup {"FD_READ"}
    /\ UNCHANGED blocked

(* Receive hands out the surplus first and calls recv() only without one. *)
Receive ==
    /\ blocked' = TRUE
    /\ IF appBuf # <<>>
       THEN LET n == Smaller(ReadBuf, Len(appBuf)) IN
            /\ got' = got \o Take(appBuf, n) /\ appBuf' = Skip(appBuf, n)
            /\ UNCHANGED <<inq, armed>>
       ELSE LET n == Smaller(ReadBuf, Len(inq)) IN
            /\ n > 0
            /\ got' = got \o Take(inq, n) /\ inq' = Skip(inq, n)
            /\ armed' = armed \cup {"FD_READ"} /\ UNCHANGED appBuf

OwnerMessage ==
    /\ msgs # <<>> /\ Head(msgs).to = "owner"
    /\ LET m == Head(msgs)  rest == Tail(msgs) IN
       \/ /\ m.err                                     \* the owner closes
          /\ layer' = "aborted" /\ msgs' = <<>>
          /\ UNCHANGED <<appBuf, inq, armed, got, blocked>>
       \/ /\ ~m.err /\ m.ev = "FD_READ" /\ ~blocked /\ ~rst
          /\ (Drained \/ Receive) /\ msgs' = rest /\ layer' = layer
       \/ /\ ~m.err /\ (m.ev \in {"FD_CONNECT", "FD_WRITE"} \/ blocked \/ rst)
          /\ msgs' = rest
          /\ UNCHANGED <<layer, appBuf, inq, armed, got, blocked>>
       \/ /\ ~m.err /\ m.ev = "FD_CLOSE" /\ ~blocked /\ ~rst
          /\ msgs' = Append(rest, Owner("FD_READ", FALSE))
          /\ UNCHANGED <<layer, appBuf, inq, armed, got, blocked>>
    /\ UNCHANGED <<request, op, opState, recvBuf, strBuf, sendLeft, room, fin, rst,
                   asked, proxy>>

OwnerResume ==
    /\ blocked /\ blocked' = FALSE
    /\ msgs' = IF inq # <<>> \/ fin \/ rst
               THEN Append(msgs, Owner("FD_READ", FALSE)) ELSE msgs
    /\ UNCHANGED <<request, layer, op, opState, buffers, room, inq, fin, rst, armed,
                   asked, proxy, got>>

-----------------------------------------------------------------------------
(* Winsock and the proxy. *)

Owed(ev) ==
    /\ ev \in armed
    /\ "FD_CONNECT" \in armed => ev = "FD_CONNECT"
    /\ CASE ev = "FD_READ" -> inq # <<>>
         [] ev = "FD_WRITE" -> room > 0
         [] ev = "FD_CLOSE" -> fin \/ rst
         [] OTHER -> TRUE

Notify(ev) ==
    /\ Owed(ev)
    /\ armed' = armed \ {ev}
    /\ \E err \in BOOLEAN :
        /\ err => (ev = "FD_CONNECT" /\ MayFail) \/ (ev = "FD_CLOSE" /\ rst)
        /\ ev = "FD_CLOSE" /\ rst => err
        /\ msgs' = Append(msgs, [to |-> "layer", ev |-> ev, err |-> err])
    /\ UNCHANGED <<request, layer, op, opState, buffers, room, inq, fin, rst, asked,
                   proxy, got, blocked>>

KernelDrain ==
    /\ room < Room /\ room' = Room
    /\ UNCHANGED <<request, layer, op, opState, buffers, inq, fin, rst, armed, msgs,
                   asked, proxy, got, blocked>>

Arrive ==
    /\ ~rst /\ wire # <<>>
    /\ \E n \in 1..Len(wire) :
        /\ inq' = inq \o Take(wire, n) /\ wire' = Skip(wire, n)
    /\ UNCHANGED <<request, layer, op, opState, buffers, room, fin, rst, armed, msgs,
                   asked, stage, verdict, wrote, got, blocked>>

Zeros(n) == [i \in 1..n |-> 0]
MethodReplies == {<<5, 0>>, <<5, 2>>, <<5, 255>>, <<4, 0>>}
AuthReplies   == {<<1, 0>>, <<1, 1>>}
Socks4Replies == {<<0, 90>> \o Zeros(6), <<0, 91>> \o Zeros(6)}
Socks5Replies ==
    {<<5, 0, 0, 1>> \o Zeros(6), <<5, 7, 0, 1>> \o Zeros(6), <<5, 0, 0, 4>> \o Zeros(18),
     <<5, 0, 0, 3, NameLen>> \o Zeros(NameLen + 2), <<5, 1, 0, 0>> \o Zeros(6)}
HttpReply(st, n) == <<st>> \o [i \in 1..(n - 2) |-> 1] \o <<EOH>>
HttpReplies == {HttpReply(st, n) : st \in {200, 407, 500}, n \in HeaderLens}
Replies ==
    IF stage = "method" THEN MethodReplies
    ELSE IF stage = "auth" THEN AuthReplies
    ELSE IF ptype = "SOCKS4" THEN Socks4Replies
    ELSE IF ptype = "SOCKS5" THEN Socks5Replies ELSE HttpReplies

Grants(r) == IF ptype = "HTTP" THEN r[1] = 200
             ELSE IF ptype = "SOCKS4" THEN r[2] = 90 ELSE r[2] = 0

ProxyReply ==
    /\ asked > 0 /\ stage # "done" /\ ~fin /\ ~rst
    /\ asked' = asked - 1
    /\ \E r \in Replies :
        /\ wire' = wire \o r
        /\ \/ /\ stage = "method" /\ verdict' = verdict
              /\ stage' = IF r[2] = 0 THEN "request" ELSE "auth"
           \/ stage = "auth" /\ stage' = "request" /\ verdict' = verdict
           \/ /\ stage = "request" /\ stage' = "done"
              /\ verdict' = IF Grants(r) THEN "granted" ELSE "refused"
    /\ UNCHANGED <<request, layer, op, opState, buffers, room, inq, fin, rst, armed,
                   msgs, wrote, got, blocked>>

DestinationWrites ==
    /\ verdict = "granted" /\ opId = "connect" /\ ~fin /\ ~rst /\ wrote < MaxPayload
    /\ wrote' = wrote + 1
    /\ wire' = Append(wire, 1000 + wrote + 1)
    /\ UNCHANGED <<request, layer, op, opState, buffers, room, inq, fin, rst, armed,
                   msgs, asked, stage, verdict, got, blocked>>

ConnectionEnds ==
    /\ MayFail /\ "FD_CONNECT" \notin armed /\ ~fin /\ ~rst
    /\ \/ wire = <<>> /\ fin' = TRUE /\ rst' = rst
       \/ rst' = TRUE /\ fin' = fin
    /\ UNCHANGED <<request, layer, op, opState, buffers, room, inq, armed, msgs, asked,
                   proxy, got, blocked>>

Next ==
    \/ LayerMessage \/ OwnerMessage \/ OwnerResume
    \/ (\E ev \in Events : Notify(ev)) \/ KernelDrain \/ Arrive
    \/ ProxyReply \/ DestinationWrites \/ ConnectionEnds

Spec == Init /\ [][Next]_vars

(* The window procedure runs, the kernel delivers, the proxy answers, the
   partner of the owner eventually takes what was read. *)
Fairness ==
    /\ WF_vars(LayerMessage \/ OwnerMessage) /\ WF_vars(OwnerResume)
    /\ \A ev \in Events : WF_vars(Notify(ev))
    /\ WF_vars(KernelDrain) /\ WF_vars(Arrive) /\ WF_vars(ProxyReply)
FairSpec == Spec /\ Fairness

-----------------------------------------------------------------------------
Payload == [i \in 1..wrote |-> 1000 + i]
Succeeded == verdict = "granted" /\ ~op /\ layer # "aborted"

(* The layer takes exactly the proxy's replies out of the stream: every byte the
   destination wrote behind them reaches the owner through Receive, in order and
   once, however the replies were cut and whatever was read with them. *)
ExactFraming ==
    Succeeded /\ ~rst => got \o appBuf \o inq \o wire = Payload

(* The one path on which an operation ends untold: OnConnect cannot send the first
   request of a UDP ASSOCIATE.  The proxy has then received nothing. *)
GivesUp == opId = "udp" /\ layer = "connecting" /\ layer' = "connected" /\ ~op'
Unsent == opId = "udp" /\ stage = "method" /\ asked = 0 /\ verdict = "none"

(* The owner is told how the operation ended exactly when it ends: no path of
   OnReceive, OnSend, OnConnect or OnClose reports twice, and none but GivesUp
   gives up silently. *)
Outcomes(ms) ==
    Cardinality({i \in 1..Len(ms) : ms[i].to = "owner" /\ ms[i].ev = "FD_CONNECT"})
OutcomeOnce == [][(op /\ ~op' /\ ~GivesUp) <=> Outcomes(msgs') > Outcomes(msgs)]_vars

(* A layer that is done and not aborted is a tunnel only when the proxy granted
   the request; otherwise it has given up before the proxy was asked at all. *)
GrantIsReal ==
    (~op /\ layer \in {"connected", "closed"}) => verdict = "granted" \/ Unsent

(* No surplus is left where select() cannot see it: the owner that stopped reading
   has taken all of m_pAppRecvBuffer. *)
SurplusTaken == blocked => appBuf = <<>>

(* The operation ends, whatever pieces the replies and requests travel in. *)
OperationEnds == op ~> ~op

(* What the destination writes is read, unless the connection failed. *)
PayloadRead ==
    \A i \in 1..MaxPayload : (wrote >= i) ~> (Len(got) >= i \/ layer = "aborted" \/ rst)

(* What the layer makes of the proxy's bytes: the reply is cut off exactly where
   it ends, wherever recv() cuts it (ExactFraming), a connection is reported only
   when the proxy granted it (GrantIsReal), and payload that came with an HTTP
   reply is not left where select() does not see it (SurplusTaken). *)
DialogueExact == TypeOK /\ ExactFraming /\ GrantIsReal /\ SurplusTaken

(* A dialogue comes to its end, and the payload behind it is read. *)
DialogueEnds == OperationEnds /\ PayloadRead

=============================================================================
