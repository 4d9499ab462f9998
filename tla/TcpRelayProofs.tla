--------------------------- MODULE TcpRelayProofs ---------------------------
(* Proofs about TcpRelay, for every buffer size, read limit, kernel buffer and
   stream length: the byte accounting of a forwarding task, and from it what the
   users of a task see: nothing enters the proxy's handshake, only errors cut a
   running task, and the task implements the byte pipes of TcpPipe. *)
EXTENDS TcpRelayRefinement, SequenceTheorems, TLAPS

-----------------------------------------------------------------------------
(* Lemmas about the operators. *)

(* Other maps the two peers onto each other. *)
LEMMA OtherPeer ==
    /\ \A p \in Peers : Other(p) \in Peers /\ Other(p) # p /\ Other(Other(p)) = p
    /\ Peers = {"client", "server"}
BY DEF Other, Peers

(* Take and Skip split a sequence at position n. *)
LEMMA TakeSkip ==
    ASSUME NEW S, NEW s \in Seq(S), NEW n \in 0..Len(s)
    PROVE  /\ Take(s, n) \in Seq(S) /\ Len(Take(s, n)) = n
           /\ \A i \in 1..n : Take(s, n)[i] = s[i]
           /\ Skip(s, n) \in Seq(S) /\ Len(Skip(s, n)) = Len(s) - n
           /\ \A i \in 1..(Len(s) - n) : Skip(s, n)[i] = s[n + i]
<1>1. Len(s) \in Nat
  BY LenProperties
<1>2. \A i \in 1..n : s[i] \in S
  BY <1>1, ElementOfSeq
<1>3. \A i \in (n + 1)..Len(s) : s[i] \in S
  BY <1>1, ElementOfSeq
<1>4. /\ Take(s, n) \in Seq(S) /\ Len(Take(s, n)) = n
      /\ \A i \in 1..n : Take(s, n)[i] = s[i]
  BY <1>1, <1>2, SubSeqProperties DEF Take
<1>5. /\ Skip(s, n) \in Seq(S) /\ Len(Skip(s, n)) = Len(s) - n
      /\ \A i \in 1..(Len(s) - n) : Skip(s, n)[i] = s[n + i]
  BY <1>1, <1>3, SubSeqProperties DEF Skip
<1> QED BY <1>4, <1>5

Splits(S, s, n) ==
    /\ Take(s, n) \in Seq(S) /\ Len(Take(s, n)) = n
    /\ \A i \in 1..n : Take(s, n)[i] = s[i]
    /\ Skip(s, n) \in Seq(S) /\ Len(Skip(s, n)) = Len(s) - n
    /\ \A i \in 1..(Len(s) - n) : Skip(s, n)[i] = s[n + i]
LEMMA SplitAt ==
    ASSUME NEW S, NEW s \in Seq(S), NEW n \in 0..Len(s)
    PROVE  Splits(S, s, n)
BY TakeSkip DEF Splits

LEMMA SmallerBound ==
    ASSUME NEW a \in Nat, NEW b \in Nat
    PROVE  /\ Smaller(a, b) \in Nat /\ Smaller(a, b) <= a /\ Smaller(a, b) <= b
           /\ Smaller(a, b) \in 0..a /\ Smaller(a, b) \in 0..b
BY DEF Smaller

(* OnReceive never takes more than the socket holds. *)
LEMMA ReadAmountBound ==
    ASSUME NEW q \in Seq(Nat), NEW r \in Nat
    PROVE  ReadAmount(q, r) \in 0..Len(q)
<1>1. Len(q) \in Nat
  BY LenProperties
<1>2. BufSize \in Nat /\ BufSize > 0 /\ EventCap \in Nat
  BY RelayAssumption
<1>3. r \div BufSize \in Nat
  BY <1>2
<1>4. (r \div BufSize + 1) * BufSize \in Nat
  BY <1>2, <1>3
<1>5. Smaller((r \div BufSize + 1) * BufSize, EventCap) \in Nat
  BY <1>2, <1>4, SmallerBound
<1> QED BY <1>1, <1>5, SmallerBound DEF ReadAmount

-----------------------------------------------------------------------------
(* Type correctness. *)

(* Messages the peers and the layer post are messages. *)
LEMMA TriggerType ==
    \A p \in Peers, ev \in Events, err \in BOOLEAN : Trigger(p, ev, err) \in Msgs
BY DEF Trigger, Msgs

LEMMA OneMessage ==
    ASSUME NEW x \in Msgs
    PROVE  <<x>> \in Seq(Msgs) /\ <<>> \in Seq(Msgs)
OBVIOUS

LEMMA EventNames ==
    READ \in Events /\ WRITE \in Events /\ CONNECT \in Events /\ CLOSE \in Events
BY DEF Events

LEMMA RearmType ==
    ASSUME NEW a \in [Peers -> SUBSET Events], NEW p \in Peers, NEW ev \in Events
    PROVE  Rearm(a, p, ev) \in [Peers -> SUBSET Events]
BY DEF Rearm

LEMMA SelectType ==
    ASSUME NEW a \in [Peers -> SUBSET Events], NEW p \in Peers, NEW es \in SUBSET Events
    PROVE  AsyncSelect(p, es, a) \in [Peers -> SUBSET Events]
BY DEF AsyncSelect

LEMMA SpaceBound ==
    ASSUME TypeOK, NEW q \in Peers
    PROVE  SendSpace(q) \in 0..room[q] /\ room[q] \in 0..SendRoom
BY RelayAssumption DEF TypeOK, SendSpace

(* The tail of the handlers keeps the variables it writes well typed. *)
LEMMA SettleType ==
    ASSUME TypeOK, NEW p \in Peers, NEW b \in [Peers -> Seq(Nat)],
           NEW rc \in [Peers -> BOOLEAN], NEW st \in {"conn", "io", "close"},
           NEW m \in Seq(Msgs), Settle(p, b, rc, st, m)
    PROVE  /\ buf' \in [Peers -> Seq(Nat)]
           /\ readClosed' \in [Peers -> BOOLEAN]
           /\ writeShut' \in [Peers -> BOOLEAN]
           /\ finOut' \in [Peers -> BOOLEAN]
           /\ open' \in [Peers -> BOOLEAN]
           /\ status' \in {"conn", "io", "close"}
           /\ msgs' \in Seq(Msgs)
           /\ task' \in {"active", "deletePending", "gone"}
<1>1. buf' \in [Peers -> Seq(Nat)] /\ readClosed' \in [Peers -> BOOLEAN]
  BY DEF Settle
<1>2. writeShut' \in [Peers -> BOOLEAN] /\ finOut' \in [Peers -> BOOLEAN]
  <2>1. CASE MayPropagate(p, b, rc, ready)
    <3>1. ShutDownReaches(Other(p)) \in BOOLEAN
      BY DEF ShutDownReaches
    <3>2. finOut' = [finOut EXCEPT ![Other(p)] = @ \/ ShutDownReaches(Other(p))]
      BY <2>1 DEF Settle, PropagateHalfClose
    <3>3. writeShut' = [writeShut EXCEPT ![Other(p)] = TRUE]
      BY <2>1 DEF Settle, PropagateHalfClose
    <3> QED BY <3>1, <3>2, <3>3, OtherPeer DEF TypeOK
  <2>2. CASE ~MayPropagate(p, b, rc, ready)
    BY <2>2 DEF Settle, PropagateHalfClose, TypeOK
  <2> QED BY <2>1, <2>2
<1>3. /\ open' \in [Peers -> BOOLEAN]
      /\ status' \in {"conn", "io", "close"}
      /\ msgs' \in Seq(Msgs)
      /\ task' \in {"active", "deletePending", "gone"}
  BY EmptySeq DEF Settle, TryFinishConnection, TypeOK
<1> QED BY <1>1, <1>2, <1>3

LEMMA CloseBothType ==
    ASSUME TypeOK, CloseBoth
    PROVE  TypeOK'
BY EmptySeq DEF CloseBoth, TypeOK, netVars, layerVars

LEMMA OnReceiveType ==
    ASSUME TypeOK, NEW p \in Peers, NEW rest \in Seq(Msgs), OnReceive(p, rest)
    PROVE  TypeOK'
<1> DEFINE q  == Other(p)
           st == IF p = "server" \/ inq[p] # <<>> THEN "io" ELSE status
<1>0. /\ q \in Peers /\ st \in {"conn", "io", "close"}
      /\ inq[p] \in Seq(Nat) /\ Len(inq[p]) \in Nat
  BY OtherPeer, LenProperties DEF TypeOK
<1>1. CASE /\ buf[p] # <<>> \/ Handshaking(p)
           /\ msgs' = rest
           /\ status' = IF p = "server" THEN "io" ELSE status
           /\ UNCHANGED <<netVars, buf, readClosed, writeShut, open, lEvent, ready,
                          layerVars, task>>
  BY <1>1 DEF TypeOK, netVars, layerVars
<1>2. CASE /\ msgs' = Append(rest, Trigger(p, CLOSE, TRUE))
           /\ status' = IF p = "server" THEN "io" ELSE status
           /\ UNCHANGED <<netVars, buf, readClosed, writeShut, open, lEvent, ready,
                          layerVars, task>>
  <2>1. msgs' \in Seq(Msgs)
    BY <1>2, TriggerType, EventNames, AppendProperties
  <2> QED BY <1>2, <2>1 DEF TypeOK, netVars, layerVars
<1>3. CASE /\ inq[p] # <<>>
           /\ inq' = [inq EXCEPT ![p] = Skip(@, Smaller(BufSize, Len(@)))]
           /\ armed' = Rearm(armed, p, READ)
           /\ msgs' = Append(rest, Trigger(p, CLOSE, FALSE))
           /\ status' = st
           /\ UNCHANGED <<wrote, fin, rst, out, room, finOut, buf, readClosed,
                          writeShut, open, lEvent, ready, layerVars, task>>
  <2>1. msgs' \in Seq(Msgs)
    BY <1>3, TriggerType, EventNames, AppendProperties
  <2>2. armed' \in [Peers -> SUBSET Events]
    BY <1>3, RearmType, EventNames DEF TypeOK
  <2>3. Smaller(BufSize, Len(inq[p])) \in 0..Len(inq[p])
    <3>1. BufSize \in Nat
      BY RelayAssumption
    <3> QED BY <1>0, <3>1, SmallerBound
  <2>4. Skip(inq[p], Smaller(BufSize, Len(inq[p]))) \in Seq(Nat)
    BY <1>0, <2>3, TakeSkip
  <2>5. inq' \in [Peers -> Seq(Nat)]
    BY <1>3, <2>4 DEF TypeOK
  <2> QED BY <1>0, <1>3, <2>1, <2>2, <2>5 DEF TypeOK, layerVars
<1>4. CASE /\ LET n    == ReadAmount(inq[p], SendSpace(q))
                  k    == Smaller(n, SendSpace(q))
                  left == Skip(inq[p], n)
                  eof  == k = n /\ AtEof(p, left) /\ n < EventCap
                  more == ~eof /\ ~readClosed[p] /\ n >= EventCap /\ Readable(p, left)
                  b    == [buf EXCEPT ![p] = TransferSend(Take(inq[p], n), k)]
                  rc   == [readClosed EXCEPT ![p] = @ \/ eof]
                  blk  == k < n /\ ~Handshaking(q)
                  a1   == Rearm(armed, p, READ)
                  a2   == IF blk THEN Rearm(a1, q, WRITE) ELSE a1
              IN /\ inq' = [inq EXCEPT ![p] = left]
                 /\ out' = [out EXCEPT ![q] = @ \o Take(inq[p], k)]
                 /\ room' = [room EXCEPT ![q] = @ - k]
                 /\ lEvent' = IF eof THEN [lEvent EXCEPT ![p] = {WRITE, CLOSE}]
                              ELSE lEvent
                 /\ armed' = IF eof THEN AsyncSelect(p, {WRITE, CLOSE}, a2) ELSE a2
                 /\ Settle(p, b, rc, st,
                       IF more THEN Append(rest, Trigger(p, READ, FALSE)) ELSE rest)
           /\ UNCHANGED <<wrote, fin, rst, ready, layerVars>>
  <2> DEFINE n    == ReadAmount(inq[p], SendSpace(q))
             k    == Smaller(n, SendSpace(q))
             left == Skip(inq[p], n)
             eof  == k = n /\ AtEof(p, left) /\ n < EventCap
             more == ~eof /\ ~readClosed[p] /\ n >= EventCap /\ Readable(p, left)
             b    == [buf EXCEPT ![p] = TransferSend(Take(inq[p], n), k)]
             rc   == [readClosed EXCEPT ![p] = @ \/ eof]
             a1   == Rearm(armed, p, READ)
             a2   == IF k < n /\ ~Handshaking(q) THEN Rearm(a1, q, WRITE) ELSE a1
             m    == IF more THEN Append(rest, Trigger(p, READ, FALSE)) ELSE rest
  <2>1. SendSpace(q) \in 0..room[q] /\ room[q] \in 0..SendRoom /\ SendRoom \in Nat
    BY <1>0, SpaceBound, RelayAssumption
  <2>2. n \in 0..Len(inq[p])
    <3>1. SendSpace(q) \in Nat
      BY <2>1
    <3> QED BY <1>0, <3>1, ReadAmountBound
  <2>3. k \in 0..n /\ k <= SendSpace(q)
    BY <1>0, <2>1, <2>2, SmallerBound
  <2>4. left \in Seq(Nat) /\ Take(inq[p], n) \in Seq(Nat) /\ Len(Take(inq[p], n)) = n
    BY <1>0, <2>2, TakeSkip
  <2>5. Take(inq[p], k) \in Seq(Nat)
    BY <1>0, <2>2, <2>3, TakeSkip
  <2>6. TransferSend(Take(inq[p], n), k) \in Seq(Nat)
    BY <2>3, <2>4, TakeSkip DEF TransferSend
  <2>7. inq' \in [Peers -> Seq(Nat)]
    BY <1>4, <2>4 DEF TypeOK
  <2>8. out' \in [Peers -> Seq(Nat)]
    <3>1. out[q] \o Take(inq[p], k) \in Seq(Nat)
      BY <1>0, <2>5, ConcatProperties DEF TypeOK
    <3> QED BY <1>0, <1>4, <3>1 DEF TypeOK
  <2>9. room' \in [Peers -> 0..SendRoom]
    <3>1. room[q] - k \in 0..SendRoom
      BY <2>1, <2>3
    <3>2. room' = [room EXCEPT ![q] = @ - k]
      BY <1>4
    <3> QED BY <1>0, <3>1, <3>2 DEF TypeOK
  <2>10. {WRITE, CLOSE} \in SUBSET Events
    BY EventNames
  <2>11. lEvent' \in [Peers -> SUBSET Events]
    BY <1>4, <2>10 DEF TypeOK
  <2>12. a1 \in [Peers -> SUBSET Events]
    BY RearmType, EventNames DEF TypeOK
  <2>13. a2 \in [Peers -> SUBSET Events]
    BY <1>0, <2>12, RearmType, EventNames
  <2>14. armed' \in [Peers -> SUBSET Events]
    <3>1. armed' = IF eof THEN AsyncSelect(p, {WRITE, CLOSE}, a2) ELSE a2
      BY <1>4
    <3> HIDE DEF a2, eof
    <3> QED BY <3>1, <2>10, <2>13, SelectType
  <2>15. b \in [Peers -> Seq(Nat)]
    BY <2>6 DEF TypeOK
  <2>16. rc \in [Peers -> BOOLEAN]
    <3> HIDE DEF eof
    <3> QED BY DEF TypeOK
  <2>17. m \in Seq(Msgs)
    <3> HIDE DEF more
    <3> QED BY TriggerType, EventNames, AppendProperties
  <2>18. Settle(p, b, rc, st, m)
    BY <1>4
  <2> HIDE DEF b, rc, m, st
  <2>19. /\ buf' \in [Peers -> Seq(Nat)]
         /\ readClosed' \in [Peers -> BOOLEAN]
         /\ writeShut' \in [Peers -> BOOLEAN]
         /\ finOut' \in [Peers -> BOOLEAN]
         /\ open' \in [Peers -> BOOLEAN]
         /\ status' \in {"conn", "io", "close"}
         /\ msgs' \in Seq(Msgs)
         /\ task' \in {"active", "deletePending", "gone"}
    BY <1>0, <2>15, <2>16, <2>17, <2>18, SettleType
  <2>20. UNCHANGED <<wrote, fin, rst, ready, layerVars>>
    BY <1>4
  <2> QED BY <2>7, <2>8, <2>9, <2>11, <2>14, <2>19, <2>20 DEF TypeOK, layerVars
<1> QED BY <1>1, <1>2, <1>3, <1>4 DEF OnReceive

LEMMA OnSendType ==
    ASSUME TypeOK, NEW p \in Peers, NEW rest \in Seq(Msgs), OnSend(p, rest)
    PROVE  TypeOK'
<1> DEFINE q    == Other(p)
           st   == IF p = "server" THEN "io" ELSE status
           data == buf[q]
           k    == Smaller(Len(data), SendSpace(p))
<1>0. /\ q \in Peers /\ st \in {"conn", "io", "close"}
      /\ data \in Seq(Nat) /\ Len(data) \in Nat
  BY OtherPeer, LenProperties DEF TypeOK
<1>1. CASE /\ buf' = [r \in Peers |-> <<>>]
           /\ msgs' = Append(rest, Trigger(p, CLOSE, FALSE))
           /\ status' = st
           /\ UNCHANGED <<netVars, readClosed, writeShut, open, lEvent, ready,
                          layerVars, task>>
  <2>1. msgs' \in Seq(Msgs)
    BY <1>1, TriggerType, EventNames, AppendProperties
  <2>2. buf' \in [Peers -> Seq(Nat)]
    BY <1>1, EmptySeq
  <2> QED BY <1>0, <1>1, <2>1, <2>2 DEF TypeOK, netVars, layerVars
<1>2. CASE /\ out' = [out EXCEPT ![p] = @ \o Take(data, k)]
           /\ room' = [room EXCEPT ![p] = @ - k]
           /\ armed' = IF k < Len(data) /\ ~Handshaking(p)
                       THEN Rearm(armed, p, WRITE) ELSE armed
           /\ Settle(q, [buf EXCEPT ![q] = TransferSend(data, k)], readClosed, st,
                     rest \o ResumeReading(q, data # <<>> /\ k = Len(data)))
           /\ UNCHANGED <<wrote, inq, fin, rst, lEvent, ready, layerVars>>
  <2> DEFINE b == [buf EXCEPT ![q] = TransferSend(data, k)]
             m == rest \o ResumeReading(q, data # <<>> /\ k = Len(data))
  <2>1. SendSpace(p) \in 0..room[p] /\ room[p] \in 0..SendRoom /\ SendRoom \in Nat
    BY SpaceBound, RelayAssumption
  <2>2. k \in 0..Len(data) /\ k <= SendSpace(p)
    <3>1. SendSpace(p) \in Nat
      BY <2>1
    <3> QED BY <1>0, <3>1, SmallerBound
  <2>3. TransferSend(data, k) \in Seq(Nat) /\ Take(data, k) \in Seq(Nat)
    BY <1>0, <2>2, TakeSkip DEF TransferSend
  <2>4. out' \in [Peers -> Seq(Nat)]
    <3>1. out[p] \o Take(data, k) \in Seq(Nat)
      BY <2>3, ConcatProperties DEF TypeOK
    <3> QED BY <1>2, <3>1 DEF TypeOK
  <2>5. room' \in [Peers -> 0..SendRoom]
    <3>1. room[p] - k \in 0..SendRoom
      BY <2>1, <2>2
    <3>2. room' = [room EXCEPT ![p] = @ - k]
      BY <1>2
    <3> QED BY <3>1, <3>2 DEF TypeOK
  <2>6. armed' \in [Peers -> SUBSET Events]
    BY <1>2, RearmType, EventNames DEF TypeOK
  <2>7. b \in [Peers -> Seq(Nat)]
    BY <2>3 DEF TypeOK
  <2>8. m \in Seq(Msgs)
    <3>1. Trigger(q, READ, FALSE) \in Msgs
      BY <1>0, TriggerType, EventNames
    <3>2. ResumeReading(q, data # <<>> /\ k = Len(data)) \in Seq(Msgs)
      BY <3>1, OneMessage DEF ResumeReading
    <3> QED BY <3>2, ConcatProperties
  <2>9. Settle(q, b, readClosed, st, m) /\ readClosed \in [Peers -> BOOLEAN]
    BY <1>2 DEF TypeOK
  <2> HIDE DEF b, m, st
  <2>10. /\ buf' \in [Peers -> Seq(Nat)]
         /\ readClosed' \in [Peers -> BOOLEAN]
         /\ writeShut' \in [Peers -> BOOLEAN]
         /\ finOut' \in [Peers -> BOOLEAN]
         /\ open' \in [Peers -> BOOLEAN]
         /\ status' \in {"conn", "io", "close"}
         /\ msgs' \in Seq(Msgs)
         /\ task' \in {"active", "deletePending", "gone"}
    BY <1>0, <2>7, <2>8, <2>9, SettleType
  <2>11. UNCHANGED <<wrote, inq, fin, rst, lEvent, ready, layerVars>>
    BY <1>2
  <2> QED BY <2>4, <2>5, <2>6, <2>10, <2>11 DEF TypeOK, layerVars
<1> QED BY <1>1, <1>2 DEF OnSend

LEMMA OnConnectType ==
    ASSUME TypeOK, NEW err \in BOOLEAN, NEW rest \in Seq(Msgs), OnConnect(err, rest)
    PROVE  TypeOK'
<1>1. CASE err
  BY <1>1, CloseBothType DEF OnConnect
<1>2. CASE ~err
  <2> DEFINE m1 == IF buf["client"] # <<>> THEN <<Trigger("server", WRITE, FALSE)>> ELSE <<>>
             m2 == IF room["client"] > 0 THEN <<Trigger("client", WRITE, FALSE)>> ELSE <<>>
             m3 == IF Readable("client", inq["client"])
                   THEN <<Trigger("client", READ, FALSE)>> ELSE <<>>
  <2>1. "client" \in Peers /\ "server" \in Peers /\ Other("client") = "server"
    BY DEF Peers, Other
  <2>2. /\ Trigger("server", WRITE, FALSE) \in Msgs /\ Trigger("client", WRITE, FALSE) \in Msgs
        /\ Trigger("client", READ, FALSE) \in Msgs
    BY <2>1, TriggerType, EventNames
  <2>3. m1 \in Seq(Msgs) /\ m2 \in Seq(Msgs) /\ m3 \in Seq(Msgs)
    BY <2>2, OneMessage
  <2>4. msgs' = ((rest \o m1) \o m2) \o m3
    BY <1>2 DEF OnConnect
  <2>5. msgs' \in Seq(Msgs)
    <3> HIDE DEF m1, m2, m3
    <3>1. rest \o m1 \in Seq(Msgs)
      BY <2>3, ConcatProperties
    <3>2. (rest \o m1) \o m2 \in Seq(Msgs)
      BY <2>3, <3>1, ConcatProperties
    <3> QED BY <2>3, <2>4, <3>2, ConcatProperties
  <2>6. {READ, WRITE, CLOSE} \in SUBSET Events
    BY EventNames
  <2>7. lEvent' \in [Peers -> SUBSET Events]
    BY <1>2, <2>1, <2>6 DEF OnConnect, TypeOK
  <2>8. armed' \in [Peers -> SUBSET Events]
    <3>1. armed' = AsyncSelect("client", {READ, WRITE, CLOSE}, armed)
      BY <1>2 DEF OnConnect
    <3>2. armed \in [Peers -> SUBSET Events]
      BY DEF TypeOK
    <3> QED BY <2>1, <2>6, <3>1, <3>2, SelectType
  <2>9. writeShut' \in [Peers -> BOOLEAN] /\ finOut' \in [Peers -> BOOLEAN]
    <3>1. PropagateHalfClose("client", buf, readClosed, TRUE)
      BY <1>2 DEF OnConnect
    <3>2. ShutDownReaches("server") \in BOOLEAN
      BY DEF ShutDownReaches
    <3> QED BY <2>1, <3>1, <3>2 DEF PropagateHalfClose, TypeOK
  <2>10. /\ ready' = TRUE
         /\ UNCHANGED <<wrote, inq, fin, rst, out, room, buf, readClosed, open,
                        status, layerVars, task>>
    BY <1>2 DEF OnConnect
  <2> QED BY <2>5, <2>7, <2>8, <2>9, <2>10 DEF TypeOK, layerVars
<1> QED BY <1>1, <1>2

LEMMA OnCloseType ==
    ASSUME TypeOK, NEW p \in Peers, NEW err \in BOOLEAN, NEW rest \in Seq(Msgs),
           OnClose(p, err, rest)
    PROVE  TypeOK'
<1>1. CASE CloseBoth
  BY <1>1, CloseBothType
<1>2. CASE msgs' = rest /\ UNCHANGED <<netVars, peerVars, layerVars, task>>
  BY <1>2 DEF TypeOK, netVars, peerVars, layerVars
<1>3. CASE /\ Settle(p, buf, readClosed, status, rest)
           /\ UNCHANGED <<wrote, inq, fin, rst, out, room, armed, lEvent, ready,
                          layerVars>>
  <2>1. /\ buf \in [Peers -> Seq(Nat)] /\ readClosed \in [Peers -> BOOLEAN]
        /\ status \in {"conn", "io", "close"}
    BY DEF TypeOK
  <2>2. /\ buf' \in [Peers -> Seq(Nat)]
        /\ readClosed' \in [Peers -> BOOLEAN]
        /\ writeShut' \in [Peers -> BOOLEAN]
        /\ finOut' \in [Peers -> BOOLEAN]
        /\ open' \in [Peers -> BOOLEAN]
        /\ status' \in {"conn", "io", "close"}
        /\ msgs' \in Seq(Msgs)
        /\ task' \in {"active", "deletePending", "gone"}
    BY <1>3, <2>1, SettleType
  <2> QED BY <1>3, <2>2 DEF TypeOK, layerVars
<1>4. CASE /\ lEvent' = [lEvent EXCEPT ![p] = {READ, WRITE, CLOSE}]
           /\ armed' = AsyncSelect(p, {READ, WRITE, CLOSE}, armed)
           /\ msgs' = Append(rest, Trigger(p, READ, FALSE))
           /\ UNCHANGED <<wrote, inq, fin, rst, out, room, finOut, buf, readClosed,
                          writeShut, open, ready, status, layerVars, task>>
  <2>1. {READ, WRITE, CLOSE} \in SUBSET Events
    BY EventNames
  <2>2. lEvent' \in [Peers -> SUBSET Events] /\ armed' \in [Peers -> SUBSET Events]
    BY <1>4, <2>1, SelectType DEF TypeOK
  <2>3. msgs' \in Seq(Msgs)
    BY <1>4, TriggerType, EventNames, AppendProperties
  <2> QED BY <1>4, <2>2, <2>3 DEF TypeOK, layerVars
<1> QED BY <1>1, <1>2, <1>3, <1>4 DEF OnClose

(* The proxy layer posts one or three events and sets its own state. *)
LEMMA PostType ==
    ASSUME NEW rest \in Seq(Msgs), NEW evs \in Seq(Events), NEW err \in BOOLEAN
    PROVE  Post(rest, evs, err) \in Seq(Msgs)
<1>1. Len(evs) \in Nat /\ \A i \in 1..Len(evs) : evs[i] \in Events
  BY LenProperties, ElementOfSeq
<1>2. "server" \in Peers
  BY DEF Peers
<1>3. \A i \in 1..Len(evs) : Trigger("server", evs[i], err) \in Msgs
  BY <1>1, <1>2, TriggerType
<1>4. [i \in 1..Len(evs) |-> Trigger("server", evs[i], err)] \in Seq(Msgs)
  BY <1>1, <1>3, IsASeq
<1> QED BY <1>4, ConcatProperties DEF Post

LEMMA LayerTriggerType ==
    ASSUME NEW ev \in Events, NEW err \in BOOLEAN, NEW rest \in Seq(Msgs),
           NEW l \in {"connecting", "connected", "closed", "aborted"},
           crit \in BOOLEAN, LayerTrigger(ev, err, l, rest)
    PROVE  /\ layer' \in {"connecting", "connected", "closed", "aborted"}
           /\ crit' \in BOOLEAN /\ msgs' \in Seq(Msgs)
<1>1. <<ev>> \in Seq(Events)
  OBVIOUS
<1>2. msgs' \in Seq(Msgs)
  BY <1>1, PostType DEF LayerTrigger
<1>3. crit' \in BOOLEAN
  BY DEF LayerTrigger
<1>4. layer' \in {"connecting", "connected", "closed", "aborted"}
  BY DEF LayerTrigger
<1> QED BY <1>2, <1>3, <1>4

LEMMA CallEventType ==
    ASSUME TypeOK, NEW ev \in Events, NEW err \in BOOLEAN, NEW rest \in Seq(Msgs),
           CallEvent(ev, err, rest)
    PROVE  /\ layer' \in {"connecting", "connected", "closed", "aborted"}
           /\ crit' \in BOOLEAN /\ op' \in BOOLEAN /\ msgs' \in Seq(Msgs)
<1> DEFINE Good == /\ layer' \in {"connecting", "connected", "closed", "aborted"}
                   /\ crit' \in BOOLEAN /\ op' \in BOOLEAN /\ msgs' \in Seq(Msgs)
<1>0. /\ layer \in {"connecting", "connected", "closed", "aborted"}
      /\ crit \in BOOLEAN /\ op \in BOOLEAN
  BY DEF TypeOK
<1>1. ASSUME NEW l \in {"connecting", "connected", "closed", "aborted"},
             LayerIdle(l, rest), crit' \in BOOLEAN
      PROVE  Good
  BY <1>0, <1>1 DEF LayerIdle
<1>2. ASSUME HandshakeFails(rest) PROVE Good
  <2>1. LayerTrigger(CONNECT, TRUE, layer, rest) /\ op' = FALSE
    BY <1>2 DEF HandshakeFails
  <2> QED BY <1>0, <2>1, LayerTriggerType, EventNames
<1>3. ASSUME HandshakeSucceeds(rest) PROVE Good
  <2>1. <<CONNECT, READ, WRITE>> \in Seq(Events)
    BY EventNames
  <2>2. msgs' \in Seq(Msgs)
    BY <1>3, <2>1, PostType DEF HandshakeSucceeds
  <2> QED BY <1>3, <2>2 DEF HandshakeSucceeds
<1>4. ASSUME NEW e \in Events, NEW f \in BOOLEAN,
             NEW l \in {"connecting", "connected", "closed", "aborted"},
             LayerTrigger(e, f, l, rest), op' = op
      PROVE  Good
  BY <1>0, <1>4, LayerTriggerType
<1>5. CASE crit /\ LayerIdle(layer, rest) /\ crit' = crit
  BY <1>0, <1>1, <1>5
<1>6. CASE ~crit /\ ~Expects(ev) /\ LayerIdle(layer, rest) /\ crit' = err
  BY <1>0, <1>1, <1>6
<1>7. CASE LayerOnReceive(rest)
  BY <1>0, <1>1, <1>2, <1>3, <1>4, <1>7, EventNames DEF LayerOnReceive
<1>8. CASE LayerOnSend(rest)
  BY <1>0, <1>1, <1>2, <1>4, <1>8, EventNames DEF LayerOnSend
<1>9. CASE LayerOnConnect(err, rest)
  BY <1>0, <1>1, <1>2, <1>4, <1>9, EventNames DEF LayerOnConnect
<1>10. CASE LayerOnClose(err, rest)
  BY <1>0, <1>2, <1>4, <1>10, EventNames DEF LayerOnClose
<1> QED BY <1>5, <1>6, <1>7, <1>8, <1>9, <1>10 DEF CallEvent

LEMMA HeadMessage ==
    ASSUME TypeOK, msgs # <<>>
    PROVE  /\ Head(msgs).p \in Peers /\ Head(msgs).ev \in Events
           /\ Head(msgs).err \in BOOLEAN /\ Head(msgs) \in Msgs
           /\ Tail(msgs) \in Seq(Msgs)
<1>1. msgs \in Seq(Msgs)
  BY DEF TypeOK
<1>2. Head(msgs) \in Msgs /\ Tail(msgs) \in Seq(Msgs)
  BY <1>1, HeadTailProperties
<1> QED BY <1>2 DEF Msgs

LEMMA DispatchType ==
    ASSUME TypeOK, DropMessage \/ LayerMessage \/ OwnerMessage
    PROVE  TypeOK'
<1>1. CASE DropMessage
  <2>1. Tail(msgs) \in Seq(Msgs)
    BY <1>1, HeadMessage DEF DropMessage
  <2> QED BY <1>1, <2>1 DEF DropMessage, TypeOK, netVars, peerVars, layerVars
<1>2. CASE LayerMessage
  <2>1. msgs # <<>> /\ CallEvent(Head(msgs).ev, Head(msgs).err, Tail(msgs))
    BY <1>2 DEF LayerMessage, HasMsg
  <2>2. /\ layer' \in {"connecting", "connected", "closed", "aborted"}
        /\ crit' \in BOOLEAN /\ op' \in BOOLEAN /\ msgs' \in Seq(Msgs)
    BY <2>1, HeadMessage, CallEventType
  <2>3. armed' \in [Peers -> SUBSET Events]
    BY <1>2, EventNames DEF LayerMessage, TypeOK
  <2>4. UNCHANGED <<wrote, inq, fin, rst, out, room, finOut, peerVars, task>>
    BY <1>2 DEF LayerMessage
  <2> QED BY <2>2, <2>3, <2>4 DEF TypeOK, peerVars
<1>3. CASE OwnerMessage
  <2>1. msgs # <<>>
    BY <1>3 DEF OwnerMessage, HasMsg
  <2>2. /\ Head(msgs).p \in Peers /\ Head(msgs).err \in BOOLEAN
        /\ Tail(msgs) \in Seq(Msgs)
    BY <2>1, HeadMessage
  <2>3. \/ OnReceive(Head(msgs).p, Tail(msgs))
        \/ OnSend(Head(msgs).p, Tail(msgs))
        \/ OnConnect(Head(msgs).err, Tail(msgs))
        \/ OnClose(Head(msgs).p, Head(msgs).err, Tail(msgs))
    BY <1>3 DEF OwnerMessage
  <2> QED BY <2>2, <2>3, OnReceiveType, OnSendType, OnConnectType, OnCloseType
<1> QED BY <1>1, <1>2, <1>3

LEMMA KernelType ==
    ASSUME TypeOK,
           \/ \E p \in Peers, ev \in Events : Notify(p, ev)
           \/ \E err \in BOOLEAN : NotifyConnect(err)
    PROVE  TypeOK'
<1>1. CASE \E p \in Peers, ev \in Events : Notify(p, ev)
  <2>1. PICK p \in Peers, ev \in Events : Notify(p, ev)
    BY <1>1
  <2>2. [p |-> p, ev |-> ev, err |-> ev = CLOSE /\ rst[p], hop |-> Hop(p)] \in Msgs
    <3>1. (ev = CLOSE /\ rst[p]) \in BOOLEAN
      OBVIOUS
    <3> QED BY <3>1 DEF Msgs, Hop
  <2>3. msgs' \in Seq(Msgs)
    BY <2>1, <2>2, AppendProperties DEF Notify, TypeOK
  <2>4. armed' \in [Peers -> SUBSET Events]
    BY <2>1 DEF Notify, TypeOK
  <2> QED BY <2>1, <2>3, <2>4 DEF Notify, TypeOK, peerVars, layerVars
<1>2. CASE \E err \in BOOLEAN : NotifyConnect(err)
  <2>1. PICK err \in BOOLEAN : NotifyConnect(err)
    BY <1>2
  <2>2. [p |-> "server", ev |-> CONNECT, err |-> err, hop |-> "layer"] \in Msgs
    BY EventNames DEF Msgs, Peers
  <2>3. msgs' \in Seq(Msgs)
    BY <2>1, <2>2, AppendProperties DEF NotifyConnect, TypeOK
  <2>4. armed' \in [Peers -> SUBSET Events]
    BY <2>1 DEF NotifyConnect, TypeOK
  <2> QED BY <2>1, <2>3, <2>4 DEF NotifyConnect, TypeOK, peerVars, layerVars
<1> QED BY <1>1, <1>2

LEMMA RemoteType ==
    ASSUME TypeOK, NEW p \in Peers,
           RemoteWrite(p) \/ RemoteFin(p) \/ RemoteReset(p) \/ RemoteDrain(p)
    PROVE  TypeOK'
<1>1. CASE RemoteWrite(p)
  <2>1. wrote' \in [Peers -> Nat]
    BY <1>1 DEF RemoteWrite, TypeOK
  <2>2. Append(inq[p], wrote[p] + 1) \in Seq(Nat)
    BY AppendProperties DEF TypeOK
  <2>3. inq' \in [Peers -> Seq(Nat)]
    BY <1>1, <2>2 DEF RemoteWrite, TypeOK
  <2> QED BY <1>1, <2>1, <2>3 DEF RemoteWrite, TypeOK, peerVars, layerVars
<1>2. CASE RemoteFin(p)
  BY <1>2 DEF RemoteFin, TypeOK, peerVars, layerVars
<1>3. CASE RemoteReset(p)
  BY <1>3 DEF RemoteReset, TypeOK, peerVars, layerVars
<1>4. CASE RemoteDrain(p)
  BY <1>4, RelayAssumption DEF RemoteDrain, TypeOK, peerVars, layerVars
<1> QED BY <1>1, <1>2, <1>3, <1>4

LEMMA TaskType ==
    ASSUME TypeOK, ConnTimeout \/ TimerSweep \/ TaskAborted
    PROVE  TypeOK'
<1>1. CASE ConnTimeout
  <2>1. "server" \in Peers
    BY DEF Peers
  <2>2. msgs' \in Seq(Msgs)
    BY <1>1, <2>1, TriggerType, EventNames, AppendProperties DEF ConnTimeout, TypeOK
  <2>3. buf' \in [Peers -> Seq(Nat)]
    BY <1>1, EmptySeq DEF ConnTimeout, TypeOK
  <2> QED BY <1>1, <2>2, <2>3 DEF ConnTimeout, TypeOK, netVars, layerVars
<1>2. CASE TimerSweep \/ TaskAborted
  BY <1>2, EmptySeq DEF TimerSweep, TaskAborted, EndTask, TypeOK, netVars, layerVars
<1> QED BY <1>1, <1>2

LEMMA InitType == Init => TypeOK
<1> SUFFICES ASSUME Init PROVE TypeOK
  OBVIOUS
<1>1. {CLOSE} \in SUBSET Events /\ Events \in SUBSET Events
  BY EventNames
<1>2. <<>> \in Seq(Nat) /\ <<>> \in Seq(Msgs)
  BY EmptySeq
<1>3. armed \in [Peers -> SUBSET Events] /\ lEvent \in [Peers -> SUBSET Events]
  BY <1>1 DEF Init
<1>4. room \in [Peers -> 0..SendRoom] /\ wrote \in [Peers -> Nat]
  BY RelayAssumption DEF Init
<1>5. /\ inq \in [Peers -> Seq(Nat)] /\ out \in [Peers -> Seq(Nat)]
      /\ buf \in [Peers -> Seq(Nat)] /\ msgs \in Seq(Msgs)
  BY <1>2 DEF Init
<1>6. op \in BOOLEAN
  BY RelayAssumption DEF Init
<1>7. /\ fin \in [Peers -> BOOLEAN] /\ rst \in [Peers -> BOOLEAN]
      /\ finOut \in [Peers -> BOOLEAN] /\ readClosed \in [Peers -> BOOLEAN]
      /\ writeShut \in [Peers -> BOOLEAN] /\ open \in [Peers -> BOOLEAN]
      /\ ready \in BOOLEAN /\ crit \in BOOLEAN
  BY DEF Init
<1>8. /\ status \in {"conn", "io", "close"}
      /\ layer \in {"connecting", "connected", "closed", "aborted"}
      /\ task \in {"active", "deletePending", "gone"}
  BY DEF Init
<1> QED BY <1>3, <1>4, <1>5, <1>6, <1>7, <1>8 DEF TypeOK

LEMMA NextType == TypeOK /\ [Next]_vars => TypeOK'
<1> SUFFICES ASSUME TypeOK, [Next]_vars PROVE TypeOK'
  OBVIOUS
<1>1. CASE DropMessage \/ LayerMessage \/ OwnerMessage
  BY <1>1, DispatchType
<1>2. CASE ConnTimeout \/ TimerSweep \/ TaskAborted
  BY <1>2, TaskType
<1>3. CASE (\E p \in Peers, ev \in Events : Notify(p, ev)) \/ \E err \in BOOLEAN : NotifyConnect(err)
  BY <1>3, KernelType
<1>4. CASE \E p \in Peers :
             RemoteWrite(p) \/ RemoteFin(p) \/ RemoteReset(p) \/ RemoteDrain(p)
  BY <1>4, RemoteType
<1>5. CASE UNCHANGED vars
  BY <1>5 DEF vars, netVars, peerVars, layerVars, TypeOK
<1> QED BY <1>1, <1>2, <1>3, <1>4, <1>5 DEF Next

(* Every reachable state of the forwarding task is well typed: no handler
   overdraws the room of a kernel buffer or posts a malformed message. *)
THEOREM TypeCorrect == Spec => []TypeOK
BY InitType, NextType, PTL DEF Spec

-----------------------------------------------------------------------------
(* Delivery.  Bytes are followed by position: what has been sent, what is
   buffered and what is still in the socket make up the stream. *)

(* What is left of a stream after j bytes continues it j positions later. *)
LEMMA SkipFollows ==
    ASSUME NEW s \in Seq(Nat), NEW m \in Nat, NEW j \in 0..Len(s), Follows(s, m)
    PROVE  Follows(Skip(s, j), m + j)
<1> DEFINE l == Len(s)
           r == Skip(s, j)
<1>1. l \in Nat /\ j \in 0..l
  BY LenProperties
<1>2. Len(r) = l - j /\ \A i \in 1..(l - j) : r[i] = s[j + i]
  BY TakeSkip
<1>3. \A i \in 1..l : s[i] = m + i
  BY DEF Follows
<1> HIDE DEF l, r
<1>4. \A i \in 1..(l - j) : j + i \in 1..l
  BY <1>1
<1>5. \A i \in 1..(l - j) : r[i] = m + (j + i)
  BY <1>2, <1>3, <1>4
<1>6. \A i \in 1..(l - j) : m + (j + i) = (m + j) + i
  BY <1>1
<1>7. Follows(r, m + j)
  BY <1>2, <1>5, <1>6 DEF Follows
<1> QED BY <1>7 DEF r

(* Forwarding k of the n bytes read from s moves them, in order, behind o. *)
LEMMA ForwardBytes ==
    ASSUME NEW o \in Seq(Nat), NEW s \in Seq(Nat), NEW n \in 0..Len(s), NEW k \in 0..n,
           Follows(o, 0), Follows(s, Len(o))
    PROVE  /\ Len(o \o Take(s, k)) = Len(o) + k /\ Follows(o \o Take(s, k), 0)
           /\ Len(Skip(Take(s, n), k)) = n - k
           /\ Follows(Skip(Take(s, n), k), Len(o) + k)
           /\ Len(Skip(s, n)) = Len(s) - n /\ Follows(Skip(s, n), Len(o) + n)
           /\ Len(Skip(s, k)) = Len(s) - k /\ Follows(Skip(s, k), Len(o) + k)
<1>1. Len(s) \in Nat /\ Len(o) \in Nat /\ n \in Nat /\ k \in Nat /\ k \in 0..Len(s)
  BY LenProperties
<1>2. /\ Take(s, k) \in Seq(Nat) /\ Len(Take(s, k)) = k
      /\ \A i \in 1..k : Take(s, k)[i] = s[i]
      /\ Len(Skip(s, k)) = Len(s) - k
      /\ \A i \in 1..(Len(s) - k) : Skip(s, k)[i] = s[k + i]
  <2>1. Splits(Nat, s, k)
    BY <1>1, SplitAt, Zenon
  <2> QED BY <2>1, Zenon DEF Splits
<1>3. /\ Take(s, n) \in Seq(Nat) /\ Len(Take(s, n)) = n
      /\ \A i \in 1..n : Take(s, n)[i] = s[i]
      /\ Len(Skip(s, n)) = Len(s) - n
      /\ \A i \in 1..(Len(s) - n) : Skip(s, n)[i] = s[n + i]
  <2>1. Splits(Nat, s, n)
    BY SplitAt, Zenon
  <2> QED BY <2>1, Zenon DEF Splits
<1> DEFINE t == Take(s, n)
           u == Take(s, k)
<1>4. /\ Len(Skip(t, k)) = n - k
      /\ \A i \in 1..(n - k) : Skip(t, k)[i] = t[k + i]
  <2>1. t \in Seq(Nat) /\ Len(t) = n /\ k \in 0..Len(t)
    BY <1>3
  <2> HIDE DEF t
  <2> QED BY <2>1, TakeSkip
<1>5. \A i \in 1..Len(s) : s[i] = Len(o) + i
  BY DEF Follows
<1>6. Follows(Skip(s, n), Len(o) + n) /\ Follows(Skip(s, k), Len(o) + k)
  BY <1>1, SkipFollows
<1>7. Follows(Skip(t, k), Len(o) + k)
  <2>1. \A i \in 1..(n - k) : k + i \in 1..n /\ k + i \in 1..Len(s)
    BY <1>1
  <2>2. \A i \in 1..n : t[i] = s[i]
    BY <1>3
  <2> HIDE DEF t
  <2>3. \A i \in 1..(n - k) : Skip(t, k)[i] = Len(o) + (k + i)
    BY <1>4, <1>5, <2>1, <2>2
  <2> QED BY <1>1, <1>4, <2>3 DEF Follows
<1>8. /\ Len(o \o u) = Len(o) + k
      /\ \A i \in 1..(Len(o) + k) : (o \o u)[i] =
            IF i <= Len(o) THEN o[i] ELSE u[i - Len(o)]
  <2>1. u \in Seq(Nat) /\ Len(u) = k
    BY <1>2
  <2> HIDE DEF u
  <2> QED BY <2>1, ConcatProperties
<1>9. Follows(o \o u, 0)
  <2>1. \A i \in 1..k : u[i] = Len(o) + i
    <3>1. \A i \in 1..k : i \in 1..Len(s)
      BY <1>1
    <3>2. \A i \in 1..k : u[i] = s[i]
      BY <1>2
    <3> HIDE DEF u
    <3> QED BY <1>5, <3>1, <3>2
  <2>2. \A i \in 1..Len(o) : o[i] = i
    BY <1>1 DEF Follows
  <2> HIDE DEF u
  <2>3. \A i \in 1..(Len(o) + k) : (o \o u)[i] = i
    <3> TAKE i \in 1..(Len(o) + k)
    <3>1. CASE i <= Len(o)
      BY <1>1, <1>8, <2>2, <3>1
    <3>2. CASE ~(i <= Len(o))
      <4>1. i - Len(o) \in 1..k
        BY <1>1, <3>2
      <4> QED BY <1>1, <1>8, <2>1, <3>2, <4>1
    <3> QED BY <3>1, <3>2
  <2> QED BY <1>8, <2>3 DEF Follows
<1> QED BY <1>2, <1>3, <1>4, <1>6, <1>7, <1>8, <1>9

(* Appending nothing, keeping everything. *)
LEMMA ForwardNothing ==
    ASSUME NEW o \in Seq(Nat), NEW s \in Seq(Nat)
    PROVE  o \o Take(s, 0) = o /\ Skip(s, 0) = s
<1>1. Len(s) \in Nat
  BY LenProperties
<1>2. Take(s, 0) = <<>>
  BY SubSeqEmpty DEF Take
<1>3. Skip(s, 0) = s
  BY SubSeqFull DEF Skip
<1> QED BY <1>2, <1>3, ConcatEmptySeq

(* Steps that move no byte and revive no peer keep the invariant. *)
LEMMA QuietStep ==
    ASSUME DeliveryInv,
           UNCHANGED <<wrote, inq, out, buf, fin, finOut, readClosed>>,
           \A p \in Peers : Dead(p) => Dead(p)',
           LayerUp', UnreadWhileConnecting'
    PROVE  DeliveryInv'
<1>1. PrefixDelivered' /\ EofAfterAll'
  BY DEF DeliveryInv, PrefixDelivered, EofAfterAll, Complete, Follows
<1>2. \A p \in Peers : InFlight(p) => InFlight(p)'
  BY DEF InFlight, Follows
<1>3. Conserved'
  BY <1>2, OtherPeer DEF DeliveryInv, Conserved
<1>4. \A p \in Peers : Complete(p) => Complete(p)'
  BY DEF Complete, Follows
<1>5. ClosedDrained'
  BY <1>4, OtherPeer DEF DeliveryInv, ClosedDrained
<1> QED BY <1>1, <1>3, <1>5 DEF DeliveryInv

(* PropagateHalfClose shuts a side down only for a complete stream. *)
LEMMA PropagateStep ==
    ASSUME NEW p \in Peers, NEW b, NEW rc, NEW up,
           PropagateHalfClose(p, b, rc, up), TypeOK,
           readClosed' = rc, UNCHANGED <<rst, crit>>, ClosedDrained',
           \A r \in Peers : finOut[Other(r)] => fin'[r] /\ Complete(r)'
    PROVE  EofAfterAll'
<1>1. CASE MayPropagate(p, b, rc, up)
  <2>1. finOut' = [finOut EXCEPT ![Other(p)] = @ \/ ShutDownReaches(Other(p))]
    BY <1>1 DEF PropagateHalfClose
  <2>2. ShutDownReaches(Other(p)) => ~Dead(Other(p))'
    BY DEF ShutDownReaches, Dead
  <2>3. readClosed'[p]
    BY <1>1 DEF MayPropagate
  <2>4. ShutDownReaches(Other(p)) => fin'[p] /\ Complete(p)'
    BY <2>2, <2>3 DEF ClosedDrained
  <2>5. \A r \in Peers : r = p \/ finOut'[Other(r)] = finOut[Other(r)]
    BY <2>1, OtherPeer DEF TypeOK
  <2>6. finOut'[Other(p)] => finOut[Other(p)] \/ ShutDownReaches(Other(p))
    BY <2>1, OtherPeer DEF TypeOK
  <2> QED BY <2>4, <2>5, <2>6 DEF EofAfterAll
<1>2. CASE ~MayPropagate(p, b, rc, up)
  BY <1>2 DEF PropagateHalfClose, EofAfterAll
<1> QED BY <1>1, <1>2

(* With a proxy, a Send that fails has a dead peer behind it, or data that
   follows an end of stream (and there is none). *)
LEMMA SendFailsDead ==
    ASSUME LayerUp, FALSE \notin Proxied, NEW q \in Peers, SendFails(q)
    PROVE  Dead(q) \/ finOut[q]
BY DEF SendFails, Dead, LayerUp, Handshaking

(* A dead peer takes no byte. *)
LEMMA DeadTakesNothing ==
    ASSUME NEW q \in Peers, Dead(q), ~SendFails(q)
    PROVE  SendSpace(q) = 0
BY DEF Dead, SendFails, SendSpace, Handshaking

(* One direction at a time: source p, destination q.  What forwarding needs to
   know before, and what it establishes after, for the new out, buf and inq. *)
LEMMA ForwardStep ==
    ASSUME TypeOK, DeliveryInv, NEW p \in Peers,
           NEW o2 \in Seq(Nat), NEW b2 \in Seq(Nat), NEW i2 \in Seq(Nat),
           out' = [out EXCEPT ![Other(p)] = o2],
           buf' = [buf EXCEPT ![p] = b2],
           inq' = [inq EXCEPT ![p] = i2],
           UNCHANGED <<wrote, fin, rst, crit, op, layer>>,
           \/ o2 = out[Other(p)] /\ Dead(Other(p))
           \/ o2 = out[Other(p)] /\ b2 = buf[p] /\ i2 = inq[p]
           \/ /\ InFlight(p) /\ Follows(o2, 0) /\ Len(out[Other(p)]) <= Len(o2)
              /\ Len(o2) + Len(b2) + Len(i2) = wrote[p]
              /\ Follows(b2, Len(o2)) /\ Follows(i2, Len(o2) + Len(b2))
    PROVE  /\ PrefixDelivered' /\ Conserved' /\ LayerUp'
           /\ \A r \in Peers : finOut[Other(r)] => fin'[r] /\ Complete(r)'
           /\ \A r \in Peers : Complete(r) => Complete(r)'
<1> DEFINE q == Other(p)
<1>0. /\ q \in Peers /\ q # p /\ Other(q) = p /\ \A r \in Peers : r = p \/ r = q
  BY OtherPeer
<1>1. /\ out'[q] = o2 /\ out'[p] = out[p] /\ buf'[p] = b2 /\ buf'[q] = buf[q]
      /\ inq'[p] = i2 /\ inq'[q] = inq[q]
  BY <1>0 DEF TypeOK
<1>2. /\ wrote[p] \in Nat /\ Len(o2) \in Nat /\ Len(b2) \in Nat /\ Len(i2) \in Nat
      /\ Len(out[q]) \in Nat /\ Len(buf[p]) \in Nat /\ Len(inq[p]) \in Nat
  BY <1>0, LenProperties DEF TypeOK
<1>3. \A r \in Peers : Dead(r)' <=> Dead(r)
  BY DEF Dead
<1>4. Complete(q) <=> Complete(q)'
  BY <1>0, <1>1 DEF Complete, Follows
<1>5. InFlight(q) => InFlight(q)'
  <2>1. wrote'[q] = wrote[q]
    OBVIOUS
  <2> HIDE DEF q
  <2> QED BY <1>0, <1>1, <2>1 DEF InFlight
<1>6. Follows(o2, 0) /\ Len(o2) <= wrote[p]
  BY <1>0, <1>2 DEF DeliveryInv, PrefixDelivered
<1>7. Complete(p) => Complete(p)'
  <2> SUFFICES ASSUME Complete(p) PROVE Complete(p)'
    OBVIOUS
  <2>1. Len(out[q]) = wrote[p]
    BY DEF Complete
  <2>2. Len(out[q]) <= Len(o2)
    BY <1>2
  <2>3. Len(o2) = wrote[p]
    BY <1>2, <1>6, <2>1, <2>2
  <2> QED BY <1>1, <1>6, <2>3 DEF Complete, Follows
<1>8. PrefixDelivered'
  <2>1. Follows(out'[q], 0) /\ Len(out'[q]) <= wrote'[p]
    BY <1>1, <1>6
  <2>2. Follows(out'[p], 0) /\ Len(out'[p]) <= wrote'[q]
    BY <1>0, <1>1 DEF DeliveryInv, PrefixDelivered
  <2> QED BY <1>0, <2>1, <2>2 DEF PrefixDelivered, Follows
<1>9. Dead(q)' \/ (Dead(p)' /\ buf'[p] = <<>>) \/ InFlight(p)'
  <2>1. CASE Dead(q)
    BY <1>0, <1>3, <2>1
  <2>2. CASE o2 = out[q] /\ b2 = buf[p] /\ i2 = inq[p]
    <3>1. InFlight(p) => InFlight(p)'
      BY <1>1, <2>2 DEF InFlight, Follows
    <3> QED BY <1>0, <1>1, <1>3, <2>2, <3>1 DEF DeliveryInv, Conserved
  <2>3. CASE /\ Len(o2) + Len(b2) + Len(i2) = wrote[p]
             /\ Follows(b2, Len(o2)) /\ Follows(i2, Len(o2) + Len(b2))
    BY <1>1, <2>3 DEF InFlight, Follows
  <2> QED BY <2>1, <2>2, <2>3
<1>10. Conserved'
  <2>1. Dead(p)' \/ (Dead(q)' /\ buf'[q] = <<>>) \/ InFlight(q)'
    BY <1>0, <1>1, <1>3, <1>5 DEF DeliveryInv, Conserved
  <2> QED BY <1>0, <1>9, <2>1 DEF Conserved
<1>11. LayerUp'
  BY DEF DeliveryInv, LayerUp
<1>12. \A r \in Peers : finOut[Other(r)] => fin'[r] /\ Complete(r)'
  BY <1>0, <1>4, <1>7 DEF DeliveryInv, EofAfterAll
<1> QED BY <1>0, <1>4, <1>7, <1>8, <1>10, <1>11, <1>12

(* A peer that can be read and whose partner lives has all its bytes in flight. *)
LEMMA LiveInFlight ==
    ASSUME DeliveryInv, NEW p \in Peers, ~Dead(Other(p)), ~Dead(p)
    PROVE  InFlight(p)
BY DEF DeliveryInv, Conserved

(* The socket of a peer that was read to its end is empty and so is its buffer;
   that stays so for the peer that a step does not read from. *)
LEMMA DrainedStep ==
    ASSUME TypeOK, DeliveryInv, NEW p \in Peers,
           \A r \in Peers : Dead(r)' <=> Dead(r),
           \A r \in Peers : Complete(r) => Complete(r)',
           UNCHANGED fin, readClosed'[Other(p)] = readClosed[Other(p)],
           buf'[Other(p)] = buf[Other(p)], inq'[Other(p)] = inq[Other(p)],
           readClosed'[p] => /\ fin[p] /\ buf'[p] = <<>> /\ inq'[p] = <<>>
                             /\ Dead(Other(p)) \/ Complete(p)'
    PROVE  ClosedDrained'
<1> DEFINE q == Other(p)
<1>0. /\ q \in Peers /\ q # p /\ Other(q) = p /\ \A r \in Peers : r = p \/ r = q
      /\ q = Other(p)
  BY OtherPeer
<1> HIDE DEF q
<1>1. readClosed[q] => /\ fin[q] /\ buf[q] = <<>> /\ inq[q] = <<>>
                       /\ Dead(p) \/ Complete(q)
  BY <1>0 DEF DeliveryInv, ClosedDrained
<1>2. readClosed'[q] => /\ fin'[q] /\ buf'[q] = <<>> /\ inq'[q] = <<>>
                        /\ Dead(p)' \/ Complete(q)'
  BY <1>0, <1>1 DEF q
<1>3. readClosed'[p] => /\ fin'[p] /\ buf'[p] = <<>> /\ inq'[p] = <<>>
                        /\ Dead(q)' \/ Complete(p)'
  BY <1>0 DEF q
<1> QED BY <1>0, <1>2, <1>3 DEF ClosedDrained

(* Settle after a forwarding step from p: the tail of OnReceive and OnSend. *)
LEMMA SettleStep ==
    ASSUME TypeOK, DeliveryInv, NEW p \in Peers, NEW b, NEW rc, NEW st, NEW m,
           Settle(p, b, rc, st, m), UNCHANGED <<fin, rst, crit>>,
           PrefixDelivered', Conserved', LayerUp', ClosedDrained',
           \A r \in Peers : finOut[Other(r)] => fin'[r] /\ Complete(r)',
           st = "conn" => b["server"] = <<>>
    PROVE  DeliveryInv'
<1>1. buf' = b /\ readClosed' = rc /\ PropagateHalfClose(p, b, rc, ready)
  BY DEF Settle
<1>2. EofAfterAll'
  BY <1>1, PropagateStep
<1>3. status' = "close" \/ status' = st
  BY DEF Settle, TryFinishConnection
<1>4. UnreadWhileConnecting'
  BY <1>1, <1>3 DEF UnreadWhileConnecting
<1> QED BY <1>2, <1>4 DEF DeliveryInv

LEMMA OnReceiveDelivery ==
    ASSUME TypeOK, DeliveryInv, FALSE \notin Proxied, NEW p \in Peers, NEW rest,
           OnReceive(p, rest)
    PROVE  DeliveryInv'
<1> DEFINE q  == Other(p)
           st == IF p = "server" \/ inq[p] # <<>> THEN "io" ELSE status
<1>0. /\ q \in Peers /\ q # p /\ Other(q) = p
      /\ inq[p] \in Seq(Nat) /\ Len(inq[p]) \in Nat
      /\ out[q] \in Seq(Nat) /\ Len(out[q]) \in Nat /\ buf[p] \in Seq(Nat)
      /\ wrote[p] \in Nat
  BY OtherPeer, LenProperties DEF TypeOK
<1>st. st = "conn" => p # "server" /\ status = "conn"
  OBVIOUS
<1>1. CASE /\ status' = IF p = "server" THEN "io" ELSE status
           /\ UNCHANGED <<netVars, buf, readClosed, writeShut, open, lEvent, ready,
                          layerVars, task>>
  <2>1. \A r \in Peers : Dead(r) => Dead(r)'
    BY <1>1 DEF Dead, netVars, layerVars
  <2>2. LayerUp' /\ UnreadWhileConnecting'
    BY <1>1 DEF DeliveryInv, LayerUp, UnreadWhileConnecting, layerVars
  <2> QED BY <1>1, <2>1, <2>2, QuietStep DEF netVars
<1>2. CASE /\ buf[p] = <<>> /\ ~Handshaking(p) /\ ~RecvFails(p)
           /\ inq[p] # <<>> /\ SendFails(q)
           /\ inq' = [inq EXCEPT ![p] = Skip(@, Smaller(BufSize, Len(@)))]
           /\ status' = st
           /\ UNCHANGED <<wrote, fin, rst, out, room, finOut, buf, readClosed,
                          writeShut, open, lEvent, ready, layerVars, task>>
  <2> DEFINE i2 == Skip(inq[p], Smaller(BufSize, Len(inq[p])))
  <2>1. ~Dead(p)
    BY <1>2 DEF RecvFails, Dead
  <2>2. Len(inq[p]) > 0
    BY <1>0, <1>2, EmptySeq
  <2>3. Dead(q)
    <3>1. SUFFICES ASSUME ~Dead(q) PROVE FALSE
      OBVIOUS
    <3>2. InFlight(p)
      BY <2>1, <3>1, LiveInFlight
    <3>3. finOut[q]
      BY <1>0, <1>2, <3>1, SendFailsDead DEF DeliveryInv
    <3>4. Len(out[q]) = wrote[p]
      BY <3>3 DEF DeliveryInv, EofAfterAll, Complete
    <3>5. Len(buf[p]) \in Nat
      BY <1>0, LenProperties
    <3>6. Len(out[q]) + Len(buf[p]) + Len(inq[p]) = wrote[p]
      BY <3>2 DEF InFlight
    <3> QED BY <1>0, <2>2, <3>4, <3>5, <3>6
  <2>4. i2 \in Seq(Nat)
    <3>1. BufSize \in Nat
      BY RelayAssumption
    <3>2. Smaller(BufSize, Len(inq[p])) \in 0..Len(inq[p])
      BY <1>0, <3>1, SmallerBound
    <3> QED BY <1>0, <3>2, TakeSkip
  <2>5. /\ inq' = [inq EXCEPT ![p] = i2]
        /\ out' = [out EXCEPT ![q] = out[q]]
        /\ buf' = [buf EXCEPT ![p] = buf[p]]
        /\ UNCHANGED <<wrote, fin, rst, crit, op, layer>>
    BY <1>0, <1>2 DEF TypeOK, layerVars
  <2> HIDE DEF i2
  <2>6. /\ PrefixDelivered' /\ Conserved' /\ LayerUp'
        /\ \A r \in Peers : finOut[Other(r)] => fin'[r] /\ Complete(r)'
        /\ \A r \in Peers : Complete(r) => Complete(r)'
    BY <1>0, <2>3, <2>4, <2>5, ForwardStep
  <2>7. \A r \in Peers : Dead(r)' <=> Dead(r)
    BY <2>5 DEF Dead
  <2>8. ~readClosed[p]
    BY <1>2 DEF DeliveryInv, ClosedDrained
  <2>9. /\ readClosed' = readClosed /\ buf'[q] = buf[q] /\ inq'[q] = inq[q]
    BY <1>0, <1>2, <2>5 DEF TypeOK
  <2>10. ClosedDrained'
    BY <2>5, <2>6, <2>7, <2>8, <2>9, DrainedStep
  <2>11. EofAfterAll'
    BY <1>2, <2>6 DEF EofAfterAll
  <2>12. UnreadWhileConnecting'
    BY <1>2, <1>st DEF DeliveryInv, UnreadWhileConnecting
  <2> QED BY <2>6, <2>10, <2>11, <2>12 DEF DeliveryInv
<1>3. ASSUME NEW n, NEW k, NEW left, NEW eof \in BOOLEAN, NEW m,
             n = ReadAmount(inq[p], SendSpace(q)), k = Smaller(n, SendSpace(q)),
             left = Skip(inq[p], n),
             eof => k = n /\ AtEof(p, left),
             buf[p] = <<>>, ~Handshaking(p), ~RecvFails(p),
             inq[p] = <<>> \/ ~SendFails(q),
             inq' = [inq EXCEPT ![p] = left],
             out' = [out EXCEPT ![q] = @ \o Take(inq[p], k)],
             Settle(p, [buf EXCEPT ![p] = TransferSend(Take(inq[p], n), k)],
                    [readClosed EXCEPT ![p] = @ \/ eof], st, m),
             UNCHANGED <<wrote, fin, rst, ready, layerVars>>
      PROVE  DeliveryInv'
  <2> DEFINE o2 == out[q] \o Take(inq[p], k)
             b2 == Skip(Take(inq[p], n), k)
             b  == [buf EXCEPT ![p] = b2]
             rc == [readClosed EXCEPT ![p] = @ \/ eof]
  <2>1. SendSpace(q) \in Nat
    BY <1>0, SpaceBound, RelayAssumption
  <2>2. n \in 0..Len(inq[p]) /\ n \in Nat
    BY <1>0, <1>3, <2>1, ReadAmountBound
  <2>3. /\ k \in 0..n /\ k <= SendSpace(q) /\ k \in 0..Len(inq[p])
        /\ k \in Nat /\ k <= n /\ n <= Len(inq[p])
    <3>1. k \in 0..n /\ k <= SendSpace(q)
      BY <1>3, <2>1, <2>2, SmallerBound
    <3> QED BY <1>0, <2>2, <3>1
  <2>4. /\ left \in Seq(Nat) /\ Len(left) = Len(inq[p]) - n
        /\ Take(inq[p], n) \in Seq(Nat) /\ Len(Take(inq[p], n)) = n
        /\ Take(inq[p], k) \in Seq(Nat)
    <3>1. inq[p] \in Seq(Nat)
      BY <1>0
    <3>2. /\ Take(inq[p], n) \in Seq(Nat) /\ Len(Take(inq[p], n)) = n
          /\ Skip(inq[p], n) \in Seq(Nat) /\ Len(Skip(inq[p], n)) = Len(inq[p]) - n
      <4>1. Splits(Nat, inq[p], n)
        BY <2>2, <3>1, SplitAt, Zenon
      <4> QED BY <4>1, Zenon DEF Splits
    <3>3. Take(inq[p], k) \in Seq(Nat)
      BY <2>3, <3>1, TakeSkip
    <3> QED BY <1>3, <3>2, <3>3
  <2>5. b2 \in Seq(Nat) /\ Len(b2) = n - k
    <3> DEFINE t == Take(inq[p], n)
    <3>1. t \in Seq(Nat) /\ Len(t) = n /\ k \in 0..Len(t)
      BY <2>3, <2>4
    <3> HIDE DEF t
    <3>2. Skip(t, k) \in Seq(Nat) /\ Len(Skip(t, k)) = Len(t) - k
      BY <3>1, TakeSkip
    <3> QED BY <3>1, <3>2 DEF t
  <2>6. o2 \in Seq(Nat)
    BY <1>0, <2>4, ConcatProperties
  <2>7. /\ inq' = [inq EXCEPT ![p] = left] /\ out' = [out EXCEPT ![q] = o2]
        /\ buf' = b /\ readClosed' = rc /\ Settle(p, b, rc, st, m)
        /\ UNCHANGED <<wrote, fin, rst, crit, op, layer>>
    BY <1>3 DEF Settle, TransferSend, layerVars
  <2>8. ~Dead(p)
    BY <1>3 DEF RecvFails, Dead
  <2>9. Dead(q) => o2 = out[q]
    <3>1. SUFFICES ASSUME Dead(q) PROVE o2 = out[q]
      OBVIOUS
    <3>2. inq[p] = <<>> => Len(inq[p]) = 0
      BY EmptySeq
    <3>3. k = 0
      BY <1>0, <1>3, <2>2, <2>3, <3>1, <3>2, DeadTakesNothing
    <3> QED BY <1>0, <3>3, ForwardNothing
  <2>10. ~Dead(q) => /\ InFlight(p) /\ Follows(o2, 0) /\ Len(out[q]) <= Len(o2)
                     /\ Len(o2) + Len(b2) + Len(left) = wrote[p]
                     /\ Follows(b2, Len(o2)) /\ Follows(left, Len(o2) + Len(b2))
    <3>1. SUFFICES ASSUME ~Dead(q)
                   PROVE  /\ InFlight(p) /\ Follows(o2, 0) /\ Len(out[q]) <= Len(o2)
                          /\ Len(o2) + Len(b2) + Len(left) = wrote[p]
                          /\ Follows(b2, Len(o2)) /\ Follows(left, Len(o2) + Len(b2))
      OBVIOUS
    <3>2. InFlight(p)
      BY <2>8, <3>1, LiveInFlight
    <3>3. Len(buf[p]) = 0
      BY <1>3, EmptySeq
    <3>4. Len(out[q]) + Len(inq[p]) = wrote[p] /\ Follows(inq[p], Len(out[q]))
      <4>1. /\ Len(out[q]) + Len(buf[p]) + Len(inq[p]) = wrote[p]
            /\ Follows(inq[p], Len(out[q]) + Len(buf[p]))
        BY <3>2 DEF InFlight
      <4>2. Len(out[q]) + Len(buf[p]) = Len(out[q])
        BY <1>0, <3>3
      <4> QED BY <4>1, <4>2
    <3>5. Follows(out[q], 0)
      BY DEF DeliveryInv, PrefixDelivered
    <3>6. /\ Len(o2) = Len(out[q]) + k /\ Follows(o2, 0)
          /\ Follows(b2, Len(out[q]) + k) /\ Follows(left, Len(out[q]) + n)
      <4> DEFINE oo == out[q]
                 ii == inq[p]
      <4>1. /\ oo \in Seq(Nat) /\ ii \in Seq(Nat) /\ n \in 0..Len(ii) /\ k \in 0..n
            /\ Follows(oo, 0) /\ Follows(ii, Len(oo))
        BY <1>0, <2>2, <2>3, <3>4, <3>5
      <4>2. o2 = oo \o Take(ii, k) /\ b2 = Skip(Take(ii, n), k) /\ left = Skip(ii, n)
        BY <1>3
      <4> HIDE DEF oo, ii, o2, b2
      <4>3. /\ Len(oo \o Take(ii, k)) = Len(oo) + k /\ Follows(oo \o Take(ii, k), 0)
            /\ Follows(Skip(Take(ii, n), k), Len(oo) + k)
            /\ Follows(Skip(ii, n), Len(oo) + n)
        BY <4>1, ForwardBytes
      <4>4. /\ Len(o2) = Len(oo) + k /\ Follows(o2, 0)
            /\ Follows(b2, Len(oo) + k) /\ Follows(left, Len(oo) + n)
        BY <4>2, <4>3
      <4> QED BY <4>4 DEF oo
    <3>7. /\ Len(o2) + Len(b2) = Len(out[q]) + n
          /\ Len(o2) + Len(b2) + Len(left) = wrote[p] /\ Len(out[q]) <= Len(o2)
      <4> DEFINE lo == Len(out[q])
                 li == Len(inq[p])
                 l2 == Len(o2)
                 lb == Len(b2)
                 ll == Len(left)
      <4>1. ll = li - n /\ lb = n - k /\ l2 = lo + k /\ lo + li = wrote[p]
        BY <2>4, <2>5, <3>4, <3>6
      <4>2. n \in Nat /\ k \in Nat /\ k <= n /\ lo \in Nat /\ li \in Nat
        BY <1>0, <2>2, <2>3
      <4> HIDE DEF lo, li, l2, lb, ll
      <4>3. l2 + lb = lo + n /\ l2 + lb + ll = wrote[p] /\ lo <= l2
        BY <4>1, <4>2
      <4> QED BY <4>3 DEF lo, li, l2, lb, ll
    <3> QED BY <3>2, <3>6, <3>7
  <2> HIDE DEF o2, b2
  <2>11. /\ PrefixDelivered' /\ Conserved' /\ LayerUp'
         /\ \A r \in Peers : finOut[Other(r)] => fin'[r] /\ Complete(r)'
         /\ \A r \in Peers : Complete(r) => Complete(r)'
    BY <1>0, <2>4, <2>5, <2>6, <2>7, <2>9, <2>10, ForwardStep
  <2>12. \A r \in Peers : Dead(r)' <=> Dead(r)
    BY <2>7 DEF Dead
  <2>13. /\ buf'[q] = buf[q] /\ inq'[q] = inq[q] /\ readClosed'[q] = readClosed[q]
         /\ buf'[p] = b2 /\ inq'[p] = left /\ (readClosed'[p] => readClosed[p] \/ eof)
         /\ out'[q] = o2
    BY <1>0, <2>7 DEF TypeOK
  <2>14. readClosed'[p] => /\ fin[p] /\ buf'[p] = <<>> /\ inq'[p] = <<>>
                           /\ Dead(q) \/ Complete(p)'
    <3>1. CASE eof
      <4>1. fin[p] /\ left = <<>> /\ k = n
        BY <1>3, <3>1 DEF AtEof
      <4>2. Len(b2) = 0
        BY <2>2, <2>5, <4>1
      <4>3. b2 = <<>>
        BY <2>5, <4>2, EmptySeq
      <4>4. ~Dead(q) => Len(o2) = wrote[p] /\ Follows(o2, 0)
        <5>1. Len(left) = 0
          BY <4>1, EmptySeq
        <5>2. Len(o2) \in Nat
          BY <2>6, LenProperties
        <5> QED BY <2>10, <4>2, <5>1, <5>2
      <4> QED BY <2>7, <2>13, <4>1, <4>3, <4>4 DEF Complete, Follows
    <3>2. CASE readClosed[p]
      <4>1. fin[p] /\ inq[p] = <<>> /\ (Dead(q) \/ Complete(p))
        BY <3>2 DEF DeliveryInv, ClosedDrained
      <4>2. Len(inq[p]) = 0
        BY <4>1, EmptySeq
      <4>3. Len(left) = 0 /\ Len(b2) = 0
        <5>1. n = 0 /\ k = 0
          BY <2>2, <2>3, <4>2
        <5>2. Len(left) = Len(inq[p]) - n /\ Len(b2) = n - k
          BY <2>4, <2>5
        <5> QED BY <4>2, <5>1, <5>2
      <4>4. left = <<>> /\ b2 = <<>>
        BY <2>4, <2>5, <4>3, EmptySeq
      <4> QED BY <2>11, <2>13, <4>1, <4>4
    <3> QED BY <2>13, <3>1, <3>2
  <2>15. ClosedDrained'
    BY <2>7, <2>11, <2>12, <2>13, <2>14, DrainedStep
  <2>16. st = "conn" => b["server"] = <<>>
    <3>1. p # "server" => b["server"] = buf["server"]
      BY OtherPeer DEF TypeOK
    <3> QED BY <1>st, <3>1 DEF DeliveryInv, UnreadWhileConnecting
  <2> HIDE DEF b, rc, st
  <2> QED BY <2>7, <2>11, <2>15, <2>16, SettleStep
<1>4. CASE /\ buf[p] = <<>> /\ ~Handshaking(p) /\ ~RecvFails(p)
           /\ inq[p] = <<>> \/ ~SendFails(q)
           /\ LET n    == ReadAmount(inq[p], SendSpace(q))
                  k    == Smaller(n, SendSpace(q))
                  left == Skip(inq[p], n)
                  eof  == k = n /\ AtEof(p, left) /\ n < EventCap
                  more == ~eof /\ ~readClosed[p] /\ n >= EventCap /\ Readable(p, left)
                  b    == [buf EXCEPT ![p] = TransferSend(Take(inq[p], n), k)]
                  rc   == [readClosed EXCEPT ![p] = @ \/ eof]
              IN /\ inq' = [inq EXCEPT ![p] = left]
                 /\ out' = [out EXCEPT ![q] = @ \o Take(inq[p], k)]
                 /\ Settle(p, b, rc, st,
                       IF more THEN Append(rest, Trigger(p, READ, FALSE)) ELSE rest)
           /\ UNCHANGED <<wrote, fin, rst, ready, layerVars>>
  <2> DEFINE n    == ReadAmount(inq[p], SendSpace(q))
             k    == Smaller(n, SendSpace(q))
             left == Skip(inq[p], n)
             eof  == k = n /\ AtEof(p, left) /\ n < EventCap
             more == ~eof /\ ~readClosed[p] /\ n >= EventCap /\ Readable(p, left)
             m    == IF more THEN Append(rest, Trigger(p, READ, FALSE)) ELSE rest
  <2>1. eof \in BOOLEAN
    OBVIOUS
  <2>2. /\ inq' = [inq EXCEPT ![p] = left]
        /\ out' = [out EXCEPT ![q] = @ \o Take(inq[p], k)]
        /\ Settle(p, [buf EXCEPT ![p] = TransferSend(Take(inq[p], n), k)],
                  [readClosed EXCEPT ![p] = @ \/ eof], st, m)
    BY <1>4
  <2>3. eof => k = n /\ AtEof(p, left)
    OBVIOUS
  <2>4. /\ n = ReadAmount(inq[p], SendSpace(q)) /\ k = Smaller(n, SendSpace(q))
        /\ left = Skip(inq[p], n)
    OBVIOUS
  <2>5. /\ buf[p] = <<>> /\ ~Handshaking(p) /\ ~RecvFails(p)
        /\ inq[p] = <<>> \/ ~SendFails(q)
        /\ UNCHANGED <<wrote, fin, rst, ready, layerVars>>
    BY <1>4
  <2> HIDE DEF n, k, left, eof, m, st
  <2> QED BY <1>3, <2>1, <2>2, <2>3, <2>4, <2>5
<1> QED BY <1>1, <1>2, <1>4 DEF OnReceive

(* The same for a part of what is buffered. *)
LEMMA ForwardPart ==
    ASSUME NEW o \in Seq(Nat), NEW s \in Seq(Nat), NEW k \in 0..Len(s),
           Follows(o, 0), Follows(s, Len(o))
    PROVE  /\ Len(o \o Take(s, k)) = Len(o) + k /\ Follows(o \o Take(s, k), 0)
           /\ Len(Skip(s, k)) = Len(s) - k /\ Follows(Skip(s, k), Len(o) + k)
<1> DEFINE n == Len(s)
<1>1. n \in 0..Len(s) /\ k \in 0..n
  BY LenProperties
<1> HIDE DEF n
<1> QED BY <1>1, ForwardBytes

LEMMA OnSendDelivery ==
    ASSUME TypeOK, DeliveryInv, FALSE \notin Proxied, NEW p \in Peers, NEW rest,
           OnSend(p, rest)
    PROVE  DeliveryInv'
<1> DEFINE q    == Other(p)
           st   == IF p = "server" THEN "io" ELSE status
           data == buf[q]
           k    == Smaller(Len(data), SendSpace(p))
<1>0. /\ q \in Peers /\ q # p /\ Other(q) = p /\ \A r \in Peers : r = p \/ r = q
      /\ data \in Seq(Nat) /\ Len(data) \in Nat
      /\ out[p] \in Seq(Nat) /\ Len(out[p]) \in Nat
      /\ inq[q] \in Seq(Nat) /\ Len(inq[q]) \in Nat /\ wrote[q] \in Nat
  BY OtherPeer, LenProperties DEF TypeOK
<1>1. CASE /\ data # <<>> /\ SendFails(p)
           /\ buf' = [r \in Peers |-> <<>>]
           /\ status' = st
           /\ UNCHANGED <<netVars, readClosed, layerVars>>
  <2>1. Dead(p)
    <3>1. SUFFICES ASSUME ~Dead(p) PROVE FALSE
      OBVIOUS
    <3>2. finOut[p]
      BY <1>1, <3>1, SendFailsDead DEF DeliveryInv
    <3>3. Len(out[p]) = wrote[q]
      BY <1>0, <3>2 DEF DeliveryInv, EofAfterAll, Complete
    <3>4. InFlight(q)
      BY <1>0, <1>1, <3>1 DEF DeliveryInv, Conserved
    <3>5. Len(out[p]) + Len(data) + Len(inq[q]) = wrote[q]
      BY <1>0, <3>4 DEF InFlight
    <3>6. Len(data) # 0
      BY <1>0, <1>1, EmptySeq
    <3> HIDE DEF data
    <3> QED BY <1>0, <3>3, <3>5, <3>6
  <2>2. \A r \in Peers : Dead(r)' <=> Dead(r)
    BY <1>1 DEF Dead, netVars, layerVars
  <2>3. \A r \in Peers : Complete(r) => Complete(r)'
    BY <1>1 DEF Complete, netVars
  <2>4. Conserved'
    BY <1>0, <1>1, <2>1, <2>2 DEF Conserved
  <2>5. PrefixDelivered' /\ EofAfterAll' /\ LayerUp'
    BY <1>1, <2>3 DEF DeliveryInv, PrefixDelivered, EofAfterAll, LayerUp, netVars, layerVars
  <2>6. ClosedDrained'
    <3>1. \A r \in Peers : readClosed[r] =>
              fin[r] /\ inq[r] = <<>> /\ (Dead(Other(r)) \/ Complete(r))
      BY DEF DeliveryInv, ClosedDrained
    <3> QED BY <1>1, <2>2, <2>3, <3>1, OtherPeer DEF ClosedDrained, netVars
  <2>7. UnreadWhileConnecting'
    BY <1>1, OtherPeer DEF UnreadWhileConnecting
  <2> QED BY <2>4, <2>5, <2>6, <2>7 DEF DeliveryInv
<1>2. ASSUME NEW m,
             data = <<>> \/ ~SendFails(p),
             out' = [out EXCEPT ![p] = @ \o Take(data, k)],
             Settle(q, [buf EXCEPT ![q] = TransferSend(data, k)], readClosed, st, m),
             UNCHANGED <<wrote, inq, fin, rst, layerVars>>
      PROVE  DeliveryInv'
  <2> DEFINE o2 == out[p] \o Take(data, k)
             b2 == Skip(data, k)
             b  == [buf EXCEPT ![q] = b2]
  <2>1. SendSpace(p) \in Nat
    BY SpaceBound, RelayAssumption
  <2>2. k \in 0..Len(data) /\ k \in Nat /\ k <= SendSpace(p)
    <3>1. k \in 0..Len(data) /\ k <= SendSpace(p)
      BY <1>0, <2>1, SmallerBound
    <3> QED BY <1>0, <3>1
  <2>3. Len(data) \in 0..Len(data)
    BY <1>0
  <2>4. data = <<>> => k = 0 /\ b2 = data
    <3>1. data = <<>> => Len(data) = 0
      BY EmptySeq
    <3>2. data = <<>> => k = 0
      BY <2>2, <3>1
    <3> QED BY <1>0, <3>2, ForwardNothing
  <2>5. Dead(p) => o2 = out[p]
    <3>1. SUFFICES ASSUME Dead(p) PROVE o2 = out[p]
      OBVIOUS
    <3>2. k = 0
      BY <1>2, <2>2, <2>4, <3>1, DeadTakesNothing
    <3> QED BY <1>0, <3>2, ForwardNothing
  <2>6. data = <<>> => o2 = out[p] /\ b2 = data
    BY <1>0, <2>4, ForwardNothing
  <2>7. b2 \in Seq(Nat) /\ Take(data, k) \in Seq(Nat)
    BY <1>0, <2>2, TakeSkip
  <2>8. o2 \in Seq(Nat)
    BY <1>0, <2>7, ConcatProperties
  <2>9. InFlight(q) => /\ Follows(o2, 0) /\ Len(out[p]) <= Len(o2)
                       /\ Len(o2) + Len(b2) + Len(inq[q]) = wrote[q]
                       /\ Follows(b2, Len(o2)) /\ Follows(inq[q], Len(o2) + Len(b2))
    <3>1. SUFFICES ASSUME InFlight(q)
                   PROVE  /\ Follows(o2, 0) /\ Len(out[p]) <= Len(o2)
                          /\ Len(o2) + Len(b2) + Len(inq[q]) = wrote[q]
                          /\ Follows(b2, Len(o2)) /\ Follows(inq[q], Len(o2) + Len(b2))
      OBVIOUS
    <3>2. /\ Len(out[p]) + Len(data) + Len(inq[q]) = wrote[q]
          /\ Follows(data, Len(out[p])) /\ Follows(inq[q], Len(out[p]) + Len(data))
      BY <1>0, <3>1 DEF InFlight
    <3>3. Follows(out[p], 0)
      BY <1>0 DEF DeliveryInv, PrefixDelivered
    <3>4. /\ Len(o2) = Len(out[p]) + k /\ Follows(o2, 0)
          /\ Len(b2) = Len(data) - k /\ Follows(b2, Len(out[p]) + k)
      BY <1>0, <2>2, <3>2, <3>3, ForwardPart
    <3>5. Len(out[p]) <= Len(o2) /\ Len(o2) + Len(b2) = Len(out[p]) + Len(data)
      <4> DEFINE lo == Len(out[p])
                 ld == Len(data)
                 l2 == Len(o2)
                 lb == Len(b2)
      <4>1. l2 = lo + k /\ lb = ld - k /\ lo \in Nat /\ ld \in Nat /\ k \in Nat
        BY <1>0, <2>2, <3>4
      <4> HIDE DEF lo, ld, l2, lb, k
      <4>2. lo <= l2 /\ l2 + lb = lo + ld
        BY <4>1
      <4> QED BY <4>2 DEF lo, ld, l2, lb
    <3> HIDE DEF o2, b2, k, data
    <3> QED BY <3>2, <3>4, <3>5
  <2>10. /\ out' = [out EXCEPT ![p] = o2] /\ buf' = b /\ readClosed' = readClosed
         /\ inq' = [inq EXCEPT ![q] = inq[q]] /\ Settle(q, b, readClosed, st, m)
         /\ UNCHANGED <<wrote, fin, rst, crit, op, layer>>
    BY <1>0, <1>2 DEF Settle, TransferSend, layerVars, TypeOK
  <2>11. Dead(p) \/ data = <<>> \/ InFlight(q)
    BY <1>0 DEF DeliveryInv, Conserved
  <2> HIDE DEF o2, b2, k
  <2>12. /\ PrefixDelivered' /\ Conserved' /\ LayerUp'
         /\ \A r \in Peers : finOut[Other(r)] => fin'[r] /\ Complete(r)'
         /\ \A r \in Peers : Complete(r) => Complete(r)'
    BY <1>0, <2>5, <2>6, <2>7, <2>8, <2>9, <2>10, <2>11, ForwardStep
  <2>13. \A r \in Peers : Dead(r)' <=> Dead(r)
    BY <2>10 DEF Dead
  <2>14. /\ buf'[p] = buf[p] /\ inq'[p] = inq[p] /\ buf'[q] = b2 /\ inq'[q] = inq[q]
    BY <1>0, <1>2, <2>10 DEF TypeOK
  <2>15. readClosed[q] => /\ fin[q] /\ buf'[q] = <<>> /\ inq'[q] = <<>>
                          /\ Dead(p) \/ Complete(q)'
    <3>1. readClosed[q] => fin[q] /\ data = <<>> /\ inq[q] = <<>> /\ (Dead(p) \/ Complete(q))
      BY <1>0 DEF DeliveryInv, ClosedDrained
    <3> QED BY <1>0, <2>6, <2>12, <2>14, <3>1
  <2>16. ClosedDrained'
    BY <1>0, <2>10, <2>12, <2>13, <2>14, <2>15, DrainedStep
  <2>17. st = "conn" => b["server"] = <<>>
    <3>1. st = "conn" => buf["server"] = <<>>
      BY DEF DeliveryInv, UnreadWhileConnecting
    <3>2. buf["server"] = <<>> => b["server"] = <<>>
      BY <1>0, <2>6, OtherPeer DEF TypeOK
    <3> QED BY <3>1, <3>2
  <2> HIDE DEF b, st
  <2> QED BY <1>0, <2>10, <2>12, <2>16, <2>17, SettleStep
<1>3. CASE /\ data = <<>> \/ ~SendFails(p)
           /\ out' = [out EXCEPT ![p] = @ \o Take(data, k)]
           /\ Settle(q, [buf EXCEPT ![q] = TransferSend(data, k)], readClosed, st,
                     rest \o ResumeReading(q, data # <<>> /\ k = Len(data)))
           /\ UNCHANGED <<wrote, inq, fin, rst, lEvent, ready, layerVars>>
  BY <1>2, <1>3
<1> QED BY <1>1, <1>3 DEF OnSend

LEMMA CloseBothDelivery ==
    ASSUME DeliveryInv, CloseBoth
    PROVE  DeliveryInv'
<1>1. \A r \in Peers : Dead(r) => Dead(r)'
  BY DEF CloseBoth, Dead, netVars, layerVars
<1>2. LayerUp' /\ UnreadWhileConnecting'
  BY DEF CloseBoth, DeliveryInv, LayerUp, UnreadWhileConnecting, layerVars
<1> QED BY <1>1, <1>2, QuietStep DEF CloseBoth, netVars

(* A handler that only propagates half-closes keeps what the data satisfies. *)
LEMMA UnmovedData ==
    ASSUME TypeOK, DeliveryInv,
           UNCHANGED <<wrote, inq, out, buf, fin, rst, crit, readClosed>>
    PROVE  /\ PrefixDelivered' /\ Conserved' /\ ClosedDrained'
           /\ \A r \in Peers : finOut[Other(r)] => fin'[r] /\ Complete(r)'
<1>1. \A r \in Peers : (Dead(r)' <=> Dead(r)) /\ (Complete(r)' <=> Complete(r))
  BY DEF Dead, Complete
<1>2. \A r \in Peers : InFlight(r)' <=> InFlight(r)
  BY DEF InFlight
<1>3. PrefixDelivered'
  BY DEF DeliveryInv, PrefixDelivered
<1>4. Conserved'
  BY <1>1, <1>2, OtherPeer DEF DeliveryInv, Conserved
<1>5. ClosedDrained'
  BY <1>1, OtherPeer DEF DeliveryInv, ClosedDrained
<1>6. \A r \in Peers : finOut[Other(r)] => fin'[r] /\ Complete(r)'
  BY <1>1 DEF DeliveryInv, EofAfterAll
<1> QED BY <1>3, <1>4, <1>5, <1>6

LEMMA OnConnectDelivery ==
    ASSUME TypeOK, DeliveryInv, NEW err, NEW rest, OnConnect(err, rest)
    PROVE  DeliveryInv'
<1>1. CASE CloseBoth
  BY <1>1, CloseBothDelivery
<1>2. CASE /\ PropagateHalfClose("client", buf, readClosed, TRUE)
           /\ UNCHANGED <<wrote, inq, fin, rst, out, room, buf, readClosed, open,
                          status, layerVars, task>>
  <2>1. "client" \in Peers
    BY DEF Peers
  <2>2. UNCHANGED <<wrote, inq, out, buf, fin, rst, crit, readClosed, layer, op, status>>
    BY <1>2 DEF layerVars
  <2>3. /\ PrefixDelivered' /\ Conserved' /\ ClosedDrained'
        /\ \A r \in Peers : finOut[Other(r)] => fin'[r] /\ Complete(r)'
    BY <2>2, UnmovedData
  <2>4. EofAfterAll'
    BY <1>2, <2>1, <2>2, <2>3, PropagateStep
  <2>5. LayerUp' /\ UnreadWhileConnecting'
    BY <2>2 DEF DeliveryInv, LayerUp, UnreadWhileConnecting
  <2> QED BY <2>3, <2>4, <2>5 DEF DeliveryInv
<1> QED BY <1>1, <1>2 DEF OnConnect

LEMMA OnCloseDelivery ==
    ASSUME TypeOK, DeliveryInv, NEW p \in Peers, NEW err, NEW rest, OnClose(p, err, rest)
    PROVE  DeliveryInv'
<1>1. CASE CloseBoth
  BY <1>1, CloseBothDelivery
<1>2. CASE /\ UNCHANGED <<wrote, inq, fin, rst, out, finOut, buf, readClosed, status,
                          layerVars>>
  <2>1. \A r \in Peers : Dead(r) => Dead(r)'
    BY <1>2 DEF Dead, layerVars
  <2>2. LayerUp' /\ UnreadWhileConnecting'
    BY <1>2 DEF DeliveryInv, LayerUp, UnreadWhileConnecting, layerVars
  <2> QED BY <1>2, <2>1, <2>2, QuietStep
<1>3. CASE /\ Settle(p, buf, readClosed, status, rest)
           /\ UNCHANGED <<wrote, inq, fin, rst, out, room, armed, lEvent, ready,
                          layerVars>>
  <2>1. UNCHANGED <<wrote, inq, out, buf, fin, rst, crit, readClosed, layer, op>>
    BY <1>3 DEF layerVars, Settle
  <2>2. /\ PrefixDelivered' /\ Conserved' /\ ClosedDrained'
        /\ \A r \in Peers : finOut[Other(r)] => fin'[r] /\ Complete(r)'
    BY <2>1, UnmovedData
  <2>3. LayerUp' /\ (status = "conn" => buf["server"] = <<>>)
    BY <2>1 DEF DeliveryInv, LayerUp, UnreadWhileConnecting
  <2> QED BY <1>3, <2>1, <2>2, <2>3, SettleStep
<1> QED BY <1>1, <1>2, <1>3 DEF OnClose, netVars, peerVars

(* The layer never forgets a critical error, and once its operation is over it
   has left the state connecting. *)
LEMMA LayerMessageDelivery ==
    ASSUME DeliveryInv, FALSE \notin Proxied, LayerMessage
    PROVE  DeliveryInv'
<1>1. /\ UNCHANGED <<wrote, inq, fin, rst, out, finOut, buf, readClosed, status>>
      /\ CallEvent(Head(msgs).ev, Head(msgs).err, Tail(msgs))
  BY DEF LayerMessage, peerVars
<1>2. op \/ layer # "connecting"
  BY DEF DeliveryInv, LayerUp
<1>3. (crit => crit') /\ (op' \/ layer' # "connecting")
  <2> DEFINE rest == Tail(msgs)
             ev   == Head(msgs).ev
             err  == Head(msgs).err
  <2>1. HandshakeFails(rest) => layer' # "connecting"
    BY DEF HandshakeFails, LayerTrigger, CONNECT, CLOSE
  <2>2. HandshakeSucceeds(rest) => layer' # "connecting"
    BY DEF HandshakeSucceeds
  <2>3. \A e, x : LayerTrigger(e, x, layer, rest) => layer' \in {layer, "closed", "aborted"}
    BY DEF LayerTrigger
  <2>4. \A e, x : LayerTrigger(e, x, "connected", rest) => layer' # "connecting"
    BY DEF LayerTrigger
  <2>5. CASE crit
    BY <1>1, <1>2, <2>5 DEF CallEvent, LayerIdle
  <2>6. CASE ~crit /\ ~Expects(ev)
    BY <1>1, <1>2, <2>6 DEF CallEvent, LayerIdle
  <2>7. CASE ~crit /\ LayerOnReceive(rest)
    <3>1. CASE op /\ LayerIdle(layer, rest)
      BY <2>7, <3>1 DEF LayerIdle
    <3>2. CASE ~op
      BY <1>2, <2>3, <2>7, <3>2 DEF LayerOnReceive
    <3> QED BY <2>1, <2>2, <2>7, <3>1, <3>2 DEF LayerOnReceive
  <2>8. CASE ~crit /\ LayerOnSend(rest)
    <3>1. CASE op /\ LayerIdle(layer, rest)
      BY <2>8, <3>1 DEF LayerIdle
    <3>2. CASE ~op
      BY <1>2, <2>3, <2>8, <3>2 DEF LayerOnSend
    <3> QED BY <2>1, <2>2, <2>8, <3>1, <3>2 DEF LayerOnSend
  <2>9. CASE ~crit /\ LayerOnConnect(err, rest)
    BY <1>2, <2>1, <2>4, <2>9 DEF LayerOnConnect, LayerIdle
  <2>10. CASE ~crit /\ LayerOnClose(err, rest)
    BY <1>2, <2>1, <2>3, <2>10 DEF LayerOnClose
  <2> QED BY <1>1, <2>5, <2>6, <2>7, <2>8, <2>9, <2>10 DEF CallEvent
<1>4. \A r \in Peers : Dead(r) => Dead(r)'
  BY <1>1, <1>3 DEF Dead
<1>5. LayerUp' /\ UnreadWhileConnecting'
  BY <1>1, <1>3 DEF DeliveryInv, LayerUp, UnreadWhileConnecting
<1> QED BY <1>1, <1>4, <1>5, QuietStep

(* Appending the next byte of the stream to what is not read yet. *)
LEMMA AppendFollows ==
    ASSUME NEW s \in Seq(Nat), NEW m \in Nat, Follows(s, m)
    PROVE  Follows(Append(s, m + Len(s) + 1), m) /\ Len(Append(s, m + Len(s) + 1)) = Len(s) + 1
<1> DEFINE x == m + Len(s) + 1
           t == Append(s, x)
           l == Len(s)
<1>1. l \in Nat /\ x \in Nat
  BY LenProperties
<1>2. /\ Len(t) = l + 1 /\ \A i \in 1..l : t[i] = s[i]
      /\ t[l + 1] = x
  BY <1>1, AppendProperties
<1>3. x = m + (l + 1)
  BY <1>1
<1>4. \A i \in 1..l : s[i] = m + i
  BY DEF Follows
<1> HIDE DEF x, t, l
<1>5. \A i \in 1..(l + 1) : t[i] = m + i
  <2> TAKE i \in 1..(l + 1)
  <2>1. CASE i \in 1..l
    BY <1>2, <1>4, <2>1
  <2>2. CASE i = l + 1
    BY <1>2, <1>3, <2>2
  <2> QED BY <1>1, <2>1, <2>2
<1>6. Follows(t, m)
  BY <1>2, <1>5 DEF Follows
<1> QED BY <1>2, <1>6 DEF t, x, l

LEMMA RemoteWriteDelivery ==
    ASSUME TypeOK, DeliveryInv, NEW p \in Peers, RemoteWrite(p)
    PROVE  DeliveryInv'
<1> DEFINE q  == Other(p)
           i2 == Append(inq[p], wrote[p] + 1)
<1>0. /\ q \in Peers /\ q # p /\ Other(q) = p /\ \A r \in Peers : r = p \/ r = q
      /\ inq[p] \in Seq(Nat) /\ wrote[p] \in Nat /\ buf[p] \in Seq(Nat)
      /\ out[q] \in Seq(Nat)
      /\ Len(out[q]) \in Nat /\ Len(buf[p]) \in Nat /\ Len(inq[p]) \in Nat
  BY OtherPeer, LenProperties DEF TypeOK
<1>1. /\ wrote' = [wrote EXCEPT ![p] = wrote[p] + 1] /\ inq' = [inq EXCEPT ![p] = i2]
      /\ ~fin[p]
      /\ UNCHANGED <<fin, rst, out, finOut, buf, readClosed, status, layer, crit, op>>
  BY DEF RemoteWrite, Speaks, peerVars, layerVars
<1>2. /\ wrote'[p] = wrote[p] + 1 /\ inq'[p] = i2
      /\ wrote'[q] = wrote[q] /\ inq'[q] = inq[q]
  BY <1>0, <1>1 DEF TypeOK
<1>3. ~readClosed[p] /\ ~finOut[q]
  BY <1>1 DEF DeliveryInv, ClosedDrained, EofAfterAll
<1>4. \A r \in Peers : Dead(r)' <=> Dead(r)
  BY <1>1 DEF Dead
<1>5. Complete(q)' <=> Complete(q)
  BY <1>0, <1>1, <1>2 DEF Complete
<1>6. PrefixDelivered'
  <2>1. Follows(out[q], 0) /\ Len(out[q]) <= wrote[p] + 1
    BY <1>0 DEF DeliveryInv, PrefixDelivered
  <2>2. Follows(out[p], 0) /\ Len(out[p]) <= wrote[q]
    BY <1>0 DEF DeliveryInv, PrefixDelivered
  <2> QED BY <1>0, <1>1, <1>2, <2>1, <2>2 DEF PrefixDelivered
<1>7. EofAfterAll'
  <2>1. finOut[p] => fin[q] /\ Complete(q)
    BY <1>0 DEF DeliveryInv, EofAfterAll
  <2> QED BY <1>0, <1>1, <1>3, <1>5, <2>1 DEF EofAfterAll
<1>8. ClosedDrained'
  <2>1. readClosed[q] => /\ fin[q] /\ buf[q] = <<>> /\ inq[q] = <<>>
                         /\ Dead(p) \/ Complete(q)
    BY <1>0 DEF DeliveryInv, ClosedDrained
  <2> QED BY <1>0, <1>1, <1>2, <1>3, <1>4, <1>5, <2>1 DEF ClosedDrained
<1>9. InFlight(p) => InFlight(p)'
  <2>1. SUFFICES ASSUME InFlight(p) PROVE InFlight(p)'
    OBVIOUS
  <2> DEFINE lo == Len(out[q])
             lb == Len(buf[p])
             li == Len(inq[p])
             m  == lo + lb
  <2>2. lo + lb + li = wrote[p] /\ Follows(buf[p], lo) /\ Follows(inq[p], m)
    BY <2>1 DEF InFlight
  <2>3. lo \in Nat /\ lb \in Nat /\ li \in Nat
    BY <1>0
  <2>4. m \in Nat /\ wrote[p] + 1 = m + li + 1
    <3> HIDE DEF lo, lb, li
    <3> QED BY <2>2, <2>3
  <2>5. Follows(i2, m) /\ Len(i2) = li + 1
    <3> HIDE DEF m
    <3> QED BY <1>0, <2>2, <2>4, AppendFollows
  <2>6. lo + lb + Len(i2) = wrote[p] + 1
    <3> DEFINE l2 == Len(i2)
    <3>1. l2 = li + 1
      BY <2>5
    <3> HIDE DEF l2, lo, lb, li
    <3>2. lo + lb + l2 = wrote[p] + 1
      BY <2>2, <2>3, <3>1
    <3> QED BY <3>2 DEF l2
  <2> QED BY <1>1, <1>2, <2>2, <2>5, <2>6 DEF InFlight
<1>10. InFlight(q) => InFlight(q)'
  <2> HIDE DEF q
  <2> QED BY <1>0, <1>1, <1>2 DEF InFlight
<1>11. Conserved'
  <2>1. Dead(q) \/ (Dead(p) /\ buf[p] = <<>>) \/ InFlight(p)
    BY DEF DeliveryInv, Conserved
  <2>2. Dead(p) \/ (Dead(q) /\ buf[q] = <<>>) \/ InFlight(q)
    BY <1>0 DEF DeliveryInv, Conserved
  <2>3. Dead(q)' \/ (Dead(p)' /\ buf'[p] = <<>>) \/ InFlight(p)'
    BY <1>0, <1>1, <1>4, <1>9, <2>1
  <2>4. Dead(p)' \/ (Dead(q)' /\ buf'[q] = <<>>) \/ InFlight(q)'
    BY <1>0, <1>1, <1>4, <1>10, <2>2
  <2>5. q = Other(p)
    OBVIOUS
  <2> HIDE DEF q
  <2> QED BY <1>0, <2>3, <2>4, <2>5 DEF Conserved
<1>12. LayerUp' /\ UnreadWhileConnecting'
  BY <1>1 DEF DeliveryInv, LayerUp, UnreadWhileConnecting
<1> QED BY <1>6, <1>7, <1>8, <1>11, <1>12 DEF DeliveryInv

LEMMA RemoteFinDelivery ==
    ASSUME TypeOK, DeliveryInv, NEW p \in Peers, RemoteFin(p)
    PROVE  DeliveryInv'
<1>1. /\ \A r \in Peers : fin[r] => fin'[r]
      /\ UNCHANGED <<wrote, inq, rst, out, finOut, buf, readClosed, status, layer, crit, op>>
  BY DEF RemoteFin, TypeOK, peerVars, layerVars
<1>2. \A r \in Peers : /\ (Dead(r)' <=> Dead(r)) /\ (Complete(r)' <=> Complete(r))
                       /\ (InFlight(r)' <=> InFlight(r))
  BY <1>1 DEF Dead, Complete, InFlight
<1>3. PrefixDelivered' /\ LayerUp' /\ UnreadWhileConnecting'
  BY <1>1 DEF DeliveryInv, PrefixDelivered, LayerUp, UnreadWhileConnecting
<1>4. EofAfterAll'
  BY <1>1, <1>2 DEF DeliveryInv, EofAfterAll
<1>5. Conserved'
  BY <1>1, <1>2, OtherPeer DEF DeliveryInv, Conserved
<1>6. ClosedDrained'
  BY <1>1, <1>2, OtherPeer DEF DeliveryInv, ClosedDrained
<1> QED BY <1>3, <1>4, <1>5, <1>6 DEF DeliveryInv

LEMMA ConnTimeoutDelivery ==
    ASSUME TypeOK, DeliveryInv, ConnTimeout
    PROVE  DeliveryInv'
<1>1. buf["server"] = <<>>
  BY DEF ConnTimeout, DeliveryInv, UnreadWhileConnecting
<1>2. buf' = buf
  BY <1>1 DEF ConnTimeout, TypeOK
<1>3. \A r \in Peers : Dead(r) => Dead(r)'
  BY DEF ConnTimeout, Dead, netVars, layerVars
<1>4. LayerUp' /\ UnreadWhileConnecting'
  BY <1>1, <1>2 DEF ConnTimeout, DeliveryInv, LayerUp, UnreadWhileConnecting, layerVars
<1> QED BY <1>2, <1>3, <1>4, QuietStep DEF ConnTimeout, netVars

(* Everything else moves no byte at all. *)
LEMMA IdleDelivery ==
    ASSUME DeliveryInv,
           UNCHANGED <<wrote, inq, out, buf, fin, finOut, readClosed, status, layer, crit, op>>,
           \A r \in Peers : rst[r] => rst'[r]
    PROVE  DeliveryInv'
<1>1. \A r \in Peers : Dead(r) => Dead(r)'
  BY DEF Dead
<1>2. LayerUp' /\ UnreadWhileConnecting'
  BY DEF DeliveryInv, LayerUp, UnreadWhileConnecting
<1> QED BY <1>1, <1>2, QuietStep

LEMMA InitDelivery == Init => DeliveryInv
<1> SUFFICES ASSUME Init PROVE DeliveryInv
  OBVIOUS
<1>1. Len(<<>>) = 0
  BY EmptySeq
<1>2. \A r \in Peers : /\ wrote[r] = 0 /\ inq[r] = <<>> /\ out[r] = <<>> /\ buf[r] = <<>>
                       /\ ~finOut[r] /\ ~readClosed[r]
  BY DEF Init
<1>3. \A m : Follows(<<>>, m)
  BY <1>1 DEF Follows
<1>4. PrefixDelivered /\ EofAfterAll /\ ClosedDrained
  BY <1>1, <1>2, <1>3, OtherPeer DEF PrefixDelivered, EofAfterAll, ClosedDrained
<1>5. \A r \in Peers : InFlight(r)
  <2> TAKE r \in Peers
  <2>1. Other(r) \in Peers
    BY OtherPeer
  <2>2. /\ Len(out[Other(r)]) = 0 /\ Len(buf[r]) = 0 /\ Len(inq[r]) = 0 /\ wrote[r] = 0
        /\ \A m : Follows(buf[r], m) /\ Follows(inq[r], m)
    BY <1>1, <1>2, <1>3, <2>1
  <2> QED BY <2>2 DEF InFlight
<1>6. LayerUp /\ UnreadWhileConnecting
  <2>1. CASE op
    BY <2>1 DEF Init, LayerUp, UnreadWhileConnecting, Peers
  <2>2. CASE ~op
    <3>1. FALSE \in Proxied
      BY <2>2, RelayAssumption DEF Init
    <3> QED BY <3>1 DEF Init, LayerUp, UnreadWhileConnecting, Peers
  <2> QED BY <2>1, <2>2
<1> QED BY <1>4, <1>5, <1>6 DEF DeliveryInv, Conserved

LEMMA NextDelivery ==
    ASSUME FALSE \notin Proxied, TypeOK, DeliveryInv, [Next]_vars
    PROVE  DeliveryInv'
<1>1. CASE DropMessage \/ TimerSweep \/ TaskAborted \/ UNCHANGED vars
  BY <1>1, IdleDelivery DEF DropMessage, TimerSweep, TaskAborted, EndTask,
     vars, netVars, peerVars, layerVars
<1>2. CASE LayerMessage
  BY <1>2, LayerMessageDelivery
<1>3. CASE OwnerMessage
  <2>1. Head(msgs).p \in Peers
    BY <1>3, HeadMessage DEF OwnerMessage, HasMsg, Msgs
  <2> QED BY <1>3, <2>1, OnReceiveDelivery, OnSendDelivery, OnConnectDelivery,
             OnCloseDelivery DEF OwnerMessage
<1>4. CASE ConnTimeout
  BY <1>4, ConnTimeoutDelivery
<1>5. CASE (\E p \in Peers, ev \in Events : Notify(p, ev)) \/ \E err \in BOOLEAN : NotifyConnect(err)
  BY <1>5, IdleDelivery DEF Notify, NotifyConnect, peerVars, layerVars
<1>6. CASE \E p \in Peers : RemoteWrite(p)
  BY <1>6, RemoteWriteDelivery
<1>7. CASE \E p \in Peers : RemoteFin(p)
  BY <1>7, RemoteFinDelivery
<1>8. CASE \E p \in Peers : RemoteReset(p)
  <2>1. \A r \in Peers : rst[r] => rst'[r]
    BY <1>8 DEF RemoteReset, TypeOK
  <2> QED BY <1>8, <2>1, IdleDelivery DEF RemoteReset, peerVars, layerVars
<1>9. CASE \E p \in Peers : RemoteDrain(p)
  BY <1>9, IdleDelivery DEF RemoteDrain, peerVars, layerVars
<1> QED BY <1>1, <1>2, <1>3, <1>4, <1>5, <1>6, <1>7, <1>8, <1>9 DEF Next

(* Behind a proxy the task knows where every byte is: sent, buffered or not yet
   read, unless one of its connections has failed. *)
THEOREM ByteAccounting ==
    ASSUME FALSE \notin Proxied
    PROVE  Spec => []DeliveryInv
<1>1. TypeOK /\ DeliveryInv /\ [Next]_vars => DeliveryInv'
  BY NextDelivery
<1> QED BY <1>1, InitDelivery, TypeCorrect, PTL DEF Spec

(* Behind a proxy each side receives a prefix of what the other side wrote, and
   is told of its end only after the whole of it (OnReceive, TransferSend, OnSend,
   PropagateHalfClose), for every buffer size, read limit and stream. *)
THEOREM Delivery ==
    ASSUME FALSE \notin Proxied
    PROVE  Spec => [](PrefixDelivered /\ EofAfterAll)
<1>1. DeliveryInv => PrefixDelivered /\ EofAfterAll
  BY DEF DeliveryInv
<1> QED BY <1>1, ByteAccounting, PTL

-----------------------------------------------------------------------------
(* The handshake.  OnConnect is the only handler that opens the way to the
   server, and its message is posted when the operation is over. *)

TunnelUp(m) == m.ev = CONNECT /\ m.hop = "owner"
NoneUp(s) == \A i \in 1..Len(s) : ~TunnelUp(s[i])

HandshakeInv ==
    op => /\ out["server"] = <<>> /\ ~finOut["server"]
          /\ ~ready /\ NoneUp(msgs)

(* Only a posted FD_CONNECT can announce the tunnel. *)
LEMMA TriggerNotUp ==
    \A p, ev, err : ev # CONNECT => ~TunnelUp(Trigger(p, ev, err))
BY DEF TunnelUp, Trigger

LEMMA NoneUpAppend ==
    ASSUME NEW s \in Seq(Msgs), NEW x \in Msgs, NoneUp(s), ~TunnelUp(x)
    PROVE  NoneUp(Append(s, x))
<1>1. Len(s) \in Nat
  BY LenProperties
<1>2. /\ Len(Append(s, x)) = Len(s) + 1
      /\ \A i \in 1..Len(s) : Append(s, x)[i] = s[i]
      /\ Append(s, x)[Len(s) + 1] = x
  BY AppendProperties
<1>3. \A i \in 1..(Len(s) + 1) : i \in 1..Len(s) \/ i = Len(s) + 1
  BY <1>1
<1> QED BY <1>2, <1>3 DEF NoneUp

LEMMA NoneUpTail ==
    ASSUME NEW s \in Seq(Msgs), s # <<>>, NoneUp(s)
    PROVE  NoneUp(Tail(s)) /\ ~TunnelUp(Head(s))
<1>1. Len(s) \in Nat /\ Len(s) # 0
  BY EmptySeq, LenProperties
<1>2. Len(Tail(s)) = Len(s) - 1 /\ \A i \in 1..(Len(s) - 1) : Tail(s)[i] = s[i + 1]
  BY HeadTailProperties
<1>3. \A i \in 1..(Len(s) - 1) : i + 1 \in 1..Len(s)
  BY <1>1
<1>4. Head(s) = s[1] /\ 1 \in 1..Len(s)
  BY <1>1, HeadTailProperties
<1> QED BY <1>2, <1>3, <1>4 DEF NoneUp

(* Nothing is sent to the server peer while its handshake runs. *)
LEMMA RefusedSend ==
    ASSUME TypeOK, op, NEW s \in Seq(Nat)
    PROVE  /\ SendSpace("server") = 0
           /\ \A n \in Nat : Smaller(n, SendSpace("server")) = 0
           /\ out["server"] \o Take(s, 0) = out["server"]
<1>1. SendSpace("server") = 0
  BY DEF SendSpace, Handshaking
<1>2. \A n \in Nat : Smaller(n, 0) = 0
  BY DEF Smaller
<1>3. out["server"] \in Seq(Nat)
  BY DEF TypeOK, Peers
<1> QED BY <1>1, <1>2, <1>3, ForwardNothing

(* Until the tunnel is up no handler ends the server's stream. *)
LEMMA NotYetShut ==
    ASSUME TypeOK, ~ready, NEW p \in Peers, NEW b, NEW rc,
           PropagateHalfClose(p, b, rc, ready)
    PROVE  finOut'["server"] = finOut["server"]
<1>1. CASE MayPropagate(p, b, rc, ready)
  <2>1. Other(p) # "server"
    BY <1>1 DEF MayPropagate
  <2>2. finOut' = [finOut EXCEPT ![Other(p)] = @ \/ ShutDownReaches(Other(p))]
    BY <1>1 DEF PropagateHalfClose
  <2>3. finOut \in [Peers -> BOOLEAN] /\ "server" \in Peers
    BY DEF TypeOK, Peers
  <2> QED BY <2>1, <2>2, <2>3
<1>2. CASE ~MayPropagate(p, b, rc, ready)
  BY <1>2 DEF PropagateHalfClose
<1> QED BY <1>1, <1>2

(* The tail of a handler posts what it was given, or nothing. *)
LEMMA SettlePosts ==
    ASSUME NEW p, NEW b, NEW rc, NEW st, NEW m, Settle(p, b, rc, st, m), NoneUp(m)
    PROVE  NoneUp(msgs')
<1>1. NoneUp(<<>>)
  BY EmptySeq DEF NoneUp
<1> QED BY <1>1 DEF Settle, TryFinishConnection

LEMMA OnReceiveHandshake ==
    ASSUME TypeOK, HandshakeInv, op, NEW p \in Peers, NEW rest \in Seq(Msgs),
           NoneUp(rest), OnReceive(p, rest)
    PROVE  HandshakeInv'
<1> DEFINE q == Other(p)
<1>0. /\ \A ev \in {READ, CLOSE}, err \in BOOLEAN :
            Trigger(p, ev, err) \in Msgs /\ ~TunnelUp(Trigger(p, ev, err))
      /\ inq[p] \in Seq(Nat) /\ q \in Peers
  BY TriggerType, EventNames, TriggerNotUp, OtherPeer DEF TypeOK, READ, CLOSE, CONNECT
<1>1. CASE /\ UNCHANGED <<out, finOut, ready, op>>
           /\ \/ msgs' = rest
              \/ \E ev \in {READ, CLOSE}, err \in BOOLEAN : msgs' = Append(rest, Trigger(p, ev, err))
  <2>1. NoneUp(msgs')
    BY <1>0, <1>1, NoneUpAppend
  <2> QED BY <1>1, <2>1 DEF HandshakeInv
<1>2. ASSUME ~Handshaking(p),
             NEW n \in Nat, NEW b, NEW rc, NEW st, NEW more \in BOOLEAN,
             out' = [out EXCEPT ![q] = @ \o Take(inq[p], Smaller(n, SendSpace(q)))],
             Settle(p, b, rc, st,
                    IF more THEN Append(rest, Trigger(p, READ, FALSE)) ELSE rest),
             UNCHANGED <<ready, layerVars>>
      PROVE  HandshakeInv'
  <2>1. p = "client" /\ q = "server"
    BY <1>2, OtherPeer DEF Handshaking, Other
  <2>2. out'["server"] = out["server"]
    <3>1. Smaller(n, SendSpace("server")) = 0
      BY <1>0, <1>2, RefusedSend
    <3>2. out'["server"] = out["server"] \o Take(inq[p], 0)
      BY <1>2, <2>1, <3>1 DEF TypeOK, Peers
    <3> QED BY <1>0, <3>2, RefusedSend
  <2>3. finOut'["server"] = finOut["server"]
    BY <1>2, NotYetShut DEF HandshakeInv, Settle
  <2>4. NoneUp(IF more THEN Append(rest, Trigger(p, READ, FALSE)) ELSE rest)
    BY <1>0, NoneUpAppend
  <2>5. NoneUp(msgs')
    BY <1>2, <2>4, SettlePosts
  <2> QED BY <1>2, <2>2, <2>3, <2>5 DEF HandshakeInv, layerVars
<1>3. CASE \/ buf[p] # <<>> \/ Handshaking(p)
           \/ buf[p] = <<>> /\ RecvFails(p)
           \/ inq[p] # <<>> /\ SendFails(q)
  <2>1. \/ /\ UNCHANGED <<out, finOut, ready, op>>
           /\ \/ msgs' = rest
              \/ msgs' = Append(rest, Trigger(p, CLOSE, TRUE))
              \/ msgs' = Append(rest, Trigger(p, CLOSE, FALSE))
        \/ /\ buf[p] = <<>> /\ ~Handshaking(p) /\ ~RecvFails(p)
           /\ inq[p] = <<>> \/ ~SendFails(q)
    BY DEF OnReceive, netVars, layerVars
  <2> QED BY <1>1, <1>3, <2>1
<1>4. CASE /\ buf[p] = <<>> /\ ~Handshaking(p) /\ ~RecvFails(p)
           /\ inq[p] = <<>> \/ ~SendFails(q)
  <2> DEFINE n    == ReadAmount(inq[p], SendSpace(q))
             k    == Smaller(n, SendSpace(q))
             left == Skip(inq[p], n)
             eof  == k = n /\ AtEof(p, left) /\ n < EventCap
             more == ~eof /\ ~readClosed[p] /\ n >= EventCap /\ Readable(p, left)
             b    == [buf EXCEPT ![p] = TransferSend(Take(inq[p], n), k)]
             rc   == [readClosed EXCEPT ![p] = @ \/ eof]
             st   == IF p = "server" \/ inq[p] # <<>> THEN "io" ELSE status
  <2>1. /\ out' = [out EXCEPT ![q] = @ \o Take(inq[p], k)]
        /\ Settle(p, b, rc, st,
                  IF more THEN Append(rest, Trigger(p, READ, FALSE)) ELSE rest)
        /\ UNCHANGED <<ready, layerVars>>
    BY <1>4 DEF OnReceive
  <2>2. n \in Nat /\ more \in BOOLEAN
    <3>1. SendSpace(q) \in Nat
      BY <1>0, SpaceBound, RelayAssumption
    <3>2. n \in 0..Len(inq[p]) /\ Len(inq[p]) \in Nat
      BY <1>0, <3>1, ReadAmountBound, LenProperties
    <3> QED BY <3>2
  <2> HIDE DEF n, more, b, rc, st
  <2> QED BY <1>2, <1>4, <2>1, <2>2
<1> QED BY <1>3, <1>4

LEMMA OnSendHandshake ==
    ASSUME TypeOK, HandshakeInv, op, NEW p \in Peers, NEW rest \in Seq(Msgs),
           NoneUp(rest), OnSend(p, rest)
    PROVE  HandshakeInv'
<1> DEFINE q    == Other(p)
           data == buf[q]
           k    == Smaller(Len(data), SendSpace(p))
           all  == data # <<>> /\ k = Len(data)
<1>0. q \in Peers /\ data \in Seq(Nat) /\ Len(data) \in Nat
  BY OtherPeer, LenProperties DEF TypeOK
<1>1. CASE /\ UNCHANGED <<out, finOut, ready, op>>
           /\ msgs' = Append(rest, Trigger(p, CLOSE, FALSE))
  <2>1. Trigger(p, CLOSE, FALSE) \in Msgs /\ ~TunnelUp(Trigger(p, CLOSE, FALSE))
    BY TriggerType, EventNames, TriggerNotUp DEF CLOSE, CONNECT
  <2>2. NoneUp(msgs')
    BY <1>1, <2>1, NoneUpAppend
  <2> QED BY <1>1, <2>2 DEF HandshakeInv
<1>2. ASSUME NEW b, NEW st,
             out' = [out EXCEPT ![p] = @ \o Take(data, k)],
             Settle(q, b, readClosed, st, rest \o ResumeReading(q, all)),
             UNCHANGED <<ready, layerVars>>
      PROVE  HandshakeInv'
  <2>1. out'["server"] = out["server"]
    <3>1. CASE p = "client"
      BY <1>2, <3>1 DEF TypeOK
    <3>2. CASE p = "server"
      <4>1. k = 0
        BY <1>0, <3>2, RefusedSend
      <4>2. out'["server"] = out["server"] \o Take(data, 0)
        BY <1>2, <3>2, <4>1 DEF TypeOK
      <4> HIDE DEF data
      <4> QED BY <1>0, <4>2, RefusedSend
    <3> QED BY <3>1, <3>2 DEF Peers
  <2>2. finOut'["server"] = finOut["server"]
    BY <1>0, <1>2, NotYetShut DEF HandshakeInv, Settle
  <2>3. NoneUp(rest \o ResumeReading(q, all))
    <3>1. Trigger(q, READ, FALSE) \in Msgs /\ ~TunnelUp(Trigger(q, READ, FALSE))
      BY <1>0, TriggerType, EventNames, TriggerNotUp DEF READ, CONNECT
    <3>2. rest \o <<>> = rest
      BY ConcatEmptySeq
    <3>3. rest \o <<Trigger(q, READ, FALSE)>> = Append(rest, Trigger(q, READ, FALSE))
      BY <3>1, AppendIsConcat
    <3> QED BY <3>1, <3>2, <3>3, NoneUpAppend DEF ResumeReading
  <2>4. NoneUp(msgs')
    BY <1>2, <2>3, SettlePosts
  <2> QED BY <1>2, <2>1, <2>2, <2>4 DEF HandshakeInv, layerVars
<1> DEFINE b  == [buf EXCEPT ![q] = TransferSend(data, k)]
           st == IF p = "server" THEN "io" ELSE status
<1>3. \/ /\ UNCHANGED <<out, finOut, ready, op>>
         /\ msgs' = Append(rest, Trigger(p, CLOSE, FALSE))
      \/ /\ out' = [out EXCEPT ![p] = @ \o Take(data, k)]
         /\ Settle(q, b, readClosed, st, rest \o ResumeReading(q, all))
         /\ UNCHANGED <<ready, layerVars>>
  BY DEF OnSend, netVars, layerVars
<1> HIDE DEF b, st, data, k, all
<1> QED BY <1>1, <1>2, <1>3

LEMMA OnCloseHandshake ==
    ASSUME TypeOK, HandshakeInv, op, NEW p \in Peers, NEW err, NEW rest \in Seq(Msgs),
           NoneUp(rest), OnClose(p, err, rest)
    PROVE  HandshakeInv'
<1>1. CASE CloseBoth
  <2>1. NoneUp(<<>>)
    BY EmptySeq DEF NoneUp
  <2> QED BY <1>1, <2>1 DEF CloseBoth, HandshakeInv, netVars, layerVars
<1>2. CASE /\ UNCHANGED <<out, finOut, ready, op>>
           /\ msgs' = rest \/ msgs' = Append(rest, Trigger(p, READ, FALSE))
  <2>1. Trigger(p, READ, FALSE) \in Msgs /\ ~TunnelUp(Trigger(p, READ, FALSE))
    BY TriggerType, EventNames, TriggerNotUp DEF READ, CONNECT
  <2>2. NoneUp(msgs')
    BY <1>2, <2>1, NoneUpAppend
  <2> QED BY <1>2, <2>2 DEF HandshakeInv
<1>3. CASE /\ Settle(p, buf, readClosed, status, rest)
           /\ UNCHANGED <<out, ready, op>>
  <2>1. NoneUp(msgs')
    BY <1>3, SettlePosts
  <2>2. finOut'["server"] = finOut["server"]
    BY <1>3, NotYetShut DEF HandshakeInv, Settle
  <2> QED BY <1>3, <2>1, <2>2 DEF HandshakeInv
<1> QED BY <1>1, <1>2, <1>3 DEF OnClose, netVars, peerVars, layerVars

(* The layer's own events: an operation that goes on posts nothing. *)
LEMMA LayerHandshake ==
    ASSUME LayerMessage
    PROVE  (op' => op) /\ (op' => msgs' = Tail(msgs))
<1>1. CallEvent(Head(msgs).ev, Head(msgs).err, Tail(msgs))
  BY DEF LayerMessage
<1>2. op' => op
  BY <1>1 DEF CallEvent, LayerIdle, LayerOnReceive, LayerOnSend, LayerOnConnect,
     LayerOnClose, HandshakeSucceeds, HandshakeFails
<1>3. op /\ op' => msgs' = Tail(msgs)
  BY <1>1 DEF CallEvent, LayerIdle, LayerOnReceive, LayerOnSend, LayerOnConnect,
     LayerOnClose, HandshakeSucceeds, HandshakeFails
<1> QED BY <1>2, <1>3

LEMMA NextHandshake ==
    ASSUME TypeOK, HandshakeInv, [Next]_vars
    PROVE  HandshakeInv'
<1>0. SUFFICES ASSUME op' PROVE HandshakeInv'
  BY DEF HandshakeInv
<1>m. msgs \in Seq(Msgs)
  BY DEF TypeOK
<1>1. CASE DropMessage
  <2>1. op /\ UNCHANGED <<out, finOut, ready>> /\ msgs # <<>> /\ msgs' = Tail(msgs)
    BY <1>0, <1>1 DEF DropMessage, netVars, peerVars, layerVars
  <2>2. NoneUp(msgs')
    BY <1>m, <2>1, NoneUpTail DEF HandshakeInv
  <2> QED BY <2>1, <2>2 DEF HandshakeInv
<1>2. CASE LayerMessage
  <2>1. op /\ UNCHANGED <<out, finOut, ready>> /\ msgs # <<>> /\ msgs' = Tail(msgs)
    BY <1>0, <1>2, LayerHandshake DEF LayerMessage, HasMsg, peerVars
  <2>2. NoneUp(msgs')
    BY <1>m, <2>1, NoneUpTail DEF HandshakeInv
  <2> QED BY <2>1, <2>2 DEF HandshakeInv
<1>3. CASE OwnerMessage
  <2>1. /\ msgs # <<>> /\ Head(msgs).hop = "owner"
        /\ Head(msgs).p \in Peers /\ Tail(msgs) \in Seq(Msgs)
    BY <1>3, HeadMessage DEF OwnerMessage, HasMsg
  <2>2. op
    BY <1>0, <1>3 DEF OwnerMessage, OnReceive, OnSend, OnConnect, OnClose, CloseBoth,
       layerVars
  <2>3. NoneUp(Tail(msgs)) /\ Head(msgs).ev # CONNECT
    BY <1>m, <2>1, <2>2, NoneUpTail DEF HandshakeInv, TunnelUp
  <2>4. \/ OnReceive(Head(msgs).p, Tail(msgs))
        \/ OnSend(Head(msgs).p, Tail(msgs))
        \/ OnClose(Head(msgs).p, Head(msgs).err, Tail(msgs))
    BY <1>3, <2>3 DEF OwnerMessage
  <2> QED BY <2>1, <2>2, <2>3, <2>4, OnReceiveHandshake, OnSendHandshake, OnCloseHandshake
<1>4. CASE ConnTimeout
  <2>1. op /\ UNCHANGED <<out, finOut, ready>>
    BY <1>0, <1>4 DEF ConnTimeout, netVars, layerVars
  <2>2. Trigger("server", CLOSE, TRUE) \in Msgs /\ ~TunnelUp(Trigger("server", CLOSE, TRUE))
    BY TriggerType, EventNames, TriggerNotUp DEF CLOSE, CONNECT, Peers
  <2>3. NoneUp(msgs')
    BY <1>4, <1>m, <2>1, <2>2, NoneUpAppend DEF ConnTimeout, HandshakeInv
  <2> QED BY <2>1, <2>3 DEF HandshakeInv
<1>5. CASE TimerSweep \/ TaskAborted
  <2>1. NoneUp(<<>>)
    BY EmptySeq DEF NoneUp
  <2> QED BY <1>0, <1>5, <2>1 DEF TimerSweep, TaskAborted, EndTask, HandshakeInv,
             netVars, layerVars
<1>6. CASE \E p \in Peers, ev \in Events : Notify(p, ev)
  <2>1. PICK p \in Peers, ev \in Events : Notify(p, ev)
    BY <1>6
  <2>2. PICK x : x = [p |-> p, ev |-> ev, err |-> ev = CLOSE /\ rst[p], hop |-> Hop(p)]
    OBVIOUS
  <2>3. x \in Msgs
    BY <2>2 DEF Msgs, Hop
  <2>4. ev # CONNECT
    BY <2>1 DEF Notify, Owed, Pending, READ, WRITE, CLOSE, CONNECT
  <2>5. ~TunnelUp(x)
    BY <2>2, <2>4 DEF TunnelUp
  <2>6. msgs' = Append(msgs, x) /\ UNCHANGED <<out, finOut, ready, op>>
    BY <2>1, <2>2 DEF Notify, peerVars, layerVars
  <2>7. NoneUp(msgs')
    BY <1>0, <1>m, <2>3, <2>5, <2>6, NoneUpAppend DEF HandshakeInv
  <2> QED BY <1>0, <2>6, <2>7 DEF HandshakeInv
<1>7. CASE \E err \in BOOLEAN : NotifyConnect(err)
  <2>1. PICK err \in BOOLEAN : NotifyConnect(err)
    BY <1>7
  <2>2. PICK x : x = [p |-> "server", ev |-> CONNECT, err |-> err, hop |-> "layer"]
    OBVIOUS
  <2>3. x \in Msgs /\ ~TunnelUp(x)
    BY <2>2, EventNames DEF Msgs, TunnelUp, Peers
  <2>4. msgs' = Append(msgs, x) /\ UNCHANGED <<out, finOut, ready, op>>
    BY <2>1, <2>2 DEF NotifyConnect, peerVars, layerVars
  <2>5. NoneUp(msgs')
    BY <1>0, <1>m, <2>3, <2>4, NoneUpAppend DEF HandshakeInv
  <2> QED BY <1>0, <2>4, <2>5 DEF HandshakeInv
<1>8. CASE \/ \E p \in Peers : RemoteWrite(p) \/ RemoteFin(p) \/ RemoteReset(p) \/ RemoteDrain(p)
           \/ UNCHANGED vars
  BY <1>8 DEF RemoteWrite, RemoteFin, RemoteReset, RemoteDrain, HandshakeInv,
     vars, netVars, peerVars, layerVars
<1> QED BY <1>1, <1>2, <1>3, <1>4, <1>5, <1>6, <1>7, <1>8 DEF Next

(* For every buffer size, read limit and stream: while the proxy layer negotiates
   (m_nProxyOpID # 0) no byte the application wrote, and no end of its stream,
   has reached the proxy's connection (OnReceive, OnSend, PropagateHalfClose). *)
THEOREM HandshakeClean == Spec => []NoPayloadInHandshake
<1>1. Init => HandshakeInv
  BY EmptySeq DEF Init, HandshakeInv, NoneUp, Peers
<1>2. TypeOK /\ HandshakeInv /\ [Next]_vars => HandshakeInv'
  BY NextHandshake
<1>3. HandshakeInv => NoPayloadInHandshake
  BY DEF HandshakeInv, NoPayloadInHandshake
<1> QED BY <1>1, <1>2, <1>3, TypeCorrect, PTL DEF Spec

-----------------------------------------------------------------------------
(* What ends a running task. *)

(* A task that has been marked has closed both its sockets. *)
Stopped == task # "active" => \A p \in Peers : ~open[p]

LEMMA SettleTask ==
    ASSUME NEW p, NEW b, NEW rc, NEW st, NEW m, Settle(p, b, rc, st, m)
    PROVE  \/ UNCHANGED <<open, task>>
           \/ /\ open' = [r \in Peers |-> FALSE] /\ task' = "deletePending"
              /\ \A r \in Peers : readClosed'[r]
BY DEF Settle, TryFinishConnection, Finished

(* The handlers of a posted event close a task for an error they were handed or
   after both streams have been read to their end. *)
LEMMA OwnerEnds ==
    ASSUME OwnerMessage
    PROVE  /\ UNCHANGED <<fin, rst, crit>>
           /\ \/ UNCHANGED <<open, task>>
              \/ /\ open' = [r \in Peers |-> FALSE] /\ task' = "deletePending"
                 /\ Head(msgs).err \/ \A r \in Peers : readClosed'[r]
<1> DEFINE m == Head(msgs)
           Ends == \/ UNCHANGED <<open, task>>
                   \/ /\ open' = [r \in Peers |-> FALSE] /\ task' = "deletePending"
                      /\ m.err \/ \A r \in Peers : readClosed'[r]
<1>1. UNCHANGED <<fin, rst, crit>>
  BY DEF OwnerMessage, OnReceive, OnSend, OnConnect, OnClose, CloseBoth, Settle,
     netVars, peerVars, layerVars
<1>2. CASE OnReceive(m.p, Tail(msgs))
  <2>1. \/ UNCHANGED <<open, task>>
        \/ \E b, rc, st, x : Settle(m.p, b, rc, st, x)
    BY <1>2 DEF OnReceive
  <2> QED BY <1>1, <2>1, SettleTask
<1>3. CASE OnSend(m.p, Tail(msgs))
  <2>1. \/ UNCHANGED <<open, task>>
        \/ \E b, rc, st, x : Settle(Other(m.p), b, rc, st, x)
    BY <1>3 DEF OnSend
  <2> QED BY <1>1, <2>1, SettleTask
<1>4. CASE OnConnect(m.err, Tail(msgs))
  BY <1>1, <1>4 DEF OnConnect, CloseBoth
<1>5. CASE OnClose(m.p, m.err, Tail(msgs))
  <2>1. \/ UNCHANGED <<open, task>>
        \/ m.err /\ CloseBoth
        \/ Settle(m.p, buf, readClosed, status, Tail(msgs))
    BY <1>5 DEF OnClose, peerVars
  <2> QED BY <1>1, <2>1, SettleTask DEF CloseBoth
<1>6. Ends
  BY <1>2, <1>3, <1>4, <1>5 DEF OwnerMessage
<1> QED BY <1>1, <1>6

(* No other step marks a task deletePending. *)
LEMMA OthersKeep ==
    ASSUME [Next]_vars, ~OwnerMessage
    PROVE  \/ UNCHANGED <<open, task>>
           \/ open' = [r \in Peers |-> FALSE] /\ task' = "gone"
BY DEF Next, DropMessage, LayerMessage, ConnTimeout, TimerSweep, TaskAborted, EndTask,
   Notify, NotifyConnect, RemoteWrite, RemoteFin, RemoteReset, RemoteDrain,
   vars, netVars, peerVars, layerVars

LEMMA NextStopped ==
    ASSUME Stopped, [Next]_vars
    PROVE  Stopped'
BY OwnerEnds, OthersKeep DEF Stopped

LEMMA CutStep ==
    ASSUME Stopped, DeliveryInv', [Next]_vars, open["client"], task' = "deletePending"
    PROVE  Head(msgs).err \/ Condemned \/ \A p \in Peers : fin[p] /\ Complete(p)'
<1>1. task = "active"
  BY DEF Stopped, Peers
<1>2. OwnerMessage /\ (Head(msgs).err \/ \A r \in Peers : readClosed'[r])
  BY <1>1, OthersKeep, OwnerEnds
<1>3. ASSUME \A r \in Peers : readClosed'[r], ~Condemned
      PROVE  \A p \in Peers : fin[p] /\ Complete(p)'
  <2>1. \A r \in Peers : ~Dead(r)'
    BY <1>2, <1>3, OwnerEnds DEF Condemned, Dead
  <2>2. \A p \in Peers : fin'[p] /\ Complete(p)'
    BY <1>3, <2>1, OtherPeer DEF DeliveryInv, ClosedDrained
  <2> QED BY <1>2, <2>2, OwnerEnds
<1> QED BY <1>2, <1>3

(* Behind a proxy a running task is closed by its handlers only for an error
   event, with a failed connection, or when both streams have ended and every
   byte of them has been sent: one end never cuts the other direction
   (OnReceive, OnClose, TryFinishConnection). *)
THEOREM CutOnlyByErrors ==
    ASSUME FALSE \notin Proxied
    PROVE  Spec => OnlyErrorsCut
<1>1. Init => Stopped
  BY DEF Init, Stopped
<1>2. Stopped /\ [Next]_vars => Stopped'
  BY NextStopped
<1>3. Stopped /\ DeliveryInv' /\ [Next]_vars =>
        [open["client"] /\ task' = "deletePending"
           => Head(msgs).err \/ Condemned \/ \A p \in Peers : fin[p] /\ Complete(p)']_vars
  BY CutStep
<1> QED BY <1>1, <1>2, <1>3, ByteAccounting, PTL DEF Spec, OnlyErrorsCut

-----------------------------------------------------------------------------
(* The pipes.  Two facts make a step a step of TcpPipe: it changes one direction
   only and takes nothing back (Advances); that the bytes are the right ones, and
   the end comes after the last, is the invariant after the step. *)

Advances(e) ==
    /\ UNCHANGED <<wrote, fin, rst, crit>>
    /\ \E o : o \in Seq(Nat) /\ Len(out[e]) <= Len(o) /\ out' = [out EXCEPT ![e] = o]
    /\ \E f \in BOOLEAN : (finOut[e] => f) /\ finOut' = [finOut EXCEPT ![e] = f]

(* Two prefixes of one stream of the same length are equal. *)
LEMMA SamePrefix ==
    ASSUME NEW s \in Seq(Nat), NEW t \in Seq(Nat), Follows(s, 0), Follows(t, 0),
           Len(s) <= Len(t)
    PROVE  t = s \o Pipe!Bytes(Len(s), Len(t))
<1> DEFINE u == Pipe!Bytes(Len(s), Len(t))
<1>1. Len(s) \in Nat /\ Len(t) \in Nat
  BY LenProperties
<1>2. Len(t) - Len(s) \in Nat
  BY <1>1
<1>3. u = [i \in 1..(Len(t) - Len(s)) |-> Len(s) + i]
  BY DEF Pipe!Bytes
<1>4. u \in Seq(Nat) /\ Len(u) = Len(t) - Len(s)
  <2>1. PICK n \in Nat : n = Len(t) - Len(s)
    BY <1>2
  <2>2. u \in [1..n -> Nat] /\ DOMAIN u = 1..n
    BY <1>1, <1>3, <2>1
  <2> HIDE DEF u
  <2>3. u \in Seq(Nat)
    BY <2>2, SeqDef
  <2>4. Len(u) \in Nat /\ DOMAIN u = 1..Len(u)
    BY <2>3, LenProperties
  <2>5. Len(u) = n
    BY <2>2, <2>4
  <2> QED BY <2>1, <2>3, <2>5
<1>5. /\ s \o u \in Seq(Nat) /\ Len(s \o u) = Len(s) + Len(u)
      /\ \A i \in 1..(Len(s) + Len(u)) : (s \o u)[i] =
            IF i <= Len(s) THEN s[i] ELSE u[i - Len(s)]
  <2> HIDE DEF u
  <2> QED BY <1>4, ConcatProperties
<1>6. Len(s \o u) = Len(t)
  <2> HIDE DEF u
  <2> QED BY <1>1, <1>4, <1>5
<1>7. \A i \in 1..Len(t) : (s \o u)[i] = t[i]
  <2> TAKE i \in 1..Len(t)
  <2>1. t[i] = i
    BY <1>1 DEF Follows
  <2>2. (s \o u)[i] = IF i <= Len(s) THEN s[i] ELSE u[i - Len(s)]
    <3> HIDE DEF u
    <3> QED BY <1>1, <1>4, <1>5
  <2>3. CASE i <= Len(s)
    <3>1. s[i] = i
      BY <1>1, <2>3 DEF Follows
    <3> QED BY <2>1, <2>2, <2>3, <3>1
  <2>4. CASE ~(i <= Len(s))
    <3>1. i - Len(s) \in 1..(Len(t) - Len(s))
      BY <1>1, <2>4
    <3>2. u[i - Len(s)] = i
      BY <1>1, <1>3, <3>1
    <3> QED BY <2>1, <2>2, <2>4, <3>2
  <2> QED BY <2>3, <2>4
<1>8. s \o u = t
  <2> HIDE DEF u
  <2> QED BY <1>5, <1>6, <1>7, SeqEqual
<1> QED BY <1>8

(* A step that advances the direction towards e, in a state that satisfies the
   accounting before and after it, forwards on the pipe of e or leaves it. *)
LEMMA AdvanceForwards ==
    ASSUME TypeOK, DeliveryInv, DeliveryInv', NEW e \in Peers, Advances(e)
    PROVE  Pipe!PipeNext \/ UNCHANGED Pipe!pipeVars
<1> DEFINE p == Other(e)
<1>0. p \in Peers /\ Other(p) = e /\ p # e
  BY OtherPeer
<1>1. PICK o : o \in Seq(Nat) /\ Len(out[e]) <= Len(o) /\ out' = [out EXCEPT ![e] = o]
  BY DEF Advances
<1>2. PICK f \in BOOLEAN : (finOut[e] => f) /\ finOut' = [finOut EXCEPT ![e] = f]
  BY DEF Advances
<1>3. UNCHANGED <<wrote, fin, rst, crit>>
  BY DEF Advances
<1>4. Condemned' = Condemned
  BY <1>3 DEF Condemned, Dead
<1>5. /\ out[e] \in Seq(Nat) /\ wrote[p] \in Nat
      /\ Len(out[e]) \in Nat /\ Len(o) \in Nat /\ out'[e] = o /\ finOut'[e] = f
  BY <1>0, <1>1, <1>2, LenProperties DEF TypeOK
<1>6. /\ Follows(out[e], 0) /\ Len(out[e]) <= wrote[p]
      /\ finOut[e] => fin[p] /\ Len(out[e]) = wrote[p]
  BY <1>0 DEF DeliveryInv, PrefixDelivered, EofAfterAll, Complete
<1>7. /\ Follows(out'[e], 0) /\ Len(out'[e]) <= wrote'[p]
      /\ finOut'[e] => fin'[p] /\ Len(out'[e]) = wrote'[p]
  BY <1>0 DEF DeliveryInv, PrefixDelivered, EofAfterAll, Complete, Follows
<1>8. /\ Follows(o, 0) /\ Len(o) <= wrote[p]
      /\ f => fin[p] /\ Len(o) = wrote[p]
  BY <1>3, <1>5, <1>7
<1>9. o = out[e] \o Pipe!Bytes(Len(out[e]), Len(o))
  BY <1>1, <1>5, <1>6, <1>8, SamePrefix
<1>10. CASE finOut[e]
  <2>1. Len(o) = Len(out[e])
    BY <1>1, <1>2, <1>5, <1>6, <1>8, <1>10
  <2>2. o = out[e]
    <3>1. \A i \in 1..Len(o) : o[i] = out[e][i]
      BY <1>6, <1>8, <2>1 DEF Follows
    <3> QED BY <1>1, <1>5, <2>1, <3>1, SeqEqual
  <2>3. out' = out /\ finOut' = finOut
    BY <1>1, <1>2, <1>10, <2>2 DEF TypeOK
  <2> QED BY <1>3, <1>4, <2>3 DEF Pipe!pipeVars
<1>11. CASE ~finOut[e]
  <2> DEFINE n == Len(o)
  <2>1. n \in Len(out[e])..wrote[p] /\ n \in 0..wrote[p]
    BY <1>1, <1>5, <1>8
  <2>2. out' = [out EXCEPT ![e] = @ \o Pipe!Bytes(Len(@), n)]
    BY <1>1, <1>9
  <2>3. \/ finOut' = finOut
        \/ /\ fin[p] /\ n = wrote[p]
           /\ finOut' = [finOut EXCEPT ![e] = TRUE]
    <3>1. CASE f
      BY <1>2, <1>8, <3>1
    <3>2. CASE ~f
      BY <1>2, <1>11, <3>2 DEF TypeOK
    <3> QED BY <3>1, <3>2
  <2>4. Pipe!PipeForward(e, n)
    BY <1>3, <1>4, <1>11, <2>1, <2>2, <2>3 DEF Pipe!PipeForward
  <2> QED BY <2>1, <2>4 DEF Pipe!PipeNext
<1> QED BY <1>10, <1>11

(* What the tail of a handler does to the end of the other side's stream. *)
LEMMA PropagateAdvances ==
    ASSUME TypeOK, NEW p \in Peers, NEW b, NEW rc, NEW up, PropagateHalfClose(p, b, rc, up)
    PROVE  \E f \in BOOLEAN : /\ finOut[Other(p)] => f
                              /\ finOut' = [finOut EXCEPT ![Other(p)] = f]
<1> DEFINE q == Other(p)
<1>1. finOut[q] \in BOOLEAN /\ [finOut EXCEPT ![q] = finOut[q]] = finOut
  BY OtherPeer DEF TypeOK
<1>2. CASE MayPropagate(p, b, rc, up)
  <2>1. PICK f : f = (finOut[q] \/ ShutDownReaches(q))
    OBVIOUS
  <2>2. finOut' = [finOut EXCEPT ![q] = f]
    BY <1>2, <2>1 DEF PropagateHalfClose
  <2>3. f \in BOOLEAN /\ (finOut[q] => f)
    BY <1>1, <2>1 DEF ShutDownReaches
  <2> QED BY <2>2, <2>3
<1>3. CASE ~MayPropagate(p, b, rc, up)
  BY <1>1, <1>3 DEF PropagateHalfClose
<1> QED BY <1>2, <1>3

(* Nothing that a task sends or ends. *)
LEMMA IdleAdvances ==
    ASSUME TypeOK, UNCHANGED <<wrote, fin, rst, crit, out, finOut>>
    PROVE  Advances("client")
<1>1. "client" \in Peers
  BY DEF Peers
<1>2. out["client"] \in Seq(Nat) /\ finOut["client"] \in BOOLEAN
  BY <1>1 DEF TypeOK
<1>3. /\ out' = [out EXCEPT !["client"] = out["client"]]
      /\ finOut' = [finOut EXCEPT !["client"] = finOut["client"]]
  BY <1>1 DEF TypeOK
<1>4. Len(out["client"]) <= Len(out["client"])
  BY <1>2, LenProperties
<1> QED BY <1>2, <1>3, <1>4 DEF Advances

LEMMA SentAdvances ==
    ASSUME TypeOK, NEW p \in Peers, NEW s \in Seq(Nat), NEW k \in 0..Len(s),
           NEW b, NEW rc, NEW st, NEW m,
           out' = [out EXCEPT ![Other(p)] = @ \o Take(s, k)],
           Settle(p, b, rc, st, m), UNCHANGED <<wrote, fin, rst, crit>>
    PROVE  Advances(Other(p))
<1> DEFINE q == Other(p)
<1>1. out[q] \in Seq(Nat) /\ Len(out[q]) \in Nat
  BY OtherPeer, LenProperties DEF TypeOK
<1>2. Take(s, k) \in Seq(Nat) /\ Len(Take(s, k)) \in Nat
  BY TakeSkip, LenProperties
<1>3. PICK o : o = out[q] \o Take(s, k)
  OBVIOUS
<1>4. o \in Seq(Nat) /\ Len(o) = Len(out[q]) + Len(Take(s, k))
  BY <1>1, <1>2, <1>3, ConcatProperties
<1>5. Len(out[q]) <= Len(o)
  BY <1>1, <1>2, <1>4
<1>6. out' = [out EXCEPT ![q] = o]
  BY <1>3
<1>7. \E f \in BOOLEAN : (finOut[q] => f) /\ finOut' = [finOut EXCEPT ![q] = f]
  BY PropagateAdvances DEF Settle
<1> QED BY <1>4, <1>5, <1>6, <1>7 DEF Advances

LEMMA ShutAdvances ==
    ASSUME TypeOK, NEW p \in Peers, NEW b, NEW rc, NEW up,
           PropagateHalfClose(p, b, rc, up), UNCHANGED <<wrote, fin, rst, crit, out>>
    PROVE  Advances(Other(p))
<1> DEFINE q == Other(p)
<1>1. out[q] \in Seq(Nat) /\ Len(out[q]) \in Nat
  BY OtherPeer, LenProperties DEF TypeOK
<1>2. out' = [out EXCEPT ![q] = out[q]]
  BY OtherPeer DEF TypeOK
<1>3. Len(out[q]) <= Len(out[q])
  BY <1>1
<1>4. \E f \in BOOLEAN : (finOut[q] => f) /\ finOut' = [finOut EXCEPT ![q] = f]
  BY PropagateAdvances
<1> QED BY <1>1, <1>2, <1>3, <1>4 DEF Advances

LEMMA OwnerAdvances ==
    ASSUME TypeOK, OwnerMessage
    PROVE  \E e \in Peers : Advances(e)
<1> DEFINE m == Head(msgs)
           rest == Tail(msgs)
           p == m.p
           q == Other(p)
<1>0. p \in Peers /\ q \in Peers /\ Other(q) = p /\ "client" \in Peers
  BY HeadMessage, OtherPeer DEF OwnerMessage, HasMsg
<1>1. UNCHANGED <<fin, rst, crit>>
  BY OwnerEnds
<1>2. UNCHANGED wrote
  BY DEF OwnerMessage, OnReceive, OnSend, OnConnect, OnClose, CloseBoth, netVars
<1>3. CASE UNCHANGED <<out, finOut>>
  BY <1>0, <1>1, <1>2, <1>3, IdleAdvances
<1>4. CASE OnReceive(p, rest)
  <2>0. inq[p] \in Seq(Nat) /\ Len(inq[p]) \in Nat
    BY <1>0, LenProperties DEF TypeOK
  <2>1. SendSpace(q) \in Nat
    BY <1>0, SpaceBound, RelayAssumption
  <2>2. PICK n : n = ReadAmount(inq[p], SendSpace(q))
    OBVIOUS
  <2>3. n \in Nat /\ n \in 0..Len(inq[p])
    BY <2>0, <2>1, <2>2, ReadAmountBound
  <2>4. PICK k : k = Smaller(n, SendSpace(q))
    OBVIOUS
  <2>5. k \in 0..Len(inq[p])
    <3>1. k \in 0..n
      BY <2>1, <2>3, <2>4, SmallerBound
    <3> QED BY <2>0, <2>3, <3>1
  <2>6. \/ UNCHANGED <<out, finOut>>
        \/ /\ out' = [out EXCEPT ![q] = @ \o Take(inq[p], k)]
           /\ \E b, rc, st, x : Settle(p, b, rc, st, x)
    BY <1>4, <2>2, <2>4 DEF OnReceive, netVars
  <2> QED BY <1>0, <1>1, <1>2, <1>3, <2>0, <2>5, <2>6, SentAdvances
<1>5. CASE OnSend(p, rest)
  <2>0. buf[q] \in Seq(Nat) /\ Len(buf[q]) \in Nat
    BY <1>0, LenProperties DEF TypeOK
  <2>1. SendSpace(p) \in Nat
    BY <1>0, SpaceBound, RelayAssumption
  <2>2. PICK k : k = Smaller(Len(buf[q]), SendSpace(p))
    OBVIOUS
  <2>3. k \in 0..Len(buf[q])
    BY <2>0, <2>1, <2>2, SmallerBound
  <2>4. \/ UNCHANGED <<out, finOut>>
        \/ /\ out' = [out EXCEPT ![p] = @ \o Take(buf[q], k)]
           /\ \E b, rc, st, x : Settle(q, b, rc, st, x)
    BY <1>5, <2>2 DEF OnSend, netVars
  <2>5. CASE /\ out' = [out EXCEPT ![p] = @ \o Take(buf[q], k)]
             /\ \E b, rc, st, x : Settle(q, b, rc, st, x)
    <3>1. out' = [out EXCEPT ![Other(q)] = @ \o Take(buf[q], k)]
      BY <1>0, <2>5
    <3> QED BY <1>0, <1>1, <1>2, <2>0, <2>3, <2>5, <3>1, SentAdvances
  <2> QED BY <1>3, <2>4, <2>5
<1>6. CASE OnConnect(m.err, rest)
  <2>1. \/ UNCHANGED <<out, finOut>>
        \/ out' = out /\ PropagateHalfClose("client", buf, readClosed, TRUE)
    BY <1>6 DEF OnConnect, CloseBoth, netVars
  <2> QED BY <1>0, <1>1, <1>2, <1>3, <2>1, ShutAdvances, OtherPeer
<1>7. CASE OnClose(p, m.err, rest)
  <2>1. \/ UNCHANGED <<out, finOut>>
        \/ out' = out /\ PropagateHalfClose(p, buf, readClosed, ready)
    BY <1>7 DEF OnClose, CloseBoth, Settle, netVars
  <2> QED BY <1>0, <1>1, <1>2, <1>3, <2>1, ShutAdvances
<1> QED BY <1>4, <1>5, <1>6, <1>7 DEF OwnerMessage

(* An error condemns the pair and nothing else. *)
LEMMA BreakStep ==
    ASSUME UNCHANGED <<wrote, fin, out, finOut>>,
           \A p \in Peers : Dead(p) => Dead(p)'
    PROVE  Pipe!PipeNext \/ UNCHANGED Pipe!pipeVars
<1>1. Condemned => Condemned'
  BY DEF Condemned
<1>2. CASE Condemned'
  <2>1. Condemned' = TRUE
    BY <1>2 DEF Condemned
  <2> QED BY <2>1 DEF Pipe!PipeNext, Pipe!PipeBreak
<1>3. CASE ~Condemned'
  <2>1. Condemned' = Condemned
    BY <1>1, <1>3 DEF Condemned
  <2> QED BY <2>1 DEF Pipe!pipeVars
<1> QED BY <1>2, <1>3

LEMMA PipeStep ==
    ASSUME TypeOK, DeliveryInv, DeliveryInv', [Next]_vars
    PROVE  Pipe!PipeNext \/ UNCHANGED Pipe!pipeVars
<1>1. CASE OwnerMessage
  BY <1>1, OwnerAdvances, AdvanceForwards
<1>2. CASE LayerMessage
  <2>1. UNCHANGED <<wrote, fin, rst, out, finOut>>
    BY <1>2 DEF LayerMessage
  <2>2. crit => crit'
    BY <1>2 DEF LayerMessage, CallEvent, LayerIdle
  <2> QED BY <2>1, <2>2, BreakStep DEF Dead
<1>3. CASE \E p \in Peers : RemoteReset(p)
  <2>1. UNCHANGED <<wrote, fin, out, finOut, crit>> /\ \A r \in Peers : rst[r] => rst'[r]
    BY <1>3 DEF RemoteReset, layerVars, TypeOK
  <2> QED BY <2>1, BreakStep DEF Dead
<1>4. CASE \E p \in Peers : RemoteWrite(p)
  <2>1. PICK p \in Peers : RemoteWrite(p)
    BY <1>4
  <2>2. /\ ~fin[p] /\ wrote' = [wrote EXCEPT ![p] = @ + 1]
        /\ UNCHANGED <<fin, rst, crit, out, finOut>>
    BY <2>1 DEF RemoteWrite, Speaks, layerVars
  <2>3. Condemned' = Condemned
    BY <2>2 DEF Condemned, Dead
  <2>4. Pipe!PipeWrite(p)
    BY <2>2, <2>3 DEF Pipe!PipeWrite
  <2> QED BY <2>4 DEF Pipe!PipeNext
<1>5. CASE \E p \in Peers : RemoteFin(p)
  <2>1. PICK p \in Peers : RemoteFin(p)
    BY <1>5
  <2>2. /\ ~fin[p] /\ fin' = [fin EXCEPT ![p] = TRUE]
        /\ UNCHANGED <<wrote, rst, crit, out, finOut>>
    BY <2>1 DEF RemoteFin, layerVars
  <2>3. Condemned' = Condemned
    BY <2>2 DEF Condemned, Dead
  <2>4. Pipe!PipeEnd(p)
    BY <2>2, <2>3 DEF Pipe!PipeEnd
  <2> QED BY <2>4 DEF Pipe!PipeNext
<1>6. CASE UNCHANGED <<wrote, fin, rst, crit, out, finOut>>
  <2>1. Condemned' = Condemned
    BY <1>6 DEF Condemned, Dead
  <2> QED BY <1>6, <2>1 DEF Pipe!pipeVars
<1> QED BY <1>1, <1>2, <1>3, <1>4, <1>5, <1>6 DEF Next, DropMessage, ConnTimeout,
           TimerSweep, TaskAborted, EndTask, Notify, NotifyConnect, RemoteDrain,
           vars, netVars, layerVars

(* Behind a proxy a forwarding task is a pair of byte pipes, for every buffer
   size, read limit and stream: each step of its handlers hands one side the
   next bytes of the other's stream, and its end after the last of them, or
   changes nothing that the two programs see. *)
THEOREM PipeRefined ==
    ASSUME FALSE \notin Proxied
    PROVE  Spec => ImplementsPipe
<1>1. Init => Pipe!PipeInit
  <2> SUFFICES ASSUME Init PROVE Pipe!PipeInit
    OBVIOUS
  <2>1. ~Condemned
    BY DEF Init, Condemned, Dead
  <2>2. Condemned = FALSE
    BY <2>1 DEF Condemned
  <2> QED BY <2>2 DEF Init, Pipe!PipeInit
<1>2. TypeOK /\ DeliveryInv /\ DeliveryInv' /\ [Next]_vars => [Pipe!PipeNext]_(Pipe!pipeVars)
  BY PipeStep
<1> QED BY <1>1, <1>2, TypeCorrect, ByteAccounting, PTL DEF Spec, ImplementsPipe, Pipe!PipeSpec
=============================================================================
