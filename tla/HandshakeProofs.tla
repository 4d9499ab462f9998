-------------------------- MODULE HandshakeProofs --------------------------
(* The dialogue with the proxy is taken out of the stream exactly, for every
   buffer size, reply length and amount of payload: proof of DialogueExact. *)
EXTENDS ProxyHandshake, SequenceTheorems, FiniteSetTheorems, FunctionTheorems, TLAPS

-----------------------------------------------------------------------------
(* Lemmas about sequences and the pieces taken from them. *)

LEMMA SmallerBound ==
    ASSUME NEW a \in Nat, NEW b \in Nat
    PROVE  Smaller(a, b) \in 0..a /\ Smaller(a, b) \in 0..b
BY DEF Smaller

(* Take and Skip split a sequence in two. *)
LEMMA TakeSkip ==
    ASSUME NEW S, NEW s \in Seq(S), NEW n \in 0..Len(s)
    PROVE  /\ Take(s, n) \in Seq(S) /\ Len(Take(s, n)) = n
           /\ \A i \in 1..n : Take(s, n)[i] = s[i]
           /\ Skip(s, n) \in Seq(S) /\ Len(Skip(s, n)) = Len(s) - n
           /\ \A i \in 1..(Len(s) - n) : Skip(s, n)[i] = s[n + i]
           /\ Take(s, n) \o Skip(s, n) = s
<1>1. Len(s) \in Nat
  BY LenProperties
<1>2. \A i \in 1..Len(s) : s[i] \in S
  BY <1>1, ElementOfSeq
<1>3. /\ Take(s, n) \in Seq(S) /\ Len(Take(s, n)) = n
      /\ \A i \in 1..n : Take(s, n)[i] = s[i]
  BY <1>1, <1>2, SubSeqProperties DEF Take
<1>4. /\ Skip(s, n) \in Seq(S) /\ Len(Skip(s, n)) = Len(s) - n
      /\ \A i \in 1..(Len(s) - n) : Skip(s, n)[i] = s[n + i]
  BY <1>1, <1>2, SubSeqProperties DEF Skip
<1>5. Take(s, n) \o Skip(s, n) = s
  <2>1. /\ Take(s, n) \o Skip(s, n) \in Seq(S)
        /\ Len(Take(s, n) \o Skip(s, n)) = Len(s)
        /\ \A i \in 1..Len(s) : (Take(s, n) \o Skip(s, n))[i] =
              IF i <= n THEN Take(s, n)[i] ELSE Skip(s, n)[i - n]
    BY <1>1, <1>3, <1>4, ConcatProperties
  <2>2. \A i \in 1..Len(s) : (Take(s, n) \o Skip(s, n))[i] = s[i]
    <3> TAKE i \in 1..Len(s)
    <3>1. CASE i <= n
      BY <1>1, <1>3, <2>1, <3>1
    <3>2. CASE ~(i <= n)
      <4>1. i - n \in 1..(Len(s) - n) /\ n + (i - n) = i
        BY <1>1, <3>2
      <4>2. Skip(s, n)[i - n] = s[i]
        BY <1>4, <4>1
      <4> QED BY <2>1, <3>2, <4>2
    <3> QED BY <3>1, <3>2
  <2> QED BY <2>1, <2>2, SeqEqual
<1> QED BY <1>3, <1>4, <1>5

(* Concatenation is associative, as a fact that is expanded where it is used. *)
Regroups(a, b, c) == (a \o b) \o c = a \o (b \o c)
LEMMA Regrouped ==
    ASSUME NEW S, NEW a \in Seq(S), NEW b \in Seq(S), NEW c \in Seq(S)
    PROVE  Regroups(a, b, c)
BY ConcatAssociative DEF Regroups

(* Reading n bytes moves them from the front of the stream to the reader. *)
Moves(S, h, q, w, n) ==
    /\ h \o Take(q, n) \in Seq(S) /\ Skip(q, n) \in Seq(S)
    /\ Len(h \o Take(q, n)) = Len(h) + n
    /\ (h \o Take(q, n)) \o (Skip(q, n) \o w) = h \o (q \o w)
LEMMA ReadMoves ==
    ASSUME NEW S, NEW h \in Seq(S), NEW q \in Seq(S), NEW w \in Seq(S),
           NEW n \in 0..Len(q)
    PROVE  Moves(S, h, q, w, n)
<1>1. /\ Take(q, n) \in Seq(S) /\ Skip(q, n) \in Seq(S) /\ Len(Take(q, n)) = n
      /\ Take(q, n) \o Skip(q, n) = q
  BY TakeSkip
<1>2. h \o Take(q, n) \in Seq(S) /\ Len(h \o Take(q, n)) = Len(h) + n
  BY <1>1, ConcatProperties
<1>3. Skip(q, n) \o w \in Seq(S)
  BY <1>1, ConcatProperties
<1>4. Regroups(h, Take(q, n), Skip(q, n) \o w) /\ Regroups(Take(q, n), Skip(q, n), w)
  BY <1>1, <1>3, Regrouped, Zenon
<1>5. (h \o Take(q, n)) \o (Skip(q, n) \o w) = h \o (Take(q, n) \o (Skip(q, n) \o w))
  BY <1>4, Zenon DEF Regroups
<1>6. Take(q, n) \o (Skip(q, n) \o w) = (Take(q, n) \o Skip(q, n)) \o w
  BY <1>4, Zenon DEF Regroups
<1> QED BY <1>1, <1>2, <1>5, <1>6 DEF Moves

(* A stream a \o x that is also r \o y, as far as the shorter of a and r goes,
   and what follows r when a contains it. *)
Aligned(S, a, x, r, y) ==
    /\ \A i \in 1..Len(a) : i <= Len(r) => a[i] = r[i]
    /\ \A i \in 1..Len(a) : i > Len(r) => i - Len(r) \in 1..Len(y) /\ a[i] = y[i - Len(r)]
    /\ Len(a) >= Len(r) => Skip(a, Len(r)) \in Seq(S) /\ Skip(a, Len(r)) \o x = y
    /\ Len(a) = Len(r) => a = r /\ x = y
LEMMA SameStream ==
    ASSUME NEW S, NEW a \in Seq(S), NEW x \in Seq(S), NEW r \in Seq(S), NEW y \in Seq(S),
           a \o x = r \o y
    PROVE  Aligned(S, a, x, r, y)
<1>1. Len(a) \in Nat /\ Len(x) \in Nat /\ Len(r) \in Nat /\ Len(y) \in Nat
  BY LenProperties
<1>2. /\ Len(a \o x) = Len(a) + Len(x)
      /\ \A i \in 1..(Len(a) + Len(x)) : (a \o x)[i] = IF i <= Len(a) THEN a[i] ELSE x[i - Len(a)]
  BY ConcatProperties
<1>3. /\ Len(r \o y) = Len(r) + Len(y)
      /\ \A i \in 1..(Len(r) + Len(y)) : (r \o y)[i] = IF i <= Len(r) THEN r[i] ELSE y[i - Len(r)]
  BY ConcatProperties
<1>4. Len(a) + Len(x) = Len(r) + Len(y)
  BY <1>2, <1>3
<1>5. \A i \in 1..Len(a) : i <= Len(r) => a[i] = r[i]
  BY <1>1, <1>2, <1>3, <1>4
<1>6. \A i \in 1..Len(a) : i > Len(r) => i - Len(r) \in 1..Len(y) /\ a[i] = y[i - Len(r)]
  BY <1>1, <1>2, <1>3, <1>4
<1>7. ASSUME Len(a) >= Len(r)
      PROVE  Skip(a, Len(r)) \in Seq(S) /\ Skip(a, Len(r)) \o x = y
  <2>1. Len(r) \in 0..Len(a)
    BY <1>1, <1>7
  <2>2. /\ Skip(a, Len(r)) \in Seq(S) /\ Len(Skip(a, Len(r))) = Len(a) - Len(r)
        /\ \A i \in 1..(Len(a) - Len(r)) : Skip(a, Len(r))[i] = a[Len(r) + i]
    BY <2>1, TakeSkip
  <2>k. PICK k \in Nat : k = Len(a) - Len(r)
    <3>1. Len(a) - Len(r) \in Nat
      BY <1>1, <1>7
    <3> QED BY <3>1
  <2>d. PICK d \in Seq(S) : d = Skip(a, Len(r)) /\ Len(d) = k
    BY <2>2, <2>k
  <2>3. /\ Skip(a, Len(r)) \o x \in Seq(S)
        /\ Len(Skip(a, Len(r)) \o x) = k + Len(x)
        /\ \A i \in 1..(k + Len(x)) : (Skip(a, Len(r)) \o x)[i] =
              IF i <= k THEN Skip(a, Len(r))[i] ELSE x[i - k]
    BY <2>d, ConcatProperties
  <2>4. k + Len(x) = Len(y)
    BY <1>1, <1>4, <2>k
  <2>5. ASSUME NEW i \in 1..Len(y) PROVE (Skip(a, Len(r)) \o x)[i] = y[i]
    <3>1. Len(r) + i \in 1..(Len(r) + Len(y)) /\ ~(Len(r) + i <= Len(r))
          /\ Len(r) + i - Len(r) = i
      BY <1>1
    <3>2. (r \o y)[Len(r) + i] = y[i]
      BY <1>3, <3>1
    <3>3. CASE i <= k
      <4>1. i \in 1..k /\ Len(r) + i <= Len(a)
        BY <1>1, <3>3, <2>k
      <4>2. (Skip(a, Len(r)) \o x)[i] = a[Len(r) + i]
        BY <2>2, <2>3, <2>4, <3>3, <4>1, <2>k
      <4>3. (a \o x)[Len(r) + i] = a[Len(r) + i]
        BY <1>2, <1>4, <3>1, <4>1
      <4> QED BY <3>2, <4>2, <4>3
    <3>4. CASE ~(i <= k)
      <4>1. ~(Len(r) + i <= Len(a)) /\ Len(r) + i - Len(a) = i - k
        BY <1>1, <3>4, <2>k
      <4>2. (a \o x)[Len(r) + i] = x[i - k]
        <5>1. PICK j \in 1..(Len(a) + Len(x)) : j = Len(r) + i
          BY <1>4, <3>1
        <5>2. (a \o x)[j] = x[j - Len(a)]
          BY <1>2, <4>1, <5>1
        <5>3. j - Len(a) = i - k
          BY <4>1, <5>1
        <5>4. (a \o x)[j] = x[i - k]
          BY <5>2, <5>3, Zenon
        <5> QED BY <5>1, <5>4, Zenon
      <4>3. (Skip(a, Len(r)) \o x)[i] = x[i - k]
        BY <2>3, <2>4, <3>4
      <4> QED BY <3>2, <4>2, <4>3
    <3> QED BY <3>3, <3>4
  <2> QED BY <2>2, <2>3, <2>4, <2>5, SeqEqual
<1>8. ASSUME Len(a) = Len(r) PROVE a = r /\ x = y
  <2>1. a = r
    BY <1>1, <1>5, <1>8, SeqEqual
  <2>2. \A s, t, v \in Seq(S) : s \o t = s \o v => t = v
    BY ConcatSimplifications
  <2> QED BY <2>1, <2>2
<1> QED BY <1>5, <1>6, <1>7, <1>8 DEF Aligned
-----------------------------------------------------------------------------
(* The inductive invariant: where every byte of the proxy's replies and of the
   destination is, in each phase of the dialogue. *)

(* The part of the reply that the layer has taken from the stream. *)
Held == IF ptype = "HTTP" THEN strBuf ELSE recvBuf

(* The reply that m_nProxyOpState waits for, as the proxy names it. *)
Awaited ==
    IF ptype # "SOCKS5" \/ opState = 3 THEN "request"
    ELSE IF opState = 2 THEN "auth" ELSE "method"

(* What tells where a reply ends: the length of a SOCKS reply follows from its
   first bytes, an HTTP header has its end mark last. *)
Framed(r) ==
    /\ Len(r) >= 2
    /\ ptype = "SOCKS4" => Len(r) = 8
    /\ ptype = "SOCKS5" /\ opState # 3 => Len(r) = 2
    /\ ptype = "SOCKS5" /\ opState = 3 =>
         /\ Len(r) >= 5 /\ r[4] \in {0, 1, 3, 4} /\ r[5] \in 0..255
         /\ r[4] = 1 => Len(r) = 10
         /\ r[4] = 4 => Len(r) = 22
         /\ r[4] = 3 => Len(r) = 7 + r[5]
    /\ ptype = "HTTP" => r[Len(r)] = EOH /\ \A i \in 1..(Len(r) - 1) : r[i] # EOH

(* What the proxy has decided with a reply. *)
Decided(r) ==
    /\ Awaited = "request" =>
         stage = "done" /\ verdict = IF Grants(r) THEN "granted" ELSE "refused"
    /\ Awaited # "request" => verdict = "none" /\ wrote = 0
    /\ Awaited = "method" => stage = IF r[2] = 0 THEN "request" ELSE "auth"
    /\ Awaited = "auth" => stage = "request"

(* A request is on its way, and nothing else. *)
Asking ==
    /\ Held = <<>> /\ inq = <<>> /\ wire = <<>> /\ verdict = "none" /\ wrote = 0
    /\ stage = Awaited
    /\ opState = 0 => asked = 0 /\ sendLeft = 0
    /\ opState # 0 => (asked = 1 <=> sendLeft = 0)

(* The proxy has answered with r: its bytes are held, readable or on their way,
   and the destination's bytes are behind them. *)
AnsweredWith(r) ==
    /\ Framed(r) /\ Decided(r)
    /\ Held \o (inq \o wire) = r \o Payload
    /\ Len(Held) < Len(r) /\ ~BadAtyp(recvBuf)
Answered ==
    opState # 0 /\ asked = 0 /\ sendLeft = 0 /\ \E r \in Seq(Byte) : AnsweredWith(r)

(* The operation runs: nothing has reached the owner, who hears of nothing. *)
Quiet ==
    /\ layer = (IF opState = 0 THEN "connecting" ELSE "connected")
    /\ ptype # "SOCKS5" => opState \in {0, 1}
    /\ IF ptype = "HTTP" THEN recvBuf = <<>> ELSE strBuf = <<>>
    /\ got = <<>> /\ appBuf = <<>> /\ blocked = FALSE
    /\ \A i \in 1..Len(msgs) : msgs[i].to = "layer"
Talking == Quiet /\ (Asking \/ Answered)

(* The tunnel is open, or a UDP operation was given up before the proxy was asked:
   what is read, kept, readable and on its way is what the destination wrote. *)
Tunnel ==
    /\ (verdict = "granted" /\ stage = "done") \/ (Unsent /\ wrote = 0)
    /\ sendLeft = 0
    /\ got \o (appBuf \o (inq \o wire)) = Payload

Bounded ==
    /\ TypeOK /\ asked \in {0, 1} /\ Len(appBuf) <= HttpBuf /\ (blocked = TRUE => appBuf = <<>>)
    /\ opId = "udp" => ptype = "SOCKS5"
HInv ==
    /\ Bounded
    /\ op = TRUE => Talking
    /\ op = FALSE => layer # "connecting" /\ (layer # "aborted" => Tunnel)

-----------------------------------------------------------------------------
(* What the replies and the payload are made of. *)

LEMMA Bytes == Byte \subseteq Nat /\ 0..255 \subseteq Byte /\ {200, 407, 500} \subseteq Byte
               /\ \A i \in 1..MaxPayload : 1000 + i \in Byte
BY HandshakeAssumption DEF Byte

LEMMA PayloadShape ==
    ASSUME wrote \in 0..MaxPayload
    PROVE  /\ Payload \in Seq(Byte) /\ Len(Payload) = wrote
           /\ \A i \in 1..wrote : Payload[i] = 1000 + i
           /\ wrote = 0 => Payload = <<>>
<1>1. wrote \in Nat /\ \A i \in 1..wrote : i \in 1..MaxPayload
  BY HandshakeAssumption
<1>2. \A i \in 1..wrote : 1000 + i \in Byte
  <2>1. \A i \in 1..MaxPayload : 1000 + i \in Byte
    BY Bytes
  <2> QED BY <1>1, <2>1
<1>3. Payload \in Seq(Byte)
  BY <1>1, <1>2, IsASeq DEF Payload
<1>4. Len(Payload) = wrote /\ \A i \in 1..wrote : Payload[i] = 1000 + i
  BY <1>1 DEF Payload
<1>5. wrote = 0 => Payload = <<>>
  BY <1>3, <1>4, EmptySeq
<1> QED BY <1>3, <1>4, <1>5

(* A byte of the destination never ends a header. *)
LEMMA PayloadNoEnd ==
    ASSUME wrote \in 0..MaxPayload
    PROVE  \A i \in 1..Len(Payload) : Payload[i] # EOH
<1>1. wrote \in Nat
  BY HandshakeAssumption
<1>2. Len(Payload) = wrote /\ \A i \in 1..wrote : Payload[i] = 1000 + i
  BY PayloadShape
<1> QED BY <1>1, <1>2 DEF EOH

(* The lengths of RequestReply's reply: m in all, k bytes have arrived, x is the
   address type and y the byte behind it. *)
Lengths(k, m, x, y, e) ==
    /\ k \in Nat /\ m \in Nat /\ x \in {0, 1, 3, 4} /\ y \in 0..255
    /\ k <= m /\ m >= 5 /\ (x = 1 => m = 10) /\ (x = 4 => m = 22) /\ (x = 3 => m = 7 + y)
    /\ k >= 4 => x # 0
    /\ e = IF k < 4 THEN 4 ELSE IF x = 1 THEN 10 ELSE IF x = 4 THEN 22
           ELSE IF k < 5 THEN 5 ELSE 7 + y
Frames(k, m, e) == e \in Nat /\ k <= e /\ e <= m /\ e <= 262 /\ (k = e <=> k = m)
LEMMA LengthLaw ==
    ASSUME NEW k, NEW m, NEW x, NEW y, NEW e, Lengths(k, m, x, y, e)
    PROVE  Frames(k, m, e)
BY DEF Lengths, Frames

(* The length computed from the first bytes b of a SOCKS reply r is never more
   than that of r, and is that of b only for all of r. *)
LEMMA SocksFraming ==
    ASSUME NEW r \in Seq(Byte), NEW b \in Seq(Byte), Framed(r),
           ptype \in {"SOCKS4", "SOCKS5"}, opState \in 1..3,
           Len(b) <= Len(r), \A i \in 1..Len(b) : b[i] = r[i], ~BadAtyp(b)
    PROVE  /\ Expected(b) \in Nat /\ Len(b) <= Expected(b) /\ Expected(b) <= Len(r)
           /\ Expected(b) <= 262
           /\ Len(b) = Expected(b) <=> Len(b) = Len(r)
<1>1. Len(r) \in Nat /\ Len(b) \in Nat
  BY LenProperties
<1>2. PICK m \in Nat : m = Len(r)
  BY <1>1
<1>3. PICK k \in Nat : k = Len(b)
  BY <1>1
<1>4. PICK e : e = Expected(b)
  OBVIOUS
<1>5. k <= m
  BY <1>2, <1>3
<1>6. SUFFICES e \in Nat /\ k <= e /\ e <= m /\ e <= 262 /\ (k = e <=> k = m)
  BY <1>2, <1>3, <1>4
<1>7. CASE ptype = "SOCKS4"
  <2>1. e = 8
    BY <1>4, <1>7 DEF Expected
  <2>2. m = 8
    BY <1>2, <1>7 DEF Framed
  <2> QED BY <1>5, <2>1, <2>2
<1>8. CASE ptype = "SOCKS5" /\ opState # 3
  <2>1. e = 2
    BY <1>4, <1>8 DEF Expected
  <2>2. m = 2
    BY <1>2, <1>8 DEF Framed
  <2> QED BY <1>5, <2>1, <2>2
<1>9. CASE ptype = "SOCKS5" /\ opState = 3
  <2>1. e = IF k < 4 THEN 4
            ELSE IF b[4] = 1 THEN 10
            ELSE IF b[4] = 4 THEN 22
            ELSE IF b[4] = 3 THEN (IF k < 5 THEN 5 ELSE 7 + b[5])
            ELSE 4
    BY <1>3, <1>4, <1>9 DEF Expected, ResponseLength
  <2>2. /\ m >= 5 /\ r[4] \in {0, 1, 3, 4} /\ r[5] \in 0..255
        /\ r[4] = 1 => m = 10
        /\ r[4] = 4 => m = 22
        /\ r[4] = 3 => m = 7 + r[5]
    BY <1>2, <1>9 DEF Framed
  <2>3. k >= 4 => b[4] = r[4] /\ b[4] \in {1, 3, 4}
    BY <1>3, <1>9 DEF BadAtyp
  <2>4. k >= 5 => b[5] = r[5]
    BY <1>3
  <2>5. PICK x \in {0, 1, 3, 4} : x = r[4]
    BY <2>2
  <2>6. PICK y \in 0..255 : y = r[5]
    BY <2>2
  <2>7. e = IF k < 4 THEN 4 ELSE IF x = 1 THEN 10 ELSE IF x = 4 THEN 22
            ELSE IF k < 5 THEN 5 ELSE 7 + y
    BY <2>1, <2>3, <2>4, <2>5, <2>6
  <2>8. m >= 5 /\ (x = 1 => m = 10) /\ (x = 4 => m = 22) /\ (x = 3 => m = 7 + y)
    BY <2>2, <2>5, <2>6
  <2>9. k >= 4 => x # 0
    BY <2>3, <2>5
  <2>10. Lengths(k, m, x, y, e)
    BY <1>2, <1>3, <1>5, <2>5, <2>6, <2>7, <2>8, <2>9 DEF Lengths
  <2>11. Frames(k, m, e)
    BY <2>10, LengthLaw, Zenon
  <2> QED BY <2>11 DEF Frames
<1> QED BY <1>7, <1>8, <1>9

(* The end of an HTTP header is found in what has been read exactly when all of
   it has been read, and at its last byte. *)
LEMMA HttpFraming ==
    ASSUME NEW r \in Seq(Byte), NEW b \in Seq(Byte), NEW x \in Seq(Byte),
           Framed(r), ptype = "HTTP", wrote \in 0..MaxPayload, b \o x = r \o Payload
    PROVE  /\ HasEnd(b) <=> Len(b) >= Len(r)
           /\ HasEnd(b) => HeaderEnd(b) = Len(r) /\ b[1] = r[1]
<1>1. Len(r) \in Nat /\ Len(b) \in Nat /\ Len(r) >= 2
  BY LenProperties DEF Framed
<1>2. r[Len(r)] = EOH /\ \A i \in 1..(Len(r) - 1) : r[i] # EOH
  BY DEF Framed
<1>3. /\ Payload \in Seq(Byte)
      /\ \A i \in 1..Len(Payload) : Payload[i] # EOH
  BY PayloadShape, PayloadNoEnd
<1>4. /\ \A i \in 1..Len(b) : i <= Len(r) => b[i] = r[i]
      /\ \A i \in 1..Len(b) : i > Len(r) =>
            i - Len(r) \in 1..Len(Payload) /\ b[i] = Payload[i - Len(r)]
  <2>1. Aligned(Byte, b, x, r, Payload)
    BY <1>3, SameStream
  <2> QED BY <2>1 DEF Aligned
<1>5. \A i \in 1..Len(b) : b[i] = EOH <=> i = Len(r)
  <2> TAKE i \in 1..Len(b)
  <2>1. CASE i < Len(r)
    <3>1. i \in 1..(Len(r) - 1) /\ i <= Len(r) /\ i # Len(r)
      BY <1>1, <2>1
    <3>2. b[i] = r[i]
      BY <1>4, <3>1
    <3>3. r[i] # EOH
      BY <1>2, <3>1
    <3> QED BY <3>1, <3>2, <3>3
  <2>2. CASE i = Len(r)
    <3>1. b[i] = r[i]
      BY <1>1, <1>4, <2>2
    <3>2. r[i] = EOH
      BY <1>2, <2>2
    <3> QED BY <2>2, <3>1, <3>2
  <2>3. CASE i > Len(r)
    <3>1. i - Len(r) \in 1..Len(Payload) /\ b[i] = Payload[i - Len(r)]
      BY <1>4, <2>3
    <3>2. b[i] # EOH
      BY <1>3, <3>1
    <3> QED BY <1>1, <2>3, <3>2
  <2> QED BY <1>1, <2>1, <2>2, <2>3
<1>6. HasEnd(b) <=> Len(b) >= Len(r)
  BY <1>1, <1>5 DEF HasEnd
<1>7. ASSUME HasEnd(b) PROVE HeaderEnd(b) = Len(r) /\ b[1] = r[1]
  <2>1. Len(r) \in 1..Len(b)
    BY <1>1, <1>6, <1>7
  <2>2. b[Len(r)] = EOH /\ \A j \in 1..(Len(r) - 1) : b[j] # EOH
    BY <1>1, <1>5, <2>1
  <2>3. \A i \in 1..Len(b) : b[i] = EOH => i = Len(r)
    BY <1>5
  <2>4. HeaderEnd(b) = Len(r)
    BY <2>1, <2>2, <2>3 DEF HeaderEnd
  <2>5. b[1] = r[1]
    BY <1>1, <1>4, <2>1
  <2> QED BY <2>4, <2>5
<1> QED BY <1>6, <1>7

-----------------------------------------------------------------------------
(* The ways in which a handler leaves the layer. *)

(* What no handler of the layer touches. *)
Apart == UNCHANGED <<request, fin, rst, proxy, got, blocked>>

LEMMA ApartParts ==
    ASSUME Apart
    PROVE  /\ ptype' = ptype /\ opId' = opId /\ logon' = logon /\ fin' = fin /\ rst' = rst
           /\ wire' = wire /\ stage' = stage /\ verdict' = verdict /\ wrote' = wrote
           /\ got' = got /\ blocked' = blocked
BY DEF Apart, request, proxy

LEMMA Few ==
    ASSUME NEW S, NEW a \in S, NEW b \in S, NEW c \in S
    PROVE  <<a, b, c>> \in Seq(S) /\ <<a>> \in Seq(S)
OBVIOUS

LEMMA Empty == <<>> \in Seq(Byte) /\ Len(<<>>) = 0
BY EmptySeq

LEMMA OwnerIsMessage ==
    ASSUME NEW ev \in Events, NEW err \in BOOLEAN
    PROVE  Owner(ev, err) \in Messages
BY DEF Owner, Messages

(* The operation failed: nothing is claimed any more but the bounds. *)
LEMMA FailedKeeps ==
    ASSUME HInv, NEW rest \in Seq(Messages), Failed(rest), Apart,
           recvBuf' \in Seq(Byte), Len(recvBuf') <= 262,
           strBuf' \in Seq(Byte), Len(strBuf') <= HttpBuf,
           sendLeft' \in 0..RequestLen, inq' \in Seq(Byte), armed' \in SUBSET Events
    PROVE  HInv'
<1>1. "FD_CONNECT" \in Events /\ TRUE \in BOOLEAN
  BY DEF Events
<1>2. Owner("FD_CONNECT", TRUE) \in Messages
  BY <1>1, OwnerIsMessage
<1>3. msgs' \in Seq(Messages)
  <2>1. PICK m \in Messages : m = Owner("FD_CONNECT", TRUE)
    BY <1>2
  <2>2. msgs' = Append(rest, m)
    BY <2>1 DEF Failed
  <2> QED BY <2>1, <2>2, AppendProperties
<1>4. op' = FALSE /\ opState' = 0 /\ layer' = "aborted" /\ room' = room /\ appBuf' = appBuf
      /\ asked' = asked
  BY DEF Failed
<1>5. TypeOK'
  <2>1. 0 \in 0..3
    OBVIOUS
  <2> QED BY <1>3, <1>4, <2>1, ApartParts, Zenon DEF HInv, Bounded, TypeOK
<1> QED BY <1>4, <1>5, ApartParts DEF HInv, Bounded

LEMMA FailReplyKeeps ==
    ASSUME HInv, NEW rest \in Seq(Messages), FailReply(rest), Apart,
           inq' \in Seq(Byte), armed' \in SUBSET Events
    PROVE  HInv'
<1>1. Failed(rest) /\ recvBuf' = <<>> /\ strBuf' = <<>> /\ sendLeft' = sendLeft
  BY DEF FailReply, ClearBuffer
<1>2. 0 <= 262 /\ 0 <= HttpBuf
  BY HandshakeAssumption
<1>3. sendLeft' \in 0..RequestLen
  BY <1>1 DEF HInv, Bounded, TypeOK
<1> QED BY <1>1, <1>2, <1>3, Empty, FailedKeeps

LEMMA FailPendingKeeps ==
    ASSUME HInv, NEW rest \in Seq(Messages), FailPendingProxyOperation(rest), Apart,
           inq' \in Seq(Byte), armed' \in SUBSET Events
    PROVE  HInv'
<1>1. Failed(rest) /\ recvBuf' = <<>> /\ strBuf' = <<>> /\ sendLeft' = 0
  BY DEF FailPendingProxyOperation, ClearBuffer
<1>2. 0 <= 262 /\ 0 <= HttpBuf /\ 0 \in 0..RequestLen
  BY HandshakeAssumption
<1> QED BY <1>1, <1>2, Empty, FailedKeeps

LEMMA FailReadKeeps ==
    ASSUME HInv, NEW rest \in Seq(Messages), FailRead(rest), Apart,
           inq' \in Seq(Byte), armed' \in SUBSET Events
    PROVE  HInv'
<1>1. Failed(rest) /\ sendLeft' = sendLeft
      /\ (recvBuf' = <<>> \/ recvBuf' = recvBuf) /\ (strBuf' = <<>> \/ strBuf' = strBuf)
  BY DEF FailRead, ClearBuffer
<1>2. 0 <= 262 /\ 0 <= HttpBuf
  BY HandshakeAssumption
<1>3. /\ sendLeft \in 0..RequestLen /\ recvBuf \in Seq(Byte) /\ Len(recvBuf) <= 262
      /\ strBuf \in Seq(Byte) /\ Len(strBuf) <= HttpBuf
  BY DEF HInv, Bounded, TypeOK
<1>4. /\ sendLeft' \in 0..RequestLen /\ recvBuf' \in Seq(Byte) /\ Len(recvBuf') <= 262
      /\ strBuf' \in Seq(Byte) /\ Len(strBuf') <= HttpBuf
  BY <1>1, <1>2, <1>3, Empty
<1> QED BY <1>1, <1>4, FailedKeeps

(* The request is granted: the stream behind the reply is the payload. *)
LEMMA GrantedKeeps ==
    ASSUME HInv, op = TRUE, opState # 0, Apart,
           NEW rest \in Seq(Messages), NEW surplus \in Seq(Byte), Granted(surplus, rest),
           inq' \in Seq(Byte), armed' \in SUBSET Events,
           Len(surplus) <= HttpBuf, surplus \o (inq' \o wire) = Payload,
           verdict = "granted", stage = "done", sendLeft = 0
    PROVE  HInv'
<1>1. "FD_CONNECT" \in Events /\ "FD_READ" \in Events /\ "FD_WRITE" \in Events
      /\ FALSE \in BOOLEAN
  BY DEF Events
<1>2. /\ Owner("FD_CONNECT", FALSE) \in Messages /\ Owner("FD_READ", FALSE) \in Messages
      /\ Owner("FD_WRITE", FALSE) \in Messages
  BY <1>1, OwnerIsMessage
<1>3. /\ <<Owner("FD_CONNECT", FALSE), Owner("FD_READ", FALSE), Owner("FD_WRITE", FALSE)>>
            \in Seq(Messages)
      /\ <<Owner("FD_CONNECT", FALSE)>> \in Seq(Messages)
  <2>1. PICK a \in Messages : a = Owner("FD_CONNECT", FALSE)
    BY <1>2
  <2>2. PICK b \in Messages : b = Owner("FD_READ", FALSE)
    BY <1>2
  <2>3. PICK c \in Messages : c = Owner("FD_WRITE", FALSE)
    BY <1>2
  <2>4. <<a, b, c>> \in Seq(Messages) /\ <<a>> \in Seq(Messages)
    BY <2>1, <2>2, <2>3, Few
  <2> QED BY <2>1, <2>2, <2>3, <2>4
<1>4. msgs' \in Seq(Messages)
  BY <1>3, ConcatProperties DEF Granted
<1>5. /\ op' = FALSE /\ opState' = 0 /\ recvBuf' = <<>> /\ strBuf' = <<>> /\ appBuf' = surplus
      /\ layer' = layer /\ sendLeft' = sendLeft /\ room' = room /\ asked' = asked
  BY DEF Granted
<1>6. layer = "connected" /\ got = <<>> /\ blocked = FALSE
  BY DEF HInv, Talking, Quiet
<1>7. /\ ptype' = ptype /\ opId' = opId /\ logon' = logon /\ fin' = fin /\ rst' = rst
      /\ wire' = wire /\ stage' = stage /\ verdict' = verdict /\ wrote' = wrote
      /\ got' = got /\ blocked' = blocked
  BY ApartParts
<1>8. 0 <= 262 /\ 0 <= HttpBuf /\ 0 \in 0..3
  BY HandshakeAssumption
<1>9. TypeOK'
  BY <1>4, <1>5, <1>7, <1>8, Empty, Zenon DEF HInv, Bounded, TypeOK
<1>10. Tunnel'
  <2>1. inq' \o wire \in Seq(Byte)
    BY ConcatProperties DEF HInv, Bounded, TypeOK
  <2>2. surplus \o (inq' \o wire) \in Seq(Byte)
    BY <2>1, ConcatProperties
  <2>3. <<>> \o (surplus \o (inq' \o wire)) = surplus \o (inq' \o wire)
    BY <2>2, ConcatEmptySeq
  <2>4. got' \o (appBuf' \o (inq' \o wire')) = Payload
    BY <1>5, <1>6, <1>7, <2>3
  <2>5. Payload' = Payload
    BY <1>7 DEF Payload
  <2> QED BY <1>5, <1>7, <2>4, <2>5 DEF Tunnel
<1>11. Bounded'
  BY <1>5, <1>6, <1>7, <1>9 DEF HInv, Bounded
<1> QED BY <1>5, <1>6, <1>10, <1>11 DEF HInv

-----------------------------------------------------------------------------
(* The dialogue goes on. *)

(* The messages left behind the one that is handled. *)
Remaining(rest) ==
    rest \in Seq(Messages) /\ (op = TRUE => \A i \in 1..Len(rest) : rest[i].to = "layer")

LEMMA TailRemains ==
    ASSUME HInv, msgs # <<>>
    PROVE  /\ Head(msgs) \in Messages /\ Remaining(Tail(msgs))
           /\ op = TRUE => Head(msgs).to = "layer"
<1>1. msgs \in Seq(Messages)
  BY DEF HInv, Bounded, TypeOK
<1>2. /\ Head(msgs) \in Messages /\ Tail(msgs) \in Seq(Messages)
      /\ Len(Tail(msgs)) = Len(msgs) - 1
      /\ \A i \in 1..Len(Tail(msgs)) : Tail(msgs)[i] = msgs[i + 1]
  BY <1>1, HeadTailProperties
<1>3. Len(msgs) \in Nat \ {0} /\ Head(msgs) = msgs[1]
  BY <1>1, EmptySeq
<1>4. ASSUME op = TRUE PROVE \A i \in 1..Len(msgs) : msgs[i].to = "layer"
  BY <1>4 DEF HInv, Talking, Quiet
<1>5. ASSUME op = TRUE, NEW i \in 1..Len(Tail(msgs)) PROVE Tail(msgs)[i].to = "layer"
  <2>1. i + 1 \in 1..Len(msgs)
    BY <1>2, <1>3
  <2> QED BY <1>2, <1>4, <1>5, <2>1
<1>6. op = TRUE => Head(msgs).to = "layer"
  BY <1>3, <1>4
<1> QED BY <1>2, <1>5, <1>6 DEF Remaining

(* A request is queued: it is asked as soon as all of it has left. *)
LEMMA FlushAsks ==
    ASSUME NEW left \in 1..RequestLen, room \in 0..Room, asked = 0, Flush(left)
    PROVE  /\ sendLeft' \in 0..RequestLen /\ room' \in 0..Room /\ asked' \in {0, 1}
           /\ asked' = 1 <=> sendLeft' = 0
<1>1. RequestLen \in Nat /\ Room \in Nat
  BY HandshakeAssumption
<1>2. PICK k : k = Smaller(left, room)
  OBVIOUS
<1>3. k \in 0..left /\ k \in 0..room
  BY <1>1, <1>2, SmallerBound
<1>4. sendLeft' = left - k /\ room' = room - k /\ asked' = IF k = left THEN asked + 1 ELSE asked
  BY <1>2 DEF Flush
<1> QED BY <1>1, <1>3, <1>4

(* A request follows a reply (or the connection), and the stream is empty. *)
LEMMA AskingKeeps ==
    ASSUME HInv, op = TRUE, NEW rest, Remaining(rest), Apart,
           op' = TRUE, layer' = "connected", opState' \in 1..3,
           ptype # "SOCKS5" => opState' = 1,
           msgs' = rest, appBuf' = appBuf, recvBuf' = <<>>, strBuf' = <<>>,
           inq' = <<>>, wire = <<>>, verdict = "none", wrote = 0, stage = Awaited',
           asked = 0, NEW left \in 1..RequestLen, Flush(left), armed' \in SUBSET Events
    PROVE  HInv'
<1>1. 0 <= 262 /\ 0 <= HttpBuf /\ \A n \in 1..3 : n \in 0..3
  BY HandshakeAssumption
<1>2. room \in 0..Room
  BY DEF HInv, Bounded, TypeOK
<1>3. /\ sendLeft' \in 0..RequestLen /\ room' \in 0..Room /\ asked' \in {0, 1}
      /\ asked' = 1 <=> sendLeft' = 0
  BY <1>2, FlushAsks
<1>4. asked' \in 0..3 /\ opState' \in 0..3 /\ opState' # 0
  BY <1>3
<1>5. msgs' \in Seq(Messages) /\ \A i \in 1..Len(msgs') : msgs'[i].to = "layer"
  BY DEF Remaining
<1>6. TypeOK'
  <2>1. TypeOK
    BY DEF HInv, Bounded
  <2>2. /\ recvBuf' \in Seq(Byte) /\ Len(recvBuf') <= 262
        /\ strBuf' \in Seq(Byte) /\ Len(strBuf') <= HttpBuf
        /\ inq' \in Seq(Byte) /\ layer' \in {"connecting", "connected", "closed", "aborted"}
    BY <1>1, Empty, Zenon
  <2>3. /\ ptype' \in ProxyTypes /\ opId' \in {"connect", "udp"} /\ logon' \in BOOLEAN
        /\ fin' \in BOOLEAN /\ rst' \in BOOLEAN /\ wire' \in Seq(Byte)
        /\ stage' \in {"method", "auth", "request", "done"}
        /\ verdict' \in {"none", "granted", "refused"} /\ wrote' \in 0..MaxPayload
        /\ got' \in Seq(Byte) /\ blocked' \in BOOLEAN /\ appBuf' \in Seq(Byte)
    BY <2>1, ApartParts, Zenon DEF TypeOK
  <2>4. op' \in BOOLEAN
    OBVIOUS
  <2> QED BY <1>3, <1>4, <1>5, <2>2, <2>3, <2>4, Zenon DEF TypeOK
<1>7. Quiet
  BY DEF HInv, Talking
<1>8. Quiet'
  BY <1>4, <1>5, <1>7, ApartParts, Zenon DEF Quiet
<1>9. Asking'
  BY <1>3, <1>4, ApartParts DEF Asking, Held
<1>10. Bounded'
  BY <1>3, <1>6, <1>7, ApartParts DEF HInv, Bounded, Quiet
<1> QED BY <1>8, <1>9, <1>10 DEF HInv, Talking

LEMMA SendRequestKeeps ==
    ASSUME HInv, op = TRUE, NEW rest, Remaining(rest), Apart,
           NEW state \in {2, 3}, NEW b \in Seq(Byte), SendRequest(state, b, rest), Len(b) <= 262,
           ptype = "SOCKS5", opState # 0, asked = 0, sendLeft = 0,
           inq' = <<>>, wire = <<>>, verdict = "none", wrote = 0,
           stage = IF state = 3 THEN "request" ELSE "auth", armed' \in SUBSET Events
    PROVE  HInv'
<1>0. Quiet /\ TypeOK
  BY DEF HInv, Talking, Bounded
<1>1. CASE Failed(rest) /\ recvBuf' = b /\ strBuf' = strBuf /\ UNCHANGED sendLeft
  <2>1. rest \in Seq(Messages)
    BY DEF Remaining
  <2>2. strBuf' \in Seq(Byte) /\ Len(strBuf') <= HttpBuf /\ sendLeft' \in 0..RequestLen
    BY <1>0, <1>1 DEF TypeOK
  <2> QED BY <1>1, <2>1, <2>2, Empty, FailedKeeps
<1>2. CASE /\ Flush(RequestLen) /\ opState' = state
           /\ recvBuf' = <<>> /\ msgs' = rest
           /\ UNCHANGED <<layer, op, strBuf, appBuf>>
  <2>1. layer = "connected" /\ strBuf = <<>>
    BY <1>0 DEF Quiet
  <2>2. op' = TRUE /\ layer' = "connected" /\ opState' \in 1..3 /\ appBuf' = appBuf /\ strBuf' = <<>>
    BY <1>2, <2>1
  <2>3. stage = Awaited'
    BY <1>2, ApartParts DEF Awaited
  <2>4. RequestLen \in 1..RequestLen
    BY HandshakeAssumption
  <2> QED BY <1>2, <2>2, <2>3, <2>4, AskingKeeps
<1> QED BY <1>1, <1>2 DEF SendRequest

(* A part of the reply is read. *)
LEMMA ReadingKeeps ==
    ASSUME HInv, op = TRUE, opState # 0, NEW rest, Remaining(rest), Apart,
           NEW r \in Seq(Byte), AnsweredWith(r), asked = 0, sendLeft = 0,
           msgs' = rest, UNCHANGED <<layer, op, opState, appBuf, sendLeft, room, asked>>,
           recvBuf' \in Seq(Byte), Len(recvBuf') <= 262, ~BadAtyp(recvBuf)',
           strBuf' \in Seq(Byte), Len(strBuf') <= HttpBuf,
           IF ptype = "HTTP" THEN recvBuf' = <<>> ELSE strBuf' = <<>>,
           inq' \in Seq(Byte), armed' \in SUBSET Events,
           Held' \o (inq' \o wire) = r \o Payload, Len(Held') < Len(r)
    PROVE  HInv'
<1>1. /\ layer' = layer /\ op' = op /\ opState' = opState /\ appBuf' = appBuf
      /\ sendLeft' = sendLeft /\ room' = room /\ asked' = asked
  OBVIOUS
<1>2. msgs' \in Seq(Messages) /\ \A i \in 1..Len(msgs') : msgs'[i].to = "layer"
  BY DEF Remaining
<1>3. TypeOK'
  BY <1>1, <1>2, ApartParts, Zenon DEF HInv, Bounded, TypeOK
<1>4. Quiet /\ Framed(r) /\ Decided(r)
  BY DEF HInv, Talking, AnsweredWith
<1>5. Quiet'
  BY <1>1, <1>2, <1>4, ApartParts, Zenon DEF Quiet
<1>6. Framed(r)'
  BY <1>1, <1>4, ApartParts DEF Framed
<1>7. Decided(r)'
  BY <1>1, <1>4, ApartParts DEF Decided, Awaited, Grants
<1>8. Payload' = Payload /\ wire' = wire
  BY ApartParts DEF Payload
<1>9. AnsweredWith(r)'
  BY <1>6, <1>7, <1>8 DEF AnsweredWith
<1>10. Answered'
  BY <1>1, <1>9 DEF Answered
<1>11. Bounded'
  BY <1>1, <1>3, ApartParts DEF HInv, Bounded
<1> QED BY <1>1, <1>5, <1>10, <1>11 DEF HInv, Talking

-----------------------------------------------------------------------------
(* OnReceive. *)

(* Bytes that can be read while the operation runs belong to an answer. *)
LEMMA BytesAnswer ==
    ASSUME HInv, op = TRUE, inq # <<>>
    PROVE  /\ opState \in 1..3 /\ asked = 0 /\ sendLeft = 0
           /\ \E r \in Seq(Byte) : AnsweredWith(r)
<1>1. ~Asking /\ Talking /\ opState \in 0..3
  BY DEF HInv, Bounded, TypeOK, Asking
<1>2. Answered
  BY <1>1 DEF Talking
<1> QED BY <1>1, <1>2 DEF Answered

(* What SocksReceive has after its read. *)
PartRead(r, n, b) ==
    /\ b \in Seq(Byte) /\ Skip(inq, n) \in Seq(Byte)
    /\ b \o (Skip(inq, n) \o wire) = r \o Payload
    /\ Len(b) <= Len(r) /\ Len(b) <= 262
    /\ ~BadAtyp(b) => (Len(b) = Expected(b) <=> Len(b) = Len(r))
    /\ ~BadAtyp(b) /\ Len(b) = Expected(b) => b = r /\ Skip(inq, n) \o wire = Payload
LEMMA SocksRead ==
    ASSUME HInv, op = TRUE, inq # <<>>, ptype # "HTTP",
           NEW r \in Seq(Byte), AnsweredWith(r),
           NEW n, n = Smaller(Expected(recvBuf) - Len(recvBuf), Len(inq)),
           NEW b, b = recvBuf \o Take(inq, n)
    PROVE  PartRead(r, n, b)
<1>1. /\ recvBuf \in Seq(Byte) /\ inq \in Seq(Byte) /\ wire \in Seq(Byte)
      /\ wrote \in 0..MaxPayload /\ ptype \in ProxyTypes
  BY DEF HInv, Bounded, TypeOK
<1>2. ptype \in {"SOCKS4", "SOCKS5"} /\ opState \in 1..3
  BY <1>1, BytesAnswer, HandshakeAssumption
<1>3. Payload \in Seq(Byte)
  BY <1>1, PayloadShape
<1>4. /\ Framed(r) /\ recvBuf \o (inq \o wire) = r \o Payload
      /\ Len(recvBuf) < Len(r) /\ ~BadAtyp(recvBuf)
  BY DEF AnsweredWith, Held
<1>5. inq \o wire \in Seq(Byte)
  BY <1>1, ConcatProperties
<1>6. Len(recvBuf) \in Nat /\ Len(r) \in Nat /\ Len(inq) \in Nat
  BY <1>1, LenProperties
<1>7. \A i \in 1..Len(recvBuf) : i <= Len(r) => recvBuf[i] = r[i]
  <2>1. Aligned(Byte, recvBuf, inq \o wire, r, Payload)
    BY <1>1, <1>3, <1>4, <1>5, SameStream
  <2> QED BY <2>1 DEF Aligned
<1>8. Len(recvBuf) <= Len(r) /\ \A i \in 1..Len(recvBuf) : recvBuf[i] = r[i]
  BY <1>4, <1>6, <1>7
<1>9. /\ Expected(recvBuf) \in Nat /\ Len(recvBuf) <= Expected(recvBuf)
      /\ Expected(recvBuf) <= Len(r) /\ Expected(recvBuf) <= 262
  BY <1>1, <1>2, <1>4, <1>8, SocksFraming
<1>10. PICK d \in Nat : d = Expected(recvBuf) - Len(recvBuf)
  <2>1. Expected(recvBuf) - Len(recvBuf) \in Nat
    BY <1>6, <1>9
  <2> QED BY <2>1
<1>11. n \in 0..d /\ n \in 0..Len(inq)
  BY <1>6, <1>10, SmallerBound
<1>12. /\ b \in Seq(Byte) /\ Skip(inq, n) \in Seq(Byte) /\ Len(b) = Len(recvBuf) + n
       /\ b \o (Skip(inq, n) \o wire) = recvBuf \o (inq \o wire)
  <2>1. Moves(Byte, recvBuf, inq, wire, n)
    BY <1>1, <1>11, ReadMoves
  <2> QED BY <2>1 DEF Moves
<1>13. Len(b) <= Len(r) /\ Len(b) <= 262 /\ Len(b) \in Nat
  <2>1. PICK e \in Nat : e = Expected(recvBuf)
    BY <1>9
  <2>2. PICK k \in Nat : k = Len(recvBuf)
    BY <1>6
  <2>3. PICK m \in Nat : m = Len(r)
    BY <1>6
  <2>4. n \in 0..(e - k) /\ e <= m /\ e <= 262 /\ k <= e
    BY <1>9, <1>10, <1>11, <2>1, <2>2, <2>3
  <2>5. k + n <= m /\ k + n <= 262 /\ k + n \in Nat
    BY <2>2, <2>4
  <2> QED BY <1>12, <2>2, <2>3, <2>5
<1>14. b \o (Skip(inq, n) \o wire) = r \o Payload
  BY <1>4, <1>12
<1>15. Skip(inq, n) \o wire \in Seq(Byte)
  BY <1>1, <1>12, ConcatProperties
<1>16. /\ \A i \in 1..Len(b) : i <= Len(r) => b[i] = r[i]
       /\ Len(b) = Len(r) => b = r /\ Skip(inq, n) \o wire = Payload
  <2>1. Aligned(Byte, b, Skip(inq, n) \o wire, r, Payload)
    BY <1>3, <1>12, <1>14, <1>15, SameStream
  <2> QED BY <2>1 DEF Aligned
<1>17. \A i \in 1..Len(b) : b[i] = r[i]
  BY <1>6, <1>13, <1>16
<1>18. ~BadAtyp(b) => (Len(b) = Expected(b) <=> Len(b) = Len(r))
  BY <1>2, <1>4, <1>12, <1>13, <1>17, SocksFraming
<1> QED BY <1>12, <1>13, <1>14, <1>16, <1>18 DEF PartRead

(* The reply is complete: the layer has taken exactly r, and the stream goes on
   with the destination's bytes. *)
Complete(r, b) ==
    /\ op = TRUE /\ opState \in 1..3 /\ asked = 0 /\ sendLeft = 0
    /\ b = r /\ Len(b) >= 2 /\ Len(b) <= 262 /\ Decided(r)
    /\ inq' \o wire = Payload /\ inq' \in Seq(Byte)

(* Without payload nothing is left in the stream. *)
LEMMA NothingBehind ==
    ASSUME HInv, NEW r, NEW b, Complete(r, b), Awaited # "request"
    PROVE  inq' = <<>> /\ wire = <<>> /\ verdict = "none" /\ wrote = 0
<1>1. verdict = "none" /\ wrote = 0
  BY DEF Complete, Decided
<1>2. wire \in Seq(Byte) /\ wrote \in 0..MaxPayload
  BY DEF HInv, Bounded, TypeOK
<1>3. Payload = <<>>
  BY <1>1, <1>2, PayloadShape
<1>4. inq' \o wire = <<>> /\ inq' \in Seq(Byte)
  BY <1>3 DEF Complete
<1>5. inq' = <<>> /\ wire = <<>>
  BY <1>2, <1>4, ConcatEqualIffEmpty
<1> QED BY <1>1, <1>5

(* A granting reply opens the tunnel on what follows it. *)
LEMMA SocksGranted ==
    ASSUME HInv, NEW r \in Seq(Byte), NEW b, Complete(r, b), Awaited = "request", Grants(r),
           NEW rest, Remaining(rest), Granted(<<>>, rest), Apart, armed' \in SUBSET Events
    PROVE  HInv'
<1>1. /\ op = TRUE /\ opState # 0 /\ sendLeft = 0 /\ verdict = "granted" /\ stage = "done"
      /\ inq' \o wire = Payload /\ inq' \in Seq(Byte)
  BY DEF Complete, Decided
<1>2. wire \in Seq(Byte)
  BY DEF HInv, Bounded, TypeOK
<1>3. inq' \o wire \in Seq(Byte)
  BY <1>1, <1>2, ConcatProperties
<1>4. <<>> \o (inq' \o wire) = Payload
  BY <1>1, <1>3, ConcatEmptySeq
<1>5. 0 <= HttpBuf /\ rest \in Seq(Messages)
  BY HandshakeAssumption DEF Remaining
<1> QED BY <1>1, <1>4, <1>5, Empty, GrantedKeeps

LEMMA Socks4ReplyKeeps ==
    ASSUME HInv, NEW r \in Seq(Byte), NEW b, Complete(r, b), ptype = "SOCKS4",
           NEW rest, Remaining(rest), Socks4Reply(b, rest), Apart, armed' \in SUBSET Events
    PROVE  HInv'
<1>1. Awaited = "request" /\ b = r /\ inq' \in Seq(Byte) /\ rest \in Seq(Messages)
  BY DEF Awaited, Complete, Remaining
<1>2. CASE b[1] = 0 /\ b[2] = 90 /\ Granted(<<>>, rest)
  <2>1. Grants(r)
    BY <1>1, <1>2 DEF Grants
  <2> QED BY <1>1, <1>2, <2>1, SocksGranted
<1>3. CASE FailReply(rest)
  BY <1>1, <1>3, FailReplyKeeps
<1> QED BY <1>2, <1>3 DEF Socks4Reply

LEMMA MethodReplyKeeps ==
    ASSUME HInv, NEW r \in Seq(Byte), NEW b, Complete(r, b), ptype = "SOCKS5", opState = 1,
           NEW rest, Remaining(rest), MethodReply(b, rest), Apart, armed' \in SUBSET Events
    PROVE  HInv'
<1>1. Awaited = "method" /\ b = r /\ inq' \in Seq(Byte) /\ rest \in Seq(Messages)
  BY DEF Awaited, Complete, Remaining
<1>2. stage = IF r[2] = 0 THEN "request" ELSE "auth"
  BY <1>1 DEF Complete, Decided
<1>3. inq' = <<>> /\ wire = <<>> /\ verdict = "none" /\ wrote = 0
  BY <1>1, NothingBehind
<1>4. op = TRUE /\ opState # 0 /\ asked = 0 /\ sendLeft = 0 /\ Len(b) <= 262 /\ b \in Seq(Byte)
  BY DEF Complete
<1>5. CASE b[2] = 0 /\ SendRequest(3, b, rest)
  BY <1>1, <1>2, <1>3, <1>4, <1>5, SendRequestKeeps
<1>6. CASE b[2] = 2 /\ SendRequest(2, b, rest)
  BY <1>1, <1>2, <1>3, <1>4, <1>6, SendRequestKeeps
<1>7. CASE FailReply(rest)
  BY <1>1, <1>7, FailReplyKeeps
<1> QED BY <1>5, <1>6, <1>7 DEF MethodReply

LEMMA AuthReplyKeeps ==
    ASSUME HInv, NEW r \in Seq(Byte), NEW b, Complete(r, b), ptype = "SOCKS5", opState = 2,
           NEW rest, Remaining(rest), AuthReply(b, rest), Apart, armed' \in SUBSET Events
    PROVE  HInv'
<1>1. Awaited = "auth" /\ inq' \in Seq(Byte) /\ rest \in Seq(Messages)
  BY DEF Awaited, Complete, Remaining
<1>2. stage = "request"
  BY <1>1 DEF Complete, Decided
<1>3. inq' = <<>> /\ wire = <<>> /\ verdict = "none" /\ wrote = 0
  BY <1>1, NothingBehind
<1>4. op = TRUE /\ opState # 0 /\ asked = 0 /\ sendLeft = 0 /\ Len(b) <= 262 /\ b \in Seq(Byte)
  BY DEF Complete
<1>5. CASE SendRequest(3, b, rest)
  BY <1>1, <1>2, <1>3, <1>4, <1>5, SendRequestKeeps
<1>6. CASE FailReply(rest)
  BY <1>1, <1>6, FailReplyKeeps
<1> QED BY <1>5, <1>6 DEF AuthReply

LEMMA RequestReplyKeeps ==
    ASSUME HInv, NEW r \in Seq(Byte), NEW b, Complete(r, b), ptype = "SOCKS5", opState = 3,
           NEW rest, Remaining(rest), RequestReply(b, rest), Apart, armed' \in SUBSET Events
    PROVE  HInv'
<1>1. Awaited = "request" /\ b = r /\ inq' \in Seq(Byte) /\ rest \in Seq(Messages)
  BY DEF Awaited, Complete, Remaining
<1>2. CASE b[2] = 0 /\ Granted(<<>>, rest)
  <2>1. Grants(r)
    BY <1>1, <1>2 DEF Grants
  <2> QED BY <1>1, <1>2, <2>1, SocksGranted
<1>3. CASE FailReply(rest)
  BY <1>1, <1>3, FailReplyKeeps
<1> QED BY <1>2, <1>3 DEF RequestReply

LEMMA SocksReceiveKeeps ==
    ASSUME HInv, op = TRUE, inq # <<>>, ptype # "HTTP", NEW rest, Remaining(rest),
           SocksReceive(rest), Apart, armed' \in SUBSET Events
    PROVE  HInv'
<1>1. PICK r \in Seq(Byte) : AnsweredWith(r)
  BY BytesAnswer
<1>2. PICK n : n = Smaller(Expected(recvBuf) - Len(recvBuf), Len(inq))
  OBVIOUS
<1>3. PICK b : b = recvBuf \o Take(inq, n)
  OBVIOUS
<1>4. /\ b \in Seq(Byte) /\ Skip(inq, n) \in Seq(Byte)
      /\ b \o (Skip(inq, n) \o wire) = r \o Payload
      /\ Len(b) <= Len(r) /\ Len(b) <= 262
      /\ ~BadAtyp(b) => (Len(b) = Expected(b) <=> Len(b) = Len(r))
      /\ ~BadAtyp(b) /\ Len(b) = Expected(b) => b = r /\ Skip(inq, n) \o wire = Payload
  <2>1. PartRead(r, n, b)
    BY <1>1, <1>2, <1>3, SocksRead
  <2> QED BY <2>1 DEF PartRead
<1>5. opState \in 1..3 /\ asked = 0 /\ sendLeft = 0
  BY BytesAnswer
<1>6. inq' = Skip(inq, n) /\ rest \in Seq(Messages)
  BY <1>2, <1>3 DEF SocksReceive, Remaining
<1>7. \/ /\ ~BadAtyp(b) /\ Len(b) # Expected(b)
         /\ recvBuf' = b /\ msgs' = rest
         /\ UNCHANGED <<layer, op, opState, strBuf, appBuf, sendLeft, room, asked>>
      \/ BadAtyp(b) /\ FailReply(rest)
      \/ /\ ~BadAtyp(b) /\ Len(b) = Expected(b)
         /\ \/ ptype = "SOCKS4" /\ Socks4Reply(b, rest)
            \/ ptype = "SOCKS5" /\ opState = 1 /\ MethodReply(b, rest)
            \/ ptype = "SOCKS5" /\ opState = 2 /\ AuthReply(b, rest)
            \/ ptype = "SOCKS5" /\ opState = 3 /\ RequestReply(b, rest)
  BY <1>2, <1>3 DEF SocksReceive
<1>8. CASE /\ ~BadAtyp(b) /\ Len(b) # Expected(b)
           /\ recvBuf' = b /\ msgs' = rest
           /\ UNCHANGED <<layer, op, opState, strBuf, appBuf, sendLeft, room, asked>>
  <2>1. Quiet /\ strBuf = <<>> /\ TypeOK
    BY DEF HInv, Talking, Quiet, Bounded
  <2>2. strBuf' \in Seq(Byte) /\ Len(strBuf') <= HttpBuf /\ strBuf' = <<>>
    BY <1>8, <2>1 DEF TypeOK
  <2>3. ~BadAtyp(recvBuf)'
    BY <1>8, ApartParts DEF BadAtyp
  <2>4. Held' = b
    BY <1>8, ApartParts DEF Held
  <2>5. Len(b) < Len(r)
    <3>1. Len(b) # Len(r) /\ Len(b) <= Len(r)
      BY <1>4, <1>8
    <3>2. Len(b) \in Nat /\ Len(r) \in Nat
      BY <1>4, LenProperties
    <3> QED BY <3>1, <3>2
  <2>6. UNCHANGED <<layer, op, opState, appBuf, sendLeft, room, asked>> /\ opState # 0
    BY <1>5, <1>8
  <2>7. /\ Held' \o (inq' \o wire) = r \o Payload /\ Len(Held') < Len(r)
        /\ recvBuf' \in Seq(Byte) /\ Len(recvBuf') <= 262 /\ inq' \in Seq(Byte)
    BY <1>4, <1>6, <1>8, <2>4, <2>5
  <2>8. IF ptype = "HTTP" THEN recvBuf' = <<>> ELSE strBuf' = <<>>
    BY <2>2
  <2> QED BY <1>1, <1>5, <1>8, <2>2, <2>3, <2>6, <2>7, <2>8, ReadingKeeps
<1>9. CASE FailReply(rest)
  BY <1>4, <1>6, <1>9, FailReplyKeeps
<1>10. CASE /\ ~BadAtyp(b) /\ Len(b) = Expected(b)
            /\ \/ ptype = "SOCKS4" /\ Socks4Reply(b, rest)
               \/ ptype = "SOCKS5" /\ opState = 1 /\ MethodReply(b, rest)
               \/ ptype = "SOCKS5" /\ opState = 2 /\ AuthReply(b, rest)
               \/ ptype = "SOCKS5" /\ opState = 3 /\ RequestReply(b, rest)
  <2>1. b = r /\ inq' \o wire = Payload /\ inq' \in Seq(Byte) /\ Len(b) <= 262
    BY <1>4, <1>6, <1>10
  <2>2. Decided(r) /\ Len(r) >= 2
    BY <1>1 DEF AnsweredWith, Framed
  <2>3. Complete(r, b)
    BY <1>5, <2>1, <2>2 DEF Complete
  <2> QED BY <1>1, <1>10, <2>3, Socks4ReplyKeeps, MethodReplyKeeps, AuthReplyKeeps,
             RequestReplyKeeps
<1> QED BY <1>7, <1>8, <1>9, <1>10

(* What HttpReceive has after its read. *)
HeaderRead(r, n, b) ==
    /\ b \in Seq(Byte) /\ Skip(inq, n) \in Seq(Byte) /\ n <= Len(inq)
    /\ b \o (Skip(inq, n) \o wire) = r \o Payload
    /\ HasEnd(b) <=> Len(b) >= Len(r)
    /\ HasEnd(b) => /\ HeaderEnd(b) = Len(r) /\ b[1] = r[1]
                    /\ Skip(b, Len(r)) \in Seq(Byte) /\ Len(Skip(b, Len(r))) <= Len(b)
                    /\ Skip(b, Len(r)) \o (Skip(inq, n) \o wire) = Payload
LEMMA HttpRead ==
    ASSUME HInv, op = TRUE, inq # <<>>, ptype = "HTTP",
           NEW r \in Seq(Byte), AnsweredWith(r),
           NEW n, n = Smaller(HttpBuf, Len(inq)), NEW b, b = strBuf \o Take(inq, n)
    PROVE  HeaderRead(r, n, b)
<1>1. /\ strBuf \in Seq(Byte) /\ inq \in Seq(Byte) /\ wire \in Seq(Byte)
      /\ wrote \in 0..MaxPayload
  BY DEF HInv, Bounded, TypeOK
<1>2. Payload \in Seq(Byte)
  BY <1>1, PayloadShape
<1>3. Framed(r) /\ strBuf \o (inq \o wire) = r \o Payload
  BY DEF AnsweredWith, Held
<1>4. Len(inq) \in Nat /\ HttpBuf \in Nat
  BY <1>1, LenProperties, HandshakeAssumption
<1>5. n \in 0..Len(inq)
  BY <1>4, SmallerBound
<1>6. /\ b \in Seq(Byte) /\ Skip(inq, n) \in Seq(Byte)
      /\ b \o (Skip(inq, n) \o wire) = r \o Payload
  <2>1. Moves(Byte, strBuf, inq, wire, n)
    BY <1>1, <1>5, ReadMoves
  <2> QED BY <1>3, <2>1 DEF Moves
<1>7. Skip(inq, n) \o wire \in Seq(Byte)
  BY <1>1, <1>6, ConcatProperties
<1>8. /\ HasEnd(b) <=> Len(b) >= Len(r)
      /\ HasEnd(b) => HeaderEnd(b) = Len(r) /\ b[1] = r[1]
  <2>1. PICK x \in Seq(Byte) : x = Skip(inq, n) \o wire
    BY <1>7
  <2>2. b \o x = r \o Payload
    BY <1>6, <2>1
  <2> QED BY <1>1, <1>3, <1>6, <2>1, <2>2, HttpFraming
<1>9. ASSUME HasEnd(b)
      PROVE  /\ Skip(b, Len(r)) \in Seq(Byte) /\ Len(Skip(b, Len(r))) <= Len(b)
             /\ Skip(b, Len(r)) \o (Skip(inq, n) \o wire) = Payload
  <2>1. Aligned(Byte, b, Skip(inq, n) \o wire, r, Payload)
    BY <1>2, <1>6, <1>7, SameStream
  <2>2. Len(b) >= Len(r)
    BY <1>8, <1>9
  <2>3. Skip(b, Len(r)) \in Seq(Byte) /\ Skip(b, Len(r)) \o (Skip(inq, n) \o wire) = Payload
    BY <2>1, <2>2 DEF Aligned
  <2>4. Len(b) \in Nat /\ Len(r) \in Nat
    BY <1>6, LenProperties
  <2>5. PICK m \in 0..Len(b) : m = Len(r)
    BY <2>2, <2>4
  <2>6. Len(Skip(b, m)) = Len(b) - m
    BY <1>6, TakeSkip
  <2>7. Len(Skip(b, Len(r))) <= Len(b)
    BY <2>4, <2>5, <2>6
  <2> QED BY <2>3, <2>7
<1>10. n <= Len(inq)
  BY <1>4, <1>5
<1> QED BY <1>6, <1>8, <1>9, <1>10, Zenon DEF HeaderRead

LEMMA HttpReceiveKeeps ==
    ASSUME HInv, op = TRUE, inq # <<>>, ptype = "HTTP", NEW rest, Remaining(rest),
           HttpReceive(rest), Apart, armed' \in SUBSET Events
    PROVE  HInv'
<1>1. PICK r \in Seq(Byte) : AnsweredWith(r)
  BY BytesAnswer
<1>2. PICK n : n = Smaller(HttpBuf, Len(inq))
  OBVIOUS
<1>3. PICK b : b = strBuf \o Take(inq, n)
  OBVIOUS
<1>4. HeaderRead(r, n, b)
  BY <1>1, <1>2, <1>3, HttpRead
<1>5. opState \in 1..3 /\ opState # 0 /\ asked = 0 /\ sendLeft = 0
  BY BytesAnswer
<1>6. inq' = Skip(inq, n) /\ rest \in Seq(Messages)
  BY <1>2, <1>3 DEF HttpReceive, Remaining
<1>7. inq' \in Seq(Byte) /\ b \in Seq(Byte)
  BY <1>4, <1>6 DEF HeaderRead
<1>8. \/ FailReply(rest)
      \/ ~(Len(b) > HttpBuf) /\ HasEnd(b) /\ b[1] = 200 /\ Granted(Skip(b, HeaderEnd(b)), rest)
      \/ Failed(rest) /\ ClearBuffer /\ (sendLeft' = sendLeft \/ sendLeft' = 0)
      \/ /\ ~(Len(b) > HttpBuf) /\ ~HasEnd(b)
         /\ strBuf' = b /\ msgs' = rest
         /\ UNCHANGED <<layer, op, opState, recvBuf, appBuf, sendLeft, room, asked>>
  BY <1>2, <1>3 DEF HttpReceive
<1>9. HttpBuf \in Nat /\ Len(b) \in Nat /\ Len(r) \in Nat
  BY <1>7, LenProperties, HandshakeAssumption
<1>10. CASE FailReply(rest)
  BY <1>6, <1>7, <1>10, FailReplyKeeps
<1>11. CASE ~(Len(b) > HttpBuf) /\ HasEnd(b) /\ b[1] = 200 /\ Granted(Skip(b, HeaderEnd(b)), rest)
  <2>1. /\ HeaderEnd(b) = Len(r) /\ b[1] = r[1] /\ Skip(b, Len(r)) \in Seq(Byte)
        /\ Len(Skip(b, Len(r))) <= Len(b)
        /\ Skip(b, Len(r)) \o (inq' \o wire) = Payload
    BY <1>4, <1>6, <1>11 DEF HeaderRead
  <2>2. PICK surplus \in Seq(Byte) : surplus = Skip(b, Len(r))
    BY <2>1
  <2>3. Granted(surplus, rest) /\ surplus \o (inq' \o wire) = Payload
    BY <1>11, <2>1, <2>2
  <2>4. Len(surplus) <= HttpBuf
    <3>1. Len(surplus) <= Len(b) /\ Len(surplus) \in Nat
      BY <2>1, <2>2, LenProperties
    <3> QED BY <1>9, <1>11, <3>1
  <2>5. Grants(r) /\ Awaited = "request" /\ Decided(r)
    BY <1>1, <1>11, <2>1 DEF Grants, Awaited, AnsweredWith
  <2>6. verdict = "granted" /\ stage = "done"
    BY <2>5 DEF Decided
  <2> QED BY <1>5, <1>6, <1>7, <2>2, <2>3, <2>4, <2>6, GrantedKeeps
<1>12. CASE Failed(rest) /\ ClearBuffer /\ (sendLeft' = sendLeft \/ sendLeft' = 0)
  <2>1. 0 <= 262 /\ 0 <= HttpBuf /\ 0 \in 0..RequestLen
    BY HandshakeAssumption
  <2>2. sendLeft' \in 0..RequestLen
    BY <1>5, <1>12, <2>1
  <2>3. recvBuf' = <<>> /\ strBuf' = <<>>
    BY <1>12 DEF ClearBuffer
  <2> QED BY <1>6, <1>7, <1>12, <2>1, <2>2, <2>3, Empty, FailedKeeps
<1>13. CASE /\ ~(Len(b) > HttpBuf) /\ ~HasEnd(b)
            /\ strBuf' = b /\ msgs' = rest
            /\ UNCHANGED <<layer, op, opState, recvBuf, appBuf, sendLeft, room, asked>>
  <2>1. Quiet /\ recvBuf = <<>> /\ TypeOK
    BY DEF HInv, Talking, Quiet, Bounded
  <2>2. recvBuf' \in Seq(Byte) /\ Len(recvBuf') <= 262 /\ recvBuf' = <<>>
    BY <1>13, <2>1 DEF TypeOK
  <2>3. ~BadAtyp(recvBuf)'
    BY ApartParts DEF BadAtyp
  <2>4. Held' = b
    BY <1>13, ApartParts DEF Held
  <2>5. Len(b) < Len(r) /\ Len(b) <= HttpBuf
    <3>1. ~(Len(b) >= Len(r))
      BY <1>4, <1>13 DEF HeaderRead
    <3> QED BY <1>9, <1>13, <3>1
  <2>6. UNCHANGED <<layer, op, opState, appBuf, sendLeft, room, asked>>
    BY <1>13
  <2>7. b \o (inq' \o wire) = r \o Payload
    BY <1>4, <1>6 DEF HeaderRead
  <2>8. /\ Held' \o (inq' \o wire) = r \o Payload /\ Len(Held') < Len(r)
        /\ strBuf' \in Seq(Byte) /\ Len(strBuf') <= HttpBuf
    BY <1>7, <1>13, <2>4, <2>5, <2>7
  <2>9. IF ptype = "HTTP" THEN recvBuf' = <<>> ELSE strBuf' = <<>>
    BY <2>2
  <2> QED BY <1>1, <1>5, <1>7, <1>13, <2>2, <2>3, <2>6, <2>8, <2>9, ReadingKeeps
<1> QED BY <1>8, <1>10, <1>11, <1>12, <1>13

-----------------------------------------------------------------------------
(* The other handlers, and the layer's message loop. *)

(* What is not on the layer's side of the dialogue may change freely: the kernel's
   buffer, what Winsock owes, and the queue, within what the phase allows. *)
Aside ==
    /\ ptype' = ptype /\ opId' = opId /\ logon' = logon /\ fin' \in BOOLEAN /\ rst' \in BOOLEAN
    /\ wire' = wire /\ stage' = stage /\ verdict' = verdict /\ wrote' = wrote
    /\ got' = got /\ blocked' = blocked
LEMMA IdleKeeps ==
    ASSUME HInv, NEW rest, Remaining(rest), msgs' = rest, Aside,
           UNCHANGED <<layer, op, opState, recvBuf, strBuf, appBuf, sendLeft, asked, inq>>,
           room' \in 0..Room, armed' \in SUBSET Events
    PROVE  HInv'
<1>1. /\ layer' = layer /\ op' = op /\ opState' = opState /\ recvBuf' = recvBuf
      /\ strBuf' = strBuf /\ appBuf' = appBuf /\ sendLeft' = sendLeft
      /\ asked' = asked /\ inq' = inq
  OBVIOUS
<1>2. /\ msgs' \in Seq(Messages)
      /\ op = TRUE => \A i \in 1..Len(msgs') : msgs'[i].to = "layer"
  BY DEF Remaining
<1>3. TypeOK'
  <2>1. TypeOK
    BY DEF HInv, Bounded
  <2>2. /\ layer' \in {"connecting", "connected", "closed", "aborted"}
        /\ op' \in BOOLEAN /\ opState' \in 0..3
        /\ recvBuf' \in Seq(Byte) /\ Len(recvBuf') <= 262
        /\ strBuf' \in Seq(Byte) /\ Len(strBuf') <= HttpBuf
        /\ appBuf' \in Seq(Byte) /\ sendLeft' \in 0..RequestLen
        /\ inq' \in Seq(Byte) /\ asked' \in 0..3
    BY <1>1, <2>1, Zenon DEF TypeOK
  <2> QED BY <1>2, <2>1, <2>2, Zenon DEF TypeOK, Aside
<1>4. Bounded'
  BY <1>1, <1>3 DEF Aside, HInv, Bounded
<1>5. Payload' = Payload /\ Held' = Held /\ Awaited' = Awaited
  BY <1>1 DEF Aside, Payload, Held, Awaited
<1>6. ASSUME op = TRUE PROVE Talking'
  <2>1. Quiet /\ (Asking \/ Answered)
    BY <1>6 DEF HInv, Talking
  <2>2. Quiet'
    BY <1>1, <1>2, <1>6, <2>1, Zenon DEF Aside, Quiet
  <2>3. ASSUME Asking PROVE Asking'
    BY <1>1, <1>5, <2>3, Zenon DEF Aside, Asking
  <2>4. ASSUME Answered PROVE Answered'
    <3>1. PICK r \in Seq(Byte) : AnsweredWith(r)
      BY <2>4 DEF Answered
    <3>2. Framed(r)'
      BY <1>1, <3>1 DEF Aside, AnsweredWith, Framed
    <3>3. Decided(r)'
      BY <1>1, <1>5, <3>1 DEF Aside, AnsweredWith, Decided, Grants
    <3>4. ~BadAtyp(recvBuf)'
      BY <1>1, <3>1 DEF Aside, AnsweredWith, BadAtyp
    <3>5. AnsweredWith(r)'
      BY <1>1, <1>5, <3>1, <3>2, <3>3, <3>4 DEF Aside, AnsweredWith
    <3> QED BY <1>1, <2>4, <3>5 DEF Answered
  <2> QED BY <2>1, <2>2, <2>3, <2>4 DEF Talking
<1>7. ASSUME Tunnel PROVE Tunnel'
  BY <1>1, <1>5, <1>7 DEF Aside, Tunnel, Unsent
<1> QED BY <1>1, <1>4, <1>6, <1>7 DEF HInv

(* TriggerEvent passes a notification to the owner of an open tunnel. *)
LEMMA PassOnKeeps ==
    ASSUME HInv, op = FALSE, layer = "connected", NEW ev \in Events, NEW err \in BOOLEAN,
           NEW rest, Remaining(rest), PassOn(ev, err, rest), Apart, inq' = inq,
           armed' \in SUBSET Events
    PROVE  HInv'
<1>1. PICK m \in Messages : m = Owner(ev, err)
  BY OwnerIsMessage
<1>2. msgs' \in Seq(Messages)
  <2>1. msgs' = Append(rest, m) /\ rest \in Seq(Messages)
    BY <1>1 DEF PassOn, Remaining
  <2> QED BY <1>1, <2>1, AppendProperties
<1>3. /\ op' = op /\ opState' = opState /\ recvBuf' = recvBuf /\ strBuf' = strBuf
      /\ appBuf' = appBuf /\ sendLeft' = sendLeft /\ room' = room /\ asked' = asked
      /\ layer' \in {"connected", "aborted", "closed"}
  BY DEF PassOn, buffers
<1>4. layer' \in {"connecting", "connected", "closed", "aborted"} /\ layer' # "connecting"
  BY <1>3
<1>5. TypeOK'
  BY <1>2, <1>3, <1>4, ApartParts, Zenon DEF HInv, Bounded, TypeOK
<1>6. Bounded'
  BY <1>3, <1>5, ApartParts DEF HInv, Bounded
<1>7. Tunnel'
  <2>1. Tunnel
    BY DEF HInv
  <2>2. Payload' = Payload
    BY ApartParts DEF Payload
  <2> QED BY <1>3, <2>1, <2>2, ApartParts DEF Tunnel, Unsent
<1> QED BY <1>3, <1>4, <1>6, <1>7 DEF HInv

LEMMA RearmedType ==
    ASSUME NEW a \in SUBSET Events
    PROVE  Rearmed(a) \in SUBSET Events /\ Rearmed(a \cup {"FD_READ"}) \in SUBSET Events
BY DEF Rearmed, Events

LEMMA OnReceiveKeeps ==
    ASSUME HInv, layer = "connected", NEW rest, Remaining(rest), OnReceive(rest), Apart
    PROVE  HInv'
<1>0. armed \in SUBSET Events /\ op \in BOOLEAN /\ room \in 0..Room /\ inq \in Seq(Byte)
  BY DEF HInv, Bounded, TypeOK
<1>1. armed' \in SUBSET Events
  BY <1>0, RearmedType DEF OnReceive
<1>2. CASE op = FALSE
  <2>1. PassOn("FD_READ", FALSE, rest) /\ inq' = inq
    BY <1>2 DEF OnReceive
  <2>2. "FD_READ" \in Events /\ FALSE \in BOOLEAN
    BY DEF Events
  <2> QED BY <1>1, <1>2, <2>1, <2>2, PassOnKeeps
<1>3. CASE op = TRUE
  <2>1. rest \in Seq(Messages)
    BY DEF Remaining
  <2>2. \/ FailRead(rest) /\ inq' = inq
        \/ FailPendingProxyOperation(rest) /\ inq' = inq
        \/ Idle(rest) /\ inq' = inq
        \/ inq # <<>> /\ ptype # "HTTP" /\ SocksReceive(rest)
        \/ inq # <<>> /\ ptype = "HTTP" /\ HttpReceive(rest)
    BY <1>3, Zenon DEF OnReceive
  <2>3. CASE FailRead(rest) /\ inq' = inq
    BY <1>0, <1>1, <2>1, <2>3, FailReadKeeps
  <2>4. CASE FailPendingProxyOperation(rest) /\ inq' = inq
    BY <1>0, <1>1, <2>1, <2>4, FailPendingKeeps
  <2>5. CASE Idle(rest) /\ inq' = inq
    <3>1. /\ msgs' = rest /\ room' \in 0..Room
          /\ UNCHANGED <<layer, op, opState, recvBuf, strBuf, appBuf, sendLeft, asked, inq>>
      BY <1>0, <2>5 DEF Idle, buffers
    <3>2. Aside
      BY ApartParts DEF Aside, HInv, Bounded, TypeOK
    <3> QED BY <1>1, <3>1, <3>2, IdleKeeps
  <2>6. CASE inq # <<>> /\ ptype # "HTTP" /\ SocksReceive(rest)
    BY <1>1, <1>3, <2>6, SocksReceiveKeeps
  <2>7. CASE inq # <<>> /\ ptype = "HTTP" /\ HttpReceive(rest)
    BY <1>1, <1>3, <2>7, HttpReceiveKeeps
  <2> QED BY <2>2, <2>3, <2>4, <2>5, <2>6, <2>7
<1> QED BY <1>0, <1>2, <1>3

LEMMA OnConnectKeeps ==
    ASSUME HInv, layer = "connecting", NEW err, NEW rest, Remaining(rest), OnConnect(err, rest),
           Apart, inq' = inq, armed' \in SUBSET Events
    PROVE  HInv'
<1>1. op = TRUE /\ Quiet /\ (Asking \/ Answered) /\ TypeOK
  BY DEF HInv, Bounded, TypeOK, Talking
<1>2. opState = 0 /\ Asking
  BY <1>1 DEF Quiet, Answered
<1>3. /\ recvBuf = <<>> /\ strBuf = <<>> /\ inq = <<>> /\ wire = <<>> /\ verdict = "none"
      /\ wrote = 0 /\ stage = Awaited /\ asked = 0
  BY <1>1, <1>2 DEF Quiet, Asking, Held
<1>4. CASE FailReply(rest)
  <2>1. rest \in Seq(Messages) /\ inq' \in Seq(Byte)
    BY <1>1 DEF Remaining, TypeOK
  <2> QED BY <1>4, <2>1, FailReplyKeeps
<1>5. CASE FirstRequest(rest) /\ ~FailReply(rest) /\ ~GiveUp(rest)
  <2>1. /\ Flush(RequestLen) /\ layer' = "connected" /\ opState' = 1 /\ msgs' = rest
        /\ op' = op /\ recvBuf' = recvBuf /\ strBuf' = strBuf /\ appBuf' = appBuf
    BY <1>5 DEF FirstRequest
  <2>2. Awaited' = Awaited
    BY <1>2, <2>1, ApartParts DEF Awaited
  <2>3. RequestLen \in 1..RequestLen /\ opState' \in 1..3
    BY <2>1, HandshakeAssumption
  <2> QED BY <1>1, <1>3, <2>1, <2>2, <2>3, AskingKeeps
<1>6. CASE opId = "udp" /\ GiveUp(rest)
  <2>1. /\ op' = FALSE /\ opState' = 0 /\ layer' = "connected" /\ msgs' = rest
        /\ recvBuf' = <<>> /\ strBuf' = <<>> /\ room' = room /\ appBuf' = appBuf
        /\ asked' = asked /\ sendLeft' = sendLeft
    BY <1>6 DEF GiveUp, ClearBuffer
  <2>2. rest \in Seq(Messages) /\ 0 \in 0..3
    BY DEF Remaining
  <2>3. TypeOK'
    BY <1>1, <1>3, <2>1, <2>2, ApartParts, Zenon DEF TypeOK
  <2>4. Bounded'
    BY <2>1, <2>3, ApartParts DEF HInv, Bounded
  <2>5. stage = "method" /\ sendLeft = 0 /\ got = <<>> /\ appBuf = <<>>
    BY <1>1, <1>2, <1>3, <1>6 DEF HInv, Bounded, Awaited, Asking, Quiet
  <2>6. Payload = <<>>
    BY <1>1, <1>3, PayloadShape DEF TypeOK
  <2>7. <<>> \o (<<>> \o (<<>> \o <<>>)) = <<>>
    OBVIOUS
  <2>8. Payload' = Payload
    BY ApartParts DEF Payload
  <2>9. got' \o (appBuf' \o (inq' \o wire')) = Payload'
    BY <1>3, <2>1, <2>5, <2>6, <2>7, <2>8, ApartParts
  <2>10. Unsent' /\ wrote' = 0
    BY <1>3, <1>6, <2>1, <2>5, ApartParts DEF Unsent
  <2>11. Tunnel'
    BY <2>1, <2>5, <2>9, <2>10 DEF Tunnel
  <2> QED BY <2>1, <2>4, <2>11 DEF HInv
<1>7. FailReply(rest) \/ FirstRequest(rest)
  BY DEF OnConnect
<1>8. GiveUp(rest) /\ FirstRequest(rest) /\ ~FailReply(rest) => opId = "udp" \/ op' = op
  BY DEF FirstRequest
<1>9. GiveUp(rest) => op' # op
  BY <1>1 DEF GiveUp
<1> QED BY <1>4, <1>5, <1>6, <1>7, <1>8, <1>9

LEMMA OnSendKeeps ==
    ASSUME HInv, layer = "connected", NEW rest, Remaining(rest), OnSend(rest),
           Apart, inq' = inq, armed' \in SUBSET Events
    PROVE  HInv'
<1>1. TypeOK /\ op \in BOOLEAN /\ sendLeft \in 0..RequestLen /\ RequestLen \in Nat
  BY HandshakeAssumption DEF HInv, Bounded, TypeOK
<1>2. rest \in Seq(Messages) /\ inq' \in Seq(Byte)
  BY <1>1 DEF Remaining, TypeOK
<1>3. CASE FailPendingProxyOperation(rest)
  BY <1>2, <1>3, FailPendingKeeps
<1>4. CASE /\ sendLeft > 0 /\ Flush(sendLeft) /\ msgs' = rest
           /\ UNCHANGED <<layer, op, opState, recvBuf, strBuf, appBuf>>
  <2>1. sendLeft # 0 /\ sendLeft \in 1..RequestLen
    BY <1>1, <1>4
  <2>2. op = TRUE
    BY <1>1, <2>1 DEF HInv, Tunnel
  <2>3. Quiet /\ Asking
    BY <2>1, <2>2 DEF HInv, Talking, Answered
  <2>4. opState # 0 /\ opState \in 1..3 /\ (ptype # "SOCKS5" => opState = 1)
    BY <1>1, <2>3 DEF Quiet, TypeOK
  <2>5. /\ recvBuf = <<>> /\ strBuf = <<>> /\ inq = <<>> /\ wire = <<>> /\ verdict = "none"
        /\ wrote = 0 /\ stage = Awaited
    BY <2>3 DEF Quiet, Asking, Held
  <2>6. asked = 0
    BY <2>1, <2>3, <2>4 DEF Asking, HInv, Bounded
  <2>7. PICK left \in 1..RequestLen : left = sendLeft
    BY <2>1
  <2>8. Flush(left)
    BY <1>4, <2>7
  <2>9. /\ layer' = "connected" /\ op' = TRUE /\ opState' = opState /\ recvBuf' = <<>>
        /\ strBuf' = <<>> /\ appBuf' = appBuf /\ inq' = <<>>
    BY <1>4, <2>2, <2>5
  <2>10. Awaited' = Awaited
    BY <2>9, ApartParts DEF Awaited
  <2> QED BY <1>4, <2>2, <2>4, <2>5, <2>6, <2>7, <2>8, <2>9, <2>10, AskingKeeps
<1>5. CASE Idle(rest)
  <2>1. /\ msgs' = rest /\ room' \in 0..Room
        /\ UNCHANGED <<layer, op, opState, recvBuf, strBuf, appBuf, sendLeft, asked, inq>>
    BY <1>1, <1>5 DEF Idle, buffers, TypeOK
  <2>2. Aside
    BY <1>1, ApartParts DEF Aside, TypeOK
  <2> QED BY <2>1, <2>2, IdleKeeps
<1>6. CASE op = FALSE /\ PassOn("FD_WRITE", FALSE, rest)
  <2>1. "FD_WRITE" \in Events /\ FALSE \in BOOLEAN
    BY DEF Events
  <2> QED BY <1>6, <2>1, PassOnKeeps
<1>7. \/ FailPendingProxyOperation(rest)
      \/ /\ sendLeft > 0 /\ Flush(sendLeft) /\ msgs' = rest
         /\ UNCHANGED <<layer, op, opState, recvBuf, strBuf, appBuf>>
      \/ Idle(rest)
      \/ op = FALSE /\ PassOn("FD_WRITE", FALSE, rest)
  BY <1>1, Zenon DEF OnSend
<1> QED BY <1>3, <1>4, <1>5, <1>6, <1>7

LEMMA OnCloseKeeps ==
    ASSUME HInv, layer = "connected", NEW err \in BOOLEAN, NEW rest, Remaining(rest),
           OnClose(err, rest), Apart, inq' = inq, armed' = armed
    PROVE  HInv'
<1>1. op \in BOOLEAN /\ inq' \in Seq(Byte) /\ armed' \in SUBSET Events /\ rest \in Seq(Messages)
  BY DEF HInv, Bounded, TypeOK, Remaining
<1>2. CASE FailPendingProxyOperation(rest)
  BY <1>1, <1>2, FailPendingKeeps
<1>3. CASE op = FALSE /\ PassOn("FD_CLOSE", err, rest)
  <2>1. "FD_CLOSE" \in Events
    BY DEF Events
  <2> QED BY <1>1, <1>3, <2>1, PassOnKeeps
<1>4. FailPendingProxyOperation(rest) \/ (op = FALSE /\ PassOn("FD_CLOSE", err, rest))
  BY <1>1, Zenon DEF OnClose
<1> QED BY <1>2, <1>3, <1>4

LEMMA LayerMessageKeeps ==
    ASSUME HInv, LayerMessage
    PROVE  HInv'
<1>1. Apart /\ msgs # <<>>
  BY DEF LayerMessage, Apart
<1>2. PICK m : m = Head(msgs)
  OBVIOUS
<1>3. PICK rest : rest = Tail(msgs)
  OBVIOUS
<1>4. m \in Messages /\ Remaining(rest)
  BY <1>1, <1>2, <1>3, TailRemains
<1>5. m.ev \in Events /\ m.err \in BOOLEAN
  BY <1>4 DEF Messages
<1>6. TypeOK /\ armed \in SUBSET Events /\ inq \in Seq(Byte) /\ Rearmed(armed) \in SUBSET Events
  BY RearmedType DEF HInv, Bounded, TypeOK
<1>7. \/ Idle(rest) /\ inq' = inq /\ armed' = armed
      \/ layer = "connected" /\ OnReceive(rest)
      \/ layer = "connected" /\ OnSend(rest) /\ inq' = inq /\ armed' = Rearmed(armed)
      \/ layer = "connecting" /\ OnConnect(m.err, rest) /\ inq' = inq /\ armed' = Rearmed(armed)
      \/ layer = "connected" /\ OnClose(m.err, rest) /\ inq' = inq /\ armed' = armed
  BY <1>2, <1>3 DEF LayerMessage, Expects
<1>8. CASE Idle(rest) /\ inq' = inq /\ armed' = armed
  <2>1. /\ msgs' = rest /\ room' \in 0..Room
        /\ UNCHANGED <<layer, op, opState, recvBuf, strBuf, appBuf, sendLeft, asked, inq>>
    BY <1>6, <1>8 DEF Idle, buffers, TypeOK
  <2>2. Aside
    BY <1>1, <1>6, ApartParts DEF Aside, TypeOK
  <2> QED BY <1>4, <1>6, <1>8, <2>1, <2>2, IdleKeeps
<1>9. CASE layer = "connected" /\ OnReceive(rest)
  BY <1>1, <1>4, <1>9, OnReceiveKeeps
<1>10. CASE layer = "connected" /\ OnSend(rest) /\ inq' = inq /\ armed' = Rearmed(armed)
  BY <1>1, <1>4, <1>6, <1>10, OnSendKeeps
<1>11. CASE layer = "connecting" /\ OnConnect(m.err, rest) /\ inq' = inq /\ armed' = Rearmed(armed)
  BY <1>1, <1>4, <1>6, <1>11, OnConnectKeeps
<1>12. CASE layer = "connected" /\ OnClose(m.err, rest) /\ inq' = inq /\ armed' = armed
  BY <1>1, <1>4, <1>5, <1>12, OnCloseKeeps
<1> QED BY <1>7, <1>8, <1>9, <1>10, <1>11, <1>12

-----------------------------------------------------------------------------
(* The owner reads from the tunnel. *)

(* Only the owner's side changed, and no byte was lost or moved past another. *)
LEMMA OwnerKeeps ==
    ASSUME HInv, op = FALSE, op' = op, layer' = layer \/ layer' = "aborted",
           got' \in Seq(Byte), appBuf' \in Seq(Byte), inq' \in Seq(Byte),
           got' \o (appBuf' \o (inq' \o wire)) = got \o (appBuf \o (inq \o wire)),
           Len(appBuf') <= HttpBuf, blocked' \in BOOLEAN, blocked' = TRUE => appBuf' = <<>>,
           msgs' \in Seq(Messages), armed' \in SUBSET Events,
           UNCHANGED <<request, opState, recvBuf, strBuf, sendLeft, room, fin, rst, asked, proxy>>
    PROVE  HInv'
<1>1. /\ ptype' = ptype /\ opId' = opId /\ logon' = logon /\ opState' = opState
      /\ recvBuf' = recvBuf /\ strBuf' = strBuf /\ sendLeft' = sendLeft /\ room' = room
      /\ fin' = fin /\ rst' = rst /\ asked' = asked /\ wire' = wire /\ stage' = stage
      /\ verdict' = verdict /\ wrote' = wrote
  BY DEF request, proxy
<1>2. TypeOK
  BY DEF HInv, Bounded
<1>3. layer' \in {"connecting", "connected", "closed", "aborted"}
  BY <1>2 DEF TypeOK
<1>4. TypeOK'
  <2>1. /\ op' \in BOOLEAN /\ opState' \in 0..3
        /\ recvBuf' \in Seq(Byte) /\ Len(recvBuf') <= 262
        /\ strBuf' \in Seq(Byte) /\ Len(strBuf') <= HttpBuf
        /\ sendLeft' \in 0..RequestLen /\ room' \in 0..Room /\ asked' \in 0..3
    BY <1>1, <1>2, Zenon DEF TypeOK
  <2>2. /\ ptype' \in ProxyTypes /\ opId' \in {"connect", "udp"} /\ logon' \in BOOLEAN
        /\ fin' \in BOOLEAN /\ rst' \in BOOLEAN /\ wire' \in Seq(Byte)
        /\ stage' \in {"method", "auth", "request", "done"}
        /\ verdict' \in {"none", "granted", "refused"} /\ wrote' \in 0..MaxPayload
    BY <1>1, <1>2, Zenon DEF TypeOK
  <2> QED BY <1>3, <2>1, <2>2, Zenon DEF TypeOK
<1>5. Bounded'
  BY <1>1, <1>4 DEF HInv, Bounded
<1>6. layer # "connecting" /\ (layer # "aborted" => Tunnel)
  BY DEF HInv
<1>7. Payload' = Payload
  BY <1>1 DEF Payload
<1>8. ASSUME layer' # "aborted" PROVE Tunnel'
  <2>1. Tunnel
    BY <1>6, <1>8
  <2> QED BY <1>1, <1>7, <2>1 DEF Tunnel, Unsent
<1>9. layer' # "connecting"
  BY <1>6
<1> QED BY <1>5, <1>8, <1>9 DEF HInv

(* A read keeps the stream: what was read, is kept, can be read and is to come. *)
Conserves(S, w, g, a, q, g2, a2, q2) ==
    /\ g2 \in Seq(S) /\ a2 \in Seq(S) /\ q2 \in Seq(S)
    /\ g2 \o (a2 \o (q2 \o w)) = g \o (a \o (q \o w))

LEMMA DrainedReads ==
    ASSUME NEW S, NEW g \in Seq(S), NEW a \in Seq(S), NEW q \in Seq(S), NEW w \in Seq(S)
    PROVE  Conserves(S, w, g, a, q, (g \o a) \o q, <<>>, <<>>)
<1>2. PICK u \in Seq(S) : u = q \o w
  BY ConcatProperties
<1>3. (g \o a) \o u = g \o (a \o u)
  <2>1. Regroups(g, a, u)
    BY <1>2, Regrouped, Zenon
  <2> QED BY <2>1, Zenon DEF Regroups
<1>4. PICK h \in Seq(S) : h = g \o a
  BY ConcatProperties
<1>5. h \o q \in Seq(S) /\ <<>> \in Seq(S)
  BY <1>4, ConcatProperties, EmptySeq
<1>6. <<>> \o w = w
  BY ConcatEmptySeq
<1>7. (h \o q) \o w = h \o (q \o w)
  <2>1. Regroups(h, q, w)
    BY <1>4, Regrouped, Zenon
  <2> QED BY <2>1, Zenon DEF Regroups
<1> QED BY <1>2, <1>3, <1>4, <1>5, <1>6, <1>7 DEF Conserves

LEMMA ReceiveReads ==
    ASSUME NEW S, NEW g \in Seq(S), NEW q \in Seq(S), NEW w \in Seq(S), NEW n \in 0..Len(q)
    PROVE  Conserves(S, w, g, <<>>, q, g \o Take(q, n), <<>>, Skip(q, n))
<1>1. Moves(S, g, q, w, n)
  BY ReadMoves
<1>2. /\ g \o Take(q, n) \in Seq(S) /\ Skip(q, n) \in Seq(S) /\ <<>> \in Seq(S)
      /\ (g \o Take(q, n)) \o (Skip(q, n) \o w) = g \o (q \o w)
  BY <1>1, EmptySeq DEF Moves
<1>3. Skip(q, n) \o w \in Seq(S) /\ q \o w \in Seq(S)
  BY <1>2, ConcatProperties
<1>4. <<>> \o (Skip(q, n) \o w) = Skip(q, n) \o w /\ <<>> \o (q \o w) = q \o w
  BY <1>3, ConcatEmptySeq
<1> QED BY <1>2, <1>4 DEF Conserves

LEMMA SurplusReads ==
    ASSUME NEW S, NEW g \in Seq(S), NEW a \in Seq(S), NEW q \in Seq(S), NEW w \in Seq(S)
    PROVE  Conserves(S, w, g, a, q, g \o a, <<>>, q)
<1>2. PICK u \in Seq(S) : u = q \o w
  BY ConcatProperties
<1>3. <<>> \o u = u
  BY <1>2, ConcatEmptySeq
<1>4. g \o a \in Seq(S) /\ <<>> \in Seq(S)
  BY ConcatProperties, EmptySeq
<1>5. (g \o a) \o u = g \o (a \o u)
  <2>1. Regroups(g, a, u)
    BY <1>2, Regrouped, Zenon
  <2> QED BY <2>1, Zenon DEF Regroups
<1> QED BY <1>2, <1>3, <1>4, <1>5 DEF Conserves

LEMMA TakeAll ==
    ASSUME NEW S, NEW s \in Seq(S), NEW n, n = Len(s)
    PROVE  Take(s, n) = s /\ Skip(s, n) = <<>>
<1>1. n \in 0..Len(s) /\ Len(s) \in Nat
  BY LenProperties
<1>2. Skip(s, n) \in Seq(S) /\ Len(Skip(s, n)) = Len(s) - n
  BY <1>1, TakeSkip
<1>3. Skip(s, n) = <<>>
  BY <1>1, <1>2, EmptySeq
<1> QED BY <1>3, SubSeqFull DEF Take

LEMMA ReadsKeep ==
    ASSUME HInv, op = FALSE, op' = op, layer' = layer, Drained \/ Receive,
           msgs' \in Seq(Messages),
           UNCHANGED <<request, opState, recvBuf, strBuf, sendLeft, room, fin, rst, asked, proxy>>
    PROVE  HInv'
<1>1. /\ got \in Seq(Byte) /\ appBuf \in Seq(Byte) /\ inq \in Seq(Byte) /\ wire \in Seq(Byte)
      /\ armed \in SUBSET Events /\ blocked \in BOOLEAN /\ Len(appBuf) <= HttpBuf
      /\ (blocked = TRUE => appBuf = <<>>)
  BY DEF HInv, Bounded, TypeOK
<1>2. /\ HttpBuf \in Nat /\ ReadBuf \in Nat /\ HttpBuf <= ReadBuf /\ 0 <= HttpBuf
      /\ "FD_READ" \in Events
  BY HandshakeAssumption DEF Events
<1>3. armed \cup {"FD_READ"} \in SUBSET Events
  BY <1>1, <1>2
<1>4. inq \o wire \in Seq(Byte)
  BY <1>1, ConcatProperties
<1>5. CASE Drained
  <2>1. /\ got' = (got \o appBuf) \o inq /\ appBuf' = <<>> /\ inq' = <<>>
        /\ armed' = armed \cup {"FD_READ"} /\ blocked' = blocked
    BY <1>5 DEF Drained
  <2>2. Conserves(Byte, wire, got, appBuf, inq, (got \o appBuf) \o inq, <<>>, <<>>)
    BY <1>1, DrainedReads
  <2>3. Conserves(Byte, wire, got, appBuf, inq, got', appBuf', inq')
    BY <2>1, <2>2
  <2>4. Len(appBuf') <= HttpBuf /\ blocked' \in BOOLEAN /\ armed' \in SUBSET Events
    BY <1>1, <1>2, <1>3, <2>1, Empty
  <2> QED BY <2>1, <2>3, <2>4, OwnerKeeps DEF Conserves
<1>6. CASE Receive /\ appBuf # <<>>
  <2>1. PICK n : n = Smaller(ReadBuf, Len(appBuf))
    OBVIOUS
  <2>2. Len(appBuf) \in Nat
    BY <1>1, LenProperties
  <2>3. n = Len(appBuf) /\ n \in 0..Len(appBuf)
    BY <1>1, <1>2, <2>1, <2>2 DEF Smaller
  <2>4. Take(appBuf, n) = appBuf /\ Skip(appBuf, n) = <<>>
    BY <1>1, <2>3, TakeAll
  <2>5. Skip(appBuf, n) = <<>>
    BY <2>4
  <2>6. /\ got' = got \o appBuf /\ appBuf' = <<>> /\ blocked' = TRUE
        /\ inq' = inq /\ armed' = armed
    BY <1>6, <2>1, <2>4, <2>5 DEF Receive
  <2>7. Conserves(Byte, wire, got, appBuf, inq, got \o appBuf, <<>>, inq)
    BY <1>1, SurplusReads
  <2>8. Conserves(Byte, wire, got, appBuf, inq, got', appBuf', inq')
    BY <2>6, <2>7
  <2>9. Len(appBuf') <= HttpBuf /\ blocked' \in BOOLEAN /\ armed' \in SUBSET Events
    BY <1>1, <1>2, <1>3, <2>6, Empty
  <2> QED BY <2>6, <2>8, <2>9, OwnerKeeps DEF Conserves
<1>7. CASE Receive /\ appBuf = <<>>
  <2>1. PICK n : n = Smaller(ReadBuf, Len(inq))
    OBVIOUS
  <2>2. Len(inq) \in Nat
    BY <1>1, LenProperties
  <2>3. n \in 0..Len(inq)
    BY <1>2, <2>1, <2>2, SmallerBound
  <2>4. /\ got' = got \o Take(inq, n) /\ inq' = Skip(inq, n) /\ appBuf' = appBuf
        /\ blocked' = TRUE /\ armed' = armed \cup {"FD_READ"}
    BY <1>7, <2>1 DEF Receive
  <2>5. Conserves(Byte, wire, got, <<>>, inq, got \o Take(inq, n), <<>>, Skip(inq, n))
    BY <1>1, <2>3, ReceiveReads
  <2>6. Conserves(Byte, wire, got, appBuf, inq, got', appBuf', inq')
    BY <1>7, <2>4, <2>5
  <2>7. Len(appBuf') <= HttpBuf /\ blocked' \in BOOLEAN /\ armed' \in SUBSET Events
    BY <1>1, <1>2, <1>3, <1>7, <2>4, Empty
  <2> QED BY <1>7, <2>4, <2>6, <2>7, OwnerKeeps DEF Conserves
<1> QED BY <1>5, <1>6, <1>7

LEMMA OwnerMessageKeeps ==
    ASSUME HInv, OwnerMessage
    PROVE  HInv'
<1>1. PICK m : m = Head(msgs)
  OBVIOUS
<1>2. PICK rest : rest = Tail(msgs)
  OBVIOUS
<1>3. msgs # <<>> /\ m.to = "owner"
  BY <1>1 DEF OwnerMessage
<1>4. rest \in Seq(Messages) /\ (op = TRUE => m.to = "layer")
  BY <1>1, <1>2, <1>3, TailRemains DEF Remaining
<1>5. op = FALSE /\ op' = op
  BY <1>3, <1>4 DEF HInv, Bounded, TypeOK, OwnerMessage
<1>6. UNCHANGED <<request, opState, recvBuf, strBuf, sendLeft, room, fin, rst, asked, proxy>>
  BY DEF OwnerMessage
<1>7. /\ got \in Seq(Byte) /\ appBuf \in Seq(Byte) /\ inq \in Seq(Byte)
      /\ armed \in SUBSET Events /\ blocked \in BOOLEAN /\ Len(appBuf) <= HttpBuf
      /\ (blocked = TRUE => appBuf = <<>>)
  BY DEF HInv, Bounded, TypeOK
<1>8. PICK more : more = Append(rest, Owner("FD_READ", FALSE))
  OBVIOUS
<1>9. more \in Seq(Messages) /\ <<>> \in Seq(Messages)
  <2>1. PICK w \in Messages : w = Owner("FD_READ", FALSE)
    BY OwnerIsMessage DEF Events
  <2> QED BY <1>4, <1>8, <2>1, AppendProperties, EmptySeq
<1>10. \/ (Drained \/ Receive) /\ msgs' = rest /\ layer' = layer
       \/ /\ layer' = layer \/ layer' = "aborted"
          /\ msgs' = <<>> \/ msgs' = rest \/ msgs' = more
          /\ UNCHANGED <<appBuf, inq, armed, got, blocked>>
  BY <1>1, <1>2, <1>8 DEF OwnerMessage
<1>11. CASE (Drained \/ Receive) /\ msgs' = rest /\ layer' = layer
  BY <1>4, <1>5, <1>6, <1>11, ReadsKeep
<1>12. CASE /\ layer' = layer \/ layer' = "aborted"
            /\ msgs' = <<>> \/ msgs' = rest \/ msgs' = more
            /\ UNCHANGED <<appBuf, inq, armed, got, blocked>>
  <2>1. msgs' \in Seq(Messages)
    BY <1>4, <1>9, <1>12
  <2>2. /\ appBuf' = appBuf /\ inq' = inq /\ armed' = armed /\ got' = got /\ blocked' = blocked
    BY <1>12
  <2>3. /\ got' \in Seq(Byte) /\ appBuf' \in Seq(Byte) /\ inq' \in Seq(Byte)
        /\ got' \o (appBuf' \o (inq' \o wire)) = got \o (appBuf \o (inq \o wire))
        /\ Len(appBuf') <= HttpBuf /\ blocked' \in BOOLEAN /\ armed' \in SUBSET Events
        /\ (blocked' = TRUE => appBuf' = <<>>)
    BY <1>7, <2>2, Zenon
  <2> QED BY <1>5, <1>6, <1>12, <2>1, <2>3, OwnerKeeps
<1> QED BY <1>10, <1>11, <1>12

LEMMA OwnerResumeKeeps ==
    ASSUME HInv, OwnerResume
    PROVE  HInv'
<1>1. blocked = TRUE /\ blocked' = FALSE /\ op' = op /\ layer' = layer
  BY DEF OwnerResume, HInv, Bounded, TypeOK
<1>2. op = FALSE
  BY <1>1 DEF HInv, Bounded, TypeOK, Talking, Quiet
<1>3. UNCHANGED <<request, opState, recvBuf, strBuf, sendLeft, room, fin, rst, asked, proxy>>
  BY DEF OwnerResume, buffers
<1>4. got' = got /\ appBuf' = appBuf /\ inq' = inq /\ armed' = armed
  BY DEF OwnerResume, buffers
<1>5. /\ got \in Seq(Byte) /\ appBuf \in Seq(Byte) /\ inq \in Seq(Byte)
      /\ armed \in SUBSET Events /\ Len(appBuf) <= HttpBuf /\ msgs \in Seq(Messages)
  BY DEF HInv, Bounded, TypeOK
<1>6. msgs' \in Seq(Messages)
  <2>1. PICK w \in Messages : w = Owner("FD_READ", FALSE)
    BY OwnerIsMessage DEF Events
  <2>2. msgs' = Append(msgs, w) \/ msgs' = msgs
    BY <2>1 DEF OwnerResume
  <2>3. Append(msgs, w) \in Seq(Messages)
    BY <1>5, <2>1, AppendProperties
  <2> QED BY <1>5, <2>2, <2>3
<1>7. /\ got' \in Seq(Byte) /\ appBuf' \in Seq(Byte) /\ inq' \in Seq(Byte)
      /\ got' \o (appBuf' \o (inq' \o wire)) = got \o (appBuf \o (inq \o wire))
      /\ Len(appBuf') <= HttpBuf /\ armed' \in SUBSET Events
  BY <1>4, <1>5, Zenon
<1>8. blocked' \in BOOLEAN /\ (blocked' = TRUE => appBuf' = <<>>)
  BY <1>1
<1> QED BY <1>1, <1>2, <1>3, <1>6, <1>7, <1>8, OwnerKeeps

-----------------------------------------------------------------------------
(* Winsock, the proxy and the destination. *)

LEMMA NotifyKeeps ==
    ASSUME HInv, NEW ev \in Events, Notify(ev)
    PROVE  HInv'
<1>1. PICK err \in BOOLEAN : msgs' = Append(msgs, [to |-> "layer", ev |-> ev, err |-> err])
  BY DEF Notify
<1>2. PICK m \in Messages : m = [to |-> "layer", ev |-> ev, err |-> err]
  BY <1>1 DEF Messages
<1>3. msgs \in Seq(Messages) /\ room \in 0..Room /\ armed \in SUBSET Events
  BY DEF HInv, Bounded, TypeOK
<1>4. PICK rest : rest = msgs'
  OBVIOUS
<1>5. rest = Append(msgs, m) /\ m.to = "layer"
  BY <1>1, <1>2, <1>4
<1>6. Remaining(rest)
  <2>1. /\ rest \in Seq(Messages) /\ Len(rest) = Len(msgs) + 1
        /\ \A i \in 1..Len(msgs) : rest[i] = msgs[i]
        /\ rest[Len(msgs) + 1] = m
    BY <1>2, <1>3, <1>5, AppendProperties
  <2>2. Len(msgs) \in Nat
    BY <1>3, LenProperties
  <2>3. op = TRUE => \A i \in 1..Len(msgs) : msgs[i].to = "layer"
    BY DEF HInv, Talking, Quiet
  <2>4. ASSUME op = TRUE, NEW i \in 1..Len(rest) PROVE rest[i].to = "layer"
    <3>1. i \in 1..Len(msgs) \/ i = Len(msgs) + 1
      BY <2>1, <2>2
    <3> QED BY <1>5, <2>1, <2>3, <2>4, <3>1
  <2> QED BY <2>1, <2>4 DEF Remaining
<1>7. Aside
  BY DEF Notify, request, proxy, Aside, HInv, Bounded, TypeOK
<1>8. /\ UNCHANGED <<layer, op, opState, recvBuf, strBuf, appBuf, sendLeft, asked, inq>>
      /\ room' \in 0..Room /\ armed' \in SUBSET Events
  BY <1>3 DEF Notify, buffers
<1> QED BY <1>4, <1>6, <1>7, <1>8, IdleKeeps

LEMMA QueueRemains ==
    ASSUME HInv PROVE Remaining(msgs)
BY DEF HInv, Bounded, TypeOK, Talking, Quiet, Remaining

LEMMA KernelDrainKeeps ==
    ASSUME HInv, KernelDrain
    PROVE  HInv'
<1>1. PICK rest : rest = msgs
  OBVIOUS
<1>2. Remaining(rest) /\ msgs' = rest
  BY <1>1, QueueRemains DEF KernelDrain
<1>3. Aside
  BY DEF KernelDrain, request, proxy, Aside, HInv, Bounded, TypeOK
<1>4. Room \in 0..Room
  BY HandshakeAssumption
<1>5. /\ UNCHANGED <<layer, op, opState, recvBuf, strBuf, appBuf, sendLeft, asked, inq>>
      /\ room' \in 0..Room /\ armed' \in SUBSET Events
  BY <1>4 DEF KernelDrain, buffers, HInv, Bounded, TypeOK
<1> QED BY <1>2, <1>3, <1>5, IdleKeeps

LEMMA ConnectionEndsKeeps ==
    ASSUME HInv, ConnectionEnds
    PROVE  HInv'
<1>1. PICK rest : rest = msgs
  OBVIOUS
<1>2. Remaining(rest) /\ msgs' = rest
  BY <1>1, QueueRemains DEF ConnectionEnds
<1>3. fin' \in BOOLEAN /\ rst' \in BOOLEAN
  BY DEF ConnectionEnds, HInv, Bounded, TypeOK
<1>4. Aside
  BY <1>3 DEF ConnectionEnds, request, proxy, Aside
<1>5. /\ UNCHANGED <<layer, op, opState, recvBuf, strBuf, appBuf, sendLeft, asked, inq>>
      /\ room' \in 0..Room /\ armed' \in SUBSET Events
  BY DEF ConnectionEnds, buffers, HInv, Bounded, TypeOK
<1> QED BY <1>2, <1>4, <1>5, IdleKeeps

LEMMA PayloadAfter ==
    ASSUME wrote' \in 0..MaxPayload PROVE Payload' \in Seq(Byte)
<1>1. PICK k \in 0..MaxPayload : k = wrote'
  OBVIOUS
<1>2. k \in Nat /\ \A i \in 1..k : 1000 + i \in Byte
  <2>1. k \in Nat /\ \A i \in 1..k : i \in 1..MaxPayload
    BY <1>1, HandshakeAssumption
  <2>2. \A i \in 1..MaxPayload : 1000 + i \in Byte
    BY Bytes
  <2> QED BY <2>1, <2>2
<1>3. [i \in 1..k |-> 1000 + i] \in Seq(Byte)
  BY <1>2, IsASeq
<1> QED BY <1>1, <1>3 DEF Payload

(* The stream behind the layer goes on in step with what was written. *)
Grows ==
    \A h, r \in Seq(Byte) :
        h \o (inq \o wire) = r \o Payload => h \o (inq' \o wire') = r \o Payload'

LEMMA StreamKeeps ==
    ASSUME HInv, Grows, inq' \in Seq(Byte), wire' \in Seq(Byte), wrote' \in 0..MaxPayload,
           wire # <<>> \/ verdict = "granted", wrote' = wrote \/ verdict = "granted",
           UNCHANGED <<request, layer, op, opState, buffers, room, fin, rst, armed, msgs, asked,
                       stage, verdict, got, blocked>>
    PROVE  HInv'
<1>1. /\ ptype' = ptype /\ opId' = opId /\ logon' = logon /\ layer' = layer /\ op' = op
      /\ opState' = opState /\ recvBuf' = recvBuf /\ strBuf' = strBuf /\ appBuf' = appBuf
      /\ sendLeft' = sendLeft /\ room' = room /\ fin' = fin /\ rst' = rst /\ armed' = armed
      /\ msgs' = msgs /\ asked' = asked /\ stage' = stage /\ verdict' = verdict
      /\ got' = got /\ blocked' = blocked
  BY DEF request, buffers
<1>2. TypeOK
  BY DEF HInv, Bounded
<1>3. TypeOK'
  <2>1. /\ op' \in BOOLEAN /\ opState' \in 0..3
        /\ recvBuf' \in Seq(Byte) /\ Len(recvBuf') <= 262
        /\ strBuf' \in Seq(Byte) /\ Len(strBuf') <= HttpBuf /\ appBuf' \in Seq(Byte)
        /\ sendLeft' \in 0..RequestLen /\ room' \in 0..Room /\ asked' \in 0..3
        /\ got' \in Seq(Byte) /\ blocked' \in BOOLEAN
    BY <1>1, <1>2, Zenon DEF TypeOK
  <2>2. /\ ptype' \in ProxyTypes /\ opId' \in {"connect", "udp"} /\ logon' \in BOOLEAN
        /\ layer' \in {"connecting", "connected", "closed", "aborted"}
        /\ fin' \in BOOLEAN /\ rst' \in BOOLEAN
        /\ stage' \in {"method", "auth", "request", "done"}
        /\ verdict' \in {"none", "granted", "refused"}
        /\ armed' \in SUBSET Events /\ msgs' \in Seq(Messages)
    BY <1>1, <1>2, Zenon DEF TypeOK
  <2> QED BY <2>1, <2>2, Zenon DEF TypeOK
<1>4. Bounded'
  BY <1>1, <1>3 DEF HInv, Bounded
<1>5. ASSUME op = TRUE PROVE Talking'
  <2>1. Quiet /\ Answered
    BY <1>5 DEF HInv, Talking, Asking
  <2>2. Quiet'
    BY <1>1, <2>1, Zenon DEF Quiet
  <2>3. PICK r \in Seq(Byte) : AnsweredWith(r)
    BY <2>1 DEF Answered
  <2>4. Framed(r)'
    BY <1>1, <2>3 DEF AnsweredWith, Framed
  <2>5. Decided(r)'
    BY <1>1, <2>3 DEF AnsweredWith, Decided, Awaited, Grants
  <2>6. ~BadAtyp(recvBuf)'
    BY <1>1, <2>3 DEF AnsweredWith, BadAtyp
  <2>7. Held' = Held /\ Held \in Seq(Byte)
    BY <1>1, <1>2 DEF Held, TypeOK
  <2>8. Held' \o (inq' \o wire') = r \o Payload'
    BY <2>3, <2>7 DEF AnsweredWith, Grows
  <2>9. AnsweredWith(r)'
    BY <2>3, <2>4, <2>5, <2>6, <2>7, <2>8 DEF AnsweredWith
  <2> QED BY <1>1, <2>1, <2>2, <2>9 DEF Talking, Answered
<1>6. ASSUME Tunnel PROVE Tunnel'
  <2>1. /\ got \in Seq(Byte) /\ appBuf \in Seq(Byte) /\ inq \in Seq(Byte) /\ wire \in Seq(Byte)
        /\ Payload \in Seq(Byte) /\ Payload' \in Seq(Byte)
    BY <1>2, PayloadShape, PayloadAfter DEF TypeOK
  <2>2. PICK x \in Seq(Byte) : x = inq \o wire
    BY <2>1, ConcatProperties
  <2>3. PICK y \in Seq(Byte) : y = inq' \o wire'
    BY ConcatProperties
  <2>4. PICK g \in Seq(Byte) : g = got
    BY <2>1
  <2>5. PICK a \in Seq(Byte) : a = appBuf
    BY <2>1
  <2>6. (g \o a) \o x = g \o (a \o x) /\ (g \o a) \o y = g \o (a \o y) /\ g \o a \in Seq(Byte)
    <3>1. Regroups(g, a, x) /\ Regroups(g, a, y)
      BY <2>2, <2>3, <2>4, <2>5, Regrouped, Zenon
    <3>2. (g \o a) \o x = g \o (a \o x)
      BY <3>1, Zenon DEF Regroups
    <3>3. (g \o a) \o y = g \o (a \o y)
      BY <3>1, Zenon DEF Regroups
    <3>4. g \o a \in Seq(Byte)
      BY <2>4, <2>5, ConcatProperties
    <3> QED BY <3>2, <3>3, <3>4
  <2>7. <<>> \o Payload = Payload /\ <<>> \o Payload' = Payload'
    BY <2>1, ConcatEmptySeq
  <2>8. (g \o a) \o x = <<>> \o Payload
    BY <1>6, <2>2, <2>4, <2>5, <2>6, <2>7 DEF Tunnel
  <2>9. (g \o a) \o y = <<>> \o Payload'
    BY <2>2, <2>3, <2>6, <2>8, Empty DEF Grows
  <2>10. got' \o (appBuf' \o (inq' \o wire')) = Payload'
    BY <1>1, <2>3, <2>4, <2>5, <2>6, <2>7, <2>9
  <2> QED BY <1>1, <1>6, <2>10 DEF Tunnel, Unsent
<1> QED BY <1>1, <1>4, <1>5, <1>6 DEF HInv

LEMMA ArriveKeeps ==
    ASSUME HInv, Arrive
    PROVE  HInv'
<1>1. inq \in Seq(Byte) /\ wire \in Seq(Byte) /\ wrote \in 0..MaxPayload /\ wire # <<>>
  BY DEF HInv, Bounded, TypeOK, Arrive
<1>2. PICK n \in 1..Len(wire) : inq' = inq \o Take(wire, n) /\ wire' = Skip(wire, n)
  BY DEF Arrive
<1>3. n \in 0..Len(wire)
  BY <1>1, <1>2, LenProperties
<1>4. Take(wire, n) \in Seq(Byte) /\ Skip(wire, n) \in Seq(Byte) /\ Take(wire, n) \o Skip(wire, n) = wire
  BY <1>1, <1>3, TakeSkip
<1>5. Regroups(inq, Take(wire, n), Skip(wire, n))
  BY <1>1, <1>4, Regrouped, Zenon
<1>6. (inq \o Take(wire, n)) \o Skip(wire, n) = inq \o (Take(wire, n) \o Skip(wire, n))
  BY <1>5, Zenon DEF Regroups
<1>7. inq' \o wire' = inq \o wire
  BY <1>2, <1>4, <1>6
<1>8. inq' \in Seq(Byte) /\ wire' \in Seq(Byte)
  BY <1>1, <1>2, <1>4, ConcatProperties
<1>9. wrote' = wrote /\ Payload' = Payload
  BY DEF Arrive, Payload
<1>10. Grows
  BY <1>7, <1>9 DEF Grows
<1>11. UNCHANGED <<request, layer, op, opState, buffers, room, fin, rst, armed, msgs, asked,
                   stage, verdict, got, blocked>>
  BY DEF Arrive
<1> QED BY <1>1, <1>8, <1>9, <1>10, <1>11, StreamKeeps

(* What is written goes to the end of the stream. *)
Behind(h, q, w, r, p, t) == h \o (q \o (w \o t)) = r \o (p \o t)
LEMMA AppendBehind ==
    ASSUME NEW S, NEW h \in Seq(S), NEW q \in Seq(S), NEW w \in Seq(S), NEW r \in Seq(S),
           NEW p \in Seq(S), NEW t \in Seq(S), h \o (q \o w) = r \o p
    PROVE  Behind(h, q, w, r, p, t)
<1>1. q \o w \in Seq(S)
  BY ConcatProperties
<1>2. Regroups(q, w, t)
  BY Regrouped, Zenon
<1>3. Regroups(h, q \o w, t)
  BY <1>1, Regrouped, Zenon
<1>4. Regroups(r, p, t)
  BY Regrouped, Zenon
<1>5. (q \o w) \o t = q \o (w \o t)
  BY <1>2, Zenon DEF Regroups
<1>6. (h \o (q \o w)) \o t = h \o ((q \o w) \o t)
  BY <1>3, Zenon DEF Regroups
<1>7. (r \o p) \o t = r \o (p \o t)
  BY <1>4, Zenon DEF Regroups
<1>8. h \o ((q \o w) \o t) = (r \o p) \o t
  BY <1>6, Zenon
<1> QED BY <1>5, <1>7, <1>8, Zenon DEF Behind

(* One more byte of payload. *)
Counting(k) == [i \in 1..k |-> 1000 + i]
Counts(a, k) == a \in Seq(Nat) /\ Len(a) = k /\ \A i \in 1..k : a[i] = 1000 + i
LEMMA CountsUp == ASSUME NEW k \in Nat PROVE Counts(Counting(k), k)
<1>1. Counting(k) \in Seq(Nat)
  BY IsASeq DEF Counting
<1> QED BY <1>1 DEF Counts, Counting

LEMMA SameCounts ==
    ASSUME NEW a, NEW b, NEW k \in Nat, Counts(a, k), Counts(b, k)
    PROVE  a = b
BY SeqEqual DEF Counts

Follows(k, n, e) == k \in Nat /\ n \in Nat /\ e \in Nat /\ n = k + 1 /\ e = 1000 + n
LEMMA CountsOn ==
    ASSUME NEW a, NEW k, NEW n, NEW e, Follows(k, n, e), Counts(a, k)
    PROVE  Counts(Append(a, e), n) /\ Append(a, e) = a \o <<e>>
<1>1. /\ Append(a, e) \in Seq(Nat) /\ Len(Append(a, e)) = n
      /\ \A i \in 1..k : Append(a, e)[i] = a[i]
      /\ Append(a, e)[n] = e
  BY AppendProperties DEF Counts, Follows
<1>2. ASSUME NEW i \in 1..n PROVE Append(a, e)[i] = 1000 + i
  <2>1. i \in 1..k \/ i = n
    BY DEF Follows
  <2> QED BY <1>1, <2>1 DEF Counts, Follows
<1>3. Append(a, e) = a \o <<e>>
  BY AppendIsConcat DEF Counts, Follows
<1> QED BY <1>1, <1>2, <1>3 DEF Counts

LEMMA PayloadGrows ==
    ASSUME NEW k, NEW n, NEW e, Follows(k, n, e)
    PROVE  Counting(n) = Counting(k) \o <<e>>
<1>1. k \in Nat /\ n \in Nat
  BY DEF Follows
<1>2. Counts(Counting(k), k) /\ Counts(Counting(n), n)
  BY <1>1, CountsUp, Zenon
<1>3. PICK a : a = Counting(k) /\ Counts(a, k)
  BY <1>2, Zenon
<1>4. Counts(Append(a, e), n) /\ Append(a, e) = a \o <<e>>
  BY <1>3, CountsOn, Zenon
<1>5. Counting(n) = Append(a, e)
  BY <1>1, <1>2, <1>4, SameCounts, Zenon
<1> QED BY <1>3, <1>4, <1>5, Zenon

LEMMA DestinationWritesKeeps ==
    ASSUME HInv, DestinationWrites
    PROVE  HInv'
<1>1. inq \in Seq(Byte) /\ wire \in Seq(Byte) /\ wrote \in 0..MaxPayload /\ MaxPayload \in Nat
  BY HandshakeAssumption DEF HInv, Bounded, TypeOK
<1>2. /\ verdict = "granted" /\ wrote < MaxPayload /\ wrote' = wrote + 1
      /\ wire' = Append(wire, 1000 + wrote + 1) /\ inq' = inq
  BY DEF DestinationWrites
<1>3. PICK k \in 1..MaxPayload : k = wrote + 1
  BY <1>1, <1>2
<1>4. wrote' \in 0..MaxPayload /\ k \in Nat
  BY <1>1, <1>2, <1>3
<1>5. PICK e \in Byte : e = 1000 + k
  BY Bytes
<1>6. 1000 + wrote + 1 = e
  BY <1>1, <1>3, <1>5
<1>7. <<e>> \in Seq(Byte) /\ wire' = wire \o <<e>> /\ wire' \in Seq(Byte)
  <2>1. <<e>> \in Seq(Byte)
    BY <1>5
  <2>2. wire' = wire \o <<e>>
    BY <1>1, <1>2, <1>5, <1>6, AppendIsConcat
  <2> QED BY <1>1, <2>1, <2>2, ConcatProperties
<1>8. Payload \in Seq(Byte)
  BY <1>1, PayloadShape
<1>9. Payload' = Payload \o <<e>>
  <2>1. Follows(wrote, k, e) /\ wrote' = k
    BY <1>1, <1>2, <1>3, <1>5 DEF Follows
  <2>2. Counting(k) = Counting(wrote) \o <<e>>
    BY <2>1, PayloadGrows, Zenon
  <2>3. Payload = Counting(wrote)
    BY Zenon DEF Payload, Counting
  <2>4. Payload' = Counting(k)
    BY <2>1, Zenon DEF Payload, Counting
  <2> QED BY <2>2, <2>3, <2>4, Zenon
<1>10. Grows
  <2> SUFFICES ASSUME NEW h \in Seq(Byte), NEW r \in Seq(Byte), h \o (inq \o wire) = r \o Payload
               PROVE  h \o (inq' \o wire') = r \o Payload'
    BY DEF Grows
  <2>1. Behind(h, inq, wire, r, Payload, <<e>>)
    BY <1>1, <1>7, <1>8, AppendBehind
  <2>2. h \o (inq \o (wire \o <<e>>)) = r \o (Payload \o <<e>>)
    BY <2>1, Zenon DEF Behind
  <2>3. inq' \o wire' = inq \o (wire \o <<e>>)
    <3>1. inq' = inq /\ wire' = wire \o <<e>>
      BY <1>2, <1>7
    <3> QED BY <3>1, Zenon
  <2> QED BY <1>9, <2>2, <2>3, Zenon
<1>11. UNCHANGED <<request, layer, op, opState, buffers, room, fin, rst, armed, msgs, asked,
                   stage, verdict, got, blocked>>
  BY DEF DestinationWrites
<1> QED BY <1>1, <1>2, <1>4, <1>7, <1>10, <1>11, StreamKeeps

(* The replies: of bytes, and framed as the layer frames them. *)
Extends(S, s, z, m, n) ==
    /\ s \o z \in Seq(S) /\ Len(s \o z) = m + n
    /\ \A i \in 1..m : (s \o z)[i] = s[i]
    /\ \A i \in 1..n : (s \o z)[m + i] = z[i]
LEMMA Extended ==
    ASSUME NEW S, NEW s \in Seq(S), NEW z \in Seq(S), NEW m \in Nat, NEW n \in Nat,
           Len(s) = m, Len(z) = n
    PROVE  Extends(S, s, z, m, n)
<1>1. /\ s \o z \in Seq(S) /\ Len(s \o z) = m + n
      /\ \A i \in 1..(m + n) : (s \o z)[i] = IF i <= m THEN s[i] ELSE z[i - m]
  BY ConcatProperties
<1>2. \A i \in 1..m : (s \o z)[i] = s[i]
  BY <1>1
<1>3. ASSUME NEW i \in 1..n PROVE (s \o z)[m + i] = z[i]
  <2>1. m + i \in 1..(m + n) /\ ~(m + i <= m) /\ (m + i) - m = i
    OBVIOUS
  <2> QED BY <1>1, <2>1
<1> QED BY <1>1, <1>2, <1>3 DEF Extends

AllZero(z, n) == z \in Seq(Byte) /\ Len(z) = n /\ \A i \in 1..n : z[i] = 0
LEMMA ZerosShape == ASSUME NEW n \in Nat PROVE AllZero(Zeros(n), n)
<1>1. 0 \in Byte
  BY Bytes
<1>2. Zeros(n) \in Seq(Byte)
  BY <1>1, IsASeq DEF Zeros
<1>3. Len(Zeros(n)) = n /\ \A i \in 1..n : Zeros(n)[i] = 0
  BY DEF Zeros
<1> QED BY <1>2, <1>3 DEF AllZero

IsPair(s) == s \in Seq(Byte) /\ Len(s) = 2
LEMMA Pair == ASSUME NEW a \in Byte, NEW b \in Byte PROVE IsPair(<<a, b>>)
BY DEF IsPair

IsQuad(s, d) == s \in Seq(Byte) /\ Len(s) = 4 /\ s[4] = d
LEMMA Quad ==
    ASSUME NEW a \in Byte, NEW b \in Byte, NEW c \in Byte, NEW d \in Byte
    PROVE  IsQuad(<<a, b, c, d>>, d)
BY DEF IsQuad

IsQuint(s, d, e) == s \in Seq(Byte) /\ Len(s) = 5 /\ s[4] = d /\ s[5] = e
LEMMA Quint ==
    ASSUME NEW a \in Byte, NEW b \in Byte, NEW c \in Byte, NEW d \in Byte, NEW e \in Byte
    PROVE  IsQuint(<<a, b, c, d, e>>, d, e)
BY DEF IsQuint

(* The replies of each kind. *)
ShortReply(r) == r \in Seq(Byte) /\ Len(r) = 2
EightReply(r) == r \in Seq(Byte) /\ Len(r) = 8
AddressReply(r) ==
    /\ r \in Seq(Byte) /\ Len(r) >= 5 /\ r[4] \in {0, 1, 3, 4} /\ r[5] \in 0..255
    /\ r[4] = 1 => Len(r) = 10
    /\ r[4] = 4 => Len(r) = 22
    /\ r[4] = 3 => Len(r) = 7 + r[5]
HeaderReply(r) ==
    r \in Seq(Byte) /\ Len(r) >= 2 /\ r[Len(r)] = EOH /\ \A i \in 1..(Len(r) - 1) : r[i] # EOH

LEMMA SmallBytes == \A n \in {0, 1, 2, 3, 4, 5, 7, 13, 90, 91, 255, 200, 407, 500} : n \in Byte
BY Bytes

LEMMA ShortReplies ==
    ASSUME stage \in {"method", "auth"}, NEW r \in Replies
    PROVE  ShortReply(r)
<1>1. r \in MethodReplies \/ r \in AuthReplies
  BY DEF Replies
<1>2. 0 \in Byte /\ 1 \in Byte /\ 2 \in Byte /\ 4 \in Byte /\ 5 \in Byte /\ 255 \in Byte
  BY SmallBytes
<1>3. IsPair(r)
  <2>1. IsPair(<<5, 0>>) /\ IsPair(<<5, 2>>) /\ IsPair(<<5, 255>>)
    BY <1>2, Pair, Zenon
  <2>2. IsPair(<<4, 0>>) /\ IsPair(<<1, 0>>) /\ IsPair(<<1, 1>>)
    BY <1>2, Pair, Zenon
  <2>3. CASE r \in MethodReplies
    BY <2>1, <2>2, <2>3, Zenon DEF MethodReplies
  <2>4. CASE r \in AuthReplies
    BY <2>2, <2>4, Zenon DEF AuthReplies
  <2> QED BY <1>1, <2>3, <2>4
<1> QED BY <1>3, Zenon DEF IsPair, ShortReply

LEMMA EightReplies ==
    ASSUME stage \notin {"method", "auth"}, ptype = "SOCKS4", NEW r \in Replies
    PROVE  EightReply(r)
<1>1. r \in Socks4Replies
  BY DEF Replies
<1>2. r = <<0, 90>> \o Zeros(6) \/ r = <<0, 91>> \o Zeros(6)
  BY <1>1, Zenon DEF Socks4Replies
<1>3. 0 \in Byte /\ 90 \in Byte /\ 91 \in Byte /\ 2 \in Nat /\ 6 \in Nat
  BY SmallBytes
<1>4. PICK s : IsPair(s) /\ r = s \o Zeros(6)
  <2>1. IsPair(<<0, 90>>) /\ IsPair(<<0, 91>>)
    BY <1>3, Pair, Zenon
  <2> QED BY <1>2, <2>1, Zenon
<1>5. PICK z : AllZero(z, 6) /\ r = s \o z
  BY <1>3, <1>4, ZerosShape, Zenon
<1>6. s \in Seq(Byte) /\ Len(s) = 2 /\ z \in Seq(Byte) /\ Len(z) = 6
  BY <1>4, <1>5, Zenon DEF IsPair, AllZero
<1>7. Extends(Byte, s, z, 2, 6)
  BY <1>3, <1>6, Extended, Zenon
<1>8. r \in Seq(Byte) /\ Len(r) = 2 + 6
  BY <1>5, <1>7, Zenon DEF Extends
<1> QED BY <1>8 DEF EightReply

(* Four bytes and at least one more: the fourth and the fifth. *)
FourThen(r, d, n) == r \in Seq(Byte) /\ Len(r) = 4 + n /\ r[4] = d /\ r[5] = 0
LEMMA FourAndMore ==
    ASSUME NEW s, NEW d, NEW n \in Nat \ {0}, IsQuad(s, d)
    PROVE  FourThen(s \o Zeros(n), d, n)
<1>1. PICK z : AllZero(z, n) /\ z = Zeros(n)
  BY ZerosShape, Zenon
<1>2. s \in Seq(Byte) /\ Len(s) = 4 /\ s[4] = d
  BY DEF IsQuad
<1>3. z \in Seq(Byte) /\ Len(z) = n /\ \A i \in 1..n : z[i] = 0
  BY <1>1 DEF AllZero
<1>4. Extends(Byte, s, z, 4, n)
  BY <1>2, <1>3, Extended
<1>5. PICK r : r = s \o z
  OBVIOUS
<1>6. /\ r \in Seq(Byte) /\ Len(r) = 4 + n
      /\ \A i \in 1..4 : r[i] = s[i]
      /\ \A i \in 1..n : r[4 + i] = z[i]
  BY <1>4, <1>5, Zenon DEF Extends
<1>7. 4 \in 1..4 /\ 1 \in 1..n /\ 4 + 1 = 5
  OBVIOUS
<1>8. r[4] = d
  BY <1>2, <1>6, <1>7
<1>9. r[5] = 0
  BY <1>3, <1>6, <1>7
<1>10. FourThen(r, d, n)
  BY <1>6, <1>8, <1>9, Zenon DEF FourThen
<1> QED BY <1>1, <1>5, <1>10, Zenon

LEMMA AddressReplies ==
    ASSUME stage \notin {"method", "auth"}, ptype = "SOCKS5", NEW r \in Replies
    PROVE  AddressReply(r)
<1>0. r \in Socks5Replies
  BY DEF Replies
<1>1. \/ r = <<5, 0, 0, 1>> \o Zeros(6)
      \/ r = <<5, 7, 0, 1>> \o Zeros(6)
      \/ r = <<5, 0, 0, 3, NameLen>> \o Zeros(NameLen + 2)
      \/ r = <<5, 0, 0, 4>> \o Zeros(18)
      \/ r = <<5, 1, 0, 0>> \o Zeros(6)
  BY <1>0, Zenon DEF Socks5Replies
<1>2. /\ 0 \in Byte /\ 1 \in Byte /\ 3 \in Byte /\ 4 \in Byte /\ 5 \in Byte /\ 7 \in Byte
      /\ 6 \in Nat \ {0} /\ 18 \in Nat \ {0}
  BY SmallBytes
<1>3. CASE r = <<5, 0, 0, 1>> \o Zeros(6) \/ r = <<5, 7, 0, 1>> \o Zeros(6)
  <2>1. IsQuad(<<5, 0, 0, 1>>, 1) /\ IsQuad(<<5, 7, 0, 1>>, 1)
    BY <1>2, Quad, Zenon
  <2>2. FourThen(<<5, 0, 0, 1>> \o Zeros(6), 1, 6) /\ FourThen(<<5, 7, 0, 1>> \o Zeros(6), 1, 6)
    BY <1>2, <2>1, FourAndMore, Zenon
  <2>3. FourThen(r, 1, 6)
    BY <1>3, <2>2, Zenon
  <2> QED BY <2>3 DEF AddressReply, FourThen
<1>4. CASE r = <<5, 0, 0, 4>> \o Zeros(18)
  <2>1. IsQuad(<<5, 0, 0, 4>>, 4)
    BY <1>2, Quad, Zenon
  <2>2. FourThen(r, 4, 18)
    BY <1>2, <1>4, <2>1, FourAndMore, Zenon
  <2> QED BY <2>2 DEF AddressReply, FourThen
<1>5. CASE r = <<5, 1, 0, 0>> \o Zeros(6)
  <2>1. IsQuad(<<5, 1, 0, 0>>, 0)
    BY <1>2, Quad, Zenon
  <2>2. FourThen(r, 0, 6)
    BY <1>2, <1>5, <2>1, FourAndMore, Zenon
  <2> QED BY <2>2 DEF AddressReply, FourThen
<1>6. CASE r = <<5, 0, 0, 3, NameLen>> \o Zeros(NameLen + 2)
  <2>1. NameLen \in 0..255 /\ NameLen \in Byte /\ NameLen + 2 \in Nat /\ 5 \in Nat
    BY Bytes, HandshakeAssumption
  <2>2. PICK s : IsQuint(s, 3, NameLen) /\ r = s \o Zeros(NameLen + 2)
    <3>1. IsQuint(<<5, 0, 0, 3, NameLen>>, 3, NameLen)
      BY <1>2, <2>1, Quint, Zenon
    <3> QED BY <1>6, <3>1, Zenon
  <2>3. PICK z : AllZero(z, NameLen + 2) /\ r = s \o z
    BY <2>1, <2>2, ZerosShape, Zenon
  <2>4. s \in Seq(Byte) /\ Len(s) = 5 /\ s[4] = 3 /\ s[5] = NameLen
    BY <2>2, Zenon DEF IsQuint
  <2>5. z \in Seq(Byte) /\ Len(z) = NameLen + 2
    BY <2>3, Zenon DEF AllZero
  <2>6. Extends(Byte, s, z, 5, NameLen + 2)
    BY <2>1, <2>4, <2>5, Extended, Zenon
  <2>7. r \in Seq(Byte) /\ Len(r) = 5 + (NameLen + 2) /\ \A i \in 1..5 : r[i] = s[i]
    BY <2>3, <2>6, Zenon DEF Extends
  <2>8. r[4] = 3 /\ r[5] = NameLen
    BY <2>4, <2>7
  <2> QED BY <2>1, <2>7, <2>8 DEF AddressReply
<1> QED BY <1>1, <1>3, <1>4, <1>5, <1>6

(* A header: its status, plain bytes, its end. *)
IsHeader(r, k) ==
    r \in Seq(Byte) /\ Len(r) = k + 2 /\ r[k + 2] = EOH /\ \A i \in 1..(k + 1) : r[i] # EOH
LEMMA HeaderShape ==
    ASSUME NEW f \in Seq(Byte), NEW o \in Seq(Byte), NEW l \in Seq(Byte), NEW k \in Nat,
           Len(f) = 1, f[1] # EOH, Len(o) = k, \A i \in 1..k : o[i] # EOH,
           Len(l) = 1, l[1] = EOH
    PROVE  IsHeader((f \o o) \o l, k)
<1>1. Extends(Byte, f, o, 1, k)
  BY Extended
<1>2. PICK g : g = f \o o
  OBVIOUS
<1>3. /\ g \in Seq(Byte) /\ Len(g) = 1 + k
      /\ \A i \in 1..1 : g[i] = f[i]
      /\ \A i \in 1..k : g[1 + i] = o[i]
  BY <1>1, <1>2, Zenon DEF Extends
<1>4. ASSUME NEW i \in 1..(1 + k) PROVE g[i] # EOH
  <2>1. CASE i = 1
    BY <1>3, <2>1
  <2>2. CASE i # 1
    <3>1. PICK j \in 1..k : i = 1 + j
      <4>1. i - 1 \in 1..k /\ i = 1 + (i - 1)
        BY <2>2
      <4> QED BY <4>1
    <3> QED BY <1>3, <3>1
  <2> QED BY <2>1, <2>2
<1>5. PICK m \in Nat : m = 1 + k
  OBVIOUS
<1>6. Len(g) = m /\ \A i \in 1..m : g[i] # EOH
  BY <1>3, <1>4, <1>5
<1>7. Extends(Byte, g, l, m, 1)
  BY <1>3, <1>6, Extended
<1>8. PICK r : r = g \o l
  OBVIOUS
<1>9. /\ r \in Seq(Byte) /\ Len(r) = m + 1
      /\ \A i \in 1..m : r[i] = g[i]
      /\ \A i \in 1..1 : r[m + i] = l[i]
  BY <1>7, <1>8, Zenon DEF Extends
<1>10. r[m + 1] = EOH /\ \A i \in 1..m : r[i] # EOH
  BY <1>6, <1>9
<1>11. m + 1 = k + 2 /\ m = k + 1
  BY <1>5
<1>12. IsHeader(r, k)
  BY <1>9, <1>10, <1>11 DEF IsHeader
<1> QED BY <1>2, <1>8, <1>12, Zenon

IsOne(s, e) == s \in Seq(Byte) /\ Len(s) = 1 /\ s[1] = e
LEMMA One == ASSUME NEW e \in Byte PROVE IsOne(<<e>>, e)
BY DEF IsOne

Plain(s, k) == s \in Seq(Byte) /\ Len(s) = k /\ \A i \in 1..k : s[i] = 1
LEMMA PlainBytes == ASSUME NEW k \in Nat PROVE Plain([i \in 1..k |-> 1], k)
<1>1. 1 \in Byte
  BY SmallBytes
<1>2. [i \in 1..k |-> 1] \in Seq(Byte)
  BY <1>1, IsASeq
<1>3. Len([i \in 1..k |-> 1]) = k /\ \A j \in 1..k : [i \in 1..k |-> 1][j] = 1
  OBVIOUS
<1> QED BY <1>2, <1>3 DEF Plain

LEMMA HeaderReplies ==
    ASSUME stage \notin {"method", "auth"}, ptype = "HTTP", NEW r \in Replies
    PROVE  HeaderReply(r)
<1>0. r \in HttpReplies
  BY DEF Replies
<1>t. PICK st \in {200, 407, 500}, n \in HeaderLens : r = HttpReply(st, n)
  BY <1>0 DEF HttpReplies
<1>1. r = (<<st>> \o [i \in 1..(n - 2) |-> 1]) \o <<EOH>>
  BY <1>t, Zenon DEF HttpReply
<1>2. st \in Byte /\ EOH \in Byte /\ st # EOH /\ 1 # EOH /\ n - 2 \in Nat
  BY <1>t, SmallBytes, HandshakeAssumption DEF EOH
<1>3. PICK o : Plain(o, n - 2) /\ r = (<<st>> \o o) \o <<EOH>>
  BY <1>1, <1>2, PlainBytes, Zenon
<1>4. PICK f : IsOne(f, st) /\ r = (f \o o) \o <<EOH>>
  BY <1>2, <1>3, One, Zenon
<1>5. PICK l : IsOne(l, EOH) /\ r = (f \o o) \o l
  BY <1>2, <1>4, One, Zenon
<1>6. PICK k \in Nat : k = n - 2
  BY <1>2
<1>7. /\ f \in Seq(Byte) /\ o \in Seq(Byte) /\ l \in Seq(Byte)
      /\ Len(f) = 1 /\ f[1] # EOH /\ Len(o) = k /\ \A i \in 1..k : o[i] # EOH
      /\ Len(l) = 1 /\ l[1] = EOH
  <2>1. f \in Seq(Byte) /\ Len(f) = 1 /\ f[1] # EOH /\ l \in Seq(Byte) /\ Len(l) = 1 /\ l[1] = EOH
    BY <1>2, <1>4, <1>5, Zenon DEF IsOne
  <2>2. o \in Seq(Byte) /\ Len(o) = k /\ \A i \in 1..k : o[i] # EOH
    BY <1>2, <1>3, <1>6, ZenonT(60) DEF Plain
  <2> QED BY <2>1, <2>2
<1>8. IsHeader(r, k)
  <2>1. IsHeader((f \o o) \o l, k)
    BY <1>6, <1>7, HeaderShape
  <2> QED BY <1>5, <2>1, Zenon
<1>9. k + 2 >= 2 /\ (k + 2) - 1 = k + 1
  BY <1>6
<1> QED BY <1>8, <1>9 DEF IsHeader, HeaderReply

(* A reply is made of bytes and is framed as m_nProxyOpState expects it. *)
LEMMA ReplyFramed ==
    ASSUME TypeOK, stage = Awaited, opState # 0, NEW r \in Replies
    PROVE  r \in Seq(Byte) /\ Framed(r)
<1>1. ptype \in {"SOCKS4", "SOCKS5", "HTTP"} /\ opState \in 0..3
  BY HandshakeAssumption DEF TypeOK
<1>2. CASE ptype = "SOCKS5" /\ opState # 3
  <2>1. stage \in {"method", "auth"}
    BY <1>2 DEF Awaited
  <2>2. ShortReply(r)
    BY <2>1, ShortReplies
  <2> QED BY <1>2, <2>2 DEF ShortReply, Framed
<1>3. CASE ptype = "SOCKS4"
  <2>1. stage \notin {"method", "auth"}
    BY <1>3 DEF Awaited
  <2>2. EightReply(r)
    BY <1>3, <2>1, EightReplies
  <2> QED BY <1>3, <2>2 DEF EightReply, Framed
<1>4. CASE ptype = "SOCKS5" /\ opState = 3
  <2>1. stage \notin {"method", "auth"}
    BY <1>4 DEF Awaited
  <2>2. AddressReply(r)
    BY <1>4, <2>1, AddressReplies
  <2>3. Len(r) >= 2
    BY <2>2, LenProperties DEF AddressReply
  <2> QED BY <1>4, <2>2, <2>3 DEF AddressReply, Framed
<1>5. CASE ptype = "HTTP"
  <2>1. stage \notin {"method", "auth"}
    BY <1>5 DEF Awaited
  <2>2. HeaderReply(r)
    BY <1>5, <2>1, HeaderReplies
  <2> QED BY <1>5, <2>2 DEF HeaderReply, Framed
<1> QED BY <1>1, <1>2, <1>3, <1>4, <1>5

LEMMA ReplyBytes ==
    ASSUME TypeOK, NEW r \in Replies
    PROVE  r \in Seq(Byte)
<1>1. ptype \in {"SOCKS4", "SOCKS5", "HTTP"}
  BY HandshakeAssumption DEF TypeOK
<1>2. CASE stage \in {"method", "auth"}
  BY <1>2, ShortReplies DEF ShortReply
<1>3. CASE stage \notin {"method", "auth"}
  <2>1. CASE ptype = "SOCKS4"
    BY <1>3, <2>1, EightReplies DEF EightReply
  <2>2. CASE ptype = "SOCKS5"
    BY <1>3, <2>2, AddressReplies DEF AddressReply
  <2>3. CASE ptype = "HTTP"
    BY <1>3, <2>3, HeaderReplies DEF HeaderReply
  <2> QED BY <1>1, <2>1, <2>2, <2>3
<1> QED BY <1>2, <1>3

(* An empty stream takes the reply as its whole content. *)
LEMMA OnlyReply ==
    ASSUME NEW r \in Seq(Byte)
    PROVE  <<>> \o r = r /\ <<>> \o (<<>> \o r) = r \o <<>>
<1>1. \A s \in Seq(Byte) : <<>> \o s = s /\ s \o <<>> = s
  BY ConcatEmptySeq
<1> QED BY <1>1

(* What the proxy decides, step by step of the dialogue. *)
LEMMA ReplyDecides ==
    ASSUME TypeOK, ProxyReply, Asking, opState # 0
    PROVE  \E r \in Replies : wire' = wire \o r /\ Decided(r)'
<1>1. PICK r \in Replies :
        /\ wire' = wire \o r
        /\ \/ /\ stage = "method" /\ verdict' = verdict
              /\ stage' = IF r[2] = 0 THEN "request" ELSE "auth"
           \/ stage = "auth" /\ stage' = "request" /\ verdict' = verdict
           \/ /\ stage = "request" /\ stage' = "done"
              /\ verdict' = IF Grants(r) THEN "granted" ELSE "refused"
  BY DEF ProxyReply
<1>2. ptype' = ptype /\ opState' = opState /\ wrote' = wrote
  BY DEF ProxyReply, request
<1>3. Awaited' = Awaited /\ Grants(r)' = Grants(r)
  BY <1>2 DEF Awaited, Grants
<1>4. stage = Awaited /\ verdict = "none" /\ wrote = 0
  BY DEF Asking
<1>5. Decided(r)'
  <2>1. CASE Awaited = "request"
    BY <1>1, <1>3, <1>4, <2>1 DEF Decided
  <2>2. CASE Awaited = "method"
    BY <1>1, <1>2, <1>3, <1>4, <2>2 DEF Decided
  <2>3. CASE Awaited = "auth"
    BY <1>1, <1>2, <1>3, <1>4, <2>3 DEF Decided
  <2>4. Awaited \in {"request", "method", "auth"}
    BY DEF Awaited
  <2> QED BY <2>1, <2>2, <2>3, <2>4
<1> QED BY <1>1, <1>5

LEMMA ProxyReplyTypes ==
    ASSUME TypeOK, ProxyReply, asked \in {0, 1}, wire' \in Seq(Byte)
    PROVE  TypeOK' /\ asked' = 0
<1>1. /\ ptype' = ptype /\ opId' = opId /\ logon' = logon /\ layer' = layer /\ op' = op
      /\ opState' = opState /\ recvBuf' = recvBuf /\ strBuf' = strBuf /\ appBuf' = appBuf
      /\ sendLeft' = sendLeft /\ room' = room /\ fin' = fin /\ rst' = rst /\ armed' = armed
      /\ msgs' = msgs /\ inq' = inq /\ wrote' = wrote /\ got' = got /\ blocked' = blocked
  BY DEF ProxyReply, request, buffers
<1>2. asked' = 0 /\ 0 \in 0..3
  BY DEF ProxyReply
<1>3. stage' \in {"method", "auth", "request", "done"}
  BY DEF ProxyReply
<1>4. verdict' \in {"none", "granted", "refused"}
  BY DEF ProxyReply, TypeOK
<1>5. /\ op' \in BOOLEAN /\ opState' \in 0..3
      /\ recvBuf' \in Seq(Byte) /\ Len(recvBuf') <= 262
      /\ strBuf' \in Seq(Byte) /\ Len(strBuf') <= HttpBuf /\ appBuf' \in Seq(Byte)
      /\ sendLeft' \in 0..RequestLen /\ room' \in 0..Room /\ asked' \in 0..3
      /\ inq' \in Seq(Byte) /\ wrote' \in 0..MaxPayload
      /\ got' \in Seq(Byte) /\ blocked' \in BOOLEAN
  BY <1>1, <1>2, Zenon DEF TypeOK
<1>6. /\ ptype' \in ProxyTypes /\ opId' \in {"connect", "udp"} /\ logon' \in BOOLEAN
      /\ layer' \in {"connecting", "connected", "closed", "aborted"}
      /\ fin' \in BOOLEAN /\ rst' \in BOOLEAN
      /\ armed' \in SUBSET Events /\ msgs' \in Seq(Messages)
  BY <1>1, Zenon DEF TypeOK
<1>7. TypeOK'
  BY <1>3, <1>4, <1>5, <1>6, Zenon DEF TypeOK
<1> QED BY <1>2, <1>7

(* A request on its way has been answered, and with nothing else. *)
LEMMA AskedAnswered ==
    ASSUME TypeOK, ProxyReply, Asking, opState # 0
    PROVE  wire' \in Seq(Byte) /\ \E r \in Seq(Byte) : AnsweredWith(r)'
<1>1. PICK r \in Replies : wire' = wire \o r /\ Decided(r)'
  BY ReplyDecides
<1>2. r \in Seq(Byte) /\ Framed(r)
  BY <1>1, ReplyFramed DEF Asking
<1>3. /\ ptype' = ptype /\ opState' = opState /\ wrote' = wrote /\ inq' = inq
      /\ recvBuf' = recvBuf /\ strBuf' = strBuf
  BY DEF ProxyReply, request, buffers
<1>4. Held = <<>> /\ inq = <<>> /\ wire = <<>> /\ wrote = 0 /\ wrote \in 0..MaxPayload
  BY DEF Asking, TypeOK
<1>5. wire' = r
  BY <1>1, <1>2, <1>4, OnlyReply, Zenon
<1>6. Payload' = <<>>
  <2>1. Payload = <<>>
    BY <1>4, PayloadShape
  <2>2. Payload' = Payload
    BY <1>3, Zenon DEF Payload
  <2> QED BY <2>1, <2>2
<1>7. Held' = <<>>
  BY <1>3, <1>4 DEF Held
<1>8. inq' = <<>>
  BY <1>3, <1>4
<1>9. Held' \o (inq' \o wire') = r \o Payload'
  <2>1. <<>> \o (<<>> \o r) = r \o <<>>
    BY <1>2, OnlyReply
  <2> QED BY <1>5, <1>6, <1>7, <1>8, <2>1, Zenon
<1>10. Framed(r)'
  BY <1>2, <1>3 DEF Framed
<1>11. Len(Held') < Len(r)
  <2>1. Len(Held') = 0
    BY <1>7, Empty, Zenon
  <2>2. Len(r) \in Nat /\ Len(r) >= 2
    BY <1>2, LenProperties DEF Framed
  <2> QED BY <2>1, <2>2
<1>12. ~BadAtyp(recvBuf)'
  <2>1. CASE ptype = "SOCKS5"
    <3>1. recvBuf' = <<>>
      BY <1>3, <1>4, <2>1 DEF Held
    <3>2. Len(recvBuf') = 0
      BY <3>1, Empty, Zenon
    <3> QED BY <3>2 DEF BadAtyp
  <2>2. CASE ptype # "SOCKS5"
    BY <1>3, <2>2 DEF BadAtyp
  <2> QED BY <2>1, <2>2
<1>13. AnsweredWith(r)'
  BY <1>1, <1>9, <1>10, <1>11, <1>12 DEF AnsweredWith
<1> QED BY <1>2, <1>5, <1>13

LEMMA ProxyReplyKeeps ==
    ASSUME HInv, ProxyReply
    PROVE  HInv'
<1>1. /\ TypeOK /\ asked \in {0, 1} /\ Len(appBuf) <= HttpBuf /\ (blocked = TRUE => appBuf = <<>>)
      /\ opId = "udp" => ptype = "SOCKS5"
  BY DEF HInv, Bounded
<1>2. /\ layer' = layer /\ op' = op /\ opState' = opState /\ appBuf' = appBuf
      /\ blocked' = blocked /\ sendLeft' = sendLeft /\ ptype' = ptype /\ opId' = opId
      /\ recvBuf' = recvBuf /\ strBuf' = strBuf /\ got' = got /\ msgs' = msgs
  BY DEF ProxyReply, request, buffers
<1>3. asked > 0 /\ stage # "done"
  BY DEF ProxyReply
<1>4. CASE op = TRUE
  <2>1. Quiet /\ (Asking \/ Answered)
    BY <1>4 DEF HInv, Talking
  <2>2. Asking /\ opState # 0 /\ sendLeft = 0
    BY <1>1, <1>3, <2>1 DEF Asking, Answered
  <2>3. wire' \in Seq(Byte) /\ \E r \in Seq(Byte) : AnsweredWith(r)'
    BY <1>1, <2>2, AskedAnswered
  <2>4. TypeOK' /\ asked' = 0
    BY <1>1, <2>3, ProxyReplyTypes
  <2>5. Bounded'
    BY <1>1, <1>2, <2>4 DEF Bounded
  <2>6. Quiet'
    BY <1>2, <2>1, Zenon DEF Quiet
  <2>7. Answered'
    BY <1>2, <2>2, <2>3, <2>4 DEF Answered
  <2> QED BY <1>2, <1>4, <2>5, <2>6, <2>7 DEF HInv, Talking
<1>5. CASE op = FALSE
  <2>1. layer = "aborted"
    BY <1>3, <1>5 DEF HInv, Tunnel, Unsent
  <2>2. PICK r \in Replies : wire' = wire \o r
    BY DEF ProxyReply
  <2>3. r \in Seq(Byte)
    BY <1>1, <1>3, <2>2, ReplyBytes
  <2>4. wire' \in Seq(Byte)
    BY <1>1, <2>2, <2>3, ConcatProperties DEF TypeOK
  <2>5. TypeOK' /\ asked' = 0
    BY <1>1, <2>4, ProxyReplyTypes
  <2>6. Bounded'
    BY <1>1, <1>2, <2>5 DEF Bounded
  <2> QED BY <1>2, <1>5, <2>1, <2>6 DEF HInv
<1>6. op \in BOOLEAN
  BY <1>1 DEF TypeOK
<1> QED BY <1>4, <1>5, <1>6

-----------------------------------------------------------------------------
(* The invariant is inductive, and implies what the run checks. *)

LEMMA InitHolds == Init => HInv
<1> SUFFICES ASSUME Init PROVE HInv
  OBVIOUS
<1>1. /\ HttpBuf \in Nat /\ RequestLen \in Nat /\ Room \in Nat /\ MaxPayload \in Nat
  BY HandshakeAssumption
<1>2. <<>> \in Seq(Byte) /\ Len(<<>>) = 0 /\ 0 <= 262 /\ 0 <= HttpBuf
  BY <1>1, Empty
<1>3. 0 \in 0..RequestLen /\ Room \in 0..Room /\ 0 \in 0..3 /\ 0 \in 0..MaxPayload
  BY <1>1
<1>4. /\ op = TRUE /\ opState = 0 /\ recvBuf = <<>> /\ strBuf = <<>> /\ appBuf = <<>>
      /\ sendLeft = 0 /\ room = Room /\ inq = <<>> /\ wire = <<>> /\ msgs = <<>>
      /\ asked = 0 /\ verdict = "none" /\ wrote = 0 /\ got = <<>> /\ blocked = FALSE
      /\ layer = "connecting" /\ fin = FALSE /\ rst = FALSE /\ armed = Events
      /\ ptype \in ProxyTypes /\ opId \in {"connect", "udp"} /\ logon \in BOOLEAN
      /\ stage = (IF ptype = "SOCKS5" THEN "method" ELSE "request")
  BY DEF Init
<1>5. TypeOK
  <2>1. /\ op \in BOOLEAN /\ opState \in 0..3
        /\ recvBuf \in Seq(Byte) /\ Len(recvBuf) <= 262
        /\ strBuf \in Seq(Byte) /\ Len(strBuf) <= HttpBuf /\ appBuf \in Seq(Byte)
        /\ sendLeft \in 0..RequestLen /\ room \in 0..Room /\ asked \in 0..3
        /\ inq \in Seq(Byte) /\ wire \in Seq(Byte) /\ wrote \in 0..MaxPayload
        /\ got \in Seq(Byte) /\ blocked \in BOOLEAN
    BY <1>2, <1>3, <1>4, Zenon
  <2>2. <<>> \in Seq(Messages)
    OBVIOUS
  <2>3. /\ layer \in {"connecting", "connected", "closed", "aborted"}
        /\ fin \in BOOLEAN /\ rst \in BOOLEAN
        /\ armed \in SUBSET Events /\ msgs \in Seq(Messages)
        /\ stage \in {"method", "auth", "request", "done"}
        /\ verdict \in {"none", "granted", "refused"}
    BY <1>4, <2>2
  <2> QED BY <1>4, <2>1, <2>3, Zenon DEF TypeOK
<1>6. Bounded
  <2>1. opId = "udp" => ptype = "SOCKS5"
    BY DEF Init
  <2> QED BY <1>2, <1>4, <1>5, <2>1 DEF Bounded
<1>7. Quiet
  <2>1. \A i \in 1..Len(msgs) : msgs[i].to = "layer"
    <3>1. Len(msgs) = 0
      BY <1>2, <1>4, Zenon
    <3> QED BY <3>1
  <2> QED BY <1>4, <2>1 DEF Quiet
<1>8. Asking
  <2>1. Held = <<>>
    BY <1>4 DEF Held
  <2>2. stage = Awaited
    BY <1>4 DEF Awaited
  <2> QED BY <1>4, <2>1, <2>2 DEF Asking
<1> QED BY <1>4, <1>6, <1>7, <1>8 DEF HInv, Talking

LEMMA StutterHolds == ASSUME HInv, UNCHANGED vars PROVE HInv'
<1>1. /\ ptype' = ptype /\ opId' = opId /\ logon' = logon /\ layer' = layer /\ op' = op
      /\ opState' = opState /\ recvBuf' = recvBuf /\ strBuf' = strBuf /\ appBuf' = appBuf
      /\ sendLeft' = sendLeft /\ room' = room /\ inq' = inq /\ wire' = wire /\ fin' = fin
      /\ rst' = rst /\ armed' = armed /\ msgs' = msgs /\ asked' = asked /\ stage' = stage
      /\ verdict' = verdict /\ wrote' = wrote /\ got' = got /\ blocked' = blocked
  BY DEF vars, request, buffers, proxy
<1>2. Bounded'
  <2>1. Bounded /\ TypeOK
    BY DEF HInv, Bounded
  <2>2. /\ op' \in BOOLEAN /\ opState' \in 0..3
        /\ recvBuf' \in Seq(Byte) /\ Len(recvBuf') <= 262
        /\ strBuf' \in Seq(Byte) /\ Len(strBuf') <= HttpBuf /\ appBuf' \in Seq(Byte)
        /\ sendLeft' \in 0..RequestLen /\ room' \in 0..Room /\ asked' \in 0..3
        /\ inq' \in Seq(Byte) /\ wire' \in Seq(Byte) /\ wrote' \in 0..MaxPayload
        /\ got' \in Seq(Byte) /\ blocked' \in BOOLEAN
    BY <1>1, <2>1, Zenon DEF TypeOK
  <2>3. /\ ptype' \in ProxyTypes /\ opId' \in {"connect", "udp"} /\ logon' \in BOOLEAN
        /\ layer' \in {"connecting", "connected", "closed", "aborted"}
        /\ fin' \in BOOLEAN /\ rst' \in BOOLEAN
        /\ armed' \in SUBSET Events /\ msgs' \in Seq(Messages)
        /\ stage' \in {"method", "auth", "request", "done"}
        /\ verdict' \in {"none", "granted", "refused"}
    BY <1>1, <2>1, Zenon DEF TypeOK
  <2>4. TypeOK'
    BY <2>2, <2>3, Zenon DEF TypeOK
  <2> QED BY <1>1, <2>1, <2>4 DEF Bounded
<1>3. Held' = Held /\ Awaited' = Awaited /\ Payload' = Payload
  BY <1>1, Zenon DEF Held, Awaited, Payload
<1>4. Quiet => Quiet'
  BY <1>1, Zenon DEF Quiet
<1>5. Asking => Asking'
  BY <1>1, <1>3, Zenon DEF Asking
<1>6. Answered => Answered'
  <2> SUFFICES ASSUME Answered PROVE Answered'
    OBVIOUS
  <2>1. PICK r \in Seq(Byte) : AnsweredWith(r)
    BY DEF Answered
  <2>2. Framed(r)'
    BY <1>1, <2>1 DEF AnsweredWith, Framed
  <2>3. Decided(r)'
    BY <1>1, <2>1 DEF AnsweredWith, Decided, Awaited, Grants
  <2>4. ~BadAtyp(recvBuf)'
    BY <1>1, <2>1 DEF AnsweredWith, BadAtyp
  <2>5. AnsweredWith(r)'
    BY <1>1, <1>3, <2>1, <2>2, <2>3, <2>4 DEF AnsweredWith
  <2> QED BY <1>1, <2>5 DEF Answered
<1>7. Tunnel => Tunnel'
  BY <1>1, <1>3, Zenon DEF Tunnel, Unsent
<1> QED BY <1>1, <1>2, <1>4, <1>5, <1>6, <1>7 DEF HInv, Talking

LEMMA NextHolds == HInv /\ [Next]_vars => HInv'
<1> SUFFICES ASSUME HInv, [Next]_vars PROVE HInv'
  OBVIOUS
<1>1. CASE LayerMessage
  BY <1>1, LayerMessageKeeps
<1>2. CASE OwnerMessage
  BY <1>2, OwnerMessageKeeps
<1>3. CASE OwnerResume
  BY <1>3, OwnerResumeKeeps
<1>4. CASE \E ev \in Events : Notify(ev)
  BY <1>4, NotifyKeeps
<1>5. CASE KernelDrain
  BY <1>5, KernelDrainKeeps
<1>6. CASE Arrive
  BY <1>6, ArriveKeeps
<1>7. CASE ProxyReply
  BY <1>7, ProxyReplyKeeps
<1>8. CASE DestinationWrites
  BY <1>8, DestinationWritesKeeps
<1>9. CASE ConnectionEnds
  BY <1>9, ConnectionEndsKeeps
<1>10. CASE UNCHANGED vars
  BY <1>10, StutterHolds
<1> QED BY <1>1, <1>2, <1>3, <1>4, <1>5, <1>6, <1>7, <1>8, <1>9, <1>10 DEF Next

LEMMA InvariantSuffices == HInv => DialogueExact
<1> SUFFICES ASSUME HInv PROVE DialogueExact
  OBVIOUS
<1>1. TypeOK /\ (blocked = TRUE => appBuf = <<>>) /\ op \in BOOLEAN /\ blocked \in BOOLEAN
  BY DEF HInv, Bounded, TypeOK
<1>2. SurplusTaken
  BY <1>1 DEF SurplusTaken
<1>3. GrantIsReal
  BY <1>1 DEF HInv, Tunnel, GrantIsReal
<1>4. ExactFraming
  <2>1. SUFFICES ASSUME op = FALSE, layer # "aborted"
                 PROVE  got \o appBuf \o inq \o wire = Payload
    BY <1>1 DEF ExactFraming, Succeeded
  <2>2. got \o (appBuf \o (inq \o wire)) = Payload
    BY <2>1 DEF HInv, Tunnel
  <2>3. got \in Seq(Byte) /\ appBuf \in Seq(Byte) /\ inq \in Seq(Byte) /\ wire \in Seq(Byte)
    BY <1>1 DEF TypeOK
  <2>4. PICK g \in Seq(Byte) : g = got
    BY <2>3
  <2>5. PICK a \in Seq(Byte) : a = appBuf
    BY <2>3
  <2>6. PICK q \in Seq(Byte) : q = inq
    BY <2>3
  <2>7. PICK w \in Seq(Byte) : w = wire
    BY <2>3
  <2>8. g \o a \in Seq(Byte) /\ q \o w \in Seq(Byte)
    BY <2>4, <2>5, <2>6, <2>7, ConcatProperties
  <2>9. Regroups(g \o a, q, w)
    BY <2>6, <2>7, <2>8, Regrouped, Zenon
  <2>10. Regroups(g, a, q \o w)
    BY <2>4, <2>5, <2>8, Regrouped, Zenon
  <2>11. ((g \o a) \o q) \o w = g \o (a \o (q \o w))
    BY <2>9, <2>10, Zenon DEF Regroups
  <2> QED BY <2>2, <2>4, <2>5, <2>6, <2>7, <2>11, Zenon
<1> QED BY <1>1, <1>2, <1>3, <1>4 DEF DialogueExact

(* Whatever the proxy answers, however its answers are cut, whatever follows them
   and however large the buffers are: CAsyncProxySocketLayer takes exactly the
   replies out of the stream, reports a connection only when one was granted, and
   leaves no surplus to an owner that has stopped reading. *)
THEOREM DialogueHolds == Spec => []DialogueExact
<1>1. Init => HInv
  BY InitHolds
<1>2. HInv /\ [Next]_vars => HInv'
  BY NextHolds
<1>3. HInv => DialogueExact
  BY InvariantSuffices
<1> QED BY <1>1, <1>2, <1>3, PTL DEF Spec

-----------------------------------------------------------------------------
(* The outcome is told once. *)

Told(m) == m.to = "owner" /\ m.ev = "FD_CONNECT"
ToldAt(ms) == {i \in 1..Len(ms) : Told(ms[i])}

LEMMA OutcomesCounted == ASSUME NEW ms PROVE Outcomes(ms) = Cardinality(ToldAt(ms))
BY DEF Outcomes, ToldAt, Told

LEMMA ToldFinite ==
    ASSUME NEW ms \in Seq(Messages)
    PROVE  IsFiniteSet(ToldAt(ms)) /\ Outcomes(ms) \in Nat
<1>1. Len(ms) \in Nat /\ 1 \in Int /\ Len(ms) \in Int
  BY LenProperties
<1>2. IsFiniteSet(1..Len(ms))
  BY <1>1, FS_Interval
<1>3. ToldAt(ms) \in SUBSET (1..Len(ms))
  BY DEF ToldAt
<1>4. IsFiniteSet(ToldAt(ms))
  BY <1>2, <1>3, FS_Subset
<1> QED BY <1>4, OutcomesCounted, FS_CardinalityType

LEMMA NoneTold ==
    ASSUME NEW ms \in Seq(Messages), \A i \in 1..Len(ms) : ms[i].to = "layer"
    PROVE  Outcomes(ms) = 0
<1>1. ToldAt(ms) = {}
  BY DEF ToldAt, Told
<1> QED BY <1>1, OutcomesCounted, FS_EmptySet

LEMMA SomeTold ==
    ASSUME NEW ms \in Seq(Messages), NEW i \in 1..Len(ms), Told(ms[i])
    PROVE  Outcomes(ms) > 0
<1>1. ToldAt(ms) # {}
  BY DEF ToldAt
<1>2. IsFiniteSet(ToldAt(ms)) /\ Outcomes(ms) \in Nat
  BY ToldFinite
<1>3. Cardinality(ToldAt(ms)) # 0
  BY <1>1, <1>2, FS_EmptySet
<1> QED BY <1>2, <1>3, OutcomesCounted

(* Another message does not count. *)
LEMMA AppendTold ==
    ASSUME NEW ms \in Seq(Messages), NEW x \in Messages, ~Told(x)
    PROVE  Append(ms, x) \in Seq(Messages) /\ Outcomes(Append(ms, x)) = Outcomes(ms)
<1>1. Len(ms) \in Nat
  BY LenProperties
<1>2. /\ Append(ms, x) \in Seq(Messages) /\ Len(Append(ms, x)) = Len(ms) + 1
      /\ \A i \in 1..Len(ms) : Append(ms, x)[i] = ms[i]
      /\ Append(ms, x)[Len(ms) + 1] = x
  BY AppendProperties
<1>3. ASSUME NEW i PROVE i \in ToldAt(Append(ms, x)) <=> i \in ToldAt(ms)
  <2>1. CASE i \in 1..Len(ms)
    <3>1. i \in 1..Len(Append(ms, x)) /\ Append(ms, x)[i] = ms[i]
      BY <1>1, <1>2, <2>1
    <3> QED BY <2>1, <3>1, Zenon DEF ToldAt
  <2>2. CASE i = Len(ms) + 1
    <3>1. i \notin 1..Len(ms) /\ Append(ms, x)[i] = x
      BY <1>1, <1>2, <2>2
    <3> QED BY <3>1, Zenon DEF ToldAt
  <2>3. CASE i \notin 1..Len(ms) /\ i # Len(ms) + 1
    <3>1. i \notin 1..Len(Append(ms, x))
      BY <1>1, <1>2, <2>3
    <3> QED BY <2>3, <3>1, Zenon DEF ToldAt
  <2> QED BY <2>1, <2>2, <2>3
<1>4. ToldAt(Append(ms, x)) = ToldAt(ms)
  BY <1>3, Zenon
<1> QED BY <1>2, <1>4, OutcomesCounted, Zenon

(* Taking a message from the queue adds none. *)
LEMMA TailTold ==
    ASSUME NEW ms \in Seq(Messages), ms # <<>>
    PROVE  Tail(ms) \in Seq(Messages) /\ Outcomes(Tail(ms)) <= Outcomes(ms)
<1>1. Len(ms) \in Nat
  BY LenProperties
<1>2. /\ Tail(ms) \in Seq(Messages) /\ Len(Tail(ms)) = Len(ms) - 1
      /\ \A i \in 1..Len(Tail(ms)) : Tail(ms)[i] = ms[i + 1]
  BY HeadTailProperties
<1>3. PICK f : f = [i \in ToldAt(Tail(ms)) |-> i + 1]
  OBVIOUS
<1>4. ASSUME NEW i \in ToldAt(Tail(ms)) PROVE i \in Int /\ i + 1 \in ToldAt(ms)
  <2>1. i \in 1..Len(Tail(ms)) /\ Told(Tail(ms)[i])
    BY DEF ToldAt
  <2>2. i \in Int /\ i + 1 \in 1..Len(ms)
    BY <1>1, <1>2, <2>1
  <2>3. Told(ms[i + 1])
    BY <1>2, <2>1, Zenon
  <2> QED BY <2>2, <2>3 DEF ToldAt
<1>5. f \in Injection(ToldAt(Tail(ms)), ToldAt(ms))
  <2>1. f \in [ToldAt(Tail(ms)) -> ToldAt(ms)]
    BY <1>3, <1>4
  <2>2. \A i, j \in ToldAt(Tail(ms)) : f[i] = f[j] => i = j
    BY <1>3, <1>4
  <2> QED BY <2>1, <2>2, Fun_IsInj
<1>6. IsFiniteSet(ToldAt(ms))
  BY ToldFinite
<1>7. Cardinality(ToldAt(Tail(ms))) <= Cardinality(ToldAt(ms))
  BY <1>5, <1>6, FS_Injection
<1> QED BY <1>2, <1>7, OutcomesCounted

(* How a handler of the layer ends the operation. *)
Ends(rest) == Failed(rest) \/ \E s : Granted(s, rest)
Stays == op' = op

LEMMA SendRequestEnds ==
    ASSUME NEW state, NEW b, NEW rest, SendRequest(state, b, rest)
    PROVE  Ends(rest) \/ Stays
BY DEF SendRequest, Ends, Stays

LEMMA RepliesEnd ==
    ASSUME NEW b, NEW rest,
           \/ Socks4Reply(b, rest) \/ MethodReply(b, rest) \/ AuthReply(b, rest)
           \/ RequestReply(b, rest)
    PROVE  Ends(rest) \/ Stays
<1>1. CASE Socks4Reply(b, rest)
  BY <1>1 DEF Socks4Reply, FailReply, Ends
<1>2. CASE MethodReply(b, rest)
  BY <1>2, SendRequestEnds DEF MethodReply, FailReply, Ends
<1>3. CASE AuthReply(b, rest)
  BY <1>3, SendRequestEnds DEF AuthReply, FailReply, Ends
<1>4. CASE RequestReply(b, rest)
  BY <1>4 DEF RequestReply, FailReply, Ends
<1> QED BY <1>1, <1>2, <1>3, <1>4

LEMMA ReceiveEnds ==
    ASSUME NEW rest, OnReceive(rest)
    PROVE  Ends(rest) \/ Stays
<1>1. CASE SocksReceive(rest)
  <2>1. PICK b : \/ op' = op
                 \/ FailReply(rest)
                 \/ Socks4Reply(b, rest) \/ MethodReply(b, rest) \/ AuthReply(b, rest)
                 \/ RequestReply(b, rest)
    BY <1>1 DEF SocksReceive
  <2> QED BY <2>1, RepliesEnd DEF FailReply, Ends, Stays
<1>2. CASE HttpReceive(rest)
  <2>1. PICK s : op' = op \/ FailReply(rest) \/ Failed(rest) \/ Granted(s, rest)
    BY <1>2 DEF HttpReceive
  <2> QED BY <2>1 DEF FailReply, Ends, Stays
<1>3. \/ SocksReceive(rest) \/ HttpReceive(rest) \/ FailRead(rest)
      \/ FailPendingProxyOperation(rest) \/ Idle(rest) \/ PassOn("FD_READ", FALSE, rest)
  BY DEF OnReceive
<1> QED BY <1>1, <1>2, <1>3 DEF FailRead, FailPendingProxyOperation, Idle, PassOn, Ends, Stays

Starts(t, x) == t \in Seq(Messages) /\ Len(t) >= 1 /\ Len(t) \in Nat /\ t[1] = x
LEMMA StartsOne == ASSUME NEW x \in Messages PROVE Starts(<<x>>, x)
BY DEF Starts
LEMMA StartsThree ==
    ASSUME NEW x \in Messages, NEW y \in Messages, NEW z \in Messages
    PROVE  Starts(<<x, y, z>>, x)
BY DEF Starts

(* The end of the operation is told, whichever way it comes. *)
LEMMA EndTold ==
    ASSUME NEW rest \in Seq(Messages), Ends(rest), msgs' \in Seq(Messages)
    PROVE  Outcomes(msgs') > 0
<1>1. Len(rest) \in Nat
  BY LenProperties
<1>2. /\ Owner("FD_CONNECT", TRUE) \in Messages /\ Owner("FD_CONNECT", FALSE) \in Messages
      /\ Owner("FD_READ", FALSE) \in Messages /\ Owner("FD_WRITE", FALSE) \in Messages
  BY DEF Owner, Messages, Events
<1>3. Told(Owner("FD_CONNECT", TRUE)) /\ Told(Owner("FD_CONNECT", FALSE))
  BY DEF Told, Owner
<1>4. PICK m \in Seq(Messages) : m = msgs'
  OBVIOUS
<1>5. PICK n : n = Len(rest) + 1
  OBVIOUS
<1>6. n \in 1..Len(m) /\ Told(m[n])
  <2>1. CASE Failed(rest)
    <3>1. m = Append(rest, Owner("FD_CONNECT", TRUE))
      BY <1>4, <2>1 DEF Failed
    <3>2. Len(m) = Len(rest) + 1 /\ m[Len(rest) + 1] = Owner("FD_CONNECT", TRUE)
      BY <1>2, <3>1, AppendProperties
    <3>3. n \in 1..Len(m)
      BY <1>1, <1>5, <3>2
    <3> QED BY <1>3, <1>5, <3>2, <3>3, Zenon
  <2>2. CASE \E s : Granted(s, rest)
    <3>0. PICK t : m = rest \o t /\ Starts(t, Owner("FD_CONNECT", FALSE))
      <4>1. CASE opId = "connect"
        <5>1. m = rest \o <<Owner("FD_CONNECT", FALSE), Owner("FD_READ", FALSE),
                            Owner("FD_WRITE", FALSE)>>
          BY <1>4, <2>2, <4>1 DEF Granted
        <5>2. Starts(<<Owner("FD_CONNECT", FALSE), Owner("FD_READ", FALSE),
                       Owner("FD_WRITE", FALSE)>>, Owner("FD_CONNECT", FALSE))
          BY <1>2, StartsThree, Zenon
        <5> QED BY <5>1, <5>2, Zenon
      <4>2. CASE opId # "connect"
        <5>1. m = rest \o <<Owner("FD_CONNECT", FALSE)>>
          BY <1>4, <2>2, <4>2 DEF Granted
        <5>2. Starts(<<Owner("FD_CONNECT", FALSE)>>, Owner("FD_CONNECT", FALSE))
          BY <1>2, StartsOne, Zenon
        <5> QED BY <5>1, <5>2, Zenon
      <4> QED BY <4>1, <4>2
    <3>1. /\ m = rest \o t /\ t \in Seq(Messages) /\ Len(t) >= 1 /\ Len(t) \in Nat
          /\ t[1] = Owner("FD_CONNECT", FALSE)
      BY <3>0, Zenon DEF Starts
    <3>2. Extends(Messages, rest, t, Len(rest), Len(t))
      BY <1>1, <3>1, Extended, Zenon
    <3>3. Len(m) = Len(rest) + Len(t) /\ \A i \in 1..Len(t) : m[Len(rest) + i] = t[i]
      BY <3>1, <3>2, Zenon DEF Extends
    <3>4. 1 \in 1..Len(t) /\ n \in 1..Len(m)
      BY <1>1, <1>5, <3>1, <3>3
    <3>5. m[n] = Owner("FD_CONNECT", FALSE)
      BY <1>5, <3>1, <3>3, <3>4, Zenon
    <3> QED BY <1>3, <3>4, <3>5, Zenon
  <2> QED BY <2>1, <2>2 DEF Ends
<1>7. Outcomes(m) > 0
  BY <1>6, SomeTold
<1> QED BY <1>4, <1>7, Zenon

(* With the operation over, no handler of the layer tells its outcome again. *)
LEMMA LayerAfter ==
    ASSUME HInv, op = FALSE, LayerMessage
    PROVE  /\ op' = FALSE
           /\ \/ msgs' = Tail(msgs)
              \/ \E ev \in Events \ {"FD_CONNECT"}, err \in BOOLEAN :
                    msgs' = Append(Tail(msgs), Owner(ev, err))
<1>1. PICK m : m = Head(msgs)
  OBVIOUS
<1>2. PICK rest : rest = Tail(msgs)
  OBVIOUS
<1>3. layer # "connecting" /\ (layer # "aborted" => sendLeft = 0)
  BY DEF HInv, Tunnel
<1>4. m.err \in BOOLEAN
  <2>1. msgs \in Seq(Messages) /\ msgs # <<>>
    BY DEF HInv, Bounded, TypeOK, LayerMessage
  <2>2. m \in Messages
    BY <1>1, <2>1, HeadTailProperties
  <2> QED BY <2>2 DEF Messages
<1>5. \/ Idle(rest)
      \/ layer = "connected" /\ OnReceive(rest)
      \/ layer = "connected" /\ OnSend(rest)
      \/ layer = "connecting" /\ OnConnect(m.err, rest)
      \/ layer = "connected" /\ OnClose(m.err, rest)
  BY <1>1, <1>2 DEF LayerMessage, Expects
<1>6. \/ Idle(rest)
      \/ \E ev \in {"FD_READ", "FD_WRITE", "FD_CLOSE"}, err \in BOOLEAN : PassOn(ev, err, rest)
  <2>1. CASE layer = "connected" /\ OnReceive(rest)
    <3>1. PassOn("FD_READ", FALSE, rest)
      BY <2>1, Zenon DEF OnReceive
    <3> QED BY <3>1, Zenon
  <2>2. CASE layer = "connected" /\ OnSend(rest)
    <3>1. sendLeft = 0
      BY <1>3, <2>2
    <3>2. ~(sendLeft > 0)
      BY <3>1
    <3>3. PassOn("FD_WRITE", FALSE, rest)
      BY <2>2, <3>2, Zenon DEF OnSend
    <3> QED BY <3>3, Zenon
  <2>3. CASE layer = "connected" /\ OnClose(m.err, rest)
    <3>1. PassOn("FD_CLOSE", m.err, rest)
      BY <2>3, Zenon DEF OnClose
    <3> QED BY <1>4, <3>1, Zenon
  <2> QED BY <1>3, <1>5, <2>1, <2>2, <2>3
<1>7. CASE Idle(rest)
  BY <1>2, <1>7 DEF Idle
<1>8. CASE \E ev \in {"FD_READ", "FD_WRITE", "FD_CLOSE"}, err \in BOOLEAN : PassOn(ev, err, rest)
  <2>1. PICK ev \in {"FD_READ", "FD_WRITE", "FD_CLOSE"}, err \in BOOLEAN : PassOn(ev, err, rest)
    BY <1>8
  <2>2. op' = FALSE /\ msgs' = Append(rest, Owner(ev, err))
    BY <2>1 DEF PassOn
  <2>3. ev \in Events \ {"FD_CONNECT"}
    BY <2>1 DEF Events
  <2> QED BY <1>2, <2>1, <2>2, <2>3
<1> QED BY <1>6, <1>7, <1>8

(* The handlers of the layer while the operation runs. *)
LEMMA LayerBefore ==
    ASSUME HInv, op = TRUE, LayerMessage
    PROVE  Ends(Tail(msgs)) \/ Stays \/ (GivesUp /\ msgs' = Tail(msgs))
<1>1. PICK m : m = Head(msgs)
  OBVIOUS
<1>2. PICK rest : rest = Tail(msgs)
  OBVIOUS
<1>3. \/ Idle(rest) \/ OnReceive(rest) \/ OnSend(rest) \/ OnClose(m.err, rest)
      \/ layer = "connecting" /\ OnConnect(m.err, rest)
  BY <1>1, <1>2 DEF LayerMessage, Expects
<1>4. CASE Idle(rest)
  BY <1>4 DEF Idle, Stays
<1>5. CASE OnReceive(rest)
  BY <1>2, <1>5, ReceiveEnds
<1>6. CASE OnSend(rest)
  BY <1>2, <1>6 DEF OnSend, FailPendingProxyOperation, Idle, PassOn, Ends, Stays
<1>7. CASE layer = "connecting" /\ OnConnect(m.err, rest)
  <2>1. \/ FailReply(rest) \/ op' = op
        \/ opId = "udp" /\ GiveUp(rest)
    BY <1>7 DEF OnConnect, FirstRequest
  <2> QED BY <1>2, <1>7, <2>1 DEF FailReply, Ends, Stays, GiveUp, GivesUp
<1>8. CASE OnClose(m.err, rest)
  BY <1>2, <1>8 DEF OnClose, FailPendingProxyOperation, PassOn, Ends, Stays
<1> QED BY <1>3, <1>4, <1>5, <1>6, <1>7, <1>8

(* What the others put into the queue. *)
LEMMA OthersQueue ==
    ASSUME HInv, OwnerMessage \/ OwnerResume \/ (\E ev \in Events : Notify(ev)) \/ KernelDrain
                 \/ Arrive \/ ProxyReply \/ DestinationWrites \/ ConnectionEnds \/ UNCHANGED vars
    PROVE  /\ op' = op
           /\ \/ msgs' = msgs \/ msgs' = <<>>
              \/ msgs # <<>> /\ msgs' = Tail(msgs)
              \/ msgs # <<>> /\ \E x \in Messages : ~Told(x) /\ msgs' = Append(Tail(msgs), x)
              \/ \E x \in Messages : ~Told(x) /\ msgs' = Append(msgs, x)
<1>1. Owner("FD_READ", FALSE) \in Messages /\ ~Told(Owner("FD_READ", FALSE))
  BY DEF Owner, Messages, Events, Told
<1>2. CASE OwnerMessage
  <2>1. op' = op /\ msgs # <<>>
    BY <1>2 DEF OwnerMessage
  <2>2. \/ msgs' = <<>> \/ msgs' = Tail(msgs)
        \/ msgs' = Append(Tail(msgs), Owner("FD_READ", FALSE))
    BY <1>2 DEF OwnerMessage
  <2> QED BY <1>1, <2>1, <2>2
<1>3. CASE OwnerResume
  <2>1. op' = op
    BY <1>3 DEF OwnerResume
  <2>2. msgs' = msgs \/ msgs' = Append(msgs, Owner("FD_READ", FALSE))
    BY <1>3 DEF OwnerResume
  <2> QED BY <1>1, <2>1, <2>2
<1>4. CASE \E ev \in Events : Notify(ev)
  <2>1. PICK ev \in Events : Notify(ev)
    BY <1>4
  <2>2. op' = op
    BY <2>1 DEF Notify
  <2>3. PICK err \in BOOLEAN : msgs' = Append(msgs, [to |-> "layer", ev |-> ev, err |-> err])
    BY <2>1 DEF Notify
  <2>4. /\ [to |-> "layer", ev |-> ev, err |-> err] \in Messages
        /\ ~Told([to |-> "layer", ev |-> ev, err |-> err])
    BY <2>1, <2>3 DEF Messages, Told
  <2> QED BY <2>2, <2>3, <2>4
<1>5. CASE KernelDrain \/ Arrive \/ ProxyReply \/ DestinationWrites \/ ConnectionEnds
  BY <1>5 DEF KernelDrain, Arrive, ProxyReply, DestinationWrites, ConnectionEnds
<1>6. CASE UNCHANGED vars
  BY <1>6 DEF vars
<1> QED BY <1>2, <1>3, <1>4, <1>5, <1>6

LEMMA QueueTold ==
    ASSUME msgs \in Seq(Messages),
           \/ msgs' = msgs \/ msgs' = <<>>
           \/ msgs # <<>> /\ msgs' = Tail(msgs)
           \/ msgs # <<>> /\ \E x \in Messages : ~Told(x) /\ msgs' = Append(Tail(msgs), x)
           \/ \E x \in Messages : ~Told(x) /\ msgs' = Append(msgs, x)
    PROVE  Outcomes(msgs') <= Outcomes(msgs)
<1>1. PICK q \in Seq(Messages) : q = msgs
  OBVIOUS
<1>2. PICK r : r = msgs'
  OBVIOUS
<1>3. Outcomes(q) \in Nat
  BY <1>1, ToldFinite
<1>4. Outcomes(r) <= Outcomes(q)
  <2>1. CASE r = q
    BY <1>3, <2>1
  <2>2. CASE r = <<>>
    <3>1. r \in Seq(Messages) /\ Len(r) = 0
      BY <2>2, EmptySeq
    <3>2. \A i \in 1..Len(r) : r[i].to = "layer"
      BY <3>1
    <3>3. Outcomes(r) = 0
      BY <3>1, <3>2, NoneTold
    <3> QED BY <1>3, <3>3
  <2>3. CASE q # <<>> /\ r = Tail(q)
    BY <1>1, <2>3, TailTold
  <2>4. CASE q # <<>> /\ \E x \in Messages : ~Told(x) /\ r = Append(Tail(q), x)
    <3>1. PICK x \in Messages : ~Told(x) /\ r = Append(Tail(q), x)
      BY <2>4
    <3>2. Tail(q) \in Seq(Messages) /\ Outcomes(Tail(q)) <= Outcomes(q)
      BY <1>1, <2>4, TailTold
    <3>3. Outcomes(r) = Outcomes(Tail(q))
      BY <3>1, <3>2, AppendTold
    <3> QED BY <3>2, <3>3
  <2>5. CASE \E x \in Messages : ~Told(x) /\ r = Append(q, x)
    <3>1. PICK x \in Messages : ~Told(x) /\ r = Append(q, x)
      BY <2>5
    <3>2. Outcomes(r) = Outcomes(q)
      BY <1>1, <3>1, AppendTold
    <3> QED BY <1>3, <3>2
  <2> QED BY <1>1, <1>2, <2>1, <2>2, <2>3, <2>4, <2>5
<1> QED BY <1>1, <1>2, <1>4, Zenon

LEMMA OutcomeStep ==
    ASSUME HInv, HInv', [Next]_vars
    PROVE  (op /\ ~op' /\ ~GivesUp) <=> Outcomes(msgs') > Outcomes(msgs)
<1>1. /\ op \in BOOLEAN /\ op' \in BOOLEAN /\ msgs \in Seq(Messages) /\ msgs' \in Seq(Messages)
  BY DEF HInv, Bounded, TypeOK
<1>2. Outcomes(msgs) \in Nat /\ Outcomes(msgs') \in Nat
  <2>1. \A ms \in Seq(Messages) : Outcomes(ms) \in Nat
    BY ToldFinite
  <2> QED BY <1>1, <2>1
<1>3. \/ LayerMessage
      \/ OwnerMessage \/ OwnerResume \/ (\E ev \in Events : Notify(ev)) \/ KernelDrain
           \/ Arrive \/ ProxyReply \/ DestinationWrites \/ ConnectionEnds \/ UNCHANGED vars
  BY DEF Next
<1>4. CASE op = TRUE
  <2>1. Outcomes(msgs) = 0
    <3>1. \A i \in 1..Len(msgs) : msgs[i].to = "layer"
      BY <1>4 DEF HInv, Talking, Quiet
    <3> QED BY <1>1, <3>1, NoneTold
  <2>2. CASE op' = TRUE
    <3>1. \A i \in 1..Len(msgs') : msgs'[i].to = "layer"
      BY <2>2 DEF HInv, Talking, Quiet
    <3>2. Outcomes(msgs') = 0
      <4>1. PICK r \in Seq(Messages) : r = msgs'
        BY <1>1
      <4>2. \A i \in 1..Len(r) : r[i].to = "layer"
        BY <3>1, <4>1
      <4>3. Outcomes(r) = 0
        BY <4>1, <4>2, NoneTold
      <4> QED BY <4>1, <4>3, Zenon
    <3> QED BY <2>1, <2>2, <3>2
  <2>3. CASE op' = FALSE
    <3>1. LayerMessage
      BY <1>3, <1>4, <2>3, OthersQueue
    <3>2. Ends(Tail(msgs)) \/ (GivesUp /\ msgs' = Tail(msgs))
      BY <1>4, <2>3, <3>1, LayerBefore DEF Stays
    <3>3. Tail(msgs) \in Seq(Messages) /\ msgs # <<>>
      BY <1>1, <3>1, HeadTailProperties DEF LayerMessage
    <3>4. CASE Ends(Tail(msgs))
      <4>1. Outcomes(msgs') > 0
        BY <1>1, <3>3, <3>4, EndTold
      <4>2. ~GivesUp
        BY <3>4 DEF Ends, Failed, Granted, GivesUp
      <4> QED BY <1>4, <2>1, <2>3, <4>1, <4>2
    <3>5. CASE GivesUp /\ msgs' = Tail(msgs)
      <4>1. Outcomes(msgs') <= Outcomes(msgs)
        BY <1>1, <3>3, <3>5, QueueTold
      <4> QED BY <1>2, <3>5, <4>1
    <3> QED BY <3>2, <3>4, <3>5
  <2> QED BY <1>1, <2>2, <2>3
<1>5. CASE op = FALSE
  <2>1. CASE LayerMessage
    <3>1. /\ \/ msgs' = Tail(msgs)
             \/ \E ev \in Events \ {"FD_CONNECT"}, err \in BOOLEAN :
                   msgs' = Append(Tail(msgs), Owner(ev, err))
    BY <1>5, <2>1, LayerAfter
    <3>2. msgs # <<>>
      BY <2>1 DEF LayerMessage
    <3>3. \A ev \in Events \ {"FD_CONNECT"}, err \in BOOLEAN :
             Owner(ev, err) \in Messages /\ ~Told(Owner(ev, err))
      BY DEF Owner, Messages, Told
    <3>4. \/ msgs' = Tail(msgs)
          \/ \E x \in Messages : ~Told(x) /\ msgs' = Append(Tail(msgs), x)
      BY <3>1, <3>3, Zenon
    <3>5. Outcomes(msgs') <= Outcomes(msgs)
      BY <1>1, <3>2, <3>4, QueueTold
    <3> QED BY <1>2, <1>5, <3>5
  <2>2. CASE ~LayerMessage
    <3>1. Outcomes(msgs') <= Outcomes(msgs)
      BY <1>1, <1>3, <2>2, OthersQueue, QueueTold
    <3> QED BY <1>2, <1>5, <3>1
  <2> QED BY <2>1, <2>2
<1> QED BY <1>1, <1>4, <1>5

(* The owner is told how its operation ended in the step that ends it and in no
   other: no path through OnReceive, OnSend, OnConnect and OnClose reports a second
   outcome after a failure or a success, and only GivesUp, the first request of a
   UDP ASSOCIATE that OnConnect cannot send, ends an operation untold. *)
THEOREM OutcomeTold == Spec => OutcomeOnce
<1>1. Init => HInv
  BY InitHolds
<1>2. HInv /\ [Next]_vars => HInv'
  BY NextHolds
<1>3. HInv /\ HInv' /\ [Next]_vars => [(op /\ ~op' /\ ~GivesUp) <=> Outcomes(msgs') > Outcomes(msgs)]_vars
  BY OutcomeStep
<1> QED BY <1>1, <1>2, <1>3, PTL DEF Spec, OutcomeOnce
=============================================================================
