---------------------- MODULE RdpStreamingParserProofs ----------------------
(***************************************************************************)
(* What RdpStreamingParser and the readers of the client deliver, for      *)
(* every stream of messages and every way of cutting it.                   *)
(***************************************************************************)
EXTENDS FrameReaders, SequenceTheorems, TLAPS

-----------------------------------------------------------------------------
(* Sequences                                                               *)

\* A subsequence, by its elements.
LEMMA Piece ==
    ASSUME NEW S, NEW s \in Seq(S), NEW p \in Nat, NEW n \in Nat, p + n <= Len(s)
    PROVE  /\ SubSeq(s, p + 1, p + n) \in Seq(S)
           /\ Len(SubSeq(s, p + 1, p + n)) = n
           /\ \A i \in 1 .. n : SubSeq(s, p + 1, p + n)[i] = s[p + i]
  OBVIOUS

LEMMA Pieces ==
    ASSUME NEW S, NEW s \in Seq(S), NEW i \in 1 .. Len(s) + 1, NEW j \in 0 .. Len(s)
    PROVE  SubSeq(s, i, j) \in Seq(S)
  OBVIOUS

\* Two sequences one after the other, by their elements
LEMMA Joined ==
    ASSUME NEW S, NEW s \in Seq(S), NEW t \in Seq(S)
    PROVE  /\ s \o t \in Seq(S) /\ Len(s) \in Nat /\ Len(t) \in Nat
           /\ Len(s \o t) = Len(s) + Len(t)
           /\ \A i \in 1 .. Len(s) : (s \o t)[i] = s[i]
           /\ \A i \in 1 .. Len(t) : (s \o t)[Len(s) + i] = t[i]
  <1> DEFINE g == s \o t
  <1>1. Len(s) \in Nat /\ Len(t) \in Nat
    OBVIOUS
  <1>2. /\ g \in Seq(S) /\ Len(g) = Len(s) + Len(t)
        /\ \A i \in 1 .. Len(s) + Len(t) : g[i] = IF i <= Len(s) THEN s[i] ELSE t[i - Len(s)]
    BY ConcatProperties
  <1> HIDE DEF g
  <1>3. \A i \in 1 .. Len(s) : g[i] = s[i]
    BY <1>1, <1>2
  <1>4. \A i \in 1 .. Len(t) : g[Len(s) + i] = t[i]
    <2> TAKE i \in 1 .. Len(t)
    <2>1. /\ Len(s) + i \in 1 .. Len(s) + Len(t) /\ ~(Len(s) + i <= Len(s))
          /\ (Len(s) + i) - Len(s) = i
      BY <1>1
    <2> QED
      BY <1>2, <2>1
  <1> QED
    BY <1>1, <1>2, <1>3, <1>4 DEF g
-----------------------------------------------------------------------------
(* The header                                                              *)

\* A number is its quotient by Base and the remainder.
LEMMA DivMod ==
    ASSUME NEW n \in Nat
    PROVE  /\ n \div Base \in Nat /\ n % Base \in Byte
           /\ n = (n % Base) + Base * (n \div Base)
  BY BaseAssumption, SMT DEF Byte

LEMMA Quotient ==
    ASSUME NEW n \in Nat, NEW c \in Nat, n < Base * c
    PROVE  n \div Base < c
  <1> DEFINE q == n \div Base
  <1>1. q \in Nat /\ n = (n % Base) + Base * q /\ n % Base \in Nat
    BY DivMod DEF Byte
  <1> HIDE DEF q
  <1>2. SUFFICES ASSUME q >= c PROVE FALSE
    BY <1>1 DEF q
  <1>3. Base * q >= Base * c
    BY <1>1, <1>2, BaseAssumption, SMT
  <1>4. Base * q <= n
    BY <1>1, BaseAssumption, SMT
  <1> QED
    BY <1>1, <1>3, <1>4, BaseAssumption, SMT

\* The four bytes of a length are bytes, and read back they give the length.
LEMMA HeaderRoundTrip ==
    ASSUME NEW n \in 0 .. MaxLen
    PROVE  /\ Header(n) \in Seq(Byte) /\ Len(Header(n)) = HeaderSize
           /\ PayloadLength(Header(n)) = n
  <1> DEFINE q1 == n \div Base
             q2 == q1 \div Base
             q3 == q2 \div Base
  <1>1. n \in Nat /\ n < Base * (Base * (Base * Base))
    BY LenAssumption, BaseAssumption, SMT
  <1>2. q1 \in Nat /\ n % Base \in Byte /\ n = (n % Base) + Base * q1
    BY <1>1, DivMod
  <1>3. q1 < Base * (Base * Base)
    BY <1>1, Quotient, BaseAssumption
  <1> HIDE DEF q1
  <1>4. q2 \in Nat /\ q1 % Base \in Byte /\ q1 = (q1 % Base) + Base * q2
    BY <1>2, DivMod
  <1>5. q2 < Base * Base
    BY <1>2, <1>3, Quotient, BaseAssumption
  <1> HIDE DEF q2
  <1>6. q3 \in Nat /\ q2 % Base \in Byte /\ q2 = (q2 % Base) + Base * q3
    BY <1>4, DivMod
  <1>7. q3 < Base
    BY <1>4, <1>5, Quotient, BaseAssumption
  <1>8. q3 \in Byte
    BY <1>6, <1>7, BaseAssumption DEF Byte
  <1> HIDE DEF q3
  <1>9. Header(n) = <<n % Base, q1 % Base, q2 % Base, q3>>
    BY DEF Header, q1, q2, q3
  <1>10. PayloadLength(Header(n)) = n
    BY <1>2, <1>4, <1>6, <1>9 DEF PayloadLength
  <1> QED
    BY <1>2, <1>4, <1>6, <1>8, <1>9, <1>10 DEF HeaderSize
-----------------------------------------------------------------------------
(* The inductive invariant                                                 *)

\* Where message k begins, e being where the messages end
Start(e, k) == IF k = 1 THEN 0 ELSE e[k - 1]

\* The stream begins with the messages sent before the first short send, one
\* after the other, and is nothing else while there was none.
FrameEnds ==
    /\ \A k \in 1 .. Len(msgs) : /\ Len(msgs[k]) <= MaxLen
                                 /\ ends[k] = Start(ends, k) + 4 + Len(msgs[k])
                                 /\ ends[k] <= Len(stream)
    /\ \A k \in 1 .. Len(msgs) : \A j \in 1 .. k : ends[j] <= ends[k]
    /\ lost = 0 => Len(stream) = Start(ends, Len(msgs) + 1)

FrameBytes ==
    \A k \in 1 .. Len(msgs) :
        /\ \A i \in 1 .. 4 : stream[Start(ends, k) + i] = Header(Len(msgs[k]))[i]
        /\ \A i \in 1 .. Len(msgs[k]) : stream[Start(ends, k) + 4 + i] = msgs[k][i]

\* What the buffers hold, whatever the stream is
InHeader ==
    m_Stage = "Header" => Len(m_HeaderBuffer) < 4 /\ m_BodyBuffer = <<>>

BodyRoom ==
    m_Stage = "Body" =>
        /\ Len(m_HeaderBuffer) = 4
        /\ Len(m_BodyBuffer) < PayloadLength(m_HeaderBuffer)
        /\ PayloadLength(m_HeaderBuffer) <= m_BodySize

\* The parser has not come to the place of a short send.
Sound == lost = 0 \/ Len(out) < Len(msgs)

\* Then its buffers hold the beginning of the message after the last one
\* delivered.
InMessage ==
    LET start == Start(ends, Len(out) + 1)
    IN  /\ parsed = start + Len(m_HeaderBuffer) + Len(m_BodyBuffer)
        /\ \A i \in 1 .. Len(m_HeaderBuffer) : m_HeaderBuffer[i] = stream[start + i]
        /\ \A i \in 1 .. Len(m_BodyBuffer) : m_BodyBuffer[i] = stream[start + 4 + i]

InBody ==
    m_Stage = "Body" =>
        /\ Len(out) < Len(msgs)
        /\ PayloadLength(m_HeaderBuffer) = Len(msgs[Len(out) + 1])

Inv ==
    /\ ParserTypeOK /\ StreamTypeOK
    /\ FrameEnds /\ FrameBytes
    /\ DeliversMessages
    /\ InHeader /\ BodyRoom
    /\ Sound => InMessage /\ InBody

LEMMA InvInit == Init => Inv
  BY BaseAssumption, LenAssumption
  DEF Init, Inv, ParserTypeOK, StreamTypeOK, FrameEnds, FrameBytes, DeliversMessages,
      InMessage, InHeader, BodyRoom, InBody, Start, Byte

\* What the invariant says of the numbers in it
LEMMA Numbers ==
    ASSUME Inv
    PROVE  /\ Len(msgs) \in Nat /\ Len(stream) \in Nat /\ Len(ends) = Len(msgs)
           /\ MaxLen \in Nat /\ m_BodySize \in Nat /\ lost \in Nat
           /\ received \in 0 .. Len(stream) /\ parsed \in 0 .. received
           /\ Len(out) \in Nat
           /\ Len(m_HeaderBuffer) \in Nat /\ Len(m_BodyBuffer) \in Nat
           /\ \A k \in 1 .. Len(msgs) : ends[k] \in Nat /\ Len(msgs[k]) \in Nat
           /\ \A k \in 1 .. Len(msgs) + 1 : Start(ends, k) \in 0 .. Len(stream)
  <1>1. /\ Len(msgs) \in Nat /\ Len(stream) \in Nat /\ Len(ends) = Len(msgs)
        /\ MaxLen \in Nat /\ m_BodySize \in Nat /\ lost \in Nat
        /\ received \in 0 .. Len(stream) /\ parsed \in 0 .. received
        /\ Len(out) \in Nat
        /\ Len(m_HeaderBuffer) \in Nat /\ Len(m_BodyBuffer) \in Nat
    BY LenAssumption DEF Inv, StreamTypeOK, ParserTypeOK
  <1>2. \A k \in 1 .. Len(msgs) : ends[k] \in Nat /\ Len(msgs[k]) \in Nat
    BY <1>1 DEF Inv, StreamTypeOK
  <1>3. \A k \in 1 .. Len(msgs) : ends[k] <= Len(stream)
    BY DEF Inv, FrameEnds
  <1>4. \A k \in 1 .. Len(msgs) + 1 : Start(ends, k) \in 0 .. Len(stream)
    BY <1>1, <1>2, <1>3 DEF Start
  <1> QED
    BY <1>1, <1>2, <1>4

\* Up to the short send the messages delivered are those that were sent.
LEMMA SoundDelivered ==
    ASSUME Inv, Sound
    PROVE  Len(out) \in 0 .. Len(msgs) /\ \A k \in 1 .. Len(out) : out[k] = msgs[k]
  <1>1. Len(out) \in Nat /\ Len(msgs) \in Nat
    BY Numbers
  <1>2. Len(out) <= Len(msgs)
    BY <1>1 DEF Inv, Sound, DeliversMessages
  <1>3. \A k \in 1 .. Len(msgs) : k <= Len(out) => out[k] = msgs[k]
    BY DEF Inv, DeliversMessages
  <1> QED
    BY <1>1, <1>2, <1>3

\* What is appended by Send
LEMMA MessageBytes ==
    ASSUME NEW m \in Messages
    PROVE  m \in Seq(Byte) /\ Len(m) \in 0 .. MaxLen
  <1>1. PICK n \in 0 .. MaxLen : m \in [1 .. n -> Payload]
    BY DEF Messages
  <1>2. m \in [1 .. n -> Byte] /\ n \in Nat
    <2>1. Payload \subseteq Byte
      BY PayloadAssumption DEF Byte
    <2>2. n \in Nat
      BY LenAssumption
    <2> QED
      BY <1>1, <2>1, <2>2
  <1>3. m \in Seq(Byte)
    BY <1>2
  <1>4. Len(m) = n
    BY <1>2, <1>3
  <1> QED
    BY <1>3, <1>4

\* After a whole Send the stream is what it was, a header and the message.
LEMMA SendStream ==
    ASSUME Inv, NEW m \in Messages, SendWhole(m)
    PROVE  /\ stream' \in Seq(Byte) /\ Len(stream') = Len(stream) + 4 + Len(m)
           /\ \A i \in 1 .. Len(stream) : stream'[i] = stream[i]
           /\ \A i \in 1 .. 4 : stream'[Len(stream) + i] = Header(Len(m))[i]
           /\ \A i \in 1 .. Len(m) : stream'[Len(stream) + 4 + i] = m[i]
  <1> DEFINE h == Header(Len(m))
             sh == stream \o h
             t == sh \o m
  <1>1. m \in Seq(Byte) /\ h \in Seq(Byte) /\ stream \in Seq(Byte)
    BY MessageBytes, HeaderRoundTrip DEF Inv, StreamTypeOK
  <1>2. Len(h) = 4
    BY MessageBytes, HeaderRoundTrip DEF HeaderSize
  <1>3. stream' = t
    BY DEF SendWhole
  <1> HIDE DEF h
  <1>0. sh \in Seq(Byte)
    BY <1>1
  <1>4. /\ Len(stream) \in Nat /\ Len(m) \in Nat /\ Len(h) \in Nat
        /\ Len(sh) = Len(stream) + Len(h)
    BY <1>1
  <1>5. \A i \in 1 .. Len(stream) : sh[i] = stream[i]
    BY <1>1
  <1>6. \A i \in 1 .. Len(h) : sh[Len(stream) + i] = h[i]
    BY <1>1
  <1> HIDE DEF sh
  <1>7. t \in Seq(Byte) /\ Len(t) = Len(sh) + Len(m)
    BY <1>1, <1>0
  <1>8. \A i \in 1 .. Len(sh) : t[i] = sh[i]
    BY <1>1, <1>0
  <1>9. \A i \in 1 .. Len(m) : t[Len(sh) + i] = m[i]
    BY <1>1, <1>0
  <1> HIDE DEF t
  <1>10. \A i \in 1 .. Len(stream) : t[i] = stream[i]
    BY <1>2, <1>4, <1>5, <1>8
  <1>11. \A i \in 1 .. 4 : t[Len(stream) + i] = h[i]
    BY <1>2, <1>4, <1>6, <1>8
  <1>12. \A i \in 1 .. Len(m) : t[Len(stream) + 4 + i] = m[i]
    BY <1>2, <1>4, <1>9
  <1>13. Len(t) = Len(stream) + 4 + Len(m)
    BY <1>2, <1>4, <1>7
  <1> QED
    BY <1>3, <1>7, <1>10, <1>11, <1>12, <1>13 DEF h

LEMMA InvSendWhole ==
    ASSUME Inv, NEW m \in Messages, SendWhole(m)
    PROVE  Inv'
  <1> DEFINE N == Len(msgs)
             L == Len(stream)
             H == Len(m_HeaderBuffer)
             B == Len(m_BodyBuffer)
             K == Len(out)
             S == Start(ends, K + 1)
             M == Len(m)
  <1>0. lost = 0 /\ lost' = 0 /\ Sound /\ InMessage /\ InBody
    BY DEF SendWhole, Sound, Inv
  <1>1. /\ N \in Nat /\ L \in Nat /\ MaxLen \in Nat /\ parsed \in 0 .. L
        /\ K \in 0 .. N /\ H \in Nat /\ B \in Nat
    BY <1>0, Numbers, SoundDelivered
  <1>2. \A k \in 1 .. N : ends[k] \in Nat /\ Len(msgs[k]) \in Nat
    BY Numbers
  <1>3. \A k \in 1 .. N + 1 : Start(ends, k) \in 0 .. L
    BY Numbers
  <1>4. m \in Seq(Byte)
    BY MessageBytes
  <1>5. M \in 0 .. MaxLen
    BY MessageBytes
  <1>6. /\ Len(stream') = L + 4 + M
        /\ \A i \in 1 .. L : stream'[i] = stream[i]
        /\ \A i \in 1 .. 4 : stream'[L + i] = Header(M)[i]
        /\ \A i \in 1 .. M : stream'[L + 4 + i] = m[i]
    BY SendStream
  <1>7. msgs \in Seq(Seq(Byte)) /\ msgs' = Append(msgs, m)
    BY DEF Inv, StreamTypeOK, SendWhole
  <1>8. /\ Len(msgs') = N + 1
        /\ \A k \in 1 .. N : msgs'[k] = msgs[k]
        /\ msgs'[N + 1] = m
    BY <1>4, <1>7
  <1>9. /\ ends \in Seq(Nat) /\ Len(ends) = N
        /\ ends' = Append(ends, L + 4 + M) /\ L + 4 + M \in Nat
    BY <1>1, <1>5 DEF Inv, StreamTypeOK, SendWhole, HeaderSize
  <1>10. /\ Len(ends') = N + 1
         /\ \A k \in 1 .. N : ends'[k] = ends[k]
         /\ ends'[N + 1] = L + 4 + M
    BY <1>9
  <1>11. UNCHANGED <<m_Stage, m_HeaderBuffer, m_BodyBuffer, m_BodySize, parsed, out, received>>
    BY DEF SendWhole, parser
  <1>12. L = Start(ends, N + 1)
    BY <1>0 DEF Inv, FrameEnds
  <1>13. \A k \in 1 .. N : /\ Len(msgs[k]) <= MaxLen
                          /\ ends[k] = Start(ends, k) + 4 + Len(msgs[k])
                          /\ ends[k] <= L
    BY DEF Inv, FrameEnds
  <1>14. \A k \in 1 .. N : \A j \in 1 .. k : ends[j] <= ends[k]
    BY DEF Inv, FrameEnds
  <1>15. \A k \in 1 .. N :
            /\ \A i \in 1 .. 4 : stream[Start(ends, k) + i] = Header(Len(msgs[k]))[i]
            /\ \A i \in 1 .. Len(msgs[k]) : stream[Start(ends, k) + 4 + i] = msgs[k][i]
    BY DEF Inv, FrameBytes
  <1>16. /\ parsed = S + H + B
         /\ \A i \in 1 .. H : m_HeaderBuffer[i] = stream[S + i]
         /\ \A i \in 1 .. B : m_BodyBuffer[i] = stream[S + 4 + i]
    BY <1>0 DEF InMessage
  <1>17. B = 0 \/ H = 4
    BY DEF Inv, InHeader, BodyRoom, ParserTypeOK
  <1>18. InHeader' /\ BodyRoom'
    BY <1>11 DEF Inv, InHeader, BodyRoom
  <1>19. ParserTypeOK'
    BY <1>11 DEF Inv, ParserTypeOK
  <1>20. StreamTypeOK'
    <2>1. msgs' \in Seq(Seq(Byte)) /\ ends' \in Seq(Nat) /\ stream' \in Seq(Byte)
      BY <1>4, <1>7, <1>9, SendStream
    <2>2. received \in 0 .. L /\ parsed \in 0 .. received
      BY Numbers
    <2> HIDE DEF N, L, M
    <2>3. received' \in 0 .. Len(stream') /\ parsed' \in 0 .. received'
      BY <1>1, <1>5, <1>6, <1>11, <2>2
    <2> QED
      BY <1>0, <1>8, <1>10, <2>1, <2>3 DEF StreamTypeOK
  <1>21. K <= N /\ \A k \in 1 .. K : out[k] = msgs[k]
    BY <1>0, SoundDelivered
  <1>22. m_Stage = "Body" => K < N /\ PayloadLength(m_HeaderBuffer) = Len(msgs[K + 1])
    BY <1>0 DEF InBody
  <1>23. Len(out') = K /\ Len(m_HeaderBuffer') = H /\ Len(m_BodyBuffer') = B
    BY <1>11
  <1>24. S \in Nat
    BY <1>1, <1>3
  <1> HIDE DEF N, L, H, B, K, S, M
  <1>25. DeliversMessages'
    <2>1. \A k \in 1 .. K : out'[k] = msgs'[k]
      BY <1>1, <1>8, <1>11, <1>21
    <2> QED
      BY <1>1, <1>8, <1>23, <2>1 DEF DeliversMessages
  <1>26. InBody'
    <2> SUFFICES ASSUME m_Stage = "Body" PROVE InBody'
      BY <1>11 DEF InBody
    <2>1. msgs'[K + 1] = msgs[K + 1]
      BY <1>1, <1>8, <1>22
    <2> QED
      BY <1>1, <1>8, <1>11, <1>22, <1>23, <2>1 DEF InBody
  <1>27. \A k \in 1 .. N + 1 : Start(ends', k) = Start(ends, k)
    BY <1>1, <1>10 DEF Start
  <1>28. Start(ends', N + 2) = L + 4 + M
    BY <1>1, <1>10 DEF Start
  <1>29. FrameEnds'
    <2>1. ASSUME NEW k \in 1 .. N + 1
          PROVE  /\ Len(msgs'[k]) <= MaxLen
                 /\ ends'[k] = Start(ends', k) + 4 + Len(msgs'[k])
                 /\ ends'[k] <= Len(stream')
      <3>1. CASE k = N + 1
        <4>1. Start(ends', k) = L /\ Len(msgs'[k]) = M /\ ends'[k] = L + 4 + M
          BY <1>1, <1>8, <1>10, <1>12, <1>27, <3>1 DEF M
        <4> QED
          BY <1>1, <1>5, <1>6, <4>1
      <3>2. CASE k \in 1 .. N
        <4>1. /\ Start(ends', k) = Start(ends, k) /\ msgs'[k] = msgs[k]
              /\ ends'[k] = ends[k]
          BY <1>1, <1>8, <1>10, <1>27, <3>2
        <4>2. /\ Len(msgs[k]) <= MaxLen /\ ends[k] = Start(ends, k) + 4 + Len(msgs[k])
              /\ ends[k] <= L /\ ends[k] \in Nat
          BY <1>2, <1>13, <3>2
        <4>3. ends[k] <= Len(stream')
          BY <1>1, <1>5, <1>6, <4>2
        <4> QED
          BY <4>1, <4>2, <4>3
      <3> QED
        BY <1>1, <3>1, <3>2
    <2>2. ASSUME NEW k \in 1 .. N + 1, NEW j \in 1 .. k
          PROVE  ends'[j] <= ends'[k]
      <3>1. CASE k \in 1 .. N
        BY <1>1, <1>10, <1>14, <3>1
      <3>2. CASE k = N + 1 /\ j \in 1 .. N
        <4>1. ends'[j] = ends[j] /\ ends[j] <= L /\ ends[j] \in Nat
          BY <1>2, <1>10, <1>13, <3>2
        <4> QED
          BY <1>1, <1>5, <1>10, <3>2, <4>1
      <3>3. CASE k = N + 1 /\ j = N + 1
        BY <1>1, <1>5, <1>10, <3>3
      <3> QED
        BY <1>1, <3>1, <3>2, <3>3
    <2>3. Len(stream') = Start(ends', Len(msgs') + 1)
      BY <1>1, <1>6, <1>8, <1>28
    <2> QED
      BY <1>8, <2>1, <2>2, <2>3 DEF FrameEnds
  <1>30. FrameBytes'
    <2> SUFFICES ASSUME NEW k \in 1 .. N + 1
                 PROVE  /\ \A i \in 1 .. 4 :
                              stream'[Start(ends', k) + i] = Header(Len(msgs'[k]))[i]
                        /\ \A i \in 1 .. Len(msgs'[k]) :
                              stream'[Start(ends', k) + 4 + i] = msgs'[k][i]
      BY <1>8 DEF FrameBytes
    <2>1. CASE k = N + 1
      <3>1. Start(ends', k) = L /\ msgs'[k] = m /\ Len(m) = M
        BY <1>1, <1>8, <1>12, <1>27, <2>1 DEF M
      <3> QED
        BY <1>6, <3>1
    <2>2. CASE k \in 1 .. N
      <3> DEFINE s == Start(ends, k)
                 c == Len(msgs[k])
      <3>1. Start(ends', k) = s /\ msgs'[k] = msgs[k]
        BY <1>1, <1>8, <1>27, <2>2
      <3>2. s \in Nat /\ c \in Nat /\ s + 4 + c <= L
        <4>1. s \in 0 .. L
          BY <1>1, <1>3, <2>2
        <4>2. c \in Nat
          BY <1>2, <2>2
        <4>3. ends[k] = s + 4 + c /\ ends[k] <= L
          BY <1>13, <2>2
        <4> QED
          BY <1>1, <4>1, <4>2, <4>3
      <3>3. /\ \A i \in 1 .. 4 : stream[s + i] = Header(c)[i]
            /\ \A i \in 1 .. c : stream[s + 4 + i] = msgs[k][i]
        BY <1>15, <2>2
      <3> HIDE DEF s, c
      <3>4. \A i \in 1 .. 4 : stream'[s + i] = stream[s + i]
        BY <1>1, <1>6, <3>2
      <3>5. \A i \in 1 .. c : stream'[s + 4 + i] = stream[s + 4 + i]
        BY <1>1, <1>6, <3>2
      <3> QED
        BY <3>1, <3>3, <3>4, <3>5 DEF c
    <2> QED
      BY <1>1, <2>1, <2>2
  <1>31. InMessage'
    <2>1. Start(ends', K + 1) = S
      BY <1>1, <1>27 DEF S
    <2>2. \A i \in 1 .. H : m_HeaderBuffer[i] = stream'[S + i]
      <3> TAKE i \in 1 .. H
      <3>1. S + i \in 1 .. L
        BY <1>1, <1>16, <1>24
      <3> QED
        BY <1>6, <1>16, <3>1
    <2>3. \A i \in 1 .. B : m_BodyBuffer[i] = stream'[S + 4 + i]
      <3> TAKE i \in 1 .. B
      <3>1. S + 4 + i \in 1 .. L
        <4> HIDE DEF S, B, H, L
        <4> QED
          BY <1>1, <1>16, <1>17, <1>24
      <3>2. stream'[S + 4 + i] = stream[S + 4 + i]
        BY <1>6, <3>1
      <3> QED
        BY <1>16, <3>2
    <2> QED
      BY <1>11, <1>16, <1>23, <2>1, <2>2, <2>3 DEF InMessage
  <1> QED
    BY <1>18, <1>19, <1>20, <1>25, <1>26, <1>29, <1>30, <1>31 DEF Inv

LEMMA InvSendShort ==
    ASSUME Inv, NEW m \in Messages, NEW h \in 0 .. HeaderSize, NEW b \in 0 .. Len(m),
           SendShort(m, h, b)
    PROVE  Inv'
  <1> DEFINE N == Len(msgs)
             L == Len(stream)
             H == Len(m_HeaderBuffer)
             B == Len(m_BodyBuffer)
             K == Len(out)
             S == Start(ends, K + 1)
             t == SubSeq(Header(Len(m)), 1, h) \o SubSeq(m, 1, b)
  <1>1. /\ N \in Nat /\ L \in Nat /\ K \in Nat /\ H \in Nat /\ B \in Nat /\ lost \in Nat
        /\ received \in 0 .. L /\ parsed \in 0 .. received
    BY Numbers
  <1>2. /\ \A k \in 1 .. N : ends[k] \in Nat /\ Len(msgs[k]) \in Nat
        /\ \A k \in 1 .. N + 1 : Start(ends, k) \in 0 .. L
    BY Numbers
  <1>3. t \in Seq(Byte)
    <2>1. m \in Seq(Byte) /\ Header(Len(m)) \in Seq(Byte) /\ Len(Header(Len(m))) = 4
      BY MessageBytes, HeaderRoundTrip DEF HeaderSize
    <2>2. SubSeq(Header(Len(m)), 1, h) \in Seq(Byte)
      <3>1. h \in 0 .. Len(Header(Len(m))) /\ 1 \in 1 .. Len(Header(Len(m))) + 1
        BY <2>1 DEF HeaderSize
      <3> QED
        BY <2>1, <3>1, Pieces
    <2>3. SubSeq(m, 1, b) \in Seq(Byte)
      <3>1. Len(m) \in Nat /\ 1 \in 1 .. Len(m) + 1
        BY <2>1
      <3> QED
        BY <2>1, <3>1, Pieces
    <2> QED
      BY <2>2, <2>3
  <1>4. /\ stream' = stream \o t /\ lost' = lost + 1
        /\ UNCHANGED <<msgs, ends, m_Stage, m_HeaderBuffer, m_BodyBuffer, m_BodySize,
                       parsed, out, received>>
    BY DEF SendShort, parser
  <1> HIDE DEF t
  <1>5. /\ stream' \in Seq(Byte) /\ Len(stream') \in Nat /\ L <= Len(stream')
        /\ \A i \in 1 .. L : stream'[i] = stream[i]
    <2>1. stream \in Seq(Byte)
      BY DEF Inv, StreamTypeOK
    <2>2. stream' \in Seq(Byte) /\ Len(t) \in Nat /\ Len(stream') = L + Len(t)
      BY <1>3, <1>4, <2>1, Joined
    <2>3. \A i \in 1 .. L : stream'[i] = stream[i]
      BY <1>3, <1>4, <2>1, Joined
    <2> QED
      BY <1>1, <2>2, <2>3
  <1>6. ParserTypeOK' /\ StreamTypeOK' /\ InHeader' /\ BodyRoom'
    <2>1. ParserTypeOK' /\ InHeader' /\ BodyRoom'
      BY <1>4 DEF Inv, ParserTypeOK, InHeader, BodyRoom
    <2>2. received' \in 0 .. Len(stream') /\ parsed' \in 0 .. received' /\ lost' \in Nat
      BY <1>1, <1>4, <1>5
    <2> QED
      BY <1>4, <1>5, <2>1, <2>2 DEF Inv, StreamTypeOK
  <1>7. DeliversMessages'
    BY <1>1, <1>4 DEF Inv, DeliversMessages
  <1>8. \A k \in 1 .. N : /\ Len(msgs[k]) <= MaxLen
                         /\ ends[k] = Start(ends, k) + 4 + Len(msgs[k])
                         /\ ends[k] <= L
    BY DEF Inv, FrameEnds
  <1>9. FrameEnds'
    <2>1. \A k \in 1 .. N : ends[k] <= Len(stream')
      BY <1>1, <1>2, <1>5, <1>8
    <2>2. \A k \in 1 .. N : \A j \in 1 .. k : ends[j] <= ends[k]
      BY DEF Inv, FrameEnds
    <2>3. lost' # 0
      BY <1>1, <1>4
    <2> QED
      BY <1>4, <1>8, <2>1, <2>2, <2>3 DEF FrameEnds, Start
  <1>10. FrameBytes'
    <2> SUFFICES ASSUME NEW k \in 1 .. N
                 PROVE  /\ \A i \in 1 .. 4 :
                              stream'[Start(ends, k) + i] = Header(Len(msgs[k]))[i]
                        /\ \A i \in 1 .. Len(msgs[k]) :
                              stream'[Start(ends, k) + 4 + i] = msgs[k][i]
      BY <1>4 DEF FrameBytes, Start
    <2> DEFINE s == Start(ends, k)
               c == Len(msgs[k])
    <2>1. s \in Nat /\ c \in Nat /\ s + 4 + c <= L
      BY <1>1, <1>2, <1>8
    <2>2. /\ \A i \in 1 .. 4 : stream[s + i] = Header(c)[i]
          /\ \A i \in 1 .. c : stream[s + 4 + i] = msgs[k][i]
      BY DEF Inv, FrameBytes
    <2> HIDE DEF s, c, L
    <2>3. \A i \in 1 .. 4 : stream'[s + i] = stream[s + i]
      BY <1>1, <1>5, <2>1
    <2>4. \A i \in 1 .. c : stream'[s + 4 + i] = stream[s + 4 + i]
      BY <1>1, <1>5, <2>1
    <2> QED
      BY <2>2, <2>3, <2>4 DEF s, c
  <1>11. ASSUME Sound' PROVE InMessage' /\ InBody'
    <2>1. K < N /\ Sound
      BY <1>1, <1>4, <1>11 DEF Sound
    <2>2. InMessage /\ InBody
      BY <2>1 DEF Inv
    <2>3. InBody'
      BY <1>4, <2>2 DEF InBody
    <2>4. S \in Nat
      BY <1>1, <1>2, <2>1
    <2>5. /\ parsed = S + H + B
          /\ \A i \in 1 .. H : m_HeaderBuffer[i] = stream[S + i]
          /\ \A i \in 1 .. B : m_BodyBuffer[i] = stream[S + 4 + i]
      BY <2>2 DEF InMessage
    <2>6. B = 0 \/ H = 4
      BY DEF Inv, InHeader, BodyRoom, ParserTypeOK
    <2>7. Start(ends', Len(out') + 1) = S /\ Len(m_HeaderBuffer') = H /\ Len(m_BodyBuffer') = B
      BY <1>4
    <2> HIDE DEF S, H, B, L
    <2>8. \A i \in 1 .. H : m_HeaderBuffer[i] = stream'[S + i]
      BY <1>1, <1>5, <2>4, <2>5
    <2>9. \A i \in 1 .. B : m_BodyBuffer[i] = stream'[S + 4 + i]
      BY <1>1, <1>5, <2>4, <2>5, <2>6
    <2> QED
      BY <1>4, <2>3, <2>5, <2>7, <2>8, <2>9 DEF InMessage
  <1> QED
    BY <1>6, <1>7, <1>9, <1>10, <1>11 DEF Inv

\* A buffer after AppendFrom(pData, n)
LEMMA Glue ==
    ASSUME Inv, NEW buf \in Seq(Byte), NEW n \in Nat, parsed + n <= Len(stream)
    PROVE  /\ buf \o Data(n) \in Seq(Byte) /\ Len(buf) \in Nat
           /\ Len(buf \o Data(n)) = Len(buf) + n
           /\ \A i \in 1 .. Len(buf) : (buf \o Data(n))[i] = buf[i]
           /\ \A i \in 1 .. n : (buf \o Data(n))[Len(buf) + i] = stream[parsed + i]
  <1> DEFINE d == Data(n)
             g == buf \o d
  <1>1. stream \in Seq(Byte) /\ parsed \in Nat
    <2>1. stream \in Seq(Byte)
      BY DEF Inv, StreamTypeOK
    <2>2. parsed \in Nat
      BY Numbers
    <2> QED
      BY <2>1, <2>2
  <1>2. d \in Seq(Byte)
    BY <1>1, Piece DEF Data
  <1>3. Len(d) = n
    BY <1>1, Piece DEF Data
  <1>4. \A i \in 1 .. n : d[i] = stream[parsed + i]
    BY <1>1, Piece DEF Data
  <1> HIDE DEF d
  <1>5. g \in Seq(Byte) /\ Len(buf) \in Nat /\ Len(g) = Len(buf) + Len(d)
    BY <1>2
  <1>6. \A i \in 1 .. Len(buf) : g[i] = buf[i]
    BY <1>2
  <1>7. \A i \in 1 .. Len(d) : g[Len(buf) + i] = d[i]
    BY <1>2
  <1> HIDE DEF g
  <1>8. \A i \in 1 .. n : g[Len(buf) + i] = stream[parsed + i]
    BY <1>3, <1>4, <1>7
  <1> QED
    BY <1>3, <1>5, <1>6, <1>8 DEF g, d

\* A length is a number whatever the bytes are.
LEMMA PayloadLengthNat ==
    ASSUME NEW h, h[1] \in Nat, h[2] \in Nat, h[3] \in Nat, h[4] \in Nat
    PROVE  PayloadLength(h) \in Nat
  <1>1. \A x, y \in Nat : x + Base * y \in Nat
    <2>1. Base \in Nat
      BY BaseAssumption
    <2> QED
      BY <2>1
  <1>2. h[3] + Base * h[4] \in Nat
    BY <1>1
  <1>3. h[2] + Base * (h[3] + Base * h[4]) \in Nat
    BY <1>1, <1>2
  <1>4. h[1] + Base * (h[2] + Base * (h[3] + Base * h[4])) \in Nat
    BY <1>1, <1>3
  <1> QED
    BY <1>4 DEF PayloadLength

LEMMA LengthNat ==
    ASSUME NEW h \in Seq(Byte), Len(h) = 4
    PROVE  PayloadLength(h) \in Nat
  <1>1. \A x \in Byte : x \in Nat
    BY BaseAssumption DEF Byte
  <1>2. h[1] \in Byte /\ h[2] \in Byte /\ h[3] \in Byte /\ h[4] \in Byte
    OBVIOUS
  <1> QED
    BY <1>1, <1>2, PayloadLengthNat

\* What a turn of the loop does, on any stream
Turned ==
    /\ ParserTypeOK' /\ StreamTypeOK' /\ FrameEnds' /\ FrameBytes' /\ InHeader' /\ BodyRoom'
    /\ UNCHANGED <<msgs, lost>>
    /\ Len(out) <= Len(out') /\ \A k \in 1 .. Len(out) : out'[k] = out[k]

\* Once the parser has come to the place of a short send it stays beyond it.
LEMMA Adrift ==
    ASSUME Inv, ~Sound, Turned
    PROVE  Inv'
  <1>1. Len(msgs) \in Nat /\ Len(out) \in Nat /\ lost \in Nat
    BY Numbers
  <1>2. Len(out') \in Nat
    BY DEF Turned, ParserTypeOK
  <1>3. lost # 0 /\ Len(msgs) <= Len(out)
    BY <1>1 DEF Sound
  <1>4. msgs' = msgs /\ lost' = lost /\ Len(out) <= Len(out') /\ \A k \in 1 .. Len(out) : out'[k] = out[k]
    BY DEF Turned
  <1>5. ~Sound'
    BY <1>1, <1>2, <1>3, <1>4 DEF Sound
  <1>6. \A k \in 1 .. Len(msgs) : out'[k] = msgs[k]
    <2> TAKE k \in 1 .. Len(msgs)
    <2>1. k \in 1 .. Len(out) /\ k <= Len(out)
      BY <1>1, <1>3
    <2>2. out[k] = msgs[k]
      BY <2>1 DEF Inv, DeliversMessages
    <2> QED
      BY <1>4, <2>1, <2>2
  <1>7. DeliversMessages'
    BY <1>3, <1>4, <1>6 DEF DeliversMessages
  <1> QED
    BY <1>5, <1>7 DEF Inv, Turned

LEMMA HeaderTurn ==
    ASSUME Inv, HeaderPart
    PROVE  Turned
  <1> DEFINE H == Len(m_HeaderBuffer)
             n == Min2(received - parsed, 4 - H)
             header == m_HeaderBuffer \o Data(n)
             c == PayloadLength(header)
  <1>1. /\ H \in Nat /\ Len(stream) \in Nat /\ m_BodySize \in Nat
        /\ received \in 0 .. Len(stream) /\ parsed \in 0 .. received /\ parsed < received
    BY Numbers DEF HeaderPart
  <1>2. m_Stage = "Header" /\ H < 4 /\ m_BodyBuffer = <<>>
    BY DEF Inv, InHeader, HeaderPart
  <1>3. n \in 1 .. 4 /\ parsed + n <= received /\ H + n <= 4
    <2> HIDE DEF H
    <2> QED
      BY <1>1, <1>2 DEF Min2
  <1>4. header \in Seq(Byte) /\ Len(header) = H + n
    <2>1. m_HeaderBuffer \in Seq(Byte)
      BY DEF Inv, ParserTypeOK
    <2>2. n \in Nat /\ parsed + n <= Len(stream)
      BY <1>1, <1>3
    <2> QED
      BY <2>1, <2>2, Glue
  <1>5. /\ parsed' = parsed + n
        /\ \/ Len(header) = 4 /\ HeaderDone(header)
           \/ /\ Len(header) # 4
              /\ m_HeaderBuffer' = header
              /\ UNCHANGED <<m_Stage, m_BodyBuffer, m_BodySize, out>>
        /\ UNCHANGED <<stream, msgs, ends, lost, received>>
    BY DEF HeaderPart, HeaderSize, sender
  <1>6. StreamTypeOK' /\ FrameEnds' /\ FrameBytes'
    <2>1. parsed' \in 0 .. received'
      BY <1>1, <1>3, <1>5
    <2> QED
      BY <1>5, <2>1 DEF Inv, StreamTypeOK, FrameEnds, FrameBytes, Start
  <1>7. out \in Seq(Seq(Byte)) /\ <<>> \in Seq(Byte)
    BY DEF Inv, ParserTypeOK
  <1> HIDE DEF header, n
  <1>8. CASE Len(header) # 4
    <2>1. m_HeaderBuffer' = header /\ UNCHANGED <<m_Stage, m_BodyBuffer, m_BodySize, out>>
      BY <1>5, <1>8
    <2>2. Len(header) < 4
      <3> HIDE DEF H
      <3> QED
        BY <1>1, <1>3, <1>4, <1>8
    <2>3. ParserTypeOK' /\ InHeader' /\ BodyRoom'
      BY <1>2, <1>4, <2>1, <2>2 DEF Inv, ParserTypeOK, InHeader, BodyRoom
    <2>4. Len(out) <= Len(out')
      BY <1>7, <2>1
    <2> QED
      BY <1>5, <1>6, <2>1, <2>3, <2>4 DEF Turned
  <1>9. CASE Len(header) = 4
    <2>1. c \in Nat
      BY <1>4, <1>9, LengthNat
    <2> HIDE DEF c
    <2>2. HeaderDone(header)
      BY <1>5, <1>9
    <2>3. CASE c = 0
      <3>1. OnMessageParsed(<<>>) /\ m_BodySize' = m_BodySize
        BY <2>2, <2>3 DEF HeaderDone, c
      <3>2. /\ m_Stage' = "Header" /\ m_HeaderBuffer' = <<>> /\ m_BodyBuffer' = <<>>
            /\ out' = Append(out, <<>>)
        BY <3>1 DEF OnMessageParsed
      <3>3. /\ out' \in Seq(Seq(Byte)) /\ Len(out') = Len(out) + 1 /\ Len(out) \in Nat
            /\ \A k \in 1 .. Len(out) : out'[k] = out[k]
        BY <1>7, <3>2
      <3>4. ParserTypeOK' /\ InHeader' /\ BodyRoom'
        BY <1>1, <3>1, <3>2, <3>3 DEF ParserTypeOK, InHeader, BodyRoom
      <3> QED
        BY <1>5, <1>6, <3>3, <3>4 DEF Turned
    <2>4. CASE c # 0
      <3>1. /\ m_Stage' = "Body" /\ m_HeaderBuffer' = header /\ m_BodyBuffer' = <<>>
            /\ m_BodySize' = IF c > m_BodySize THEN c ELSE m_BodySize
            /\ out' = out
        BY <2>2, <2>4 DEF HeaderDone, c
      <3>2. m_BodySize' \in Nat /\ c <= m_BodySize' /\ Len(m_BodyBuffer') = 0 /\ 0 < c
        BY <1>1, <2>1, <2>4, <3>1
      <3>3. ParserTypeOK' /\ InHeader'
        BY <1>4, <1>7, <3>1, <3>2 DEF ParserTypeOK, InHeader
      <3>4. BodyRoom'
        BY <1>9, <3>1, <3>2 DEF BodyRoom, c
      <3>5. Len(out) <= Len(out')
        BY <1>7, <3>1
      <3> QED
        BY <1>5, <1>6, <3>1, <3>3, <3>4, <3>5 DEF Turned
    <2> QED
      BY <2>3, <2>4
  <1> QED
    BY <1>8, <1>9

LEMMA BodyTurn ==
    ASSUME Inv, BodyPart
    PROVE  Turned
  <1> DEFINE B == Len(m_BodyBuffer)
             c == PayloadLength(m_HeaderBuffer)
             n == Min2(received - parsed, c - B)
             body == m_BodyBuffer \o Data(n)
  <1>1. /\ B \in Nat /\ Len(stream) \in Nat /\ m_BodySize \in Nat
        /\ received \in 0 .. Len(stream) /\ parsed \in 0 .. received /\ parsed < received
    BY Numbers DEF BodyPart
  <1>2. m_Stage = "Body" /\ Len(m_HeaderBuffer) = 4 /\ B < c /\ c <= m_BodySize
    BY DEF Inv, BodyRoom, BodyPart
  <1>3. c \in Nat
    <2>1. m_HeaderBuffer \in Seq(Byte)
      BY DEF Inv, ParserTypeOK
    <2> QED
      BY <1>2, <2>1, LengthNat
  <1>4. n \in Nat /\ n >= 1 /\ parsed + n <= received /\ B + n <= c
    <2> HIDE DEF B, c
    <2> QED
      BY <1>1, <1>2, <1>3 DEF Min2
  <1>5. body \in Seq(Byte) /\ Len(body) = B + n
    <2>1. m_BodyBuffer \in Seq(Byte)
      BY DEF Inv, ParserTypeOK
    <2>2. parsed + n <= Len(stream)
      BY <1>1, <1>4
    <2> QED
      BY <1>4, <2>1, <2>2, Glue
  <1>6. /\ parsed' = parsed + n
        /\ \/ Len(body) = c /\ OnMessageParsed(body)
           \/ /\ Len(body) # c
              /\ m_BodyBuffer' = body
              /\ UNCHANGED <<m_Stage, m_HeaderBuffer, out>>
        /\ UNCHANGED <<stream, msgs, ends, lost, received, m_BodySize>>
    BY DEF BodyPart, sender
  <1>7. StreamTypeOK' /\ FrameEnds' /\ FrameBytes'
    <2>1. parsed' \in 0 .. received'
      BY <1>1, <1>4, <1>6
    <2> QED
      BY <1>6, <2>1 DEF Inv, StreamTypeOK, FrameEnds, FrameBytes, Start
  <1>8. out \in Seq(Seq(Byte)) /\ <<>> \in Seq(Byte)
    BY DEF Inv, ParserTypeOK
  <1> HIDE DEF body, n
  <1>9. CASE Len(body) # c
    <2>1. m_BodyBuffer' = body /\ UNCHANGED <<m_Stage, m_HeaderBuffer, out>>
      BY <1>6, <1>9
    <2>2. Len(body) < c
      <3> HIDE DEF B, c
      <3> QED
        BY <1>1, <1>3, <1>4, <1>5, <1>9
    <2>3. ParserTypeOK' /\ InHeader'
      BY <1>2, <1>5, <1>6, <2>1 DEF Inv, ParserTypeOK, InHeader
    <2>4. BodyRoom'
      BY <1>2, <1>6, <2>1, <2>2 DEF BodyRoom
    <2>5. Len(out) <= Len(out')
      BY <1>8, <2>1
    <2> QED
      BY <1>6, <1>7, <2>1, <2>3, <2>4, <2>5 DEF Turned
  <1>10. CASE Len(body) = c
    <2>1. /\ m_Stage' = "Header" /\ m_HeaderBuffer' = <<>> /\ m_BodyBuffer' = <<>>
          /\ out' = Append(out, body)
      BY <1>6, <1>10 DEF OnMessageParsed
    <2>2. /\ out' \in Seq(Seq(Byte)) /\ Len(out') = Len(out) + 1 /\ Len(out) \in Nat
          /\ \A k \in 1 .. Len(out) : out'[k] = out[k]
      BY <1>5, <1>8, <2>1
    <2>3. ParserTypeOK' /\ InHeader' /\ BodyRoom'
      BY <1>1, <1>6, <2>1, <2>2 DEF ParserTypeOK, InHeader, BodyRoom
    <2> QED
      BY <1>6, <1>7, <2>2, <2>3 DEF Turned
  <1> QED
    BY <1>9, <1>10

\* Both parts of the loop end a message in the same way.
LEMMA Delivered ==
    ASSUME Inv, Len(out) < Len(msgs), OnMessageParsed(msgs[Len(out) + 1]),
           UNCHANGED sender, parsed' = ends[Len(out) + 1]
    PROVE  DeliversMessages' /\ InMessage' /\ InBody'
  <1> DEFINE K == Len(out)
             N == Len(msgs)
  <1>1. /\ K \in Nat /\ N \in Nat /\ K < N
    BY Numbers
  <1>2. /\ m_Stage' = "Header" /\ m_HeaderBuffer' = <<>> /\ m_BodyBuffer' = <<>>
        /\ out' = Append(out, msgs[K + 1])
    BY DEF OnMessageParsed
  <1>3. out \in Seq(Seq(Byte)) /\ msgs \in Seq(Seq(Byte)) /\ msgs[K + 1] \in Seq(Byte)
    BY <1>1 DEF Inv, ParserTypeOK, StreamTypeOK
  <1>4. /\ Len(out') = K + 1 /\ out'[K + 1] = msgs[K + 1]
        /\ \A k \in 1 .. K : out'[k] = out[k]
    BY <1>2, <1>3
  <1>6. UNCHANGED <<stream, msgs, ends>>
    BY DEF sender
  <1>7. ends[K + 1] \in Nat
    BY <1>1, Numbers
  <1>11. \A k \in 1 .. K : out[k] = msgs[k]
    BY SoundDelivered DEF Sound
  <1>12. DeliversMessages'
    <2> HIDE DEF K, N
    <2>1. \A k \in 1 .. K + 1 : out'[k] = msgs[k]
      BY <1>1, <1>4, <1>11
    <2> QED
      BY <1>1, <1>4, <1>6, <2>1 DEF DeliversMessages, N
  <1>13. InMessage'
    <2>1. Start(ends', Len(out') + 1) = ends[K + 1]
      <3> HIDE DEF K
      <3> QED
        BY <1>1, <1>4, <1>6 DEF Start
    <2>2. parsed' = ends[K + 1]
      OBVIOUS
    <2> HIDE DEF K
    <2> QED
      BY <1>2, <1>7, <2>1, <2>2 DEF InMessage
  <1>14. InBody'
    BY <1>2 DEF InBody
  <1> QED
    BY <1>12, <1>13, <1>14

LEMMA InvProcess ==
    ASSUME Inv, NEW n \in 1 .. Len(stream), Process(n)
    PROVE  Inv'
  <1>1. UNCHANGED <<m_Stage, m_HeaderBuffer, m_BodyBuffer, m_BodySize, parsed, out,
                    stream, msgs, ends, lost>>
    BY DEF Process, parser, sender
  <1>2. received' \in 0 .. Len(stream) /\ parsed \in 0 .. received'
    <2>1. received \in 0 .. Len(stream) /\ parsed \in 0 .. received /\ Len(stream) \in Nat
      BY Numbers
    <2>2. received' = received + n /\ n \in 1 .. Len(stream) - received
      BY DEF Process
    <2> QED
      BY <2>1, <2>2
  <1>3. StreamTypeOK'
    BY <1>1, <1>2 DEF Inv, StreamTypeOK
  <1>4. FrameEnds' /\ FrameBytes' /\ (InMessage => InMessage')
    BY <1>1 DEF Inv, FrameEnds, FrameBytes, InMessage, Start
  <1> QED
    BY <1>1, <1>3, <1>4 DEF Inv, ParserTypeOK, DeliversMessages, InHeader, BodyRoom, Sound, InBody

\* What it does where no short send has disturbed the stream
LEMMA HeaderSound ==
    ASSUME Inv, Sound, HeaderPart
    PROVE  DeliversMessages' /\ InMessage' /\ InBody'
  <1> DEFINE H == Len(m_HeaderBuffer)
             K == Len(out)
             N == Len(msgs)
             L == Len(stream)
             S == Start(ends, K + 1)
             n == Min2(received - parsed, 4 - H)
             header == m_HeaderBuffer \o Data(n)
             c == Len(msgs[K + 1])
  <1>1. /\ H \in Nat /\ K \in 0 .. N /\ N \in Nat /\ L \in Nat /\ MaxLen \in Nat
        /\ received \in 0 .. L /\ parsed \in 0 .. received /\ parsed < received
    BY Numbers, SoundDelivered DEF HeaderPart
  <1>2. m_Stage = "Header" /\ H < 4 /\ m_BodyBuffer = <<>> /\ Len(m_BodyBuffer) = 0
    BY DEF Inv, InHeader, HeaderPart
  <1>3. /\ parsed = S + H /\ S \in Nat
        /\ \A i \in 1 .. H : m_HeaderBuffer[i] = stream[S + i]
    <2>1. S \in Nat
      BY <1>1, Numbers
    <2> QED
      BY <1>1, <1>2, <2>1 DEF Inv, InMessage
  <1>4. n \in 1 .. 4 /\ parsed + n <= received /\ H + n <= 4
    <2> HIDE DEF H
    <2> QED
      BY <1>1, <1>2 DEF Min2
  <1>5. /\ header \in Seq(Byte)
        /\ Len(header) = H + n
        /\ \A i \in 1 .. H : header[i] = m_HeaderBuffer[i]
        /\ \A i \in 1 .. n : header[H + i] = stream[parsed + i]
    <2>1. m_HeaderBuffer \in Seq(Byte)
      BY DEF Inv, ParserTypeOK
    <2>2. n \in Nat /\ parsed + n <= Len(stream)
      BY <1>1, <1>4
    <2> QED
      BY <2>1, <2>2, Glue
  <1>6. /\ parsed' = parsed + n
        /\ \/ Len(header) = 4 /\ HeaderDone(header)
           \/ /\ Len(header) # 4
              /\ m_HeaderBuffer' = header
              /\ UNCHANGED <<m_Stage, m_BodyBuffer, m_BodySize, out>>
        /\ UNCHANGED <<stream, msgs, ends, lost>>
    BY DEF HeaderPart, HeaderSize, sender
  <1>7. K = N => S = L
    BY <1>1 DEF Inv, FrameEnds, Sound
  <1> HIDE DEF header, n
  <1>10. \A i \in 1 .. H + n : header[i] = stream[S + i]
    <2> HIDE DEF H, S
    <2> TAKE i \in 1 .. H + n
    <2>1. CASE i \in 1 .. H
      BY <1>3, <1>5, <2>1
    <2>2. CASE i \in H + 1 .. H + n
      <3> DEFINE j == i - H
      <3>1. j \in 1 .. n /\ i = H + j /\ parsed + j = S + i
        BY <1>1, <1>3, <1>4, <2>2
      <3> HIDE DEF j
      <3> QED
        BY <1>5, <3>1
    <2> QED
      BY <1>1, <1>4, <2>1, <2>2
  <1>11. CASE Len(header) # 4
    <2>1. m_HeaderBuffer' = header /\ UNCHANGED <<m_Stage, m_BodyBuffer, m_BodySize, out>>
      BY <1>6, <1>11
    <2>3. Len(m_HeaderBuffer') = H + n /\ Len(m_BodyBuffer') = 0 /\ H + n < 4
      <3> HIDE DEF H
      <3> QED
        BY <1>1, <1>2, <1>4, <1>5, <1>11, <2>1
    <2>4. InMessage'
      <3>1. Start(ends', Len(out') + 1) = S
        BY <1>6, <2>1
      <3> HIDE DEF H, S
      <3>2. parsed' = S + Len(m_HeaderBuffer') + Len(m_BodyBuffer')
        BY <1>1, <1>3, <1>4, <1>6, <2>3
      <3>3. \A i \in 1 .. Len(m_HeaderBuffer') : m_HeaderBuffer'[i] = stream'[S + i]
        BY <1>6, <1>10, <2>1, <2>3
      <3>4. \A i \in 1 .. Len(m_BodyBuffer') : m_BodyBuffer'[i] = stream'[S + 4 + i]
        BY <2>3
      <3> QED
        BY <3>1, <3>2, <3>3, <3>4 DEF InMessage
    <2>5. InBody'
      BY <1>2, <2>1 DEF InBody
    <2>6. DeliversMessages'
      BY <1>6, <2>1 DEF Inv, DeliversMessages
    <2> QED
      BY <2>4, <2>5, <2>6
  <1>12. CASE Len(header) = 4
    <2>1. H + n = 4 /\ parsed' = S + 4 /\ S + 4 <= received
      <3>1. H + n = 4
        BY <1>5, <1>12
      <3>2. parsed' = parsed + n
        BY <1>6
      <3>3. parsed = S + H /\ S \in Nat
        BY <1>3
      <3> HIDE DEF H, S
      <3> QED
        BY <1>1, <1>4, <3>1, <3>2, <3>3
    <2>2. K < N /\ K + 1 \in 1 .. N
      <3> HIDE DEF K, N, S, L
      <3> QED
        BY <1>1, <1>3, <1>7, <2>1
    <2>3. c \in 0 .. MaxLen /\ ends[K + 1] = S + 4 + c
      <3>1. c \in Nat
        BY <2>2, Numbers
      <3> QED
        BY <1>1, <2>2, <3>1 DEF Inv, FrameEnds
    <2>4. PayloadLength(header) = c
      <3>1. \A i \in 1 .. 4 : stream[S + i] = Header(c)[i]
        BY <2>2 DEF Inv, FrameBytes
      <3>2. \A i \in 1 .. 4 : header[i] = Header(c)[i]
        <4> HIDE DEF H, S, c
        <4> QED
          BY <1>10, <2>1, <3>1
      <3>3. PayloadLength(header) = PayloadLength(Header(c))
        <4> HIDE DEF c
        <4> QED
          BY <3>2 DEF PayloadLength
      <3> QED
        BY <2>3, <3>3, HeaderRoundTrip
    <2>5. HeaderDone(header)
      BY <1>6, <1>12
    <2>6. CASE c = 0
      <3>1. OnMessageParsed(<<>>) /\ m_BodySize' = m_BodySize
        BY <2>4, <2>5, <2>6 DEF HeaderDone
      <3>2. msgs[K + 1] = <<>>
        <4>1. msgs[K + 1] \in Seq(Byte)
          BY <2>2 DEF Inv, StreamTypeOK
        <4> QED
          BY <2>6, <4>1
      <3>3. parsed' = ends[K + 1]
        <4> HIDE DEF S
        <4> QED
          BY <1>3, <2>1, <2>3, <2>6
      <3> QED
        BY <1>6, <2>2, <3>1, <3>2, <3>3, Delivered DEF sender
    <2>7. CASE c # 0
      <3>1. /\ m_Stage' = "Body" /\ m_HeaderBuffer' = header /\ m_BodyBuffer' = <<>>
            /\ m_BodySize' = IF c > m_BodySize THEN c ELSE m_BodySize
            /\ out' = out
        BY <2>4, <2>5, <2>7 DEF HeaderDone
      <3>4. Len(m_HeaderBuffer') = 4 /\ Len(m_BodyBuffer') = 0
        BY <1>12, <3>1
      <3>5. InMessage'
        <4>1. Start(ends', Len(out') + 1) = S
          BY <1>6, <3>1
        <4> HIDE DEF H, S
        <4>2. parsed' = S + Len(m_HeaderBuffer') + Len(m_BodyBuffer')
          BY <1>3, <2>1, <3>4
        <4>3. \A i \in 1 .. Len(m_HeaderBuffer') : m_HeaderBuffer'[i] = stream'[S + i]
          BY <1>6, <1>10, <2>1, <3>1, <3>4
        <4>4. \A i \in 1 .. Len(m_BodyBuffer') : m_BodyBuffer'[i] = stream'[S + 4 + i]
          BY <3>4
        <4> QED
          BY <4>1, <4>2, <4>3, <4>4 DEF InMessage
      <3>7. InBody'
        <4>1. Len(out') = K /\ Len(msgs') = N /\ Len(msgs'[K + 1]) = c
          BY <1>6, <3>1
        <4>2. PayloadLength(m_HeaderBuffer') = c
          BY <2>4, <3>1
        <4> HIDE DEF K, N, c
        <4> QED
          BY <2>2, <4>1, <4>2 DEF InBody
      <3>8. DeliversMessages'
        BY <1>6, <3>1 DEF Inv, DeliversMessages
      <3> QED
        BY <3>5, <3>7, <3>8
    <2> QED
      BY <2>6, <2>7
  <1> QED
    BY <1>11, <1>12

LEMMA InvHeaderPart ==
    ASSUME Inv, HeaderPart
    PROVE  Inv'
  <1>1. Turned
    BY HeaderTurn
  <1>2. CASE Sound
    BY <1>1, <1>2, HeaderSound DEF Inv, Turned
  <1>3. CASE ~Sound
    BY <1>1, <1>3, Adrift
  <1> QED
    BY <1>2, <1>3

LEMMA BodySound ==
    ASSUME Inv, Sound, BodyPart
    PROVE  DeliversMessages' /\ InMessage' /\ InBody'
  <1> DEFINE B == Len(m_BodyBuffer)
             K == Len(out)
             N == Len(msgs)
             S == Start(ends, K + 1)
             c == Len(msgs[K + 1])
             n == Min2(received - parsed, c - B)
             body == m_BodyBuffer \o Data(n)
  <1>1. /\ B \in Nat /\ K \in 0 .. N /\ N \in Nat /\ MaxLen \in Nat
        /\ Len(stream) \in Nat /\ received \in 0 .. Len(stream)
        /\ parsed \in 0 .. received /\ parsed < received
    BY Numbers, SoundDelivered DEF BodyPart
  <1>2. /\ m_Stage = "Body" /\ Len(m_HeaderBuffer) = 4 /\ K < N
        /\ PayloadLength(m_HeaderBuffer) = c /\ B < c
    BY DEF Inv, BodyRoom, InBody, BodyPart
  <1>3. K + 1 \in 1 .. N /\ c \in Nat
    <2>1. K + 1 \in 1 .. N
      BY <1>1, <1>2
    <2> QED
      BY <2>1, Numbers
  <1>4. /\ parsed = S + 4 + B /\ S \in Nat
        /\ \A i \in 1 .. 4 : m_HeaderBuffer[i] = stream[S + i]
        /\ \A i \in 1 .. B : m_BodyBuffer[i] = stream[S + 4 + i]
    <2>1. S \in Nat
      BY <1>1, Numbers
    <2> QED
      BY <1>2, <2>1 DEF Inv, InMessage
  <1>5. n \in Nat /\ n >= 1 /\ parsed + n <= received /\ B + n <= c
    <2> HIDE DEF B, c
    <2> QED
      BY <1>1, <1>2, <1>3 DEF Min2
  <1>6. /\ body \in Seq(Byte)
        /\ Len(body) = B + n
        /\ \A i \in 1 .. B : body[i] = m_BodyBuffer[i]
        /\ \A i \in 1 .. n : body[B + i] = stream[parsed + i]
    <2>1. m_BodyBuffer \in Seq(Byte)
      BY DEF Inv, ParserTypeOK
    <2>2. parsed + n <= Len(stream)
      BY <1>1, <1>5
    <2> QED
      BY <1>5, <2>1, <2>2, Glue
  <1>7. /\ parsed' = parsed + n
        /\ \/ Len(body) = c /\ OnMessageParsed(body)
           \/ /\ Len(body) # c
              /\ m_BodyBuffer' = body
              /\ UNCHANGED <<m_Stage, m_HeaderBuffer, out>>
        /\ UNCHANGED <<stream, msgs, ends, lost>>
    <2>1. n = Min2(received - parsed, PayloadLength(m_HeaderBuffer) - Len(m_BodyBuffer))
      BY <1>2
    <2> HIDE DEF n
    <2> QED
      BY <1>2, <2>1 DEF BodyPart, sender
  <1> HIDE DEF body, n
  <1>10. \A i \in 1 .. B + n : body[i] = stream[S + 4 + i]
    <2> HIDE DEF B, S
    <2> TAKE i \in 1 .. B + n
    <2>1. CASE i \in 1 .. B
      BY <1>4, <1>6, <2>1
    <2>2. CASE i \in B + 1 .. B + n
      <3> DEFINE j == i - B
      <3>1. j \in 1 .. n /\ i = B + j /\ parsed + j = S + 4 + i
        BY <1>1, <1>4, <1>5, <2>2
      <3> HIDE DEF j
      <3> QED
        BY <1>6, <3>1
    <2> QED
      BY <1>1, <1>5, <2>1, <2>2
  <1>11. CASE Len(body) # c
    <2>1. m_BodyBuffer' = body /\ UNCHANGED <<m_Stage, m_HeaderBuffer, out>>
      BY <1>7, <1>11
    <2>3. /\ Len(m_BodyBuffer') = B + n /\ B + n < c /\ Len(m_HeaderBuffer') = 4
      <3> HIDE DEF B, c
      <3> QED
        BY <1>1, <1>2, <1>3, <1>5, <1>6, <1>11, <2>1
    <2>4. InMessage'
      <3>1. Start(ends', Len(out') + 1) = S
        BY <1>7, <2>1
      <3> HIDE DEF B, S
      <3>2. parsed' = S + Len(m_HeaderBuffer') + Len(m_BodyBuffer')
        <4>1. parsed' = parsed + n
          BY <1>7
        <4>2. parsed = S + 4 + B /\ S \in Nat
          BY <1>4
        <4>3. parsed' = S + 4 + (B + n)
          BY <1>1, <1>5, <4>1, <4>2
        <4> QED
          BY <2>3, <4>3
      <3>3. \A i \in 1 .. Len(m_HeaderBuffer') : m_HeaderBuffer'[i] = stream'[S + i]
        BY <1>4, <1>7, <2>1, <2>3
      <3>4. \A i \in 1 .. Len(m_BodyBuffer') : m_BodyBuffer'[i] = stream'[S + 4 + i]
        BY <1>7, <1>10, <2>1, <2>3
      <3> QED
        BY <3>1, <3>2, <3>3, <3>4 DEF InMessage
    <2>6. InBody'
      <3>1. Len(out') = K /\ Len(msgs') = N /\ Len(msgs'[K + 1]) = c
        BY <1>7, <2>1
      <3>2. PayloadLength(m_HeaderBuffer') = c
        BY <1>2, <2>1
      <3> HIDE DEF K, N, c
      <3> QED
        BY <1>2, <3>1, <3>2 DEF InBody
    <2>7. DeliversMessages'
      BY <1>7, <2>1 DEF Inv, DeliversMessages
    <2> QED
      BY <2>4, <2>6, <2>7
  <1>12. CASE Len(body) = c
    <2>1. OnMessageParsed(body) /\ B + n = c
      BY <1>6, <1>7, <1>12
    <2>2. /\ \A i \in 1 .. c : stream[S + 4 + i] = msgs[K + 1][i]
          /\ ends[K + 1] = S + 4 + c
      BY <1>3 DEF Inv, FrameBytes, FrameEnds
    <2>3. body = msgs[K + 1]
      <3>1. msgs[K + 1] \in Seq(Byte)
        BY <1>3 DEF Inv, StreamTypeOK
      <3>2. \A i \in 1 .. c : body[i] = msgs[K + 1][i]
        <4> HIDE DEF B, S, c
        <4> QED
          BY <1>10, <2>1, <2>2
      <3> QED
        BY <1>6, <1>12, <3>1, <3>2, SeqEqual
    <2>4. parsed' = ends[K + 1]
      <3>1. parsed' = parsed + n
        BY <1>7
      <3>2. parsed = S + 4 + B
        BY <1>4
      <3>3. B \in Nat /\ n \in Nat /\ S \in Nat
        BY <1>1, <1>4, <1>5
      <3>4. B + n = c /\ ends[K + 1] = S + 4 + c
        BY <2>1, <2>2
      <3> HIDE DEF B, K, S, c
      <3> QED
        BY <3>1, <3>2, <3>3, <3>4
    <2>5. Len(out) < Len(msgs)
      BY <1>2
    <2>6. OnMessageParsed(msgs[Len(out) + 1])
      BY <2>1, <2>3
    <2>7. UNCHANGED sender
      BY DEF BodyPart
    <2>8. parsed' = ends[Len(out) + 1]
      BY <2>4
    <2> HIDE DEF B, K, N, S, c, n, body
    <2> QED
      BY <2>5, <2>6, <2>7, <2>8, Delivered
  <1> QED
    BY <1>11, <1>12

LEMMA InvBodyPart ==
    ASSUME Inv, BodyPart
    PROVE  Inv'
  <1>1. Turned
    BY BodyTurn
  <1>2. CASE Sound
    BY <1>1, <1>2, BodySound DEF Inv, Turned
  <1>3. CASE ~Sound
    BY <1>1, <1>3, Adrift
  <1> QED
    BY <1>2, <1>3
-----------------------------------------------------------------------------
(* Theorems                                                                *)

LEMMA InvNext == Inv /\ [Next]_vars => Inv'
  <1> SUFFICES ASSUME Inv, [Next]_vars PROVE Inv'
    OBVIOUS
  <1>1. ASSUME NEW m \in Messages, Send(m) PROVE Inv'
    BY <1>1, InvSendWhole, InvSendShort DEF Send
  <1>2. ASSUME NEW n \in 1 .. Len(stream), Process(n) PROVE Inv'
    BY <1>2, InvProcess
  <1>3. CASE HeaderPart
    BY <1>3, InvHeaderPart
  <1>4. CASE BodyPart
    BY <1>4, InvBodyPart
  <1>5. CASE UNCHANGED vars
    BY <1>5 DEF vars, parser, sender, Inv, ParserTypeOK, StreamTypeOK, FrameEnds,
                FrameBytes, DeliversMessages, InHeader, BodyRoom, Sound, InMessage, InBody, Start
  <1> QED
    BY <1>1, <1>2, <1>3, <1>4, <1>5 DEF Next

\* Inv, which ties the buffers of Process to the place in the stream, is
\* invariant.
THEOREM Invariance == Spec => []Inv
  BY InvInit, InvNext, PTL DEF Spec

LEMMA InvTypes == Inv => TypeOK
  <1> SUFFICES ASSUME Inv PROVE TypeOK
    OBVIOUS
  <1>1. ParserTypeOK /\ StreamTypeOK
    BY DEF Inv
  <1>2. CASE m_Stage = "Header"
    <2>1. Len(m_HeaderBuffer) < 4 /\ Len(m_BodyBuffer) = 0
      BY <1>2 DEF Inv, InHeader
    <2> QED
      BY <1>1, <2>1, Numbers DEF TypeOK, HeaderSize
  <1>3. CASE m_Stage = "Body"
    <2> DEFINE c == PayloadLength(m_HeaderBuffer)
    <2>1. Len(m_HeaderBuffer) = 4 /\ Len(m_BodyBuffer) < c /\ c <= m_BodySize
      BY <1>3 DEF Inv, BodyRoom
    <2>2. c \in Nat
      BY <1>1, <2>1, LengthNat DEF ParserTypeOK
    <2> HIDE DEF c
    <2> QED
      BY <1>1, <2>1, <2>2, Numbers DEF TypeOK, HeaderSize
  <1> QED
    BY <1>1, <1>2, <1>3 DEF ParserTypeOK

LEMMA InvDelivers == Inv => DeliversMessages
  BY DEF Inv

LEMMA InvKeepsNothing == Inv => NothingHeldBack
  <1> SUFFICES ASSUME Inv, parsed = received,
                      NEW k \in 1 .. Len(msgs), ends[k] <= received,
                      k > Len(out)
               PROVE  FALSE
    BY Numbers DEF NothingHeldBack
  <1> DEFINE K == Len(out)
             N == Len(msgs)
             H == Len(m_HeaderBuffer)
             B == Len(m_BodyBuffer)
             S == Start(ends, K + 1)
             c == Len(msgs[K + 1])
  <1>1. K \in Nat /\ N \in Nat /\ k \in 1 .. N /\ K < k /\ K + 1 \in 1 .. k /\ K + 1 \in 1 .. N
    BY Numbers
  <1>2. ends[K + 1] <= ends[k] /\ ends[K + 1] = S + 4 + c
    BY <1>1 DEF Inv, FrameEnds
  <1>3. /\ ends[k] \in Nat /\ c \in Nat /\ S \in Nat /\ H \in Nat /\ B \in Nat
        /\ parsed \in Nat
    BY <1>1, Numbers
  <1>4. parsed = S + H + B /\ InBody
    <2>1. Sound
      BY <1>1 DEF Sound
    <2> QED
      BY <2>1 DEF Inv, InMessage
  <1>5. H + B < 4 + c
    <2>1. CASE m_Stage = "Header"
      <3>1. H < 4 /\ B = 0
        BY <2>1 DEF Inv, InHeader
      <3> HIDE DEF H, B, c
      <3> QED
        BY <1>3, <3>1
    <2>2. CASE m_Stage = "Body"
      <3>1. H = 4 /\ B < c
        BY <1>4, <2>2 DEF Inv, BodyRoom, InBody
      <3> HIDE DEF H, B, c
      <3> QED
        BY <1>3, <3>1
    <2> QED
      BY <2>1, <2>2 DEF Inv, ParserTypeOK
  <1>6. ends[k] <= parsed
    OBVIOUS
  <1> HIDE DEF K, N, H, B, S, c
  <1> QED
    BY <1>2, <1>3, <1>4, <1>5, <1>6

\* The buffers of the parser always have the room for what AppendFrom adds, also
\* on a stream that a short send has put out of step.
THEOREM ParserTypes == Spec => []TypeOK
  BY InvTypes, Invariance, PTL

\* However the stream is cut, Process hands over the messages that were sent, in
\* order and unaltered, up to the first of which the socket took only a part, for
\* every base, length and number of messages.
THEOREM Delivery == Spec => []DeliversMessages
  BY InvDelivers, Invariance, PTL

\* When Process returns, no message that was received to its end is left in
\* the buffers, of those sent before the first short send.
THEOREM NothingKept == Spec => []NothingHeldBack
  BY InvKeepsNothing, Invariance, PTL
-----------------------------------------------------------------------------
(* The readers of the client                                               *)

\* What precedes the bytes of a frame
Lead == IF kind = "audio" THEN 4 ELSE 0

ReaderTypes ==
    /\ kind \in {"parser", "fixed", "audio"}
    /\ rd \in [pc : {"size", "frame", "ended", "overrun"}, size : Nat,
               buf : Seq(Byte), short : Nat]
    /\ gone \in Nat /\ frames \in Seq(Seq(Byte)) /\ got \in Seq(Seq(Byte))
    /\ wire \in Seq(Byte) /\ at \in 0 .. Len(wire)

KindOK ==
    /\ kind = "parser" => rd.pc = "frame" /\ frames = <<>> /\ got = <<>>
    /\ kind = "fixed" => /\ rd.pc \in {"frame", "ended"} /\ rd.size = FrameSize /\ rd.short = 0
                         /\ \A k \in 1 .. Len(frames) : Len(frames[k]) = FrameSize

\* The stream begins with the frames, one after the other, and is nothing else
\* while no byte was lost; e says where each one ends
Laid(e) ==
    /\ e \in Seq(Nat) /\ Len(e) = Len(frames)
    /\ gone = 0 => Len(wire) = Start(e, Len(frames) + 1)
    /\ \A k \in 1 .. Len(frames) :
          /\ Len(frames[k]) <= MaxLen
          /\ e[k] = Start(e, k) + Lead + Len(frames[k]) /\ e[k] <= Len(wire)

LaidBytes(e) ==
    \A k \in 1 .. Len(frames) :
        /\ \A i \in 1 .. Lead : wire[Start(e, k) + i] = Header(Len(frames[k]))[i]
        /\ \A i \in 1 .. Len(frames[k]) : wire[Start(e, k) + Lead + i] = frames[k][i]

\* The frame whose size came first in pieces was the one after the last handed
\* over.
ShortOK == rd.short <= Len(got) + 1 /\ (gone = 0 => rd.short <= Len(frames) + 1)

GotSure == \A k \in 1 .. Len(got) : Sure(k) => got[k] = frames[k]

\* The reader has not come to a place where it falls out of step.
Straight == rd.short = 0 /\ (gone = 0 \/ Len(got) < Len(frames))

\* Then it is inside the frame after the last one it handed over, which fills
\* more than its buffer if it has written past that.
AtSize(e) == rd.pc = "size" => at = Start(e, Len(got) + 1)

InFrame(e) ==
    rd.pc = "frame" =>
        LET start == Start(e, Len(got) + 1)
        IN  /\ at = start + Lead + Len(rd.buf) /\ Len(rd.buf) < rd.size
            /\ \A i \in 1 .. Len(rd.buf) : rd.buf[i] = wire[start + Lead + i]
            /\ kind = "audio" => Len(got) < Len(frames) /\ rd.size = Len(frames[Len(got) + 1])

Overrun ==
    rd.pc = "overrun" => Len(got) < Len(frames) /\ Len(frames[Len(got) + 1]) > BufSize

InPlace(e) == Straight => Len(got) <= Len(frames) /\ Overrun /\ AtSize(e) /\ InFrame(e)

ReadersInv ==
    /\ ReaderTypes /\ KindOK /\ ShortOK /\ GotSure
    /\ \E e \in Seq(Nat) : Laid(e) /\ LaidBytes(e) /\ InPlace(e)

LEMMA ReadersInit == InitReaders => ReadersInv
  <1> SUFFICES ASSUME InitReaders PROVE ReadersInv
    OBVIOUS
  <1>1. /\ kind \in {"parser", "fixed", "audio"}
        /\ frames = <<>> /\ gone = 0 /\ wire = <<>> /\ at = 0 /\ got = <<>>
    BY DEF InitReaders
  <1>2. /\ rd.pc = (IF kind = "audio" THEN "size" ELSE "frame")
        /\ rd.size = (IF kind = "audio" THEN 0 ELSE FrameSize)
        /\ rd.buf = <<>> /\ rd.short = 0
        /\ rd = [pc |-> rd.pc, size |-> rd.size, buf |-> rd.buf, short |-> rd.short]
    BY DEF InitReaders
  <1>3. ReaderTypes
    <2>1. rd \in [pc : {"size", "frame", "ended", "overrun"}, size : Nat,
                  buf : Seq(Byte), short : Nat]
      <3>1. rd.buf \in Seq(Byte)
        BY <1>2
      <3>4. rd.short \in Nat
        BY <1>2
      <3>3. rd.size \in Nat
        BY <1>2, FrameAssumption
      <3>2. rd.pc \in {"size", "frame", "ended", "overrun"}
        BY <1>2
      <3> QED
        BY <1>2, <3>1, <3>2, <3>3, <3>4
    <2>2. at \in 0 .. Len(wire) /\ wire \in Seq(Byte)
      BY <1>1
    <2> QED
      BY <1>1, <2>1, <2>2 DEF ReaderTypes
  <1>4. KindOK
    BY <1>1, <1>2, FrameAssumption DEF KindOK
  <1> DEFINE e == <<>>
  <1>5. e \in Seq(Nat)
    OBVIOUS
  <1>6. Laid(e) /\ LaidBytes(e)
    BY <1>1 DEF Laid, LaidBytes, Start
  <1>7. InPlace(e)
    <2>1. Len(got) <= Len(frames) /\ Overrun /\ AtSize(e)
      BY <1>1, <1>2 DEF Overrun, AtSize, Start
    <2>2. InFrame(e)
      BY <1>1, <1>2, FrameAssumption DEF InFrame, Start, Lead
    <2> QED
      BY <2>1, <2>2 DEF InPlace
  <1>8. ShortOK /\ GotSure
    BY <1>1, <1>2 DEF ShortOK, GotSure
  <1> QED
    BY <1>3, <1>4, <1>5, <1>6, <1>7, <1>8 DEF ReadersInv

\* What the layout says of the numbers in it
LEMMA LaidNumbers ==
    ASSUME ReaderTypes, NEW e, Laid(e)
    PROVE  /\ Len(frames) \in Nat /\ Len(wire) \in Nat /\ Len(got) \in Nat
           /\ Lead \in Nat /\ MaxLen \in Nat
           /\ \A k \in 1 .. Len(frames) : e[k] \in Nat /\ Len(frames[k]) \in Nat
           /\ \A k \in 1 .. Len(frames) + 1 : Start(e, k) \in 0 .. Len(wire)
  <1>1. /\ Len(frames) \in Nat /\ Len(wire) \in Nat /\ Len(got) \in Nat
        /\ Lead \in Nat /\ MaxLen \in Nat
    BY LenAssumption DEF ReaderTypes, Lead
  <1>2. \A k \in 1 .. Len(frames) : e[k] \in Nat /\ Len(frames[k]) \in Nat
    BY DEF ReaderTypes, Laid
  <1>3. \A k \in 1 .. Len(frames) : e[k] <= Len(wire)
    BY DEF Laid
  <1>4. \A k \in 1 .. Len(frames) + 1 : Start(e, k) \in 0 .. Len(wire)
    BY <1>1, <1>2, <1>3 DEF Start
  <1> QED
    BY <1>1, <1>2, <1>4

\* What SendFrame appends
LEMMA SendWire ==
    ASSUME ReaderTypes, NEW m \in Messages, SendFrame(m)
    PROVE  /\ wire' \in Seq(Byte) /\ Len(wire') = Len(wire) + Lead + Len(m)
           /\ \A i \in 1 .. Len(wire) : wire'[i] = wire[i]
           /\ \A i \in 1 .. Lead : wire'[Len(wire) + i] = Header(Len(m))[i]
           /\ \A i \in 1 .. Len(m) : wire'[Len(wire) + Lead + i] = m[i]
  <1>1. m \in Seq(Byte) /\ wire \in Seq(Byte)
    BY MessageBytes DEF ReaderTypes
  <1>2. CASE kind # "audio"
    <2>1. wire' = wire \o m /\ Lead = 0
      BY <1>2 DEF SendFrame, Frame, Lead
    <2>2. Len(wire) \in Nat /\ Len(m) \in Nat
      BY <1>1
    <2>3. wire' \in Seq(Byte) /\ Len(wire') = Len(wire) + Len(m)
      BY <1>1, <2>1, Joined
    <2>4. \A i \in 1 .. Len(wire) : wire'[i] = wire[i]
      BY <1>1, <2>1, Joined
    <2>5. \A i \in 1 .. Len(m) : wire'[Len(wire) + i] = m[i]
      BY <1>1, <2>1, Joined
    <2> QED
      BY <2>1, <2>2, <2>3, <2>4, <2>5
  <1>3. CASE kind = "audio"
    <2> DEFINE h == Header(Len(m))
               f == h \o m
               t == wire \o f
    <2>1. wire' = t /\ Lead = 4
      BY <1>3 DEF SendFrame, Frame, Lead
    <2>2. h \in Seq(Byte)
      BY MessageBytes, HeaderRoundTrip
    <2>3. Len(h) = 4
      BY MessageBytes, HeaderRoundTrip DEF HeaderSize
    <2> HIDE DEF h
    <2>4. Len(wire) \in Nat /\ Len(m) \in Nat
      BY <1>1
    <2>5. f \in Seq(Byte) /\ Len(f) = Len(h) + Len(m)
      BY <1>1, <2>2, Joined
    <2>6. \A i \in 1 .. Len(h) : f[i] = h[i]
      BY <1>1, <2>2, Joined
    <2>7. \A i \in 1 .. Len(m) : f[Len(h) + i] = m[i]
      BY <1>1, <2>2, Joined
    <2> HIDE DEF f
    <2>8. t \in Seq(Byte) /\ Len(t) = Len(wire) + Len(f)
      BY <1>1, <2>5, Joined
    <2>9. \A i \in 1 .. Len(wire) : t[i] = wire[i]
      BY <1>1, <2>5, Joined
    <2>10. \A i \in 1 .. Len(f) : t[Len(wire) + i] = f[i]
      BY <1>1, <2>5, Joined
    <2> HIDE DEF t
    <2>11. Len(t) = Len(wire) + 4 + Len(m)
      BY <2>3, <2>4, <2>5, <2>8
    <2>12. \A i \in 1 .. 4 : t[Len(wire) + i] = h[i]
      BY <2>3, <2>4, <2>5, <2>6, <2>10
    <2>13. \A i \in 1 .. Len(m) : t[Len(wire) + 4 + i] = m[i]
      <3> TAKE i \in 1 .. Len(m)
      <3>1. 4 + i \in 1 .. Len(f) /\ Len(wire) + (4 + i) = Len(wire) + 4 + i
        BY <2>3, <2>4, <2>5
      <3>2. f[4 + i] = m[i]
        BY <2>3, <2>7
      <3> QED
        BY <2>10, <3>1, <3>2
    <2> QED
      BY <2>1, <2>8, <2>9, <2>11, <2>12, <2>13 DEF h
  <1> QED
    BY <1>2, <1>3

LEMMA ReadersSend ==
    ASSUME ReadersInv, NEW m \in Messages, SendFrame(m)
    PROVE  ReadersInv'
  <1> DEFINE N == Len(frames)
             W == Len(wire)
             K == Len(got)
             M == Len(m)
  <1>1. PICK e \in Seq(Nat) : Laid(e) /\ LaidBytes(e) /\ InPlace(e)
    BY DEF ReadersInv
  <1>2. ReaderTypes /\ KindOK /\ ShortOK /\ GotSure
    BY DEF ReadersInv
  <1>3. /\ N \in Nat /\ W \in Nat /\ K \in Nat /\ Lead \in Nat /\ MaxLen \in Nat
    BY <1>1, <1>2, LaidNumbers
  <1>4. \A k \in 1 .. N : e[k] \in Nat /\ Len(frames[k]) \in Nat
    BY <1>1, <1>2, LaidNumbers
  <1>5. \A k \in 1 .. N + 1 : Start(e, k) \in 0 .. W
    BY <1>1, <1>2, LaidNumbers
  <1>6. m \in Seq(Byte) /\ M \in 0 .. MaxLen
    BY MessageBytes
  <1>7. /\ Len(wire') = W + Lead + M
        /\ \A i \in 1 .. W : wire'[i] = wire[i]
        /\ \A i \in 1 .. Lead : wire'[W + i] = Header(M)[i]
        /\ \A i \in 1 .. M : wire'[W + Lead + i] = m[i]
    BY <1>2, SendWire
  <1>8. /\ frames \in Seq(Seq(Byte)) /\ frames' = Append(frames, m)
        /\ UNCHANGED <<kind, rd, at, got>> /\ Lead' = Lead /\ gone = 0 /\ gone' = 0
    BY <1>2 DEF ReaderTypes, SendFrame, Lead
  <1>9. /\ Len(frames') = N + 1 /\ frames' \in Seq(Seq(Byte))
        /\ \A k \in 1 .. N : frames'[k] = frames[k]
        /\ frames'[N + 1] = m
    BY <1>6, <1>8
  <1>10. W + Lead + M \in Nat
    BY <1>3, <1>6
  <1>11. e \in Seq(Nat) /\ Len(e) = N /\ W = Start(e, N + 1)
    BY <1>1, <1>8 DEF Laid
  <1>12. PICK f \in Seq(Nat) : /\ Len(f) = N + 1
                               /\ \A k \in 1 .. N : f[k] = e[k]
                               /\ f[N + 1] = W + Lead + M
    <2> DEFINE g == Append(e, W + Lead + M)
    <2> HIDE DEF N, W, M
    <2>1. /\ g \in Seq(Nat) /\ Len(g) = N + 1
          /\ \A k \in 1 .. N : g[k] = e[k]
          /\ g[N + 1] = W + Lead + M
      BY <1>10, <1>11
    <2> QED
      BY <2>1
  <1>13. \A k \in 1 .. N : /\ Len(frames[k]) <= MaxLen
                          /\ e[k] = Start(e, k) + Lead + Len(frames[k]) /\ e[k] <= W
    BY <1>1 DEF Laid
  <1>14. \A k \in 1 .. N :
            /\ \A i \in 1 .. Lead : wire[Start(e, k) + i] = Header(Len(frames[k]))[i]
            /\ \A i \in 1 .. Len(frames[k]) : wire[Start(e, k) + Lead + i] = frames[k][i]
    BY <1>1 DEF LaidBytes
  <1>15. ReaderTypes'
    <2>1. wire' \in Seq(Byte) /\ at \in 0 .. W
      BY <1>2, SendWire DEF ReaderTypes
    <2>2. at' \in 0 .. Len(wire')
      <3> HIDE DEF W, M
      <3> QED
        BY <1>3, <1>6, <1>7, <1>8, <2>1
    <2> QED
      BY <1>2, <1>8, <1>9, <2>1, <2>2 DEF ReaderTypes
  <1>16. KindOK'
    <2>1. kind # "parser" /\ (kind = "fixed" => M = FrameSize)
      BY DEF SendFrame, Sendable
    <2>2. kind = "fixed" => \A k \in 1 .. N : Len(frames[k]) = FrameSize
      BY <1>2 DEF KindOK
    <2>3. kind = "fixed" => \A k \in 1 .. N + 1 : Len(frames'[k]) = FrameSize
      <3> HIDE DEF N
      <3> SUFFICES ASSUME kind = "fixed", NEW k \in 1 .. N + 1
                   PROVE  Len(frames'[k]) = FrameSize
        OBVIOUS
      <3>1. CASE k = N + 1
        BY <1>9, <2>1, <3>1
      <3>2. CASE k \in 1 .. N
        BY <1>9, <2>2, <3>2
      <3> QED
        BY <1>3, <3>1, <3>2
    <2> QED
      BY <1>2, <1>8, <1>9, <2>1, <2>3 DEF KindOK
  <1>17. /\ Len(got') = K /\ rd' = rd /\ at' = at /\ kind' = kind
         /\ (at \in Nat /\ rd.buf \in Seq(Byte) /\ Len(rd.buf) \in Nat /\ at <= W)
    BY <1>2, <1>3, <1>8 DEF ReaderTypes
  <1>18. rd.short = 0 => /\ K <= N /\ \A k \in 1 .. K : got[k] = frames[k]
                         /\ Overrun /\ AtSize(e) /\ InFrame(e)
    <2> SUFFICES ASSUME rd.short = 0
                 PROVE  /\ K <= N /\ \A k \in 1 .. K : got[k] = frames[k]
                        /\ Overrun /\ AtSize(e) /\ InFrame(e)
      OBVIOUS
    <2>1. K <= N /\ Overrun /\ AtSize(e) /\ InFrame(e)
      BY <1>1, <1>8 DEF InPlace, Straight
    <2>2. \A k \in 1 .. K : Sure(k)
      BY <1>3, <2>1 DEF Sure
    <2> QED
      BY <1>2, <2>1, <2>2 DEF GotSure
  <1> HIDE DEF N, W, K, M
  <1>19. \A k \in 1 .. N + 1 : Start(f, k) = Start(e, k)
    BY <1>3, <1>12 DEF Start
  <1>20. Start(f, N + 2) = W + Lead + M
    <2>1. N + 2 # 1 /\ (N + 2) - 1 = N + 1
      BY <1>3
    <2>2. Start(f, N + 2) = f[N + 1]
      BY <2>1 DEF Start
    <2> QED
      BY <1>12, <2>2
  <1>21. Laid(f)'
    <2>1. ASSUME NEW k \in 1 .. N + 1
          PROVE  /\ Len(frames'[k]) <= MaxLen
                 /\ f[k] = Start(f, k) + Lead + Len(frames'[k]) /\ f[k] <= Len(wire')
      <3>1. CASE k = N + 1
        <4>1. Start(f, k) = W
          BY <1>11, <1>19, <3>1
        <4>2. Len(frames'[k]) = M /\ f[k] = W + Lead + M
          BY <1>9, <1>12, <3>1 DEF M
        <4> QED
          BY <1>3, <1>6, <1>7, <4>1, <4>2
      <3>2. CASE k \in 1 .. N
        <4>1. Start(f, k) = Start(e, k) /\ frames'[k] = frames[k] /\ f[k] = e[k]
          BY <1>3, <1>9, <1>12, <1>19, <3>2
        <4>2. /\ Len(frames[k]) <= MaxLen /\ e[k] = Start(e, k) + Lead + Len(frames[k])
              /\ e[k] <= W /\ e[k] \in Nat
          BY <1>4, <1>13, <3>2
        <4>3. e[k] <= Len(wire')
          BY <1>3, <1>6, <1>7, <4>2
        <4> QED
          BY <4>1, <4>2, <4>3
      <3> QED
        BY <1>3, <3>1, <3>2
    <2>2. Len(wire') = Start(f, Len(frames') + 1)
      BY <1>3, <1>7, <1>9, <1>20
    <2> QED
      BY <1>8, <1>9, <1>12, <2>1, <2>2 DEF Laid
  <1>22. LaidBytes(f)'
    <2> SUFFICES ASSUME NEW k \in 1 .. N + 1
                 PROVE  /\ \A i \in 1 .. Lead :
                              wire'[Start(f, k) + i] = Header(Len(frames'[k]))[i]
                        /\ \A i \in 1 .. Len(frames'[k]) :
                              wire'[Start(f, k) + Lead + i] = frames'[k][i]
      BY <1>8, <1>9 DEF LaidBytes
    <2>1. CASE k = N + 1
      <3>1. Start(f, k) = W /\ frames'[k] = m /\ Len(m) = M
        BY <1>3, <1>9, <1>11, <1>19, <2>1 DEF M
      <3> QED
        BY <1>7, <3>1
    <2>2. CASE k \in 1 .. N
      <3> DEFINE s == Start(e, k)
                 c == Len(frames[k])
      <3>1. Start(f, k) = s /\ frames'[k] = frames[k]
        BY <1>3, <1>9, <1>19, <2>2
      <3>2. s \in Nat /\ c \in Nat /\ s + Lead + c <= W
        <4>1. s \in 0 .. W
          BY <1>3, <1>5, <2>2
        <4>2. c \in Nat
          BY <1>4, <2>2
        <4>3. e[k] = s + Lead + c /\ e[k] <= W
          BY <1>13, <2>2
        <4> QED
          BY <1>3, <4>1, <4>2, <4>3
      <3>3. /\ \A i \in 1 .. Lead : wire[s + i] = Header(c)[i]
            /\ \A i \in 1 .. c : wire[s + Lead + i] = frames[k][i]
        BY <1>14, <2>2
      <3> HIDE DEF s, c
      <3>4. \A i \in 1 .. Lead : wire'[s + i] = wire[s + i]
        BY <1>3, <1>7, <3>2
      <3>5. \A i \in 1 .. c : wire'[s + Lead + i] = wire[s + Lead + i]
        BY <1>3, <1>7, <3>2
      <3> QED
        BY <3>1, <3>3, <3>4, <3>5 DEF c
    <2> QED
      BY <1>3, <2>1, <2>2
  <1>23. InPlace(f)'
    <2> SUFFICES ASSUME rd.short = 0
                 PROVE  K <= N + 1 /\ Overrun' /\ AtSize(f)' /\ InFrame(f)'
      BY <1>9, <1>17 DEF InPlace, Straight
    <2>1. K <= N /\ Overrun /\ AtSize(e) /\ InFrame(e)
      BY <1>18
    <2>2. Overrun'
      <3> SUFFICES ASSUME rd.pc = "overrun" PROVE Overrun'
        BY <1>17 DEF Overrun
      <3>1. K < N /\ Len(frames[K + 1]) > BufSize
        BY <2>1 DEF Overrun, K, N
      <3>2. K < N + 1 /\ frames'[K + 1] = frames[K + 1]
        BY <1>3, <1>9, <3>1
      <3> QED
        BY <1>9, <1>17, <3>1, <3>2 DEF Overrun
    <2>3. Start(f, K + 1) = Start(e, K + 1) /\ Start(e, K + 1) \in Nat
      BY <1>3, <1>5, <1>19, <2>1
    <2>4. AtSize(f)'
      BY <1>17, <2>1, <2>3 DEF AtSize, K
    <2>5. InFrame(f)'
      <3> SUFFICES ASSUME rd.pc = "frame" PROVE InFrame(f)'
        BY <1>17 DEF InFrame
      <3> DEFINE s == Start(e, K + 1)
                 B == Len(rd.buf)
      <3>1. /\ at = s + Lead + B /\ B < rd.size
            /\ \A i \in 1 .. B : rd.buf[i] = wire[s + Lead + i]
            /\ kind = "audio" => K < N /\ rd.size = Len(frames[K + 1])
        BY <2>1 DEF InFrame, K, N
      <3>2. B \in Nat /\ s \in Nat
        BY <1>17, <2>3
      <3> HIDE DEF s, B
      <3>3. \A i \in 1 .. B : rd.buf[i] = wire'[s + Lead + i]
        <4> TAKE i \in 1 .. B
        <4>1. s + Lead + i \in 1 .. W
          BY <1>3, <1>17, <3>1, <3>2
        <4> QED
          BY <1>7, <3>1, <4>1
      <3>4. kind = "audio" => K < N + 1 /\ rd.size = Len(frames'[K + 1])
        BY <1>3, <1>9, <3>1
      <3>5. Start(f, Len(got') + 1) = s
        BY <1>17, <2>3 DEF s
      <3>6. /\ Len(rd'.buf) = B /\ rd'.buf = rd.buf /\ rd'.size = rd.size /\ kind' = kind
            /\ Len(got') = K /\ Len(frames') = N + 1 /\ Lead' = Lead /\ at' = at
        BY <1>8, <1>9, <1>17 DEF B
      <3> QED
        BY <3>1, <3>3, <3>4, <3>5, <3>6 DEF InFrame
    <2> QED
      BY <1>3, <2>1, <2>2, <2>4, <2>5
  <1>24. ShortOK'
    <2>1. rd.short \in Nat /\ rd.short <= K + 1 /\ rd.short <= N + 1
      BY <1>2, <1>8 DEF ShortOK, ReaderTypes, K, N
    <2> QED
      BY <1>3, <1>9, <1>17, <2>1 DEF ShortOK
  <1>25. GotSure'
    <2> SUFFICES ASSUME NEW k \in 1 .. K, Sure(k)' PROVE got[k] = frames'[k]
      BY <1>8, <1>17 DEF GotSure
    <2>1. rd.short \in Nat /\ rd.short <= N + 1
      BY <1>2, <1>8 DEF ShortOK, ReaderTypes, N
    <2>2. k <= N + 1 /\ (rd.short = 0 \/ k < rd.short)
      BY <1>9, <1>17 DEF Sure
    <2>3. k <= N
      BY <1>3, <1>18, <2>1, <2>2
    <2>4. got[k] = frames[k]
      BY <1>2, <2>2, <2>3 DEF GotSure, Sure, K, N
    <2> QED
      BY <1>3, <1>9, <2>3, <2>4
  <1> QED
    BY <1>12, <1>15, <1>16, <1>21, <1>22, <1>23, <1>24, <1>25 DEF ReadersInv

LEMMA ReadersSendShort ==
    ASSUME ReadersInv, NEW m \in Messages,
           NEW i \in 0 .. Len(Frame(m)), NEW j \in 0 .. Len(Frame(m)), SendFrameShort(m, i, j)
    PROVE  ReadersInv'
  <1> DEFINE N == Len(frames)
             W == Len(wire)
             K == Len(got)
             t == SubSeq(Frame(m), 1, i) \o SubSeq(Frame(m), j + 1, Len(Frame(m)))
  <1>1. PICK e \in Seq(Nat) : Laid(e) /\ LaidBytes(e) /\ InPlace(e)
    BY DEF ReadersInv
  <1>2. ReaderTypes /\ KindOK /\ ShortOK /\ GotSure
    BY DEF ReadersInv
  <1>3. /\ N \in Nat /\ W \in Nat /\ K \in Nat /\ Lead \in Nat /\ MaxLen \in Nat
        /\ gone \in Nat
    BY <1>1, <1>2, LaidNumbers DEF ReaderTypes
  <1>4. \A k \in 1 .. N : e[k] \in Nat /\ Len(frames[k]) \in Nat
    BY <1>1, <1>2, LaidNumbers
  <1>5. \A k \in 1 .. N + 1 : Start(e, k) \in 0 .. W
    BY <1>1, <1>2, LaidNumbers
  <1>6. t \in Seq(Byte)
    <2> DEFINE g == Frame(m)
               n == Len(g)
    <2>1. g \in Seq(Byte)
      <3>1. m \in Seq(Byte) /\ Header(Len(m)) \in Seq(Byte)
        BY MessageBytes, HeaderRoundTrip
      <3>2. Header(Len(m)) \o m \in Seq(Byte)
        BY <3>1, Joined
      <3> QED
        BY <3>1, <3>2 DEF Frame
    <2> HIDE DEF g
    <2>2. n \in Nat /\ n \in 0 .. n /\ 1 \in 1 .. n + 1
      BY <2>1
    <2>3. i \in 0 .. n /\ j + 1 \in 1 .. n + 1
      BY <2>2 DEF g
    <2>4. SubSeq(g, 1, i) \in Seq(Byte)
      BY <2>1, <2>2, <2>3, Pieces
    <2>5. SubSeq(g, j + 1, n) \in Seq(Byte)
      BY <2>1, <2>2, <2>3, Pieces
    <2>6. SubSeq(g, 1, i) \o SubSeq(g, j + 1, n) \in Seq(Byte)
      BY <2>4, <2>5, Joined
    <2> QED
      BY <2>6 DEF g
  <1>7. /\ wire' = wire \o t /\ gone' = gone + 1
        /\ UNCHANGED <<kind, frames, rd, at, got>> /\ Lead' = Lead
    BY DEF SendFrameShort, Lead
  <1> HIDE DEF t
  <1>8. /\ wire' \in Seq(Byte) /\ Len(wire') \in Nat /\ W <= Len(wire')
        /\ \A k \in 1 .. W : wire'[k] = wire[k]
    <2>1. wire \in Seq(Byte)
      BY <1>2 DEF ReaderTypes
    <2>2. wire' \in Seq(Byte) /\ Len(t) \in Nat /\ Len(wire') = W + Len(t)
      BY <1>6, <1>7, <2>1, Joined
    <2>3. \A k \in 1 .. W : wire'[k] = wire[k]
      BY <1>6, <1>7, <2>1, Joined
    <2> QED
      BY <1>3, <2>2, <2>3
  <1>9. /\ at \in 0 .. W /\ gone' \in Nat /\ gone' # 0
        /\ rd.buf \in Seq(Byte) /\ Len(rd.buf) \in Nat
    BY <1>2, <1>3, <1>7 DEF ReaderTypes
  <1>10. ReaderTypes'
    <2>1. at' \in 0 .. Len(wire')
      BY <1>3, <1>7, <1>8, <1>9
    <2> QED
      BY <1>2, <1>7, <1>8, <1>9, <2>1 DEF ReaderTypes
  <1>11. KindOK' /\ ShortOK' /\ GotSure'
    BY <1>2, <1>7, <1>9 DEF KindOK, ShortOK, GotSure, Sure
  <1>12. \A k \in 1 .. N : /\ Len(frames[k]) <= MaxLen
                          /\ e[k] = Start(e, k) + Lead + Len(frames[k]) /\ e[k] <= W
    BY <1>1 DEF Laid
  <1>13. Laid(e)'
    <2>1. \A k \in 1 .. N : e[k] <= Len(wire')
      BY <1>3, <1>4, <1>8, <1>12
    <2>2. e \in Seq(Nat) /\ Len(e) = N
      BY <1>1 DEF Laid
    <2> QED
      BY <1>7, <1>9, <1>12, <2>1, <2>2 DEF Laid
  <1>14. LaidBytes(e)'
    <2> SUFFICES ASSUME NEW k \in 1 .. N
                 PROVE  /\ \A l \in 1 .. Lead : wire'[Start(e, k) + l] = Header(Len(frames[k]))[l]
                        /\ \A l \in 1 .. Len(frames[k]) :
                              wire'[Start(e, k) + Lead + l] = frames[k][l]
      BY <1>7 DEF LaidBytes
    <2> DEFINE s == Start(e, k)
               c == Len(frames[k])
    <2>1. s \in Nat /\ c \in Nat /\ s + Lead + c <= W
      <3>1. s \in 0 .. W
        BY <1>3, <1>5
      <3>2. c \in Nat
        BY <1>4
      <3>3. e[k] = s + Lead + c /\ e[k] <= W
        BY <1>12
      <3> QED
        BY <1>3, <3>1, <3>2, <3>3
    <2>2. /\ \A l \in 1 .. Lead : wire[s + l] = Header(c)[l]
          /\ \A l \in 1 .. c : wire[s + Lead + l] = frames[k][l]
      BY <1>1 DEF LaidBytes
    <2> HIDE DEF s, c, W
    <2>3. \A l \in 1 .. Lead : wire'[s + l] = wire[s + l]
      BY <1>3, <1>8, <2>1
    <2>4. \A l \in 1 .. c : wire'[s + Lead + l] = wire[s + Lead + l]
      BY <1>3, <1>8, <2>1
    <2> QED
      BY <2>2, <2>3, <2>4 DEF s, c
  <1>15. InPlace(e)'
    <2> SUFFICES ASSUME Straight'
                 PROVE  K <= N /\ Overrun' /\ AtSize(e)' /\ InFrame(e)'
      BY <1>7 DEF InPlace
    <2>1. K < N /\ Straight
      BY <1>7, <1>9 DEF Straight
    <2>2. K <= N /\ Overrun /\ AtSize(e) /\ InFrame(e)
      BY <1>1, <2>1 DEF InPlace
    <2>3. Overrun' /\ AtSize(e)'
      BY <1>7, <2>2 DEF Overrun, AtSize
    <2>4. InFrame(e)'
      <3> SUFFICES ASSUME rd.pc = "frame" PROVE InFrame(e)'
        BY <1>7 DEF InFrame
      <3> DEFINE s == Start(e, K + 1)
                 B == Len(rd.buf)
      <3>1. /\ at = s + Lead + B /\ B < rd.size
            /\ \A l \in 1 .. B : rd.buf[l] = wire[s + Lead + l]
            /\ kind = "audio" => K < N /\ rd.size = Len(frames[K + 1])
        BY <2>2 DEF InFrame
      <3>2. B \in Nat /\ s \in Nat
        BY <1>3, <1>5, <1>9, <2>1
      <3>3. \A l \in 1 .. B : rd.buf[l] = wire'[s + Lead + l]
        <4> HIDE DEF s, B, W
        <4> TAKE l \in 1 .. B
        <4>1. s + Lead + l \in 1 .. W
          BY <1>3, <1>9, <3>1, <3>2
        <4> QED
          BY <1>8, <3>1, <4>1
      <3> QED
        BY <1>7, <3>1, <3>3 DEF InFrame
    <2> QED
      BY <2>2, <2>3, <2>4
  <1> QED
    BY <1>10, <1>11, <1>13, <1>14, <1>15 DEF ReadersInv

\* The sender's part of the invariant is about what it sent.
LEMMA LaidKept ==
    ASSUME NEW e, Laid(e), LaidBytes(e), UNCHANGED <<kind, frames, gone, wire>>
    PROVE  Laid(e)' /\ LaidBytes(e)' /\ Lead' = Lead
  BY DEF Laid, LaidBytes, Lead

LEMMA ReadersThrow ==
    ASSUME ReadersInv, RecvThrows
    PROVE  ReadersInv'
  <1>1. PICK e \in Seq(Nat) : Laid(e) /\ LaidBytes(e) /\ InPlace(e)
    BY DEF ReadersInv
  <1>2. ReaderTypes /\ KindOK /\ ShortOK /\ GotSure
    BY DEF ReadersInv
  <1>3. kind # "parser" /\ UNCHANGED <<kind, frames, gone, wire, at, got>>
    BY DEF RecvThrows
  <1>4. rd' = [rd EXCEPT !.pc = "ended"]
    BY DEF RecvThrows
  <1>5. /\ rd'.pc = "ended" /\ rd'.size = rd.size /\ rd'.buf = rd.buf /\ rd'.short = rd.short
        /\ rd' \in [pc : {"size", "frame", "ended", "overrun"}, size : Nat,
                    buf : Seq(Byte), short : Nat]
    BY <1>2, <1>4 DEF ReaderTypes
  <1>6. ReaderTypes'
    BY <1>2, <1>3, <1>5 DEF ReaderTypes
  <1>7. KindOK' /\ ShortOK' /\ GotSure'
    BY <1>2, <1>3, <1>5 DEF KindOK, ShortOK, GotSure, Sure
  <1>8. InPlace(e)'
    BY <1>1, <1>3, <1>5 DEF InPlace, Straight, Overrun, AtSize, InFrame
  <1> QED
    BY <1>1, <1>3, <1>6, <1>7, <1>8, LaidKept DEF ReadersInv

\* What a Recv of n bytes brings
LEMMA Received ==
    ASSUME ReaderTypes, NEW n, NEW want \in Int, Takes(n, want)
    PROVE  /\ n \in Nat \ {0} /\ n <= want /\ at' = at + n /\ at + n \in 0 .. Len(wire)
           /\ Taken(n) \in Seq(Byte) /\ Len(Taken(n)) = n
           /\ \A i \in 1 .. n : Taken(n)[i] = wire[at + i]
  <1>1. wire \in Seq(Byte) /\ at \in 0 .. Len(wire) /\ Len(wire) \in Nat
    BY DEF ReaderTypes
  <1>2. n \in 1 .. Min2(want, Len(wire) - at) /\ at' = at + n
    BY DEF Takes
  <1>3. n \in Nat \ {0} /\ n <= want /\ n <= Len(wire) - at
    BY <1>1, <1>2 DEF Min2
  <1>4. n \in Nat /\ at \in Nat /\ at + n <= Len(wire)
    BY <1>1, <1>3
  <1>5. /\ Taken(n) \in Seq(Byte) /\ Len(Taken(n)) = n
        /\ \A i \in 1 .. n : Taken(n)[i] = wire[at + i]
    BY <1>1, <1>4, Piece DEF Taken
  <1> QED
    BY <1>1, <1>2, <1>3, <1>4, <1>5

LEMMA ReadersSize ==
    ASSUME ReadersInv, NEW n, ReadSize(n)
    PROVE  ReadersInv'
  <1> DEFINE N == Len(frames)
             W == Len(wire)
             K == Len(got)
             h == [i \in 1 .. 4 |-> IF i <= n THEN Taken(n)[i] ELSE 0]
             size == PayloadLength(h)
             short == IF rd.short = 0 /\ n < 4 THEN K + 1 ELSE rd.short
  <1>1. PICK e \in Seq(Nat) : Laid(e) /\ LaidBytes(e) /\ InPlace(e)
    BY DEF ReadersInv
  <1>2. ReaderTypes /\ KindOK /\ ShortOK /\ GotSure
    BY DEF ReadersInv
  <1>3. /\ rd.pc = "size" /\ UNCHANGED <<kind, frames, gone, wire, got>>
        /\ Takes(n, 4)
    BY DEF ReadSize, HeaderSize
  <1>4. rd' = [pc |-> IF size = 0 THEN "ended" ELSE "frame",
               size |-> size, buf |-> <<>>, short |-> short]
    BY DEF ReadSize, HeaderSize
  <1>5. /\ n \in Nat \ {0} /\ n <= 4 /\ at' = at + n /\ at + n \in 0 .. W
        /\ Taken(n) \in Seq(Byte) /\ Len(Taken(n)) = n
        /\ \A i \in 1 .. n : Taken(n)[i] = wire[at + i]
    BY <1>2, <1>3, Received
  <1>6. kind = "audio" /\ Lead = 4
    BY <1>2, <1>3 DEF ReaderTypes, KindOK, Lead
  <1>7. size \in Nat
    <2>1. \A i \in 1 .. n : Taken(n)[i] \in Nat
      BY <1>5, BaseAssumption DEF Byte
    <2>2. \A i \in 1 .. 4 : h[i] \in Nat
      BY <1>5, <2>1
    <2> HIDE DEF h
    <2> QED
      BY <2>2, PayloadLengthNat
  <1>8. \A i \in 1 .. 4 : n = 4 => h[i] = wire[at + i]
    BY <1>5
  <1> HIDE DEF h, size
  <1>9. /\ rd'.pc = (IF size = 0 THEN "ended" ELSE "frame")
        /\ rd'.size = size /\ rd'.buf = <<>> /\ rd'.short = short
    BY <1>4
  <1>15. short \in Nat /\ rd.short \in Nat /\ K \in Nat /\ N \in Nat
    BY <1>2 DEF ReaderTypes
  <1>10. rd' \in [pc : {"size", "frame", "ended", "overrun"}, size : Nat,
                  buf : Seq(Byte), short : Nat]
    <2>1. <<>> \in Seq(Byte)
      OBVIOUS
    <2> HIDE DEF short
    <2> QED
      BY <1>4, <1>7, <1>15, <2>1
  <1>11. ReaderTypes'
    BY <1>2, <1>3, <1>5, <1>10 DEF ReaderTypes
  <1>12. KindOK'
    BY <1>3, <1>6 DEF KindOK
  <1>16. gone = 0 /\ rd.short = 0 => K <= N
    BY <1>1 DEF InPlace, Straight
  <1>17. ShortOK'
    <2>1. rd.short <= K + 1 /\ (gone = 0 => rd.short <= N + 1)
      BY <1>2 DEF ShortOK
    <2>2. short <= K + 1 /\ (gone = 0 => short <= N + 1)
      <3> HIDE DEF K, N
      <3> QED
        BY <1>15, <1>16, <2>1
    <2> QED
      BY <1>3, <1>9, <2>2 DEF ShortOK
  <1>18. GotSure'
    <2> SUFFICES ASSUME NEW k \in 1 .. K, Sure(k)' PROVE got[k] = frames[k]
      BY <1>3 DEF GotSure
    <2>1. k <= N /\ (short = 0 \/ k < short)
      BY <1>3, <1>9 DEF Sure
    <2>2. rd.short = 0 \/ k < rd.short
      BY <1>15, <2>1
    <2> QED
      BY <1>2, <2>1, <2>2 DEF GotSure, Sure
  <1>13. ASSUME Straight'
         PROVE  rd'.pc # "overrun" /\ K <= N /\ AtSize(e)' /\ InFrame(e)'
    <2>1. rd.short = 0 /\ n = 4 /\ (gone = 0 \/ K < N)
      <3>1. short = 0 /\ (gone = 0 \/ K < N)
        BY <1>3, <1>9, <1>13 DEF Straight
      <3> HIDE DEF K
      <3> QED
        BY <1>5, <1>15, <3>1
    <2>2. K <= N /\ at = Start(e, K + 1)
      BY <1>1, <1>3, <2>1 DEF InPlace, Straight, AtSize
    <2>3. /\ N \in Nat /\ W \in Nat /\ K \in Nat /\ K <= N
      BY <1>1, <1>2, <2>2, LaidNumbers
    <2> DEFINE S == Start(e, K + 1)
               c == Len(frames[K + 1])
    <2>4. S \in Nat
      BY <1>1, <1>2, <2>3, LaidNumbers
    <2>5. K = N => S = W
      BY <1>1, <1>15, <2>1 DEF Laid
    <2>6. K < N /\ K + 1 \in 1 .. N
      <3>1. at = S /\ at + 4 <= W
        BY <1>5, <2>1, <2>2, <2>3
      <3> HIDE DEF K, N, S, W
      <3> QED
        BY <2>3, <2>4, <2>5, <3>1
    <2>7. c \in 0 .. MaxLen
      <3>1. c \in Nat /\ MaxLen \in Nat
        BY <1>1, <1>2, <2>6, LaidNumbers
      <3>2. c <= MaxLen
        BY <1>1, <2>6 DEF Laid
      <3> QED
        BY <3>1, <3>2
    <2>8. size = c
      <3>1. \A i \in 1 .. 4 : wire[S + i] = Header(c)[i]
        BY <1>1, <1>6, <2>6 DEF LaidBytes
      <3>2. \A i \in 1 .. 4 : h[i] = Header(c)[i]
        BY <1>8, <2>1, <2>2, <3>1
      <3>3. PayloadLength(h) = PayloadLength(Header(c))
        <4> HIDE DEF c
        <4> QED
          BY <3>2 DEF PayloadLength
      <3> QED
        BY <2>7, <3>3, HeaderRoundTrip DEF size
    <2>9. rd'.pc \in {"ended", "frame"} /\ (rd'.pc = "frame" => c # 0)
      <3> HIDE DEF c
      <3> QED
        BY <1>9, <2>8
    <2>11. InFrame(e)'
      <3> SUFFICES ASSUME rd'.pc = "frame" PROVE InFrame(e)'
        BY DEF InFrame
      <3>1. Len(rd'.buf) = 0 /\ rd'.size = c /\ 0 < c
        <4>1. Len(rd'.buf) = 0
          BY <1>9
        <4> HIDE DEF c
        <4> QED
          BY <1>9, <2>7, <2>8, <2>9, <4>1, LenAssumption
      <3>2. at' = S + 4 + 0
        <4> HIDE DEF S, W
        <4> QED
          BY <1>5, <2>1, <2>2, <2>4 DEF S
      <3>3. /\ Start(e, Len(got') + 1) = S /\ Lead' = 4 /\ Len(got') = K /\ Len(frames') = N
            /\ Len(frames'[K + 1]) = c
        BY <1>3, <1>6 DEF Lead
      <3> HIDE DEF S, K, N, c
      <3> QED
        BY <2>6, <3>1, <3>2, <3>3 DEF InFrame
    <2>12. AtSize(e)'
      BY <2>9 DEF AtSize
    <2> QED
      BY <2>3, <2>9, <2>11, <2>12
  <1>14. InPlace(e)'
    BY <1>3, <1>13 DEF InPlace, Overrun
  <1> QED
    BY <1>1, <1>3, <1>11, <1>12, <1>14, <1>17, <1>18, LaidKept DEF ReadersInv

\* The reader hands over a frame that buf holds whole.
LEMMA FrameWhole ==
    ASSUME ReaderTypes, KindOK, kind # "parser", NEW e, Laid(e), LaidBytes(e),
           NEW buf \in Seq(Byte), Len(buf) = rd.size, rd.pc = "frame",
           Straight, Len(got) <= Len(frames), InFrame(e),
           Start(e, Len(got) + 1) + Lead + rd.size <= Len(wire),
           \A i \in 1 .. Len(buf) : buf[i] = wire[Start(e, Len(got) + 1) + Lead + i]
    PROVE  /\ Len(got) < Len(frames) /\ buf = frames[Len(got) + 1]
           /\ Start(e, Len(got) + 1) + Lead + rd.size = e[Len(got) + 1]
  <1> DEFINE N == Len(frames)
             W == Len(wire)
             K == Len(got)
             S == Start(e, K + 1)
             c == Len(frames[K + 1])
  <1>1. /\ N \in Nat /\ W \in Nat /\ K \in Nat /\ K <= N /\ Lead \in Nat
    BY LaidNumbers
  <1>2. S \in Nat
    BY <1>1, LaidNumbers
  <1>3. rd.size \in Nat /\ rd.size > 0
    <2>1. rd.size \in Nat /\ Len(rd.buf) \in Nat
      BY DEF ReaderTypes
    <2> QED
      BY <2>1 DEF InFrame
  <1>4. K = N => S = W
    BY <1>1 DEF Laid, Straight
  <1>5. S + Lead + rd.size <= W
    OBVIOUS
  <1>6. K < N /\ K + 1 \in 1 .. N
    <2> HIDE DEF K, N, S, W
    <2> QED
      BY <1>1, <1>2, <1>3, <1>4, <1>5
  <1>7. c = rd.size
    <2>1. CASE kind = "audio"
      BY <2>1 DEF InFrame
    <2>2. CASE kind = "fixed"
      BY <1>6, <2>2 DEF KindOK
    <2> QED
      BY <2>1, <2>2 DEF ReaderTypes
  <1>8. frames[K + 1] \in Seq(Byte)
    BY <1>6 DEF ReaderTypes
  <1>9. \A i \in 1 .. c : wire[S + Lead + i] = frames[K + 1][i]
    BY <1>6 DEF LaidBytes
  <1>10. \A i \in 1 .. Len(buf) : buf[i] = frames[K + 1][i]
    BY <1>7, <1>9
  <1>11. buf = frames[K + 1]
    BY <1>7, <1>8, <1>10, SeqEqual
  <1>12. e[K + 1] = S + Lead + c
    BY <1>6 DEF Laid
  <1> QED
    BY <1>6, <1>7, <1>11, <1>12

LEMMA ReadersFrame ==
    ASSUME ReadersInv, NEW n, ReadFrame(n)
    PROVE  ReadersInv'
  <1> DEFINE N == Len(frames)
             W == Len(wire)
             K == Len(got)
             B == Len(rd.buf)
             t == Taken(n)
             buf == rd.buf \o t
             over == kind = "audio" /\ Len(buf) > BufSize
             first == IF kind = "audio" THEN "size" ELSE "frame"
  <1>1. PICK e \in Seq(Nat) : Laid(e) /\ LaidBytes(e) /\ InPlace(e)
    BY DEF ReadersInv
  <1>2. ReaderTypes /\ KindOK /\ ShortOK /\ GotSure
    BY DEF ReadersInv
  <1>3. /\ kind # "parser" /\ rd.pc = "frame" /\ UNCHANGED <<kind, frames, gone, wire>>
        /\ Takes(n, rd.size - B)
    BY DEF ReadFrame
  <1>4. \/ /\ over /\ UNCHANGED got
           /\ rd' = [rd EXCEPT !.pc = "overrun"]
        \/ /\ ~over /\ Len(buf) = rd.size /\ got' = Append(got, buf)
           /\ rd' = [rd EXCEPT !.buf = <<>>, !.pc = first]
        \/ /\ ~over /\ Len(buf) # rd.size /\ UNCHANGED got
           /\ rd' = [rd EXCEPT !.buf = buf]
    BY DEF ReadFrame
  <1>5. B \in Nat /\ rd.size \in Nat /\ rd.size - B \in Int
    BY <1>2 DEF ReaderTypes
  <1>6. /\ n \in Nat \ {0} /\ n <= rd.size - B /\ at' = at + n /\ at + n \in 0 .. W
        /\ t \in Seq(Byte) /\ Len(t) = n
        /\ \A i \in 1 .. n : t[i] = wire[at + i]
    BY <1>2, <1>3, <1>5, Received
  <1> HIDE DEF t
  <1>7. /\ buf \in Seq(Byte) /\ Len(buf) = B + n
        /\ \A i \in 1 .. B : buf[i] = rd.buf[i]
        /\ \A i \in 1 .. n : buf[B + i] = t[i]
    <2>1. rd.buf \in Seq(Byte)
      BY <1>2 DEF ReaderTypes
    <2>2. buf \in Seq(Byte) /\ Len(buf) = B + Len(t)
      BY <1>6, <2>1, Joined
    <2>3. \A i \in 1 .. B : buf[i] = rd.buf[i]
      BY <1>6, <2>1, Joined
    <2>4. \A i \in 1 .. Len(t) : buf[B + i] = t[i]
      BY <1>6, <2>1, Joined
    <2> QED
      BY <1>6, <2>2, <2>3, <2>4
  <1> HIDE DEF buf
  <1>8. Laid(e)' /\ LaidBytes(e)' /\ Lead' = Lead
    BY <1>1, <1>3, LaidKept
  <1>9. got \in Seq(Seq(Byte))
    BY <1>2 DEF ReaderTypes
  <1>10. ReaderTypes' /\ KindOK' /\ rd'.short = rd.short /\ rd'.size = rd.size
    <2>1. rd' \in [pc : {"size", "frame", "ended", "overrun"}, size : Nat,
                   buf : Seq(Byte), short : Nat]
      <3>1. first \in {"size", "frame", "ended", "overrun"} /\ <<>> \in Seq(Byte)
        OBVIOUS
      <3> HIDE DEF first
      <3> QED
        BY <1>2, <1>4, <1>7, <3>1 DEF ReaderTypes
    <2>2. got' \in Seq(Seq(Byte))
      <3>1. Append(got, buf) \in Seq(Seq(Byte))
        BY <1>7, <1>9
      <3> QED
        BY <1>4, <1>9, <3>1
    <2>3. ReaderTypes'
      BY <1>2, <1>3, <1>6, <2>1, <2>2 DEF ReaderTypes
    <2>4. /\ rd'.short = rd.short /\ rd'.size = rd.size
          /\ (kind = "fixed" => rd'.pc = "frame")
      <3> HIDE DEF over
      <3>1. kind = "fixed" => ~over
        BY DEF over
      <3> QED
        BY <1>2, <1>3, <1>4, <3>1 DEF ReaderTypes
    <2>5. KindOK'
      BY <1>2, <1>3, <2>4 DEF KindOK
    <2> QED
      BY <2>3, <2>4, <2>5
  <1>11. ASSUME Straight
         PROVE  /\ Len(got') <= N /\ Overrun' /\ AtSize(e)' /\ InFrame(e)'
                /\ \A k \in 1 .. Len(got') : k > K => got'[k] = frames[k]
    <2> DEFINE S == Start(e, K + 1)
    <2>1. K <= N /\ InFrame(e)
      BY <1>1, <1>11 DEF InPlace
    <2>2. /\ N \in Nat /\ W \in Nat /\ K \in Nat /\ K <= N /\ Lead \in Nat
      BY <1>1, <1>2, <2>1, LaidNumbers
    <2>3. S \in Nat
      BY <1>1, <1>2, <2>2, LaidNumbers
    <2>4. /\ at = S + Lead + B /\ B < rd.size
          /\ \A i \in 1 .. B : rd.buf[i] = wire[S + Lead + i]
          /\ kind = "audio" => K < N /\ rd.size = Len(frames[K + 1])
      BY <1>3, <2>1 DEF InFrame
    <2>5. \A i \in 1 .. B + n : buf[i] = wire[S + Lead + i]
      <3> HIDE DEF B, S
      <3> TAKE i \in 1 .. B + n
      <3>1. CASE i \in 1 .. B
        BY <1>7, <2>4, <3>1
      <3>2. CASE i \in B + 1 .. B + n
        <4> DEFINE j == i - B
        <4>1. j \in 1 .. n /\ i = B + j /\ at + j = S + Lead + i
          BY <1>5, <1>6, <2>2, <2>3, <2>4, <3>2
        <4> HIDE DEF j
        <4> QED
          BY <1>6, <1>7, <4>1
      <3> QED
        BY <1>5, <1>6, <3>1, <3>2
    <2>8. CASE over
      <3>1. got' = got /\ rd' = [rd EXCEPT !.pc = "overrun"]
        BY <1>4, <2>8
      <3>2. rd'.pc = "overrun"
        BY <1>2, <3>1 DEF ReaderTypes
      <3>3. K < N /\ Len(frames[K + 1]) > BufSize
        <4>1. kind = "audio" /\ Len(buf) > BufSize
          BY <2>8
        <4>2. K < N /\ rd.size = Len(frames[K + 1])
          BY <2>4, <4>1
        <4> HIDE DEF B
        <4> QED
          BY <1>5, <1>6, <1>7, <4>1, <4>2, FrameAssumption
      <3>4. Overrun' /\ AtSize(e)' /\ InFrame(e)'
        BY <1>3, <3>1, <3>2, <3>3 DEF Overrun, AtSize, InFrame
      <3>5. \A k \in 1 .. Len(got') : ~(k > K)
        BY <2>2, <3>1
      <3> QED
        BY <2>1, <3>1, <3>4, <3>5
    <2>6. CASE ~over /\ Len(buf) # rd.size
      <3>1. got' = got /\ rd' = [rd EXCEPT !.buf = buf]
        BY <1>4, <2>6
      <3>2. rd'.pc = "frame" /\ rd'.buf = buf /\ rd'.size = rd.size
        BY <1>2, <1>3, <3>1 DEF ReaderTypes
      <3>3. \A k \in 1 .. Len(got') : ~(k > K)
        BY <2>2, <3>1
      <3>4. AtSize(e)' /\ Overrun'
        BY <3>2 DEF AtSize, Overrun
      <3>5. InFrame(e)'
        <4>1. /\ Start(e, Len(got') + 1) = S /\ Len(got') = K /\ Len(frames') = N
              /\ frames' = frames
          BY <1>3, <3>1
        <4>2. Len(buf) = B + n /\ Len(buf) < rd.size
          <5> HIDE DEF B
          <5> QED
            BY <1>5, <1>6, <1>7, <2>6
        <4>3. at' = S + Lead + Len(buf)
          <5> HIDE DEF B, S
          <5> QED
            BY <1>5, <1>6, <2>2, <2>3, <2>4, <4>2
        <4> HIDE DEF S, B, K, N
        <4>4. \A i \in 1 .. Len(buf) : buf[i] = wire'[S + Lead + i]
          BY <1>3, <2>5, <4>2
        <4> QED
          BY <1>3, <1>8, <2>4, <3>2, <4>1, <4>2, <4>3, <4>4 DEF InFrame
      <3> QED
        BY <2>1, <3>1, <3>3, <3>4, <3>5
    <2>7. CASE ~over /\ Len(buf) = rd.size
      <3>1. got' = Append(got, buf) /\ rd' = [rd EXCEPT !.buf = <<>>, !.pc = first]
        BY <1>4, <2>7
      <3>2. /\ rd'.pc = first /\ rd'.buf = <<>> /\ rd'.size = rd.size
        <4> HIDE DEF first
        <4> QED
          BY <1>2, <3>1 DEF ReaderTypes
      <3>3. at' = S + Lead + rd.size /\ S + Lead + rd.size <= W
        <4>1. B + n = rd.size
          BY <1>7, <2>7
        <4>2. at' = at + n /\ at + n <= W /\ n \in Nat /\ at = S + Lead + B
          BY <1>6, <2>2, <2>4
        <4> HIDE DEF B, S, W
        <4>3. at + n = S + Lead + (B + n)
          BY <1>5, <2>2, <2>3, <4>2
        <4> QED
          BY <4>1, <4>2, <4>3
      <3>4. /\ K < N /\ buf = frames[K + 1]
            /\ S + Lead + rd.size = e[K + 1]
        <4>1. \A i \in 1 .. Len(buf) : buf[i] = wire[S + Lead + i]
          BY <1>7, <2>5
        <4> QED
          BY <1>1, <1>2, <1>3, <1>7, <1>11, <2>1, <2>7, <3>3, <4>1, FrameWhole
      <3>5. /\ Len(got') = K + 1 /\ got'[K + 1] = frames[K + 1]
            /\ \A k \in 1 .. K : got'[k] = got[k]
        BY <1>7, <1>9, <3>1, <3>4
      <3>7. Len(frames') = N /\ frames' = frames /\ kind' = kind
        BY <1>3
      <3> HIDE DEF K, N, S
      <3>8. /\ Len(got') <= N
            /\ \A k \in 1 .. Len(got') : k > K => got'[k] = frames[k]
        BY <2>2, <3>4, <3>5
      <3>9. Start(e, Len(got') + 1) = at'
        BY <2>2, <3>3, <3>4, <3>5 DEF Start
      <3>10. at' \in Nat
        BY <1>5, <2>2, <2>3, <3>3
      <3>11. AtSize(e)' /\ Overrun'
        <4>1. rd'.pc # "overrun"
          BY <3>2
        <4> QED
          BY <3>9, <4>1 DEF AtSize, Overrun
      <3>12. InFrame(e)'
        <4> SUFFICES ASSUME rd'.pc = "frame" PROVE InFrame(e)'
          BY DEF InFrame
        <4>1. kind # "audio" /\ Lead' = 0
          BY <1>8, <3>2 DEF Lead
        <4>2. Len(rd'.buf) = 0 /\ 0 < rd'.size
          BY <1>5, <2>4, <3>2 DEF B
        <4> QED
          BY <3>7, <3>9, <3>10, <4>1, <4>2 DEF InFrame
      <3> QED
        BY <3>8, <3>11, <3>12
    <2> QED
      BY <2>6, <2>7, <2>8
  <1>12. K \in Nat /\ N \in Nat /\ Len(got') \in Nat /\ K <= Len(got') /\ Len(got') <= K + 1
         /\ \A k \in 1 .. K : got'[k] = got[k]
    <2>1. Len(Append(got, buf)) = K + 1 /\ \A k \in 1 .. K : Append(got, buf)[k] = got[k]
      BY <1>7, <1>9
    <2>2. K \in Nat /\ N \in Nat
      BY <1>2 DEF ReaderTypes
    <2>3. got' = got \/ got' = Append(got, buf)
      BY <1>4
    <2> HIDE DEF K
    <2> QED
      BY <2>1, <2>2, <2>3 DEF K
  <1>13. Straight' => Straight
    <2> HIDE DEF K, N
    <2> QED
      BY <1>3, <1>10, <1>12 DEF Straight, K, N
  <1>14. InPlace(e)'
    BY <1>3, <1>11, <1>13 DEF InPlace
  <1>15. ShortOK /\ rd.short \in Nat
    BY <1>2 DEF ReaderTypes
  <1>16. ShortOK'
    <2> HIDE DEF K, N
    <2>1. rd.short <= K + 1 /\ (gone = 0 => rd.short <= N + 1)
      BY <1>15 DEF ShortOK, K, N
    <2>2. rd.short <= Len(got') + 1
      BY <1>12, <1>15, <2>1
    <2> QED
      BY <1>3, <1>10, <2>1, <2>2 DEF ShortOK, N
  <1>17. GotSure'
    <2> SUFFICES ASSUME NEW k \in 1 .. Len(got'), Sure(k) PROVE got'[k] = frames[k]
      BY <1>3, <1>10 DEF GotSure, Sure
    <2>1. CASE k <= K
      <3>1. k \in 1 .. K
        BY <1>12, <2>1
      <3> QED
        BY <1>2, <1>12, <3>1 DEF GotSure
    <2>2. CASE k > K
      <3>1. k = K + 1 /\ K < N /\ rd.short = 0
        <4>1. k <= N /\ (rd.short = 0 \/ k < rd.short) /\ rd.short <= K + 1
          BY <1>15 DEF Sure, ShortOK
        <4> HIDE DEF K, N
        <4> QED
          BY <1>12, <1>15, <2>2, <4>1
      <3>2. Straight
        BY <3>1 DEF Straight
      <3> QED
        BY <1>11, <2>2, <3>2
    <2> QED
      BY <1>12, <2>1, <2>2
  <1> QED
    BY <1>1, <1>8, <1>10, <1>14, <1>16, <1>17 DEF ReadersInv

LEMMA ReadersNext == ReadersInv /\ [NextReaders]_<<vars, readerVars>> => ReadersInv'
  <1> SUFFICES ASSUME ReadersInv, [NextReaders]_<<vars, readerVars>> PROVE ReadersInv'
    OBVIOUS
  <1>1. ASSUME NEW m \in Messages, SendFrame(m) PROVE ReadersInv'
    BY <1>1, ReadersSend
  <1>7. ASSUME NEW m \in Messages,
               NEW i \in 0 .. Len(Frame(m)), NEW j \in 0 .. Len(Frame(m)), SendFrameShort(m, i, j)
        PROVE  ReadersInv'
    BY <1>7, ReadersSendShort
  <1>2. CASE RecvThrows
    BY <1>2, ReadersThrow
  <1>3. ASSUME NEW n, ReadSize(n) PROVE ReadersInv'
    BY <1>3, ReadersSize
  <1>4. ASSUME NEW n, ReadFrame(n) PROVE ReadersInv'
    BY <1>4, ReadersFrame
  <1>5. CASE UNCHANGED readerVars
    <2>1. UNCHANGED <<kind, rd, frames, gone, wire, at, got>>
      BY <1>5 DEF readerVars
    <2>2. ReaderTypes' /\ KindOK' /\ ShortOK' /\ GotSure'
      BY <2>1 DEF ReadersInv, ReaderTypes, KindOK, ShortOK, GotSure, Sure
    <2>3. PICK e \in Seq(Nat) : Laid(e) /\ LaidBytes(e) /\ InPlace(e)
      BY DEF ReadersInv
    <2>4. Laid(e)' /\ LaidBytes(e)' /\ Lead' = Lead
      BY <2>1, <2>3, LaidKept
    <2>5. InPlace(e)'
      BY <2>1, <2>3, <2>4 DEF InPlace, Straight, Overrun, AtSize, InFrame
    <2> QED
      BY <2>2, <2>3, <2>4, <2>5 DEF ReadersInv
  <1>6. \/ UNCHANGED readerVars
        \/ \E m \in Messages :
              SendFrame(m) \/ \E i, j \in 0 .. Len(Frame(m)) : SendFrameShort(m, i, j)
        \/ RecvThrows
        \/ \E n \in 1 .. Len(wire) : ReadSize(n) \/ ReadFrame(n)
    BY DEF NextReaders
  <1> QED
    BY <1>1, <1>2, <1>3, <1>4, <1>5, <1>6, <1>7

\* Of a step of the readers the parser sees one of its own steps, or none.
LEMMA ParserStep == [NextReaders]_<<vars, readerVars>> => [Next]_vars
  BY DEF NextReaders, SendFrame, SendFrameShort, RecvThrows, ReadSize, ReadFrame

\* However the stream of a channel is cut, the readers of the client hand over
\* the frames that were sent, in order and whole, up to the first of which bytes
\* were lost or whose size came in pieces; until then they keep back none that
\* they read to its end, and AudioSocketReader writes past its buffer only for a
\* frame that is longer: for frames and buffers of every size and every number
\* of frames.
THEOREM FramesRead == SpecReaders => []FramesDelivered
  <1>1. InitReaders => ReadersInv
    BY ReadersInit
  <1>2. ReadersInv /\ [NextReaders]_<<vars, readerVars>> => ReadersInv'
    BY ReadersNext
  <1>3. ReadersInv => FramesDelivered
    <2> SUFFICES ASSUME ReadersInv PROVE FramesDelivered
      OBVIOUS
    <2>1. PICK e \in Seq(Nat) : Laid(e) /\ LaidBytes(e) /\ InPlace(e)
      BY DEF ReadersInv
    <2>2. ReaderTypes /\ KindOK /\ ShortOK /\ GotSure
      BY DEF ReadersInv
    <2>3. ASSUME Straight
          PROVE  Len(got) <= Len(frames) /\ Overrun /\ AtSize(e) /\ InFrame(e)
      BY <2>1, <2>3 DEF InPlace
    <2>5. ASSUME rd.pc = "overrun", Sure(Len(got) + 1)
          PROVE  Len(frames[Len(got) + 1]) > BufSize
      <3>1. /\ Len(got) \in Nat /\ Len(frames) \in Nat /\ rd.short \in Nat
            /\ rd.short <= Len(got) + 1
        BY <2>2 DEF ReaderTypes, ShortOK
      <3>2. Len(got) + 1 <= Len(frames) /\ (rd.short = 0 \/ Len(got) + 1 < rd.short)
        BY <2>5 DEF Sure
      <3>3. Straight
        BY <3>1, <3>2 DEF Straight
      <3> QED
        BY <2>3, <2>5, <3>3 DEF Overrun
    <2>4. ASSUME gone = 0, rd.short = 0, at = Len(wire), rd.pc \notin {"ended", "overrun"},
                 Len(got) # Len(frames)
          PROVE  FALSE
      <3>5. Straight
        BY <2>4 DEF Straight
      <3> DEFINE N == Len(frames)
                 W == Len(wire)
                 K == Len(got)
                 B == Len(rd.buf)
                 S == Start(e, K + 1)
                 c == Len(frames[K + 1])
      <3>1. /\ N \in Nat /\ W \in Nat /\ K \in Nat /\ K < N /\ K + 1 \in 1 .. N
            /\ Lead \in Nat /\ B \in Nat
        <4>1. N \in Nat /\ W \in Nat /\ K \in Nat /\ Lead \in Nat
          BY <2>1, <2>2, LaidNumbers
        <4>2. K <= N /\ K # N
          BY <2>3, <2>4, <3>5
        <4>3. B \in Nat
          BY <2>2 DEF ReaderTypes
        <4> HIDE DEF K, N
        <4> QED
          BY <4>1, <4>2, <4>3
      <3>2. S \in Nat /\ c \in Nat /\ e[K + 1] = S + Lead + c /\ e[K + 1] <= W
        <4>1. c \in Nat /\ S \in Nat
          BY <2>1, <2>2, <3>1, LaidNumbers
        <4>2. e[K + 1] = S + Lead + c /\ e[K + 1] <= W
          BY <2>1, <3>1 DEF Laid
        <4> QED
          BY <4>1, <4>2
      <3>3. CASE rd.pc = "size"
        <4>1. at = S /\ Lead = 4
          BY <2>2, <2>3, <3>3, <3>5 DEF AtSize, ReaderTypes, KindOK, Lead
        <4> HIDE DEF S, W, c, K
        <4> QED
          BY <2>4, <3>1, <3>2, <4>1 DEF W
      <3>4. CASE rd.pc = "frame"
        <4>1. at = S + Lead + B /\ B < rd.size
          BY <2>3, <3>4, <3>5 DEF InFrame
        <4>2. rd.size = c
          <5>1. CASE kind = "audio"
            BY <2>3, <3>4, <3>5, <5>1 DEF InFrame
          <5>2. CASE kind = "fixed"
            BY <2>2, <3>1, <5>2 DEF KindOK
          <5>3. CASE kind = "parser"
            BY <2>2, <2>4, <5>3 DEF KindOK
          <5> QED
            BY <2>2, <5>1, <5>2, <5>3 DEF ReaderTypes
        <4>3. at = W
          BY <2>4
        <4> HIDE DEF S, W, c, K, B
        <4> QED
          BY <3>1, <3>2, <4>1, <4>2, <4>3
      <3> QED
        BY <2>2, <2>4, <3>3, <3>4 DEF ReaderTypes
    <2> QED
      BY <2>2, <2>3, <2>4, <2>5 DEF FramesDelivered, GotSure, Straight
  <1> QED
    BY <1>1, <1>2, <1>3, PTL DEF SpecReaders

\* What the parser promises it also keeps in the behaviours of the readers: the
\* theorems above, of the specification without fairness that the run takes.
THEOREM ParserOfReaders == SpecReaders => [](TypeOK /\ DeliversMessages /\ NothingHeldBack)
  <1>1. InitReaders => Inv
    BY InvInit DEF InitReaders
  <1>2. Inv /\ [NextReaders]_<<vars, readerVars>> => Inv'
    BY InvNext, ParserStep
  <1> QED
    BY <1>1, <1>2, InvTypes, InvDelivers, InvKeepsNothing, PTL DEF SpecReaders
=============================================================================
