------------------------- MODULE RdpStreamingParser -------------------------
(***************************************************************************)
(* projector/RdpStreamingParser.cpp: messages out of a byte stream.  The   *)
(* redirector (Redirector.cpp) sends each message as its length, four      *)
(* bytes of an unsigned int, and its bytes; TCP cuts the stream anywhere;  *)
(* the channel hands each piece to Process, which is called from one       *)
(* thread, and the listener of IRdpSource copies each parsed message.      *)
(*                                                                         *)
(* The redirector's two Sends go to a non-blocking socket and their result *)
(* is ignored: what send() did not take is missing from the stream.        *)
(*                                                                         *)
(* A step is one turn of the loop of Process.  The stream is kept whole,   *)
(* with the positions up to which it was received and parsed.              *)
(***************************************************************************)
EXTENDS Naturals, Sequences

CONSTANTS Base,      \* values of a byte, 256
          Payload,   \* the bytes a message may be made of
          MaxLen,    \* bound: bytes of one message
          MaxMsgs    \* bound: messages sent in a behaviour

ASSUME BaseAssumption == Base \in Nat \ {0, 1}
ASSUME LenAssumption == MaxLen \in Nat /\ MaxLen < Base * Base * Base * Base
ASSUME PayloadAssumption == Payload \subseteq 0 .. Base - 1

HeaderSize == 4      \* g_MsgHeaderSize
Byte == 0 .. Base - 1

VARIABLES
    m_Stage, m_HeaderBuffer, m_BodyBuffer,
    m_BodySize,      \* what m_BodyBuffer has allocated
    received,        \* bytes of the stream handed to Process
    parsed,          \* bytes of the stream Process has consumed
    out,             \* the messages the listener got
    stream,          \* every byte the socket took
    msgs, ends,      \* the messages before the first short send, and where
                     \* each ends in the stream
    lost             \* how many were sent from the first short send on

parser == <<m_Stage, m_HeaderBuffer, m_BodyBuffer, m_BodySize, parsed, out>>
sender == <<stream, msgs, ends, lost>>
vars == <<parser, sender, received>>

Init ==
    /\ m_Stage = "Header" /\ m_HeaderBuffer = <<>> /\ m_BodyBuffer = <<>>
    /\ m_BodySize = 0 /\ received = 0 /\ parsed = 0 /\ out = <<>>
    /\ stream = <<>> /\ msgs = <<>> /\ ends = <<>> /\ lost = 0

Min2(a, b) == IF a <= b THEN a ELSE b
-----------------------------------------------------------------------------
(* Send(&size, 4); Send(data, size), on a little-endian machine            *)

Header(n) == << n % Base,
                (n \div Base) % Base,
                ((n \div Base) \div Base) % Base,
                ((n \div Base) \div Base) \div Base >>

\* m_pHeader->m_PayloadLength, read in place from the bytes of the header
PayloadLength(h) == h[1] + Base * (h[2] + Base * (h[3] + Base * h[4]))

SendWhole(m) ==
    /\ Len(msgs) < MaxMsgs /\ lost = 0
    /\ stream' = stream \o Header(Len(m)) \o m
    /\ msgs' = Append(msgs, m)
    /\ ends' = Append(ends, Len(stream) + HeaderSize + Len(m))
    /\ UNCHANGED <<lost, parser, received>>

\* send() takes h bytes of the size and b of the data, and nobody looks at the
\* result; or one of the two throws, and the rest of the message is not sent.
\* What comes after such a message is out of step with it.
SendShort(m, h, b) ==
    /\ Len(msgs) + lost < MaxMsgs
    /\ h + b < HeaderSize + Len(m) \/ lost > 0
    /\ h = 0 => b = 0
    /\ stream' = stream \o (SubSeq(Header(Len(m)), 1, h) \o SubSeq(m, 1, b))
    /\ lost' = lost + 1
    /\ UNCHANGED <<msgs, ends, parser, received>>

Send(m) ==
    \/ SendWhole(m)
    \/ \E h \in 0 .. HeaderSize, b \in 0 .. Len(m) : SendShort(m, h, b)

\* Process(pData, n), once the last call has come to its end
Process(n) ==
    /\ parsed = received
    /\ n \in 1 .. Len(stream) - received
    /\ received' = received + n
    /\ UNCHANGED <<parser, sender>>

\* the n bytes at pData
Data(n) == SubSeq(stream, parsed + 1, parsed + n)
-----------------------------------------------------------------------------
(* The two cases of the loop, and OnMessageParsed.  Clear() forgets the    *)
(* length of a buffer and leaves its bytes, so that the listener still     *)
(* finds the message under m_pMessage.                                     *)

OnMessageParsed(body) ==
    /\ m_Stage' = "Header" /\ m_HeaderBuffer' = <<>> /\ m_BodyBuffer' = <<>>
    /\ out' = Append(out, body)

\* Mutants of HeaderDone: the body's buffer does not grow; an empty message
\* waits for its body.
HeaderDoneNoGrow(header) ==
    \/ /\ PayloadLength(header) = 0
       /\ OnMessageParsed(<<>>)
       /\ UNCHANGED m_BodySize
    \/ /\ PayloadLength(header) # 0
       /\ m_Stage' = "Body" /\ m_HeaderBuffer' = header /\ m_BodyBuffer' = <<>>
       /\ UNCHANGED <<m_BodySize, out>>

HeaderDoneNoEmpty(header) ==
    /\ m_Stage' = "Body" /\ m_HeaderBuffer' = header /\ m_BodyBuffer' = <<>>
    /\ m_BodySize' = IF PayloadLength(header) > m_BodySize
                     THEN PayloadLength(header) ELSE m_BodySize
    /\ UNCHANGED out

HeaderDone(header) ==
    \/ /\ PayloadLength(header) = 0
       /\ OnMessageParsed(<<>>)
       /\ UNCHANGED m_BodySize
    \/ /\ PayloadLength(header) # 0
       /\ m_Stage' = "Body" /\ m_HeaderBuffer' = header /\ m_BodyBuffer' = <<>>
       /\ m_BodySize' = IF PayloadLength(header) > m_BodySize
                        THEN PayloadLength(header) ELSE m_BodySize
       /\ UNCHANGED out

HeaderPart ==
    /\ parsed < received /\ m_Stage = "Header"
    /\ LET n == Min2(received - parsed, HeaderSize - Len(m_HeaderBuffer))
           header == m_HeaderBuffer \o Data(n)
       IN  /\ parsed' = parsed + n
           /\ \/ Len(header) = HeaderSize /\ HeaderDone(header)
              \/ /\ Len(header) # HeaderSize
                 /\ m_HeaderBuffer' = header
                 /\ UNCHANGED <<m_Stage, m_BodyBuffer, m_BodySize, out>>
    /\ UNCHANGED <<sender, received>>

\* Mutant of BodyPart: the whole chunk is taken for the body.
BodyPartGreedy ==
    /\ parsed < received /\ m_Stage = "Body"
    /\ LET n == received - parsed
           body == m_BodyBuffer \o Data(n)
       IN  /\ parsed' = parsed + n
           /\ \/ Len(body) >= PayloadLength(m_HeaderBuffer) /\ OnMessageParsed(body)
              \/ /\ Len(body) < PayloadLength(m_HeaderBuffer)
                 /\ m_BodyBuffer' = body
                 /\ UNCHANGED <<m_Stage, m_HeaderBuffer, out>>
    /\ UNCHANGED <<sender, received, m_BodySize>>

BodyPart ==
    /\ parsed < received /\ m_Stage = "Body"
    /\ LET n == Min2(received - parsed, PayloadLength(m_HeaderBuffer) - Len(m_BodyBuffer))
           body == m_BodyBuffer \o Data(n)
       IN  /\ parsed' = parsed + n
           /\ \/ Len(body) = PayloadLength(m_HeaderBuffer) /\ OnMessageParsed(body)
              \/ /\ Len(body) # PayloadLength(m_HeaderBuffer)
                 /\ m_BodyBuffer' = body
                 /\ UNCHANGED <<m_Stage, m_HeaderBuffer, out>>
    /\ UNCHANGED <<sender, received, m_BodySize>>
-----------------------------------------------------------------------------
Messages == UNION {[1 .. n -> Payload] : n \in 0 .. MaxLen}

Next ==
    \/ \E m \in Messages : Send(m)
    \/ \E n \in 1 .. Len(stream) : Process(n)
    \/ HeaderPart \/ BodyPart

\* The loop of Process runs to its end, and what was sent is received.
Fairness ==
    /\ WF_vars(HeaderPart \/ BodyPart)
    /\ WF_vars(\E n \in 1 .. Len(stream) : Process(n))

Spec == Init /\ [][Next]_vars /\ Fairness
-----------------------------------------------------------------------------
(* Properties                                                              *)

ParserTypeOK ==
    /\ m_Stage \in {"Header", "Body"}
    /\ m_HeaderBuffer \in Seq(Byte) /\ m_BodyBuffer \in Seq(Byte)
    /\ m_BodySize \in Nat
    /\ out \in Seq(Seq(Byte))

StreamTypeOK ==
    /\ stream \in Seq(Byte)
    /\ received \in 0 .. Len(stream) /\ parsed \in 0 .. received
    /\ msgs \in Seq(Seq(Byte)) /\ ends \in Seq(Nat)
    /\ Len(ends) = Len(msgs) /\ lost \in Nat

\* The state stays in its types, and neither buffer takes more than it has
\* room for, whatever the stream holds: the ENSURE of DataBuffer::AppendFrom
\* never fails, not even on a length that is none.
TypeOK ==
    /\ ParserTypeOK /\ StreamTypeOK
    /\ Len(m_HeaderBuffer) <= HeaderSize
    /\ Len(m_BodyBuffer) <= m_BodySize

\* However TCP cuts the stream, inside a header, inside a body or with many
\* messages in one piece, the listener gets the messages that were sent, in
\* order, each once and unaltered, up to the first one of which the socket took
\* only a part; and until then nothing else.
DeliversMessages ==
    /\ \A k \in 1 .. Len(msgs) : k <= Len(out) => out[k] = msgs[k]
    /\ lost = 0 => Len(out) <= Len(msgs)

\* The parser keeps nothing back: when a call of Process has consumed its
\* bytes, every message that was received to its end has been delivered, an
\* empty one too, up to the first that was sent short.
NothingHeldBack ==
    parsed = received =>
        \A k \in 1 .. Len(msgs) : ends[k] <= received => k <= Len(out)
=============================================================================
