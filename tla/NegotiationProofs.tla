-------------------------- MODULE NegotiationProofs --------------------------
(***************************************************************************)
(* For any number of requests, heart beats and active stages: the types of *)
(* the negotiation, that a response is credited to the request that it     *)
(* answers unless m_CSeq has been set back, and that each channel gets the *)
(* connection that was opened for it.                                      *)
(***************************************************************************)
EXTENDS Negotiation, SequenceTheorems, TLAPS

\* The number that the client's next request gets, by whichever thread
Bound == IF pa.pc = "store" THEN pa.loaded ELSE rtsp["client"].m_CSeq

\* A message with a number given out before, which only its own request has
Known(m) == m.cseq < Bound /\ \A r \in Requests : pa.cseqOf[r] = m.cseq => r = m.req

\* A request of the client at the server, or a response to one at the client
Own(s, m) == m.resp <=> s = "client"

\* The messages on the way to a side, in its buffer or in its worker's hands
Elements(q) == {q[i] : i \in 1 .. Len(q)}
Carried(s) == Elements(net[s]) \cup Elements(rtsp[s].m_Buf) \cup
              (IF rtsp[s].worker \in {"handle", "credit", "accept"} THEN {rtsp[s].cur} ELSE {})

\* As long as m_CSeq has not been set back, every number that a request of the
\* agent has, or a message of the client's carries, was given out once.
Numbered ==
    ~hist.rewound =>
       /\ \A r \in Requests : pa.cseqOf[r] < Bound
       /\ \A s \in Side : \A m \in Carried(s) : Own(s, m) => Known(m)
       /\ rtsp["client"].worker = "credit" => pa.match = rtsp["client"].cur.req
       /\ hist.credited = {}

\* Only the server's worker accepts, with a setup request in its hands.
Accepting ==
    \A s \in Side : rtsp[s].worker = "accept" =>
       s = "server" /\ ~rtsp[s].cur.resp /\ rtsp[s].cur.req \in Requests

NegotiationInv == TypeOK /\ Numbered /\ Accepting
-----------------------------------------------------------------------------
(* Types                                                                   *)

\* The chain of ifs has the six requests.
LEMMA ChainLength ==
    /\ Len(Chain) = 6 /\ {"resolution", "screen"} \subseteq Requests /\ "beat" \notin Requests
    /\ Channels \in Seq(Requests) /\ Len(Channels) = 5 /\ \A i \in 1 .. 5 : Channels[i] \in Requests
<1> DEFINE Names == {"resolution", "screen", "hid", "dr", "audio", "touch"}
<1> DEFINE One == <<"resolution">>
<1>1. Channels \in Seq(Names) /\ Len(Channels) = 5
  BY DEF Channels
<1>2. One \in Seq(Names) /\ Len(One) = 1 /\ One[1] = "resolution"
  OBVIOUS
<1>3. Len(Chain) = 6 /\ Chain[1] = "resolution" /\ \A i \in 1 .. 5 : Chain[i + 1] = Channels[i]
  <2>1. Chain = One \o Channels
    BY DEF Chain
  <2> HIDE DEF Names, One
  <2>2. /\ Len(Chain) = Len(One) + Len(Channels)
        /\ \A i \in 1 .. Len(One) + Len(Channels) :
              Chain[i] = IF i <= Len(One) THEN One[i] ELSE Channels[i - Len(One)]
    BY <1>1, <1>2, <2>1, ConcatProperties
  <2>3. Len(Chain) = 6
    BY <1>1, <1>2, <2>2
  <2>4. Chain[1] = "resolution"
    BY <1>1, <1>2, <2>2
  <2>5. \A i \in 1 .. 5 : Chain[i + 1] = Channels[i]
    <3> TAKE i \in 1 .. 5
    <3>1. i + 1 \in 1 .. 6 /\ ~(i + 1 <= 1) /\ (i + 1) - 1 = i
      OBVIOUS
    <3> QED
      BY <3>1, <1>1, <1>2, <2>2
  <2> QED
    BY <2>3, <2>4, <2>5
<1>4. /\ {"resolution", "screen"} \subseteq Requests
      /\ \A i \in 1 .. 5 : Channels[i] \in Requests
  <2>1. "resolution" \in Requests /\ \A i \in 1 .. 5 : Channels[i] \in Requests
    BY <1>3 DEF Requests
  <2>2. Channels[1] = "screen"
    BY DEF Channels
  <2> QED
    BY <2>1, <2>2
<1>5. Channels \in Seq(Requests)
  BY <1>4 DEF Channels
<1>6. "beat" \notin Requests
  <2> SUFFICES ASSUME NEW i \in 1 .. 6 PROVE Chain[i] # "beat"
    BY <1>3 DEF Requests
  <2>1. CASE i = 1
    BY <1>3, <2>1
  <2>2. CASE i # 1
    <3>1. i - 1 \in 1 .. 5 /\ (i - 1) + 1 = i
      BY <2>2
    <3>2. Chain[i] = Channels[i - 1]
      BY <1>3, <3>1
    <3>3. Channels[i - 1] # "beat"
      BY <3>1 DEF Channels
    <3> QED
      BY <3>2, <3>3
  <2> QED
    BY <2>1, <2>2
<1> QED
  BY <1>1, <1>3, <1>4, <1>5, <1>6

\* What HandleMessage leaves behind, when it returns and when it throws
LEMMA WorkerTypes ==
    ASSUME rtsp \in [Side -> RtspType], NEW s \in Side
    PROVE  Handled(s) \in [Side -> RtspType] /\ Ended(s) \in [Side -> RtspType]
<1>1. NoMsg \in Messages
  BY DEF NoMsg, Messages
<1>2. <<>> \in Seq(Messages)
  OBVIOUS
<1>3. [rtsp[s] EXCEPT !.worker = "recv", !.cur = NoMsg, !.m_IsAlive = TRUE] \in RtspType
  BY <1>1 DEF RtspType
<1>4. [rtsp[s] EXCEPT !.worker = "ended", !.cur = NoMsg, !.m_Buf = <<>>] \in RtspType
  BY <1>1, <1>2 DEF RtspType
<1> QED
  BY <1>3, <1>4 DEF Handled, Ended

\* DisconnectedByClientEvent
LEMMA ReportType ==
    ASSUME NEW s \in Side, NEW r \in [Side -> RtspType] PROVE Report(s, r) \in [Side -> RtspType]
<1>1. [r[s] EXCEPT !.reported = TRUE] \in RtspType
  BY DEF RtspType
<1> QED
  BY <1>1 DEF Report

\* An exception, and the end, of a request of the agent
LEMMA AgentTypes ==
    ASSUME pa \in AgentType, pa.todo # <<>>
    PROVE  /\ Aborted \in AgentType /\ Aborted.pc \in {"idle", "failed"}
           /\ Done \in AgentType /\ Done.pc = "idle"
           /\ Head(pa.todo) \in Requests
<1>1. pa.todo \in Seq(Requests)
  BY DEF AgentType
<1>2. Head(pa.todo) \in Requests /\ Tail(pa.todo) \in Seq(Requests) /\ <<>> \in Seq(Requests)
  BY <1>1, HeadTailProperties, EmptySeq
<1> QED
  BY <1>2 DEF Aborted, Done, AgentType

\* A message more on the way to a side
LEMMA TransmitType ==
    ASSUME net \in [Side -> Seq(Messages)], NEW s \in Side, NEW m \in Messages, Transmit(s, m)
    PROVE  net' \in [Side -> Seq(Messages)]
  BY DEF Transmit, Other, Side

\* A response to the message in hand
LEMMA ReplyType ==
    ASSUME TypeOK, NEW s \in Side, NEW ok \in BOOLEAN, NEW then \in [Side -> RtspType],
           Reply(s, ok, then)
    PROVE  net' \in [Side -> Seq(Messages)] /\ rtsp' \in [Side -> RtspType]
<1>1. Msg(rtsp[s].cur.req, rtsp[s].cur.cseq, TRUE, ok) \in Messages
  BY DEF TypeOK, RtspType, Messages, Msg
<1> QED
  BY <1>1, TransmitType, WorkerTypes DEF Reply, Throws, TypeOK

\* No request has been made: the invariant holds.
LEMMA NegotiationInit == Init => NegotiationInv
<1> SUFFICES ASSUME Init PROVE NegotiationInv
  OBVIOUS
<1>1. "resolution" \in Requests
  BY ChainLength
<1>2. NoMsg \in Messages /\ <<>> \in Seq(Messages) /\ <<>> \in Seq(Requests)
  BY DEF NoMsg, Messages
<1>3. <<"resolution">> \in Seq(Requests)
  BY <1>1
<1>4. rtsp \in [Side -> RtspType]
  BY <1>2 DEF Init, RtspType
<1>5. pa \in AgentType
  BY <1>1, <1>3 DEF Init, AgentType
<1>6. TypeOK
  BY <1>2, <1>4, <1>5 DEF Init, TypeOK, HistType
<1>7. Numbered /\ Accepting
  BY DEF Init, Numbered, Accepting, Bound, Carried, Elements, Side
<1> QED
  BY <1>6, <1>7 DEF NegotiationInv

\* The heart beat's thread
LEMMA BeatTypes ==
    ASSUME TypeOK, NEW s \in Side, BeatLoad(s) \/ BeatStep(s) PROVE TypeOK'
<1>0. rtsp[s] \in RtspType /\ rtsp[s].m_CSeq \in Nat /\ rtsp[s].loaded \in Nat /\ rtsp[s].beats \in Nat
  BY DEF TypeOK, RtspType
<1>1. CASE BeatLoad(s)
  <2>1. [rtsp[s] EXCEPT !.beat = "store", !.beats = @ + 1, !.loaded = rtsp[s].m_CSeq] \in RtspType
    <3>1. PICK x \in Nat : x = rtsp[s].beats + 1
      BY <1>0
    <3>2. [rtsp[s] EXCEPT !.beat = "store", !.beats = x, !.loaded = rtsp[s].m_CSeq] \in RtspType
      BY <1>0 DEF RtspType
    <3> QED
      BY <3>1, <3>2
  <2>2. rtsp' \in [Side -> RtspType]
    BY <1>1, <2>1 DEF BeatLoad, TypeOK
  <2> QED
    BY <1>1, <2>2 DEF BeatLoad, TypeOK
<1>2. CASE BeatStore(s)
  <2>1. [rtsp[s] EXCEPT !.beat = "send", !.m_CSeq = rtsp[s].loaded + 1, !.loaded = 0] \in RtspType
    <3>1. PICK x \in Nat : x = rtsp[s].loaded + 1
      BY <1>0
    <3>2. [rtsp[s] EXCEPT !.beat = "send", !.m_CSeq = x, !.loaded = 0] \in RtspType
      BY <1>0 DEF RtspType
    <3> QED
      BY <3>1, <3>2
  <2>2. rtsp' \in [Side -> RtspType]
    BY <1>2, <2>1 DEF BeatStore, TypeOK
  <2>3. hist' \in HistType
    BY <1>2, <1>0 DEF BeatStore, TypeOK, HistType
  <2> QED
    BY <1>2, <2>2, <2>3 DEF BeatStore, TypeOK
<1>3. CASE BeatSend(s)
  <2>1. [rtsp[s] EXCEPT !.beat = "idle", !.m_CSeq = @ + 1] \in RtspType
    <3>1. PICK x \in Nat : x = rtsp[s].m_CSeq + 1
      BY <1>0
    <3>2. [rtsp[s] EXCEPT !.beat = "idle", !.m_CSeq = x] \in RtspType
      BY <1>0 DEF RtspType
    <3> QED
      BY <3>1, <3>2
  <2>2. rtsp' \in [Side -> RtspType]
    BY <1>3, <2>1 DEF BeatSend, TypeOK
  <2>3. Msg("beat", rtsp[s].m_CSeq, FALSE, TRUE) \in Messages
    BY <1>0 DEF Msg, Messages
  <2>4. net' \in [Side -> Seq(Messages)]
    BY <1>3, <2>3, TransmitType DEF BeatSend, Throws, TypeOK
  <2> QED
    BY <1>3, <2>2, <2>4 DEF BeatSend, TypeOK
<1> QED
  BY <1>1, <1>2, <1>3 DEF BeatStep

\* The agent's thread, and Redirector's
LEMMA AgentStepTypes ==
    ASSUME TypeOK, AgentStep \/ Active \/ Register PROVE TypeOK'
<1>0. pa \in AgentType /\ pa.loaded \in Nat /\ rtsp["client"] \in RtspType /\ rtsp["client"].m_CSeq \in Nat
  BY DEF TypeOK, AgentType, RtspType, Side
<1>1. CASE Active
  <2>1. plan.setups \in 0 .. 5
    BY PlansAssumption DEF TypeOK
  <2>2. SubSeq(Channels, 1, plan.setups) \in Seq(Requests)
    <3>1. \A i \in 1 .. plan.setups : Channels[i] \in Requests
      BY <2>1, ChainLength
    <3> QED
      BY <2>1, <3>1, ChainLength
  <2>3. PICK q \in Seq(Requests), x \in Nat :
          pa' = [pa EXCEPT !.todo = q, !.stage = x] /\ pa.pc = "idle"
    <3>1. pa.stage + 1 \in Nat
      BY <1>0 DEF AgentType
    <3> QED
      BY <1>1, <2>2, <3>1, Zenon DEF Active
  <2>4. pa' \in AgentType /\ pa'.pc = "idle"
    BY <1>0, <2>3 DEF AgentType
  <2> QED
    BY <1>1, <2>4 DEF Active, TypeOK
<1>2. CASE Register
  <2>1. pa' \in AgentType /\ pa'.pc = pa.pc /\ pa'.todo = pa.todo
    BY <1>0, <1>2 DEF Register, AgentType
  <2> QED
    BY <1>2, <2>1 DEF Register, TypeOK
<1>3. CASE RequestLoad
  <2>1. pa' \in AgentType /\ pa'.todo = pa.todo
    BY <1>0, <1>3 DEF RequestLoad, AgentType
  <2> QED
    BY <1>3, <2>1 DEF RequestLoad, TypeOK
<1>4. CASE RequestSend
  <2> DEFINE req == Head(pa.todo)
  <2>0. pa.pc = "store" /\ pa.todo # <<>> /\ req \in Requests /\ Aborted \in AgentType
        /\ Aborted.pc \in {"idle", "failed"}
    BY <1>0, <1>4, AgentTypes DEF RequestSend, TypeOK
  <2>1. [rtsp["client"] EXCEPT !.m_CSeq = pa.loaded + 1] \in RtspType
    BY <1>0 DEF RtspType
  <2>2. rtsp' \in [Side -> RtspType]
    BY <1>4, <2>1 DEF RequestSend, TypeOK, Side
  <2>3. CASE /\ Transmit("client", Msg(req, pa.loaded, FALSE, TRUE)) /\ UNCHANGED hist
             /\ pa' = [pa EXCEPT !.cseqOf[req] = pa.loaded, !.loaded = 0,
                                 !.pc = IF pa.received[req] THEN "proceed" ELSE "wait"]
    <3>1. Msg(req, pa.loaded, FALSE, TRUE) \in Messages
      BY <1>0, <2>0 DEF Msg, Messages
    <3>2. net' \in [Side -> Seq(Messages)]
      BY <2>3, <3>1, TransmitType DEF TypeOK, Side
    <3>3. pa' \in AgentType /\ pa'.todo = pa.todo
      <4>1. PICK f \in [Requests -> Int], w \in {"proceed", "wait"} :
              pa' = [pa EXCEPT !.cseqOf = f, !.loaded = 0, !.pc = w]
        <5>1. [pa.cseqOf EXCEPT ![req] = pa.loaded] \in [Requests -> Int]
          BY <1>0, <2>0 DEF AgentType
        <5> QED
          BY <2>3, <5>1
      <4> QED
        BY <1>0, <4>1 DEF AgentType
    <3> QED
      BY <1>4, <2>0, <2>2, <2>3, <3>2, <3>3 DEF RequestSend, TypeOK
  <2>4. CASE /\ Throws /\ Failed("stage")
             /\ pa' = [Aborted EXCEPT !.cseqOf[req] = pa.loaded, !.loaded = 0]
    <3>1. pa' \in AgentType /\ pa'.pc \in {"idle", "failed"}
      <4>1. PICK f \in [Requests -> Int] : pa' = [Aborted EXCEPT !.cseqOf = f, !.loaded = 0]
        <5>1. [Aborted.cseqOf EXCEPT ![req] = pa.loaded] \in [Requests -> Int]
          BY <1>0, <2>0 DEF AgentType
        <5> QED
          BY <2>4, <5>1
      <4> QED
        BY <2>0, <4>1 DEF AgentType
    <3>2. hist' \in HistType
      BY <2>4 DEF Failed, HistType, TypeOK
    <3> QED
      BY <1>4, <2>2, <2>4, <3>1, <3>2 DEF RequestSend, Throws, TypeOK
  <2> QED
    BY <1>4, <2>3, <2>4 DEF RequestSend
<1>5. CASE Proceed
  <2>0. pa.todo # <<>>
    BY <1>5 DEF Proceed, WaitOver, TypeOK
  <2>1. /\ Aborted \in AgentType /\ Aborted.pc \in {"idle", "failed"}
        /\ Done \in AgentType /\ Done.pc = "idle" /\ Head(pa.todo) \in Requests
    BY <1>0, <2>0, AgentTypes
  <2>2. pa' \in {Aborted, Done}
    BY <1>5 DEF Proceed, Connect, CannotConnect
  <2>3. backlog' \in Seq(Requests)
    <3>1. backlog' = backlog \/ backlog' = Append(backlog, Head(pa.todo))
      BY <1>5 DEF Proceed, Connect, CannotConnect
    <3>2. backlog \in Seq(Requests)
      BY DEF TypeOK
    <3> QED
      BY <2>1, <3>1, <3>2
  <2>4. hist' \in HistType
    BY <1>5 DEF Proceed, Connect, CannotConnect, Failed, TypeOK, HistType
  <2> QED
    BY <1>5, <2>1, <2>2, <2>3, <2>4 DEF Proceed, TypeOK
<1>6. CASE TimeOut
  <2>0. pa.todo # <<>>
    BY <1>6 DEF TimeOut, TypeOK
  <2>1. Aborted \in AgentType /\ Aborted.pc \in {"idle", "failed"}
    BY <1>0, <2>0, AgentTypes
  <2>2. hist' \in HistType
    BY <1>6 DEF TimeOut, Failed, TypeOK, HistType
  <2> QED
    BY <1>6, <2>1, <2>2 DEF TimeOut, TypeOK
<1> QED
  BY <1>1, <1>2, <1>3, <1>4, <1>5, <1>6 DEF AgentStep

\* The RTSP worker's thread
LEMMA WorkerStepTypes ==
    ASSUME TypeOK, Accepting, NEW s \in Side, WorkerStep(s) \/ (s = "server" /\ AcceptFails)
    PROVE  TypeOK'
<1>0. /\ rtsp \in [Side -> RtspType] /\ rtsp[s] \in RtspType /\ net[s] \in Seq(Messages)
      /\ rtsp[s].m_Buf \in Seq(Messages) /\ rtsp[s].cur \in Messages
      /\ pa \in AgentType /\ hist \in HistType
  BY DEF TypeOK, RtspType
<1>1. CASE Recv(s)
  <2>1. PICK k \in 0 .. Len(net[s]) :
          LET buf == rtsp[s].m_Buf \o SubSeq(net[s], 1, k)
          IN  /\ buf # <<>>
              /\ rtsp' = [rtsp EXCEPT ![s].worker = "handle", ![s].cur = Head(buf),
                                      ![s].m_Buf = Tail(buf)]
              /\ net' = [net EXCEPT ![s] = SubSeq(@, k + 1, Len(@))]
    BY <1>1 DEF Recv
  <2> DEFINE buf == rtsp[s].m_Buf \o SubSeq(net[s], 1, k)
  <2>2. SubSeq(net[s], 1, k) \in Seq(Messages) /\ SubSeq(net[s], k + 1, Len(net[s])) \in Seq(Messages)
    BY <1>0, <2>1, SubSeqProperties
  <2>3. buf \in Seq(Messages) /\ buf # <<>>
    BY <1>0, <2>1, <2>2, ConcatProperties
  <2>4. Head(buf) \in Messages /\ Tail(buf) \in Seq(Messages)
    BY <2>3, HeadTailProperties
  <2>5. PICK c \in Messages, q \in Seq(Messages) :
          rtsp' = [rtsp EXCEPT ![s].worker = "handle", ![s].cur = c, ![s].m_Buf = q]
    BY <2>1, <2>4
  <2>6. [rtsp[s] EXCEPT !.worker = "handle", !.cur = c, !.m_Buf = q] \in RtspType
    BY <1>0 DEF RtspType
  <2>7. rtsp' \in [Side -> RtspType]
    BY <1>0, <2>5, <2>6
  <2>8. net' \in [Side -> Seq(Messages)]
    BY <2>1, <2>2 DEF TypeOK
  <2> QED
    BY <1>1, <2>7, <2>8 DEF Recv, TypeOK
<1>2. CASE RecvThrows(s)
  <2>1. rtsp' \in [Side -> RtspType]
    BY <1>0, <1>2, WorkerTypes, ReportType DEF RecvThrows
  <2> QED
    BY <1>2, <2>1 DEF RecvThrows, TypeOK
<1>3. CASE HandleBeat(s)
  <2>1. net' \in [Side -> Seq(Messages)] /\ rtsp' \in [Side -> RtspType]
    BY <1>0, <1>3, WorkerTypes, ReplyType DEF HandleBeat
  <2> QED
    BY <1>3, <2>1 DEF HandleBeat, TypeOK
<1>4. CASE HandleResponse(s)
  <2>1. [rtsp[s] EXCEPT !.worker = "credit"] \in RtspType
    BY <1>0 DEF RtspType
  <2>2. rtsp' \in [Side -> RtspType]
    BY <1>0, <1>4, <2>1, WorkerTypes DEF HandleResponse
  <2>3. \A i \in Matching : Chain[i] \in Requests
    BY DEF Matching, Requests
  <2>4. pa' = pa \/ \E r \in Requests : pa' = [pa EXCEPT !.match = r]
    BY <1>4, <2>3 DEF HandleResponse
  <2>5. pa' \in AgentType /\ pa'.pc = pa.pc /\ pa'.todo = pa.todo
    BY <1>0, <2>4 DEF AgentType
  <2> QED
    BY <1>4, <2>2, <2>5 DEF HandleResponse, TypeOK
<1>5. CASE s = "client" /\ Credit
  <2>0. pa.match \in Requests /\ "resolution" \in Requests /\ rtsp["client"].cur = rtsp[s].cur
    BY <1>0, <1>5, ChainLength DEF AgentType
  <2>1. rtsp' \in [Side -> RtspType]
    BY <1>0, <1>5, WorkerTypes DEF Credit
  <2>2. PICK f \in [Requests -> BOOLEAN], b \in BOOLEAN, r \in Requests :
          pa' = [pa EXCEPT !.received = f, !.result = b, !.match = r]
    <3>1. [pa.received EXCEPT ![pa.match] = TRUE] \in [Requests -> BOOLEAN]
      BY <1>0, <2>0 DEF AgentType
    <3>2. (IF pa.match = "screen" THEN rtsp["client"].cur.ok ELSE pa.result) \in BOOLEAN
      BY <1>0, <2>0 DEF AgentType, Messages
    <3> QED
      BY <1>5, <2>0, <3>1, <3>2 DEF Credit
  <2>3. pa' \in AgentType /\ pa'.pc = pa.pc /\ pa'.todo = pa.todo
    BY <1>0, <2>2 DEF AgentType
  <2>4. hist' \in HistType
    <3>1. Crossed(pa.match, rtsp["client"].cur.req) \subseteq Requests \X (Requests \cup {"beat"})
      BY <1>0, <2>0 DEF Crossed, Messages
    <3> QED
      BY <1>0, <1>5, <3>1 DEF Credit, HistType
  <2> QED
    BY <1>5, <2>1, <2>3, <2>4 DEF Credit, TypeOK
<1>6. CASE s = "server" /\ (ServeResolution \/ InitFails)
  <2>1. net' \in [Side -> Seq(Messages)] /\ rtsp' \in [Side -> RtspType]
    BY <1>0, <1>6, WorkerTypes, ReplyType DEF ServeResolution, InitFails
  <2>2. hist' \in HistType
    BY <1>0, <1>6 DEF ServeResolution, InitFails, Failed, HistType
  <2> QED
    BY <1>6, <2>1, <2>2 DEF ServeResolution, InitFails, TypeOK
<1>7. CASE s = "server" /\ ServeSetup
  <2>1. [rtsp[s] EXCEPT !.worker = "accept"] \in RtspType
    BY <1>0 DEF RtspType
  <2>2. [rtsp EXCEPT !["server"].worker = "accept"] \in [Side -> RtspType]
    BY <1>0, <1>7, <2>1
  <2>3. net' \in [Side -> Seq(Messages)] /\ rtsp' \in [Side -> RtspType]
    BY <1>7, <2>2, ReplyType DEF ServeSetup
  <2> QED
    BY <1>7, <2>3 DEF ServeSetup, TypeOK
<1>8. CASE s = "server" /\ Accept
  <2>1. rtsp' \in [Side -> RtspType]
    BY <1>0, <1>8, WorkerTypes DEF Accept
  <2>2. Head(backlog) \in Requests /\ Tail(backlog) \in Seq(Requests)
    BY <1>8, HeadTailProperties DEF Accept, TypeOK
  <2>3. hist' \in HistType
    <3>1. rtsp["server"].cur.req \in Requests
      BY <1>8 DEF Accept, Accepting
    <3>2. Crossed(rtsp["server"].cur.req, Head(backlog)) \subseteq Requests \X Requests
      BY <2>2, <3>1 DEF Crossed
    <3> QED
      BY <1>0, <1>8, <3>2 DEF Accept, HistType
  <2> QED
    BY <1>8, <2>1, <2>2, <2>3 DEF Accept, TypeOK
<1>9. CASE s = "server" /\ AcceptFails
  <2>1. net' \in [Side -> Seq(Messages)] /\ rtsp' \in [Side -> RtspType]
    BY <1>0, <1>9, WorkerTypes, ReplyType DEF AcceptFails
  <2>2. hist' \in HistType
    BY <1>0, <1>9 DEF AcceptFails, Failed, HistType
  <2>3. backlog' \in Seq(Requests)
    BY <1>9, HeadTailProperties DEF AcceptFails, TypeOK
  <2> QED
    BY <1>9, <2>1, <2>2, <2>3 DEF AcceptFails, TypeOK
<1> QED
  BY <1>1, <1>2, <1>3, <1>4, <1>5, <1>6, <1>7, <1>8, <1>9 DEF WorkerStep

\* The watch dog, the stops and the loss of the connection
LEMMA EndTypes ==
    ASSUME TypeOK, NEW s \in Side,
           Watchdog(s) \/ StopCall(s) \/ StopStep(s) \/ ConnectionLost
    PROVE  TypeOK'
<1>0. rtsp \in [Side -> RtspType]
  BY DEF TypeOK
<1>1. \A t \in {"timers", "joining", "done"} : [rtsp EXCEPT ![s].stop = t] \in [Side -> RtspType]
  <2> TAKE t \in {"timers", "joining", "done"}
  <2>1. [rtsp[s] EXCEPT !.stop = t] \in RtspType
    BY <1>0 DEF RtspType
  <2> QED
    BY <1>0, <2>1
<1>2. [rtsp EXCEPT ![s].m_IsAlive = FALSE] \in [Side -> RtspType]
  <2>1. [rtsp[s] EXCEPT !.m_IsAlive = FALSE] \in RtspType
    BY <1>0 DEF RtspType
  <2> QED
    BY <1>0, <2>1
<1>3. ASSUME NEW r \in [Side -> RtspType], Lost(r)
      PROVE  rtsp' \in [Side -> RtspType] /\ net' \in [Side -> Seq(Messages)] /\ up' \in BOOLEAN
  <2>1. <<>> \in Seq(Messages)
    OBVIOUS
  <2>2. \A x \in Side : [r[x] EXCEPT !.m_Buf = <<>>] \in RtspType
    BY <2>1 DEF RtspType
  <2> QED
    BY <1>3, <2>1, <2>2 DEF Lost
<1>4. CASE Watchdog(s)
  BY <1>0, <1>2, <1>4, ReportType DEF Watchdog, TypeOK
<1>5. CASE StopCall(s)
  BY <1>1, <1>5 DEF StopCall, TypeOK
<1>6. CASE StopShutdown(s)
  BY <1>1, <1>3, <1>6 DEF StopShutdown, TypeOK
<1>7. CASE StopJoined(s)
  BY <1>1, <1>7 DEF StopJoined, TypeOK
<1>8. CASE ConnectionLost
  BY <1>0, <1>3, <1>8 DEF ConnectionLost, TypeOK
<1> QED
  BY <1>4, <1>5, <1>6, <1>7, <1>8 DEF StopStep
-----------------------------------------------------------------------------
(* Numbers                                                                 *)

\* The bound and the numbers of the requests are integers, before and after.
LEMMA BoundType ==
    /\ TypeOK => Bound \in Int /\ pa.cseqOf \in [Requests -> Int]
    /\ TypeOK' => Bound' \in Int
<1>1. ASSUME TypeOK PROVE Bound \in Int /\ pa.cseqOf \in [Requests -> Int]
  <2>1. pa \in AgentType /\ rtsp["client"] \in RtspType
    BY <1>1 DEF TypeOK, Side
  <2> QED
    BY <2>1 DEF Bound, AgentType, RtspType
<1>2. ASSUME TypeOK' PROVE Bound' \in Int
  <2>1. pa' \in AgentType /\ rtsp'["client"] \in RtspType
    BY <1>2 DEF TypeOK, Side
  <2> QED
    BY <2>1 DEF Bound, AgentType, RtspType
<1> QED
  BY <1>1, <1>2

\* A step that moves the bound up, or not at all, and gives no number but the
\* bound to a request leaves every message as known as it was.
LEMMA KnownKept ==
    ASSUME TypeOK, TypeOK', Bound' >= Bound,
           \/ pa'.cseqOf = pa.cseqOf
           \/ \E q \in Requests : pa'.cseqOf = [pa.cseqOf EXCEPT ![q] = Bound],
           NEW m \in Messages, Known(m)
    PROVE  Known(m)'
<1>1. Bound \in Int /\ Bound' \in Int /\ m.cseq \in Int /\ pa.cseqOf \in [Requests -> Int]
  BY BoundType DEF Messages
<1>2. m.cseq < Bound /\ m.cseq < Bound'
  BY <1>1 DEF Known
<1>3. ASSUME NEW r \in Requests, pa'.cseqOf[r] = m.cseq PROVE r = m.req
  <2>1. pa'.cseqOf[r] = pa.cseqOf[r] \/ pa'.cseqOf[r] = Bound
    BY <1>1
  <2> QED
    BY <1>1, <1>2, <1>3, <2>1 DEF Known
<1> QED
  BY <1>2, <1>3 DEF Known

\* What a step has to keep to, so that the numbers stay in order
LEMMA NumberedKept ==
    ASSUME TypeOK, TypeOK', Numbered, hist.rewound => hist'.rewound,
           ~hist'.rewound => Bound' >= Bound,
           ~hist'.rewound => \A r \in Requests :
               pa'.cseqOf[r] < Bound' \/ (pa'.cseqOf[r] = pa.cseqOf[r]),
           \/ pa'.cseqOf = pa.cseqOf
           \/ \E q \in Requests : pa'.cseqOf = [pa.cseqOf EXCEPT ![q] = Bound],
           ~hist'.rewound => \A s \in Side : \A m \in Carried(s)' :
               m \in Carried(s) \/ (Own(s, m) => Known(m)'),
           ~hist'.rewound /\ rtsp'["client"].worker = "credit" =>
               pa'.match = rtsp'["client"].cur.req,
           ~hist'.rewound => hist'.credited = {}
    PROVE  Numbered'
<1> SUFFICES ASSUME ~hist'.rewound
             PROVE  /\ \A r \in Requests : pa'.cseqOf[r] < Bound'
                    /\ \A s \in Side : \A m \in Carried(s)' : Own(s, m) => Known(m)'
                    /\ rtsp'["client"].worker = "credit" => pa'.match = rtsp'["client"].cur.req
                    /\ hist'.credited = {}
  BY DEF Numbered, Own
<1>1. ~hist.rewound /\ Bound' >= Bound
  OBVIOUS
<1>2. Bound \in Int /\ Bound' \in Int /\ pa.cseqOf \in [Requests -> Int]
  BY BoundType
<1>3. \A r \in Requests : pa'.cseqOf[r] < Bound'
  BY <1>1, <1>2 DEF Numbered
<1>4. \A s \in Side : Carried(s) \subseteq Messages
  <2> TAKE s \in Side
  <2>1. net[s] \in Seq(Messages) /\ rtsp[s].m_Buf \in Seq(Messages) /\ rtsp[s].cur \in Messages
    BY DEF TypeOK, RtspType
  <2>2. \A q \in Seq(Messages) : Elements(q) \subseteq Messages
    BY ElementOfSeq DEF Elements
  <2> QED
    BY <2>1, <2>2 DEF Carried
<1>5. ASSUME NEW s \in Side, NEW m \in Carried(s)', Own(s, m) PROVE Known(m)'
  <2>1. CASE m \in Carried(s)
    <3>1. Known(m) /\ m \in Messages
      BY <1>1, <1>4, <1>5, <2>1 DEF Numbered
    <3> QED
      BY <1>1, <3>1, KnownKept
  <2> QED
    BY <1>5, <2>1
<1> QED
  BY <1>3, <1>5

\* What sequence operations do to the messages in them
LEMMA ElementsOf ==
    ASSUME NEW q \in Seq(Messages)
    PROVE  /\ \A m \in Messages : Elements(Append(q, m)) = Elements(q) \cup {m}
           /\ q # <<>> => Head(q) \in Elements(q) /\ Elements(Tail(q)) \subseteq Elements(q)
           /\ \A i \in 1 .. Len(q) + 1, j \in 0 .. Len(q) : Elements(SubSeq(q, i, j)) \subseteq Elements(q)
           /\ \A p \in Seq(Messages) : Elements(q \o p) = Elements(q) \cup Elements(p)
<1>1. ASSUME NEW m \in Messages PROVE Elements(Append(q, m)) = Elements(q) \cup {m}
  BY AppendProperties DEF Elements
<1>2. ASSUME q # <<>> PROVE Head(q) \in Elements(q) /\ Elements(Tail(q)) \subseteq Elements(q)
  <2>1. Len(q) > 0 /\ Len(Tail(q)) = Len(q) - 1 /\ \A i \in 1 .. Len(Tail(q)) : Tail(q)[i] = q[i + 1]
    BY <1>2, HeadTailProperties, EmptySeq
  <2>2. Head(q) = q[1]
    BY <1>2
  <2> QED
    BY <2>1, <2>2 DEF Elements
<1>3. ASSUME NEW i \in 1 .. Len(q) + 1, NEW j \in 0 .. Len(q)
      PROVE  Elements(SubSeq(q, i, j)) \subseteq Elements(q)
  <2>1. /\ Len(SubSeq(q, i, j)) = IF i <= j THEN j - i + 1 ELSE 0
        /\ \A k \in 1 .. Len(SubSeq(q, i, j)) : SubSeq(q, i, j)[k] = q[i + k - 1]
    BY SubSeqProperties
  <2> QED
    BY <2>1 DEF Elements
<1>4. ASSUME NEW p \in Seq(Messages) PROVE Elements(q \o p) = Elements(q) \cup Elements(p)
  <2>1. /\ Len(q \o p) = Len(q) + Len(p)
        /\ \A i \in 1 .. Len(q) + Len(p) : (q \o p)[i] = IF i <= Len(q) THEN q[i] ELSE p[i - Len(q)]
    BY ConcatProperties
  <2>2. Elements(q \o p) \subseteq Elements(q) \cup Elements(p)
    BY <2>1 DEF Elements
  <2>3. Elements(q) \subseteq Elements(q \o p)
    BY <2>1 DEF Elements
  <2>4. ASSUME NEW i \in 1 .. Len(p) PROVE p[i] \in Elements(q \o p)
    <3>1. Len(q) + i \in 1 .. Len(q) + Len(p) /\ (q \o p)[Len(q) + i] = p[i]
      BY <2>1
    <3> QED
      BY <2>1, <3>1 DEF Elements
  <2> QED
    BY <2>2, <2>3, <2>4 DEF Elements
<1> QED
  BY <1>1, <1>2, <1>3, <1>4

\* The fields of a message
LEMMA RequestFields ==
    ASSUME NEW req \in Requests \cup {"beat"}, NEW c \in Int
    PROVE  \E m \in Messages : /\ m = Msg(req, c, FALSE, TRUE)
                               /\ m.req = req /\ m.cseq = c /\ m.resp = FALSE
<1>1. Msg(req, c, FALSE, TRUE) \in Messages
  BY DEF Msg, Messages
<1>2. /\ Msg(req, c, FALSE, TRUE).req = req /\ Msg(req, c, FALSE, TRUE).cseq = c
      /\ Msg(req, c, FALSE, TRUE).resp = FALSE
  BY DEF Msg
<1> QED
  BY <1>1, <1>2, Zenon

\* A message more on the way to the other side
LEMMA TransmitElements ==
    ASSUME TypeOK, NEW s \in Side, NEW m \in Messages, Transmit(s, m) \/ net' = net
    PROVE  /\ Elements(net'[Other(s)]) \subseteq Elements(net[Other(s)]) \cup {m}
           /\ net'[s] = net[s]
<1>1. Other(s) \in Side /\ Other(s) # s
  BY DEF Other, Side
<1>2. net[Other(s)] \in Seq(Messages) /\ net \in [Side -> Seq(Messages)]
  BY <1>1 DEF TypeOK
<1>3. CASE Transmit(s, m)
  <2>1. net'[Other(s)] = Append(net[Other(s)], m) /\ net'[s] = net[s]
    BY <1>1, <1>2, <1>3 DEF Transmit
  <2> QED
    BY <1>2, <2>1, ElementsOf
<1>4. CASE net' = net
  BY <1>4
<1> QED
  BY <1>3, <1>4

\* A step that gives no number, sends nothing and credits nothing
LEMMA QuietStep ==
    ASSUME TypeOK, TypeOK', Numbered, Bound' = Bound, pa'.cseqOf = pa.cseqOf,
           hist'.rewound = hist.rewound, hist'.credited = hist.credited,
           \A s \in Side : Carried(s)' \subseteq Carried(s),
           rtsp'["client"].worker = "credit" =>
              /\ rtsp["client"].worker = "credit" /\ pa'.match = pa.match
              /\ rtsp'["client"].cur = rtsp["client"].cur
    PROVE  Numbered'
<1>1. Bound' >= Bound
  BY BoundType
<1>2. ~hist'.rewound /\ rtsp'["client"].worker = "credit" => pa'.match = rtsp'["client"].cur.req
  BY DEF Numbered
<1>3. ~hist'.rewound => hist'.credited = {}
  BY DEF Numbered
<1> QED
  BY <1>1, <1>2, <1>3, NumberedKept

\* The heart beat leaves the RTSP workers alone.
LEMMA BeatWorkers ==
    ASSUME TypeOK, NEW s \in Side, BeatLoad(s) \/ BeatStep(s)
    PROVE  \A x \in Side : /\ rtsp'[x].worker = rtsp[x].worker /\ rtsp'[x].m_Buf = rtsp[x].m_Buf
                           /\ rtsp'[x].cur = rtsp[x].cur
<1>1. CASE BeatLoad(s)
  BY <1>1 DEF BeatLoad, TypeOK, RtspType
<1>2. CASE BeatStore(s)
  BY <1>2 DEF BeatStore, TypeOK, RtspType
<1>3. CASE BeatSend(s)
  BY <1>3 DEF BeatSend, TypeOK, RtspType
<1> QED
  BY <1>1, <1>2, <1>3 DEF BeatStep

\* The heart beat's thread
LEMMA BeatNumbers ==
    ASSUME TypeOK, TypeOK', Numbered, Accepting, NEW s \in Side, BeatLoad(s) \/ BeatStep(s)
    PROVE  Numbered' /\ Accepting'
<1>1. \A x \in Side : /\ rtsp'[x].worker = rtsp[x].worker /\ rtsp'[x].m_Buf = rtsp[x].m_Buf
                      /\ rtsp'[x].cur = rtsp[x].cur
  BY BeatWorkers
<1>2. pa' = pa /\ (hist' = hist \/ BeatStore(s))
  BY DEF BeatStep, BeatLoad, BeatStore, BeatSend
<1>3. Accepting'
  BY <1>1 DEF Accepting
<1>4. CASE BeatLoad(s)
  <2>1. Bound' = Bound
    <3>1. rtsp'["client"].m_CSeq = rtsp["client"].m_CSeq
      BY <1>4 DEF BeatLoad, TypeOK, RtspType, Side
    <3> QED
      BY <1>2, <3>1 DEF Bound
  <2>2. \A x \in Side : Carried(x)' \subseteq Carried(x)
    BY <1>1, <1>4 DEF Carried, BeatLoad
  <2> QED
    BY <1>1, <1>2, <1>3, <1>4, <2>1, <2>2, QuietStep DEF BeatLoad, Side
<1>5. CASE BeatStore(s)
  <2>0. /\ rtsp[s].loaded \in Nat /\ rtsp["client"].m_CSeq \in Nat /\ rtsp'[s].m_CSeq = rtsp[s].loaded + 1
        /\ s # "client" => rtsp'["client"].m_CSeq = rtsp["client"].m_CSeq
    BY <1>5 DEF BeatStore, TypeOK, RtspType, Side
  <2>1. /\ hist'.rewound = (hist.rewound \/ rtsp[s].loaded + 1 < rtsp[s].m_CSeq)
        /\ hist'.credited = hist.credited
    BY <1>5 DEF BeatStore, TypeOK, HistType
  <2>2. ~hist'.rewound => Bound' >= Bound
    <3>1. CASE pa.pc = "store"
      BY <1>2, <3>1, BoundType DEF Bound
    <3>2. CASE pa.pc # "store"
      <4>1. Bound = rtsp["client"].m_CSeq /\ Bound' = rtsp'["client"].m_CSeq
        BY <1>2, <3>2 DEF Bound
      <4>2. CASE s = "client"
        <5>1. ~hist'.rewound => ~(rtsp[s].loaded + 1 < rtsp[s].m_CSeq)
          BY <2>1, Zenon
        <5> QED
          BY <2>0, <4>1, <4>2, <5>1
      <4>3. CASE s # "client"
        BY <2>0, <4>1, <4>3
      <4> QED
        BY <4>2, <4>3
    <3> QED
      BY <3>1, <3>2
  <2>3. \A x \in Side : Carried(x)' = Carried(x)
    BY <1>1, <1>5 DEF Carried, BeatStore
  <2>4. ~hist'.rewound /\ rtsp'["client"].worker = "credit" => pa'.match = rtsp'["client"].cur.req
    BY <1>1, <1>2, <2>1 DEF Numbered, Side
  <2>5. (hist.rewound => hist'.rewound) /\ (~hist'.rewound => hist'.credited = {})
    BY <2>1 DEF Numbered
  <2> QED
    BY <1>2, <1>3, <2>2, <2>3, <2>4, <2>5, NumberedKept
<1>8. PICK msg \in Messages : /\ msg = Msg("beat", rtsp[s].m_CSeq, FALSE, TRUE)
                              /\ msg.req = "beat" /\ msg.cseq = rtsp[s].m_CSeq /\ msg.resp = FALSE
  <2>1. PICK c \in Int : c = rtsp[s].m_CSeq
    BY DEF TypeOK, RtspType
  <2>2. Msg("beat", c, FALSE, TRUE) \in Messages
    BY DEF Msg, Messages
  <2>3. /\ Msg("beat", c, FALSE, TRUE).req = "beat" /\ Msg("beat", c, FALSE, TRUE).cseq = c
        /\ Msg("beat", c, FALSE, TRUE).resp = FALSE
    BY DEF Msg
  <2> QED
    BY <2>1, <2>2, <2>3, Zenon
<1>6. CASE BeatSend(s) /\ s = "client"
  <2>0. hist' = hist /\ pa.pc # "store" /\ rtsp["client"].m_CSeq \in Nat
        /\ rtsp'["client"].m_CSeq = rtsp["client"].m_CSeq + 1
    BY <1>6 DEF BeatSend, MtxFree, TypeOK, RtspType, Side
  <2>1. Bound = rtsp["client"].m_CSeq /\ Bound' = Bound + 1
    BY <1>2, <2>0 DEF Bound
  <2>11. rtsp[s].m_CSeq = Bound
    BY <1>6, <2>1
  <2>2. msg.cseq = Bound
    BY <1>8, <2>11, Zenon
  <2>3. ~hist.rewound => Known(msg)'
    <3>1. Bound \in Int /\ pa.cseqOf \in [Requests -> Int]
      BY BoundType
    <3>2. ~hist.rewound => \A q \in Requests : pa.cseqOf[q] < Bound
      BY DEF Numbered
    <3>3. msg.cseq < Bound'
      BY <2>1, <2>2, <3>1
    <3>4. ~hist.rewound => \A q \in Requests : pa'.cseqOf[q] # msg.cseq
      BY <1>2, <2>2, <3>1, <3>2
    <3> QED
      BY <3>3, <3>4 DEF Known
  <2>4. \A x \in Side : Carried(x)' \subseteq Carried(x) \cup {msg}
    <3>1. Transmit(s, msg) \/ net' = net
      BY <1>6, <1>8, Zenon DEF BeatSend, Throws
    <3>2. \A x \in Side : Elements(net'[x]) \subseteq Elements(net[x]) \cup {msg}
      BY <3>1, TransmitElements DEF Other, Side
    <3> QED
      BY <1>1, <3>2 DEF Carried
  <2>5. ~hist'.rewound /\ rtsp'["client"].worker = "credit" => pa'.match = rtsp'["client"].cur.req
    BY <1>1, <1>2, <2>0 DEF Numbered, Side
  <2>6. Bound' >= Bound /\ (~hist'.rewound => hist'.credited = {})
    BY <2>0, <2>1 DEF Numbered
  <2>7. ~hist'.rewound => \A x \in Side : \A m \in Carried(x)' : m \in Carried(x) \/ (Own(x, m) => Known(m)')
    BY <2>0, <2>3, <2>4
  <2> QED
    BY <1>2, <1>3, <2>0, <2>5, <2>6, <2>7, NumberedKept
<1>7. CASE BeatSend(s) /\ s = "server"
  <2>0. hist' = hist /\ rtsp'["client"].m_CSeq = rtsp["client"].m_CSeq
    BY <1>7 DEF BeatSend, TypeOK, RtspType, Side
  <2>1. Bound' = Bound
    BY <1>2, <2>0 DEF Bound
  <2>2. ~Own("client", msg)
    BY <1>8, Zenon DEF Own
  <2>4. /\ Carried("client")' \subseteq Carried("client") \cup {msg}
        /\ Carried("server")' \subseteq Carried("server")
    <3>1. Transmit(s, msg) \/ net' = net
      BY <1>7, <1>8, Zenon DEF BeatSend, Throws
    <3>2. /\ Elements(net'["client"]) \subseteq Elements(net["client"]) \cup {msg}
          /\ net'["server"] = net["server"]
      BY <1>7, <3>1, TransmitElements DEF Other
    <3> QED
      BY <1>1, <3>2 DEF Carried, Side
  <2>5. ~hist'.rewound /\ rtsp'["client"].worker = "credit" => pa'.match = rtsp'["client"].cur.req
    BY <1>1, <1>2, <2>0 DEF Numbered, Side
  <2>6. Bound' >= Bound /\ (~hist'.rewound => hist'.credited = {})
    BY <2>0, <2>1, BoundType DEF Numbered
  <2>7. \A x \in Side : \A m \in Carried(x)' : m \in Carried(x) \/ (Own(x, m) => Known(m)')
    BY <2>2, <2>4, Zenon DEF Side
  <2> QED
    BY <1>2, <1>3, <2>0, <2>5, <2>6, <2>7, NumberedKept
<1> QED
  BY <1>4, <1>5, <1>6, <1>7 DEF BeatStep, Side

\* The agent's thread, and Redirector's
LEMMA AgentNumbers ==
    ASSUME TypeOK, TypeOK', Numbered, Accepting, AgentStep \/ Active \/ Register
    PROVE  Numbered' /\ Accepting'
<1>0. pa \in AgentType /\ rtsp["client"] \in RtspType /\ pa.loaded \in Nat
  BY DEF TypeOK, AgentType, Side
<1>1. \A x \in Side : /\ rtsp'[x].worker = rtsp[x].worker /\ rtsp'[x].m_Buf = rtsp[x].m_Buf
                      /\ rtsp'[x].cur = rtsp[x].cur
  <2>1. CASE RequestSend
    BY <2>1 DEF RequestSend, TypeOK, RtspType
  <2>2. CASE ~RequestSend
    BY <2>2 DEF AgentStep, RequestLoad, Proceed, TimeOut, Active, Register
  <2> QED
    BY <2>1, <2>2
<1>2. Accepting'
  BY <1>1 DEF Accepting
<1>3. hist'.rewound = hist.rewound /\ hist'.credited = hist.credited
  BY DEF AgentStep, RequestLoad, RequestSend, Proceed, Connect, CannotConnect, TimeOut, Failed,
         Active, Register, TypeOK, HistType
<1>4. CASE ~RequestSend
  <2>1. net' = net /\ rtsp' = rtsp
    BY <1>4 DEF AgentStep, RequestLoad, Proceed, TimeOut, Active, Register
  <2>2. /\ pa'.cseqOf = pa.cseqOf /\ pa'.match = pa.match
        /\ \/ pa'.pc = pa.pc /\ pa'.loaded = pa.loaded
           \/ pa.pc # "store" /\ (pa'.pc # "store" \/ pa'.loaded = rtsp["client"].m_CSeq)
    <3>1. CASE RequestLoad
      BY <1>0, <3>1 DEF RequestLoad, AgentType
    <3>2. CASE Active \/ Register
      BY <1>0, <1>4, <3>2 DEF Active, Register, AgentType
    <3>3. CASE Proceed \/ TimeOut
      <4>1. pa.pc \in {"wait", "proceed"} /\ (pa' = Aborted \/ pa' = Done)
        BY <3>3 DEF Proceed, TimeOut, WaitOver, Connect, CannotConnect
      <4> QED
        BY <1>0, <4>1 DEF Aborted, Done, AgentType
    <3> QED
      BY <1>4, <3>1, <3>2, <3>3 DEF AgentStep
  <2>3. Bound' = Bound
    BY <2>1, <2>2 DEF Bound
  <2>4. \A x \in Side : Carried(x)' \subseteq Carried(x)
    BY <2>1 DEF Carried
  <2> QED
    BY <1>1, <1>2, <1>3, <2>2, <2>3, <2>4, QuietStep DEF Side
<1>5. CASE RequestSend
  <2> DEFINE req == Head(pa.todo)
  <2>0. pa.pc = "store" /\ Bound = pa.loaded /\ req \in Requests
    BY <1>0, <1>5, AgentTypes DEF RequestSend, Bound, TypeOK
  <2>1. /\ pa'.cseqOf = [pa.cseqOf EXCEPT ![req] = Bound]
        /\ pa'.match = pa.match /\ pa'.pc # "store"
    <3>1. CASE pa' = [pa EXCEPT !.cseqOf[req] = pa.loaded, !.loaded = 0,
                                !.pc = IF pa.received[req] THEN "proceed" ELSE "wait"]
      BY <1>0, <2>0, <3>1 DEF AgentType
    <3>2. CASE pa' = [Aborted EXCEPT !.cseqOf[req] = pa.loaded, !.loaded = 0]
      BY <1>0, <2>0, <3>2 DEF Aborted, AgentType
    <3> QED
      BY <1>5, <3>1, <3>2 DEF RequestSend
  <2>2. rtsp'["client"].m_CSeq = pa.loaded + 1
    BY <1>5 DEF RequestSend, TypeOK, RtspType, Side
  <2>3. Bound' = Bound + 1
    BY <2>0, <2>1, <2>2 DEF Bound
  <2>4. PICK msg \in Messages : msg = Msg(req, pa.loaded, FALSE, TRUE) /\ msg.cseq = Bound /\ msg.req = req
    <3>1. pa.loaded \in Int /\ req \in Requests \cup {"beat"}
      BY <1>0, <2>0
    <3> QED
      BY <2>0, <3>1, RequestFields, Zenon
  <2>13. msg.cseq = Bound /\ msg.req = req
    BY <2>4, Zenon
  <2>5. Bound \in Int /\ pa.cseqOf \in [Requests -> Int]
    BY BoundType
  <2>6. ~hist.rewound => \A q \in Requests : pa.cseqOf[q] < Bound /\ pa'.cseqOf[q] < Bound'
    BY <2>1, <2>3, <2>5 DEF Numbered
  <2>7. ~hist.rewound => Known(msg)'
    <3>1. msg.cseq < Bound'
      BY <2>3, <2>5, <2>13
    <3>2. ~hist.rewound => \A q \in Requests : pa'.cseqOf[q] = msg.cseq => q = msg.req
      BY <2>1, <2>5, <2>6, <2>13
    <3> QED
      BY <3>1, <3>2 DEF Known
  <2>8. \A x \in Side : Carried(x)' \subseteq Carried(x) \cup {msg}
    <3>1. Transmit("client", msg) \/ net' = net
      BY <1>5, <2>4, Zenon DEF RequestSend, Throws
    <3>2. \A x \in Side : Elements(net'[x]) \subseteq Elements(net[x]) \cup {msg}
      BY <3>1, TransmitElements DEF Other, Side
    <3> QED
      BY <1>1, <3>2 DEF Carried
  <2>9. ~hist'.rewound => \A x \in Side : \A m \in Carried(x)' : m \in Carried(x) \/ (Own(x, m) => Known(m)')
    BY <1>3, <2>7, <2>8
  <2>10. ~hist'.rewound /\ rtsp'["client"].worker = "credit" => pa'.match = rtsp'["client"].cur.req
    BY <1>1, <1>3, <2>1 DEF Numbered, Side
  <2>11. Bound' >= Bound /\ (~hist'.rewound => hist'.credited = {})
    BY <1>3, <2>3, <2>5 DEF Numbered
  <2>12. \E q \in Requests : pa'.cseqOf = [pa.cseqOf EXCEPT ![q] = Bound]
    BY <2>0, <2>1
  <2> HIDE DEF req
  <2> QED
    BY <1>2, <1>3, <2>6, <2>9, <2>10, <2>11, <2>12, NumberedKept
<1> QED
  BY <1>4, <1>5

\* A response to a request that the worker has in hand carries its number; one
\* to the server's own heart beat is none of the client's messages.
LEMMA ReplyNumbers ==
    ASSUME TypeOK, TypeOK', Numbered, Accepting, NEW s \in Side, NEW ok \in BOOLEAN,
           rtsp[s].worker \in {"handle", "accept"}, ~rtsp[s].cur.resp, NEW then,
           Reply(s, ok, then),
           \/ then = Handled(s)
           \/ /\ then = [rtsp EXCEPT ![s].worker = "accept"]
              /\ s = "server" /\ rtsp[s].cur.req \in Requests,
           pa' = pa, hist'.rewound = hist.rewound, hist'.credited = hist.credited
    PROVE  Numbered' /\ Accepting'
<1>0. rtsp[s].cur \in Messages /\ rtsp \in [Side -> RtspType] /\ rtsp[s] \in RtspType
  BY DEF TypeOK, RtspType
<1>1. \A x \in Side : x # s => rtsp'[x] = rtsp[x]
  BY <1>0 DEF Reply, Handled, Ended
<1>2. /\ \/ rtsp'[s].worker \in {"recv", "ended"}
         \/ /\ rtsp'[s].worker = "accept" /\ rtsp'[s].cur = rtsp[s].cur
            /\ s = "server" /\ rtsp[s].cur.req \in Requests
      /\ rtsp'[s].m_Buf = rtsp[s].m_Buf \/ rtsp'[s].m_Buf = <<>>
      /\ rtsp'[s].m_CSeq = rtsp[s].m_CSeq
  <2>1. CASE rtsp' = Handled(s)
    BY <1>0, <2>1 DEF Handled, RtspType
  <2>2. CASE rtsp' = Ended(s)
    BY <1>0, <2>2 DEF Ended, RtspType
  <2>3. CASE rtsp' = [rtsp EXCEPT ![s].worker = "accept"] /\ s = "server" /\ rtsp[s].cur.req \in Requests
    BY <1>0, <2>3 DEF RtspType
  <2> QED
    BY <2>1, <2>2, <2>3 DEF Reply
<1>3. Accepting'
  BY <1>1, <1>2 DEF Accepting
<1>4. rtsp'["client"].m_CSeq = rtsp["client"].m_CSeq
  BY <1>1, <1>2 DEF Side
<1>5. Bound' = Bound
  BY <1>4 DEF Bound
<1>6. PICK msg \in Messages :
        /\ msg = Msg(rtsp[s].cur.req, rtsp[s].cur.cseq, TRUE, ok)
        /\ msg.req = rtsp[s].cur.req /\ msg.cseq = rtsp[s].cur.cseq /\ msg.resp = TRUE
  <2>1. Msg(rtsp[s].cur.req, rtsp[s].cur.cseq, TRUE, ok) \in Messages
    BY <1>0 DEF Msg, Messages
  <2>2. /\ Msg(rtsp[s].cur.req, rtsp[s].cur.cseq, TRUE, ok).req = rtsp[s].cur.req
        /\ Msg(rtsp[s].cur.req, rtsp[s].cur.cseq, TRUE, ok).cseq = rtsp[s].cur.cseq
        /\ Msg(rtsp[s].cur.req, rtsp[s].cur.cseq, TRUE, ok).resp = TRUE
    BY DEF Msg
  <2> QED
    BY <2>1, <2>2, Zenon
<1>7. Transmit(s, msg) \/ net' = net
  BY <1>6, Zenon DEF Reply, Throws
<1>8. /\ Elements(net'[Other(s)]) \subseteq Elements(net[Other(s)]) \cup {msg}
      /\ net'[s] = net[s]
  BY <1>7, TransmitElements
<1>9. Other(s) \in Side /\ Other(s) # s /\ \A x \in Side : x = s \/ x = Other(s)
  BY DEF Other, Side
<1>10. Carried(s)' \subseteq Carried(s)
  <2>1. Elements(<<>>) = {}
    BY DEF Elements
  <2> QED
    BY <1>2, <1>8, <2>1 DEF Carried
<1>11. Carried(Other(s))' \subseteq Carried(Other(s)) \cup {msg}
  BY <1>1, <1>8, <1>9 DEF Carried
<1>12. ~hist.rewound => (Own(Other(s), msg) => Known(msg)')
  <2> SUFFICES ASSUME ~hist.rewound, Own(Other(s), msg) PROVE Known(msg)'
    OBVIOUS
  <2>1. s = "server"
    BY <1>6, Zenon DEF Own, Other, Side
  <2>2. Known(rtsp[s].cur)
    BY <2>1 DEF Numbered, Carried, Own
  <2> QED
    BY <1>5, <1>6, <2>2, Zenon DEF Known
<1>13. ~hist'.rewound => \A x \in Side : \A m \in Carried(x)' :
           m \in Carried(x) \/ (Own(x, m) => Known(m)')
  BY <1>9, <1>10, <1>11, <1>12, Zenon
<1>14. ~hist'.rewound /\ rtsp'["client"].worker = "credit" => pa'.match = rtsp'["client"].cur.req
  BY <1>1, <1>2 DEF Numbered, Side
<1>15. Bound' >= Bound /\ (~hist'.rewound => hist'.credited = {})
  BY <1>5, BoundType DEF Numbered
<1> QED
  BY <1>3, <1>13, <1>14, <1>15, NumberedKept

\* Recv puts the first k messages on their way behind the others in m_Buf, and
\* takes out the first of all of these.
Received(s, k, buf) ==
    /\ buf = rtsp[s].m_Buf \o SubSeq(net[s], 1, k) /\ buf # <<>>
    /\ rtsp'[s].worker = "handle" /\ rtsp'[s].cur = Head(buf) /\ rtsp'[s].m_Buf = Tail(buf)
    /\ rtsp'[s].m_CSeq = rtsp[s].m_CSeq
    /\ net'[s] = SubSeq(net[s], k + 1, Len(net[s]))
    /\ \A x \in Side : x # s => rtsp'[x] = rtsp[x] /\ net'[x] = net[x]

LEMMA RecvMessages ==
    ASSUME TypeOK, NEW s \in Side, Recv(s)
    PROVE  /\ \E k \in 0 .. Len(net[s]), buf \in Seq(Messages) : Received(s, k, buf)
           /\ \A x \in Side : Carried(x)' \subseteq Carried(x)
<1>0. /\ rtsp \in [Side -> RtspType] /\ rtsp[s] \in RtspType /\ net[s] \in Seq(Messages)
      /\ rtsp[s].m_Buf \in Seq(Messages) /\ net \in [Side -> Seq(Messages)]
  BY DEF TypeOK, RtspType
<1>1. PICK k \in 0 .. Len(net[s]) :
        LET buf == rtsp[s].m_Buf \o SubSeq(net[s], 1, k)
        IN  /\ buf # <<>>
            /\ rtsp' = [rtsp EXCEPT ![s].worker = "handle", ![s].cur = Head(buf),
                                    ![s].m_Buf = Tail(buf)]
            /\ net' = [net EXCEPT ![s] = SubSeq(@, k + 1, Len(@))]
  BY DEF Recv
<1> DEFINE buf == rtsp[s].m_Buf \o SubSeq(net[s], 1, k)
<1>2. SubSeq(net[s], 1, k) \in Seq(Messages)
  BY <1>0, <1>1, SubSeqProperties
<1>3. buf \in Seq(Messages) /\ buf # <<>>
  BY <1>0, <1>1, <1>2, ConcatProperties
<1>4. /\ rtsp'[s].worker = "handle" /\ rtsp'[s].cur = Head(buf) /\ rtsp'[s].m_Buf = Tail(buf)
      /\ rtsp'[s].m_CSeq = rtsp[s].m_CSeq
      /\ net'[s] = SubSeq(net[s], k + 1, Len(net[s]))
      /\ \A x \in Side : x # s => rtsp'[x] = rtsp[x] /\ net'[x] = net[x]
  <2> HIDE DEF buf
  <2>1. rtsp' = [rtsp EXCEPT ![s].worker = "handle", ![s].cur = Head(buf), ![s].m_Buf = Tail(buf)]
    BY <1>1 DEF buf
  <2>2. net' = [net EXCEPT ![s] = SubSeq(@, k + 1, Len(@))]
    BY <1>1
  <2> QED
    BY <1>0, <2>1, <2>2 DEF RtspType
<1>5. Elements(buf) \subseteq Elements(rtsp[s].m_Buf) \cup Elements(net[s])
  <2>1. 1 \in 1 .. Len(net[s]) + 1 /\ k \in 0 .. Len(net[s])
    BY <1>0
  <2>2. Elements(SubSeq(net[s], 1, k)) \subseteq Elements(net[s])
    BY <1>0, <2>1, ElementsOf, Zenon
  <2>3. Elements(buf) = Elements(rtsp[s].m_Buf) \cup Elements(SubSeq(net[s], 1, k))
    BY <1>0, <1>2, ElementsOf, Zenon
  <2> QED
    BY <2>2, <2>3
<1>6. Elements(net'[s]) \subseteq Elements(net[s])
  <2>1. k + 1 \in 1 .. Len(net[s]) + 1 /\ Len(net[s]) \in 0 .. Len(net[s])
    BY <1>0
  <2>2. Elements(SubSeq(net[s], k + 1, Len(net[s]))) \subseteq Elements(net[s])
    BY <1>0, <2>1, ElementsOf, Zenon
  <2> QED
    BY <1>4, <2>2
<1>7. Head(buf) \in Elements(buf) /\ Elements(Tail(buf)) \subseteq Elements(buf)
  BY <1>3, ElementsOf
<1> HIDE DEF buf
<1>8. \A x \in Side : Carried(x)' \subseteq Carried(x)
  BY <1>4, <1>5, <1>6, <1>7 DEF Carried
<1>9. Received(s, k, buf)
  BY <1>3, <1>4 DEF Received, buf
<1> QED
  BY <1>3, <1>8, <1>9

\* The RTSP worker's thread
LEMMA WorkerNumbers ==
    ASSUME TypeOK, TypeOK', Numbered, Accepting, NEW s \in Side,
           WorkerStep(s) \/ (s = "server" /\ AcceptFails)
    PROVE  Numbered' /\ Accepting'
<1>0. /\ rtsp \in [Side -> RtspType] /\ rtsp[s] \in RtspType /\ net[s] \in Seq(Messages)
      /\ rtsp[s].m_Buf \in Seq(Messages) /\ rtsp[s].cur \in Messages
      /\ pa \in AgentType /\ hist \in HistType /\ net \in [Side -> Seq(Messages)]
  BY DEF TypeOK, RtspType
<1>1. CASE Recv(s)
  <2>1. PICK k \in 0 .. Len(net[s]), buf \in Seq(Messages) : Received(s, k, buf)
    BY <1>1, RecvMessages
  <2>8. \A x \in Side : Carried(x)' \subseteq Carried(x)
    BY <1>1, RecvMessages
  <2>9. pa' = pa /\ hist' = hist
    BY <1>1 DEF Recv
  <2>10. rtsp'["client"].m_CSeq = rtsp["client"].m_CSeq
    BY <2>1 DEF Side, Received
  <2>11. Bound' = Bound
    BY <2>9, <2>10 DEF Bound
  <2>12. Accepting'
    BY <2>1 DEF Accepting, Received
  <2>13. rtsp'["client"].worker = "credit" => rtsp'["client"] = rtsp["client"]
    BY <2>1 DEF Side, Received
  <2> QED
    BY <2>8, <2>9, <2>11, <2>12, <2>13, QuietStep
<1>2. CASE HandleBeat(s)
  <2>1. Reply(s, TRUE, Handled(s)) /\ rtsp[s].worker = "handle" /\ ~rtsp[s].cur.resp /\ pa' = pa /\ hist' = hist
    BY <1>2 DEF HandleBeat
  <2> QED
    BY <2>1, ReplyNumbers
<1>3. CASE s = "server" /\ ServeResolution
  <2>1. Reply(s, TRUE, Handled(s)) /\ rtsp[s].worker = "handle" /\ ~rtsp[s].cur.resp /\ pa' = pa /\ hist' = hist
    BY <1>3 DEF ServeResolution, Serving
  <2> QED
    BY <2>1, ReplyNumbers
<1>4. CASE s = "server" /\ InitFails
  <2>1. Reply(s, FALSE, Handled(s)) /\ rtsp[s].worker = "handle" /\ ~rtsp[s].cur.resp /\ pa' = pa
    BY <1>4 DEF InitFails, Serving
  <2>2. hist'.rewound = hist.rewound /\ hist'.credited = hist.credited
    BY <1>0, <1>4 DEF InitFails, Failed, HistType
  <2> QED
    BY <2>1, <2>2, ReplyNumbers
<1>5. CASE s = "server" /\ ServeSetup
  <2>1. /\ Reply(s, TRUE, [rtsp EXCEPT ![s].worker = "accept"]) /\ rtsp[s].worker = "handle"
        /\ ~rtsp[s].cur.resp /\ rtsp[s].cur.req \in Requests /\ pa' = pa /\ hist' = hist
    BY <1>5 DEF ServeSetup, Serving
  <2> QED
    BY <1>5, <2>1, ReplyNumbers
<1>6. CASE s = "server" /\ AcceptFails
  <2>1. Reply(s, FALSE, Handled(s)) /\ rtsp[s].worker = "accept" /\ ~rtsp[s].cur.resp /\ pa' = pa
    BY <1>6 DEF AcceptFails, Accepting
  <2>2. hist'.rewound = hist.rewound /\ hist'.credited = hist.credited
    BY <1>0, <1>6 DEF AcceptFails, Failed, HistType
  <2> QED
    BY <2>1, <2>2, ReplyNumbers
<1>7. CASE RecvThrows(s) \/ (s = "server" /\ Accept) \/ (HandleResponse(s) /\ rtsp' = Handled(s) /\ pa' = pa)
  <2>1. /\ pa' = pa /\ net' = net /\ hist'.rewound = hist.rewound /\ hist'.credited = hist.credited
    BY <1>0, <1>7 DEF RecvThrows, Accept, HandleResponse, HistType
  <2>2. /\ rtsp'[s].worker \in {"recv", "ended"} /\ rtsp'[s].m_CSeq = rtsp[s].m_CSeq
        /\ rtsp'[s].m_Buf = rtsp[s].m_Buf \/ rtsp'[s].m_Buf = <<>>
        /\ \A x \in Side : x # s => rtsp'[x] = rtsp[x]
    <3>1. CASE rtsp' = Handled(s)
      BY <1>0, <3>1 DEF Handled, RtspType
    <3>2. CASE rtsp' = Ended(s)
      BY <1>0, <3>2 DEF Ended, RtspType
    <3>3. CASE rtsp' = [Ended(s) EXCEPT ![s].reported = TRUE]
      BY <1>0, <3>3 DEF Ended, RtspType
    <3> QED
      BY <1>7, <3>1, <3>2, <3>3 DEF RecvThrows, Accept, Report
  <2>3. \A x \in Side : Carried(x)' \subseteq Carried(x)
    <3>1. Elements(<<>>) = {}
      BY DEF Elements
    <3> QED
      BY <2>1, <2>2, <3>1 DEF Carried
  <2>4. rtsp'["client"].m_CSeq = rtsp["client"].m_CSeq
    BY <2>2 DEF Side
  <2>5. Bound' = Bound
    BY <2>1, <2>4 DEF Bound
  <2>6. Accepting'
    BY <2>2 DEF Accepting
  <2>7. rtsp'["client"].worker = "credit" => rtsp'["client"] = rtsp["client"]
    BY <2>2 DEF Side
  <2> QED
    BY <2>1, <2>3, <2>5, <2>6, <2>7, QuietStep
<1>8. CASE /\ HandleResponse(s) /\ s = "client" /\ rtsp' = [rtsp EXCEPT ![s].worker = "credit"]
           /\ \E i \in Matching : pa' = [pa EXCEPT !.match = Chain[i]]
  <2>1. PICK i \in Matching : pa' = [pa EXCEPT !.match = Chain[i]]
    BY <1>8
  <2>2. /\ pa'.match = Chain[i] /\ pa'.cseqOf = pa.cseqOf /\ pa'.pc = pa.pc /\ pa'.loaded = pa.loaded
        /\ Chain[i] \in Requests /\ pa.cseqOf[Chain[i]] = rtsp[s].cur.cseq
    BY <1>0, <1>8, <2>1 DEF Matching, Requests, AgentType
  <2>3. /\ rtsp'[s].worker = "credit" /\ rtsp'[s].cur = rtsp[s].cur /\ rtsp'[s].m_Buf = rtsp[s].m_Buf
        /\ rtsp'[s].m_CSeq = rtsp[s].m_CSeq
        /\ \A x \in Side : x # s => rtsp'[x] = rtsp[x]
    BY <1>0, <1>8 DEF RtspType
  <2>4. net' = net /\ hist' = hist /\ rtsp[s].worker = "handle" /\ rtsp[s].cur.resp
    BY <1>8 DEF HandleResponse
  <2>5. \A x \in Side : Carried(x)' \subseteq Carried(x)
    BY <2>3, <2>4 DEF Carried
  <2>6. Bound' = Bound
    BY <1>8, <2>2, <2>3 DEF Bound
  <2>7. ~hist.rewound => Chain[i] = rtsp[s].cur.req
    <3>1. ~hist.rewound => Known(rtsp[s].cur)
      BY <1>8, <2>4 DEF Numbered, Carried, Own
    <3> QED
      BY <2>2, <3>1 DEF Known
  <2>8. Accepting'
    BY <2>3 DEF Accepting
  <2>9. ~hist'.rewound /\ rtsp'["client"].worker = "credit" => pa'.match = rtsp'["client"].cur.req
    BY <1>8, <2>2, <2>3, <2>4, <2>7
  <2>10. Bound' >= Bound /\ (~hist'.rewound => hist'.credited = {})
    BY <2>4, <2>6, BoundType DEF Numbered
  <2> QED
    BY <2>2, <2>4, <2>5, <2>8, <2>9, <2>10, NumberedKept
<1>9. CASE s = "client" /\ Credit
  <2>1. /\ pa'.cseqOf = pa.cseqOf /\ pa'.pc = pa.pc /\ pa'.loaded = pa.loaded
    BY <1>0, <1>9 DEF Credit, AgentType
  <2>2. /\ rtsp'[s].worker = "recv" /\ rtsp'[s].m_Buf = rtsp[s].m_Buf
        /\ rtsp'[s].m_CSeq = rtsp[s].m_CSeq
        /\ \A x \in Side : x # s => rtsp'[x] = rtsp[x]
    BY <1>0, <1>9 DEF Credit, Handled, RtspType
  <2>3. /\ net' = net /\ hist'.rewound = hist.rewound
        /\ hist'.credited = hist.credited \cup Crossed(pa.match, rtsp["client"].cur.req)
    BY <1>0, <1>9 DEF Credit, HistType
  <2>4. ~hist.rewound => hist'.credited = {}
    <3>1. ~hist.rewound => pa.match = rtsp["client"].cur.req /\ hist.credited = {}
      BY <1>9 DEF Credit, Numbered
    <3>2. Crossed(pa.match, pa.match) = {}
      BY DEF Crossed
    <3> QED
      BY <2>3, <3>1, <3>2
  <2>5. \A x \in Side : Carried(x)' \subseteq Carried(x)
    BY <2>2, <2>3 DEF Carried
  <2>6. Bound' = Bound
    BY <1>9, <2>1, <2>2 DEF Bound
  <2>7. Accepting'
    BY <2>2 DEF Accepting
  <2>8. Bound' >= Bound
    BY <2>6, BoundType
  <2> QED
    BY <1>9, <2>1, <2>2, <2>3, <2>4, <2>5, <2>7, <2>8, NumberedKept
<1>10. HandleResponse(s) => \/ rtsp' = Handled(s) /\ pa' = pa
                            \/ /\ s = "client" /\ rtsp' = [rtsp EXCEPT ![s].worker = "credit"]
                               /\ \E i \in Matching : pa' = [pa EXCEPT !.match = Chain[i]]
  BY DEF HandleResponse
<1> QED
  BY <1>1, <1>2, <1>3, <1>4, <1>5, <1>6, <1>7, <1>8, <1>9, <1>10 DEF WorkerStep

\* The watch dog, the stops and the loss of the connection take messages away
\* from the RTSP workers, and do nothing else to them.
LEMMA EndWorkers ==
    ASSUME TypeOK, NEW s \in Side,
           Watchdog(s) \/ StopCall(s) \/ StopStep(s) \/ ConnectionLost
    PROVE  /\ \A x \in Side : /\ rtsp'[x].worker = rtsp[x].worker /\ rtsp'[x].cur = rtsp[x].cur
                              /\ rtsp'[x].m_CSeq = rtsp[x].m_CSeq
           /\ \/ up' = up /\ net' = net /\ \A x \in Side : rtsp'[x].m_Buf = rtsp[x].m_Buf
              \/ ~up' /\ \A x \in Side : rtsp'[x].m_Buf = <<>> /\ net'[x] = <<>>
<1>10. rtsp \in [Side -> RtspType] /\ <<>> \in Seq(Messages)
  BY DEF TypeOK
<1>9. rtsp \in [Side -> RtspType]
  BY DEF TypeOK
<1>1. CASE Watchdog(s)
  <2>1. up' = up /\ net' = net /\ (rtsp' = rtsp \/ rtsp' = [rtsp EXCEPT ![s].m_IsAlive = FALSE]
                                    \/ rtsp' = [rtsp EXCEPT ![s].reported = TRUE])
    BY <1>1 DEF Watchdog, Report
  <2>2. \A x \in Side : /\ rtsp'[x].worker = rtsp[x].worker /\ rtsp'[x].cur = rtsp[x].cur
                        /\ rtsp'[x].m_CSeq = rtsp[x].m_CSeq /\ rtsp'[x].m_Buf = rtsp[x].m_Buf
    <3> TAKE x \in Side
    <3>1. rtsp[x] \in RtspType
      BY <1>9
    <3>2. CASE x # s
      BY <1>9, <2>1, <3>2
    <3>3. CASE x = s
      BY <1>9, <2>1, <3>1, <3>3 DEF RtspType
    <3> QED
      BY <3>2, <3>3
  <2> QED
    BY <2>1, <2>2
<1>2. CASE StopCall(s) \/ StopJoined(s)
  <2>1. up' = up /\ net' = net /\ (rtsp' = [rtsp EXCEPT ![s].stop = "timers"] \/ rtsp' = [rtsp EXCEPT ![s].stop = "done"])
    BY <1>2 DEF StopCall, StopJoined
  <2>2. \A x \in Side : /\ rtsp'[x].worker = rtsp[x].worker /\ rtsp'[x].cur = rtsp[x].cur
                        /\ rtsp'[x].m_CSeq = rtsp[x].m_CSeq /\ rtsp'[x].m_Buf = rtsp[x].m_Buf
    <3> TAKE x \in Side
    <3>1. rtsp[x] \in RtspType
      BY <1>9
    <3>2. CASE x # s
      BY <1>9, <2>1, <3>2
    <3>3. CASE x = s
      BY <1>9, <2>1, <3>1, <3>3 DEF RtspType
    <3> QED
      BY <3>2, <3>3
  <2> QED
    BY <2>1, <2>2
<1>3. CASE StopShutdown(s)
  <2>1. PICK r \in [Side -> RtspType] : r = [rtsp EXCEPT ![s].stop = "joining"] /\ Lost(r)
    <3>1. [rtsp[s] EXCEPT !.stop = "joining"] \in RtspType
      BY <1>10 DEF RtspType
    <3>2. [rtsp EXCEPT ![s].stop = "joining"] \in [Side -> RtspType]
      BY <1>10, <3>1
    <3> QED
      BY <1>3, <3>2 DEF StopShutdown
  <2>2. \A x \in Side : r[x].worker = rtsp[x].worker /\ r[x].cur = rtsp[x].cur /\ r[x].m_CSeq = rtsp[x].m_CSeq
    BY <1>10, <2>1 DEF RtspType
  <2>3. ~up' /\ \A x \in Side : /\ rtsp'[x] = [r[x] EXCEPT !.m_Buf = <<>>] /\ net'[x] = <<>>
    BY <2>1 DEF Lost
  <2>4. \A x \in Side : LET c == [r[x] EXCEPT !.m_Buf = <<>>]
                        IN  /\ c.worker = r[x].worker /\ c.cur = r[x].cur /\ c.m_CSeq = r[x].m_CSeq
                            /\ c.m_Buf = <<>>
    BY <2>1 DEF RtspType
  <2>5. \A x \in Side : /\ rtsp'[x].worker = r[x].worker /\ rtsp'[x].cur = r[x].cur
                        /\ rtsp'[x].m_CSeq = r[x].m_CSeq /\ rtsp'[x].m_Buf = <<>> /\ net'[x] = <<>>
    BY <2>3, <2>4
  <2> QED
    BY <2>2, <2>3, <2>5
<1>4. CASE ConnectionLost
  <2>1. ~up' /\ \A x \in Side : rtsp'[x] = [rtsp[x] EXCEPT !.m_Buf = <<>>] /\ net'[x] = <<>>
    BY <1>4 DEF ConnectionLost, Lost
  <2>2. \A x \in Side : LET c == [rtsp[x] EXCEPT !.m_Buf = <<>>]
                        IN  /\ c.worker = rtsp[x].worker /\ c.cur = rtsp[x].cur
                            /\ c.m_CSeq = rtsp[x].m_CSeq /\ c.m_Buf = <<>>
    BY <1>10 DEF RtspType
  <2> QED
    BY <2>1, <2>2
<1> QED
  BY <1>1, <1>2, <1>3, <1>4 DEF StopStep

\* The watch dog, the stops and the loss of the connection
LEMMA EndNumbers ==
    ASSUME TypeOK, TypeOK', Numbered, Accepting, NEW s \in Side,
           Watchdog(s) \/ StopCall(s) \/ StopStep(s) \/ ConnectionLost
    PROVE  Numbered' /\ Accepting'
<1>0. rtsp \in [Side -> RtspType] /\ <<>> \in Seq(Messages) /\ Elements(<<>>) = {}
  BY DEF TypeOK, Elements
<1>1. pa' = pa /\ hist' = hist
  BY DEF Watchdog, StopCall, StopStep, StopShutdown, StopJoined, ConnectionLost
<1>2. \A x \in Side : /\ rtsp'[x].worker = rtsp[x].worker /\ rtsp'[x].cur = rtsp[x].cur
                      /\ rtsp'[x].m_CSeq = rtsp[x].m_CSeq
                      /\ rtsp'[x].m_Buf = rtsp[x].m_Buf \/ rtsp'[x].m_Buf = <<>>
                      /\ net'[x] = net[x] \/ net'[x] = <<>>
  BY EndWorkers
<1>3. \A x \in Side : Carried(x)' \subseteq Carried(x)
  BY <1>0, <1>2 DEF Carried
<1>4. Bound' = Bound
  BY <1>1, <1>2 DEF Bound, Side
<1>5. Accepting'
  BY <1>2 DEF Accepting
<1> QED
  BY <1>1, <1>2, <1>3, <1>4, <1>5, QuietStep DEF Side
-----------------------------------------------------------------------------
\* The invariant is inductive: one case per thread.
LEMMA NegotiationStep == NegotiationInv /\ [Next]_vars => NegotiationInv'
<1> SUFFICES ASSUME TypeOK, Numbered, Accepting, [Next]_vars PROVE NegotiationInv'
  BY DEF NegotiationInv
<1>1. CASE AgentStep \/ Active \/ Register
  BY <1>1, AgentStepTypes, AgentNumbers DEF NegotiationInv
<1>2. CASE AcceptFails
  BY <1>2, WorkerStepTypes, WorkerNumbers DEF NegotiationInv, Side
<1>3. CASE ConnectionLost
  BY <1>3, EndTypes, EndNumbers DEF NegotiationInv, Side
<1>4. ASSUME NEW s \in Side, BeatLoad(s) \/ BeatStep(s) PROVE NegotiationInv'
  BY <1>4, BeatTypes, BeatNumbers DEF NegotiationInv
<1>5. ASSUME NEW s \in Side, WorkerStep(s) PROVE NegotiationInv'
  BY <1>5, WorkerStepTypes, WorkerNumbers DEF NegotiationInv
<1>6. ASSUME NEW s \in Side, Watchdog(s) \/ StopCall(s) \/ StopStep(s) PROVE NegotiationInv'
  BY <1>6, EndTypes, EndNumbers DEF NegotiationInv
<1>7. CASE UNCHANGED vars
  <2>1. TypeOK' /\ Accepting'
    BY <1>7 DEF vars, TypeOK, Accepting
  <2>2. Numbered'
    BY <1>7 DEF vars, Numbered, Bound, Carried, Known
  <2> QED
    BY <2>1, <2>2 DEF NegotiationInv
<1> QED
  BY <1>1, <1>2, <1>3, <1>4, <1>5, <1>6, <1>7 DEF Next

\* It holds in every behaviour of the two ends.
LEMMA NegotiationInductive == Spec => []NegotiationInv
  BY NegotiationInit, NegotiationStep, PTL DEF Spec

\* For any number of setups, stages and heart beats the two ends of the RTSP
\* connection keep to their types, and every message on it is the protocol's.
THEOREM NegotiationTypes == Spec => []TypeOK
<1>1. NegotiationInv => TypeOK
  BY DEF NegotiationInv
<1> QED
  BY <1>1, NegotiationInductive, PTL

\* ProjectorAgent credits a response to the request that it answers, however
\* many requests, time-outs and heart beats there are, as long as the heart
\* beat's unlocked m_CSeq++ has not set the counter back.
THEOREM Credits == Spec => []CreditedToOwn
<1>1. NegotiationInv => CreditedToOwn
  BY DEF NegotiationInv, Numbered, CreditedToOwn
<1> QED
  BY <1>1, NegotiationInductive, PTL
-----------------------------------------------------------------------------
(* Setup requests and connections, in order                                *)

\* A request that makes the projector accept a connection
Setup(m) == ~m.resp /\ m.req \in Requests \ {"resolution"}

\* f[p] is how many of the first p messages are such requests
Ranked(A, f) ==
    /\ f \in [0 .. Len(A) -> Nat] /\ f[0] = 0
    /\ \A p \in 1 .. Len(A) : f[p] = f[p - 1] + (IF Setup(A[p]) THEN 1 ELSE 0)
    /\ \A p, q \in 0 .. Len(A) : p <= q => f[p] <= f[q]

\* The k-th of them is for the channel P[k], as far as P goes
Alike(A, f, P) ==
    \A p \in 1 .. Len(A) : Setup(A[p]) /\ f[p] <= Len(P) => A[p].req = P[f[p]]

\* There are n setup requests among the messages A, in the order of P
InOrder(A, P, n) ==
    \E f \in [0 .. Len(A) -> Nat] : Ranked(A, f) /\ Alike(A, f, P) /\ f[Len(A)] = n

LEMMA OrderEmpty ==
    ASSUME NEW P PROVE InOrder(<<>>, P, 0)
<1> DEFINE f == [p \in 0 .. Len(<<>>) |-> 0]
<1>1. Ranked(<<>>, f) /\ Alike(<<>>, f, P) /\ f[Len(<<>>)] = 0 /\ f \in [0 .. Len(<<>>) -> Nat]
  BY DEF Ranked, Alike
<1> QED
  BY <1>1 DEF InOrder

LEMMA OrderNat ==
    ASSUME NEW A \in Seq(Messages), NEW P, NEW n, InOrder(A, P, n)
    PROVE  n \in Nat
  BY DEF InOrder

\* Other messages come in
LEMMA OrderAppend ==
    ASSUME NEW A \in Seq(Messages), NEW P \in Seq(Requests), NEW n, NEW m \in Messages,
           InOrder(A, P, n), ~Setup(m)
    PROVE  InOrder(Append(A, m), P, n)
<1> DEFINE L == Len(A)
           B == Append(A, m)
<1>1. L \in Nat /\ Len(B) = L + 1 /\ B[L + 1] = m /\ \A i \in 1 .. L : B[i] = A[i]
  OBVIOUS
<1>2. PICK f \in [0 .. L -> Nat] : Ranked(A, f) /\ Alike(A, f, P) /\ f[L] = n
  BY DEF InOrder
<1>3. /\ f[0] = 0 /\ n \in Nat
      /\ \A p \in 1 .. L : f[p] = f[p - 1] + (IF Setup(A[p]) THEN 1 ELSE 0)
      /\ \A p, q \in 0 .. L : p <= q => f[p] <= f[q]
      /\ \A p \in 1 .. L : Setup(A[p]) /\ f[p] <= Len(P) => A[p].req = P[f[p]]
  BY <1>1, <1>2 DEF Ranked, Alike
<1> DEFINE g == [p \in 0 .. L + 1 |-> IF p <= L THEN f[p] ELSE n]
<1> HIDE DEF L, B
<1>4. g \in [0 .. L + 1 -> Nat] /\ g[L + 1] = n /\ \A p \in 0 .. L : g[p] = f[p]
  BY <1>1, <1>2, <1>3
<1> HIDE DEF g
<1>5. ASSUME NEW p \in 1 .. L + 1
      PROVE  g[p] = g[p - 1] + (IF Setup(B[p]) THEN 1 ELSE 0)
  <2>1. CASE p \in 1 .. L
    <3>1. p - 1 \in 0 .. L /\ p \in 0 .. L /\ B[p] = A[p]
      BY <1>1, <2>1
    <3> QED
      BY <1>3, <1>4, <2>1, <3>1
  <2>2. CASE p = L + 1
    <3>1. p - 1 = L /\ L \in 0 .. L /\ g[L] = n /\ g[p] = n /\ B[p] = m
      BY <1>1, <1>2, <1>4, <2>2
    <3> QED
      BY <1>3, <3>1
  <2> QED
    BY <1>1, <2>1, <2>2
<1>6. ASSUME NEW p \in 0 .. L + 1, NEW q \in 0 .. L + 1, p <= q PROVE g[p] <= g[q]
  <2>1. CASE q \in 0 .. L
    <3>1. p \in 0 .. L
      BY <1>1, <1>6, <2>1
    <3> QED
      BY <1>3, <1>4, <1>6, <2>1, <3>1
  <2>2. CASE q = L + 1 /\ p \in 0 .. L
    <3>1. f[p] <= f[L] /\ g[p] = f[p]
      BY <1>1, <1>3, <1>4, <2>2
    <3> QED
      BY <1>2, <1>4, <2>2, <3>1
  <2>3. CASE q = L + 1 /\ p = L + 1
    BY <1>3, <1>4, <2>3
  <2> QED
    BY <1>1, <2>1, <2>2, <2>3
<1>7. ASSUME NEW p \in 1 .. L + 1, Setup(B[p]), g[p] <= Len(P) PROVE B[p].req = P[g[p]]
  <2>1. p # L + 1
    BY <1>1, <1>7
  <2>2. p \in 1 .. L /\ B[p] = A[p] /\ g[p] = f[p]
    BY <1>1, <1>4, <2>1
  <2> QED
    BY <1>3, <1>7, <2>2
<1>8. 0 \in 0 .. L /\ g[0] = 0
  BY <1>1, <1>3, <1>4
<1>9. Ranked(B, g) /\ Alike(B, g, P)
  BY <1>1, <1>4, <1>5, <1>6, <1>7, <1>8 DEF Ranked, Alike
<1>10. g \in [0 .. Len(B) -> Nat] /\ g[Len(B)] = n
  BY <1>1, <1>4
<1> QED
  BY <1>9, <1>10 DEF InOrder, B

\* A setup request comes in, and a connection will be opened for it
LEMMA OrderSetup ==
    ASSUME NEW A \in Seq(Messages), NEW P \in Seq(Requests), NEW m \in Messages,
           InOrder(A, P, Len(P)), Setup(m)
    PROVE  InOrder(Append(A, m), Append(P, m.req), Len(P) + 1)
<1> DEFINE L == Len(A)
           B == Append(A, m)
           n == Len(P)
           Q == Append(P, m.req)
<1>1. L \in Nat /\ Len(B) = L + 1 /\ B[L + 1] = m /\ \A i \in 1 .. L : B[i] = A[i]
  OBVIOUS
<1>0. m.req \in Requests
  BY DEF Setup
<1>2. n \in Nat /\ Len(Q) = n + 1 /\ Q[n + 1] = m.req /\ \A i \in 1 .. n : Q[i] = P[i]
  BY <1>0
<1>3. PICK f \in [0 .. L -> Nat] : Ranked(A, f) /\ Alike(A, f, P) /\ f[L] = n
  BY DEF InOrder
<1>4. /\ f[0] = 0
      /\ \A p \in 1 .. L : f[p] = f[p - 1] + (IF Setup(A[p]) THEN 1 ELSE 0)
      /\ \A p, q \in 0 .. L : p <= q => f[p] <= f[q]
      /\ \A p \in 1 .. L : Setup(A[p]) /\ f[p] <= n => A[p].req = P[f[p]]
  BY <1>1, <1>3 DEF Ranked, Alike
<1> DEFINE g == [p \in 0 .. L + 1 |-> IF p <= L THEN f[p] ELSE n + 1]
<1> HIDE DEF L, B, n, Q
<1>5. g \in [0 .. L + 1 -> Nat] /\ g[L + 1] = n + 1 /\ \A p \in 0 .. L : g[p] = f[p]
  BY <1>1, <1>2, <1>3, <1>4
<1> HIDE DEF g
<1>6. ASSUME NEW p \in 1 .. L + 1
      PROVE  g[p] = g[p - 1] + (IF Setup(B[p]) THEN 1 ELSE 0)
  <2>1. CASE p \in 1 .. L
    <3>1. p - 1 \in 0 .. L /\ p \in 0 .. L /\ B[p] = A[p]
      BY <1>1, <2>1
    <3> QED
      BY <1>4, <1>5, <2>1, <3>1
  <2>2. CASE p = L + 1
    <3>1. p - 1 = L /\ L \in 0 .. L /\ g[L] = n /\ g[p] = n + 1 /\ B[p] = m
      BY <1>1, <1>3, <1>5, <2>2
    <3> QED
      BY <1>2, <3>1
  <2> QED
    BY <1>1, <2>1, <2>2
<1>7. ASSUME NEW p \in 0 .. L + 1, NEW q \in 0 .. L + 1, p <= q PROVE g[p] <= g[q]
  <2>1. CASE q \in 0 .. L
    <3>1. p \in 0 .. L
      BY <1>1, <1>7, <2>1
    <3> QED
      BY <1>4, <1>5, <1>7, <2>1, <3>1
  <2>2. CASE q = L + 1 /\ p \in 0 .. L
    <3>1. f[p] <= f[L] /\ g[p] = f[p] /\ f[p] \in Nat
      BY <1>1, <1>3, <1>4, <1>5, <2>2
    <3> QED
      BY <1>2, <1>3, <1>5, <2>2, <3>1
  <2>3. CASE q = L + 1 /\ p = L + 1
    BY <1>2, <1>5, <2>3
  <2> QED
    BY <1>1, <2>1, <2>2, <2>3
<1>8. ASSUME NEW p \in 1 .. L + 1, Setup(B[p]), g[p] <= Len(Q) PROVE B[p].req = Q[g[p]]
  <2>1. CASE p = L + 1
    BY <1>1, <1>2, <1>5, <2>1
  <2>2. CASE p \in 1 .. L
    <3>1. p \in 0 .. L /\ p <= L /\ L \in 0 .. L /\ p - 1 \in 0 .. L /\ B[p] = A[p] /\ g[p] = f[p]
      BY <1>1, <1>5, <2>2
    <3>2. f[p] <= n /\ f[p - 1] \in Nat /\ f[p] = f[p - 1] + 1
      BY <1>3, <1>4, <1>8, <2>2, <3>1
    <3>3. f[p] \in 1 .. n
      BY <1>2, <3>2
    <3>4. A[p].req = P[f[p]]
      BY <1>4, <1>8, <2>2, <3>1, <3>2
    <3>5. Q[f[p]] = P[f[p]]
      BY <1>2, <3>3
    <3> QED
      BY <3>1, <3>4, <3>5
  <2> QED
    BY <1>1, <2>1, <2>2
<1>9. 0 \in 0 .. L /\ g[0] = 0
  BY <1>1, <1>4, <1>5
<1>10. Ranked(B, g) /\ Alike(B, g, Q)
  BY <1>1, <1>5, <1>6, <1>7, <1>8, <1>9 DEF Ranked, Alike
<1>11. g \in [0 .. Len(B) -> Nat] /\ g[Len(B)] = n + 1
  BY <1>1, <1>5
<1> QED
  BY <1>10, <1>11 DEF InOrder, B, Q, n

\* The first message is done with; when it was a setup request the first
\* connection may be done with, too
LEMMA OrderTail ==
    ASSUME NEW A \in Seq(Messages), NEW P \in Seq(Requests), NEW n, InOrder(A, P, n), A # <<>>
    PROVE  /\ ~Setup(A[1]) => InOrder(Tail(A), P, n)
           /\ Setup(A[1]) => /\ n >= 1 /\ (n = 1 => InOrder(Tail(A), P, 0))
                             /\ n = 1 => \A i \in 2 .. Len(A) : ~Setup(A[i])
                             /\ P # <<>> => /\ A[1].req = Head(P)
                                            /\ InOrder(Tail(A), Tail(P), n - 1)
<1> DEFINE L == Len(A)
           B == Tail(A)
<1>1. L \in Nat /\ L >= 1 /\ Len(B) = L - 1 /\ \A i \in 1 .. L - 1 : B[i] = A[i + 1]
  OBVIOUS
<1>2. PICK f \in [0 .. L -> Nat] : Ranked(A, f) /\ Alike(A, f, P) /\ f[L] = n
  BY DEF InOrder
<1>3. /\ f[0] = 0 /\ n \in Nat
      /\ \A p \in 1 .. L : f[p] = f[p - 1] + (IF Setup(A[p]) THEN 1 ELSE 0)
      /\ \A p, q \in 0 .. L : p <= q => f[p] <= f[q]
      /\ \A p \in 1 .. L : Setup(A[p]) /\ f[p] <= Len(P) => A[p].req = P[f[p]]
  BY <1>1, <1>2 DEF Ranked, Alike
<1> DEFINE d == f[1]
           g == [p \in 0 .. L - 1 |-> f[p + 1] - d]
<1> HIDE DEF L, B
<1>4. d = (IF Setup(A[1]) THEN 1 ELSE 0) /\ 1 \in 1 .. L /\ L \in 1 .. L
  BY <1>1, <1>3
<1>5. \A p \in 1 .. L : f[p] \in Nat /\ d <= f[p]
  BY <1>1, <1>2, <1>3
<1> HIDE DEF d
<1>6. \A p \in 0 .. L - 1 : p + 1 \in 1 .. L /\ g[p] = f[p + 1] - d /\ g[p] \in Nat
  BY <1>1, <1>4, <1>5
<1>7. g \in [0 .. L - 1 -> Nat]
  BY <1>6
<1>8. g[0] = 0 /\ g[L - 1] = n - d /\ d <= n
  <2>1. 0 \in 0 .. L - 1 /\ L - 1 \in 0 .. L - 1 /\ (L - 1) + 1 = L /\ 0 + 1 = 1
    BY <1>1
  <2>2. g[0] = f[1] - d /\ g[L - 1] = f[L] - d /\ d <= f[L]
    BY <1>4, <1>5, <1>6, <2>1
  <2> QED
    BY <1>2, <1>3, <1>4, <2>2 DEF d
<1> HIDE DEF g
<1>9. ASSUME NEW p \in 1 .. L - 1
      PROVE  g[p] = g[p - 1] + (IF Setup(B[p]) THEN 1 ELSE 0)
  <2>1. /\ p \in 0 .. L - 1 /\ p - 1 \in 0 .. L - 1 /\ p + 1 \in 1 .. L /\ (p + 1) - 1 = p
        /\ (p - 1) + 1 = p /\ p \in 1 .. L
    BY <1>1
  <2>2. f[p + 1] = f[p] + (IF Setup(A[p + 1]) THEN 1 ELSE 0) /\ B[p] = A[p + 1]
    BY <1>1, <1>3, <2>1
  <2>3. g[p] = f[p + 1] - d /\ g[p - 1] = f[p] - d /\ f[p] \in Nat /\ f[p + 1] \in Nat /\ d \in Nat
    BY <1>4, <1>5, <1>6, <2>1
  <2> QED
    BY <2>2, <2>3
<1>10. ASSUME NEW p \in 0 .. L - 1, NEW q \in 0 .. L - 1, p <= q PROVE g[p] <= g[q]
  <2>1. p + 1 \in 0 .. L /\ q + 1 \in 0 .. L /\ p + 1 <= q + 1
    BY <1>1, <1>10
  <2>2. f[p + 1] <= f[q + 1] /\ f[p + 1] \in Nat /\ f[q + 1] \in Nat
    BY <1>2, <1>3, <2>1
  <2> QED
    BY <1>4, <1>6, <2>2
<1>11. Ranked(B, g)
  BY <1>1, <1>7, <1>8, <1>9, <1>10 DEF Ranked
<1>12. g \in [0 .. Len(B) -> Nat] /\ g[Len(B)] = n - d
  BY <1>1, <1>7, <1>8
<1>13. \A p \in 1 .. L - 1 : /\ p + 1 \in 1 .. L /\ B[p] = A[p + 1] /\ g[p] = f[p + 1] - d
                             /\ f[p + 1] \in Nat /\ g[p] \in Nat
                             /\ Setup(B[p]) => g[p] >= 1
                             /\ g[p] <= n - d
  <2> TAKE p \in 1 .. L - 1
  <2>1. p + 1 \in 1 .. L /\ p \in 0 .. L - 1 /\ p - 1 \in 0 .. L - 1 /\ p <= L - 1 /\ L - 1 \in 0 .. L - 1
    BY <1>1
  <2>2. B[p] = A[p + 1] /\ g[p] = f[p + 1] - d /\ f[p + 1] \in Nat /\ g[p] \in Nat /\ g[p - 1] \in Nat
    BY <1>1, <1>5, <1>6, <2>1
  <2>3. Setup(B[p]) => g[p] >= 1
    BY <1>9, <2>2
  <2>4. g[p] <= n - d
    BY <1>8, <1>10, <2>1
  <2> QED
    BY <2>1, <2>2, <2>3, <2>4
<1>14. ASSUME ~Setup(A[1]) PROVE InOrder(B, P, n)
  <2>1. d = 0 /\ n - d = n
    BY <1>3, <1>4, <1>14
  <2>2. ASSUME NEW p \in 1 .. L - 1, Setup(B[p]), g[p] <= Len(P) PROVE B[p].req = P[g[p]]
    <3>1. p + 1 \in 1 .. L /\ B[p] = A[p + 1] /\ g[p] = f[p + 1]
      BY <1>13, <2>1
    <3> QED
      BY <1>3, <2>2, <3>1
  <2>3. Alike(B, g, P)
    BY <1>1, <2>2 DEF Alike
  <2> QED
    BY <1>11, <1>12, <2>1, <2>3 DEF InOrder
<1>15. ASSUME Setup(A[1]) PROVE d = 1 /\ n >= 1
  BY <1>3, <1>4, <1>8, <1>15
<1>16. ASSUME Setup(A[1]), n = 1
       PROVE  InOrder(B, P, 0) /\ \A i \in 2 .. L : ~Setup(A[i])
  <2>1. d = 1 /\ n - d = 0
    BY <1>15, <1>16
  <2>2. \A p \in 1 .. L - 1 : ~Setup(B[p])
    BY <1>13, <2>1
  <2>3. Alike(B, g, P)
    BY <1>1, <2>2 DEF Alike
  <2>4. ASSUME NEW i \in 2 .. L PROVE ~Setup(A[i])
    <3>1. i - 1 \in 1 .. L - 1 /\ (i - 1) + 1 = i
      BY <1>1
    <3> QED
      BY <1>13, <2>2, <3>1
  <2> QED
    BY <1>11, <1>12, <2>1, <2>3, <2>4 DEF InOrder
<1>17. ASSUME Setup(A[1]), P # <<>>
       PROVE  A[1].req = Head(P) /\ InOrder(B, Tail(P), n - 1)
  <2>1. d = 1 /\ f[1] = 1
    BY <1>15, <1>17 DEF d
  <2> DEFINE R == Tail(P)
  <2>2. /\ Len(P) \in Nat /\ Len(P) >= 1 /\ Head(P) = P[1] /\ Len(R) = Len(P) - 1
        /\ \A i \in 1 .. Len(P) - 1 : R[i] = P[i + 1]
    BY <1>17
  <2>3. A[1].req = P[1]
    BY <1>3, <1>4, <1>17, <2>1, <2>2
  <2> HIDE DEF R
  <2>4. ASSUME NEW p \in 1 .. L - 1, Setup(B[p]), g[p] <= Len(R) PROVE B[p].req = R[g[p]]
    <3>1. /\ p + 1 \in 1 .. L /\ B[p] = A[p + 1] /\ g[p] = f[p + 1] - 1 /\ f[p + 1] \in Nat
          /\ g[p] \in Nat /\ g[p] >= 1
      BY <1>13, <2>1, <2>4
    <3>2. g[p] \in 1 .. Len(P) - 1 /\ g[p] + 1 = f[p + 1] /\ f[p + 1] <= Len(P)
      BY <2>2, <2>4, <3>1
    <3>3. R[g[p]] = P[f[p + 1]]
      BY <2>2, <3>2
    <3>4. A[p + 1].req = P[f[p + 1]]
      BY <1>3, <2>4, <3>1, <3>2
    <3> QED
      BY <3>1, <3>3, <3>4
  <2>5. Alike(B, g, R)
    BY <1>1, <2>4 DEF Alike
  <2> QED
    BY <1>11, <1>12, <2>1, <2>2, <2>3, <2>5 DEF InOrder, R
<1> QED
  BY <1>14, <1>15, <1>16, <1>17 DEF L, B

\* A connection that will not be opened after all
LEMMA OrderShorter ==
    ASSUME NEW A \in Seq(Messages), NEW P \in Seq(Requests), NEW x \in Requests, NEW n,
           InOrder(A, Append(P, x), n)
    PROVE  InOrder(A, P, n)
<1> DEFINE Q == Append(P, x)
<1>1. Len(P) \in Nat /\ Len(Q) = Len(P) + 1 /\ \A i \in 1 .. Len(P) : Q[i] = P[i]
  OBVIOUS
<1>2. PICK f \in [0 .. Len(A) -> Nat] : Ranked(A, f) /\ Alike(A, f, Q) /\ f[Len(A)] = n
  BY DEF InOrder
<1> HIDE DEF Q
<1>3. ASSUME NEW p \in 1 .. Len(A), Setup(A[p]), f[p] <= Len(P) PROVE A[p].req = P[f[p]]
  <2>1. p - 1 \in 0 .. Len(A) /\ f[p - 1] \in Nat /\ f[p] = f[p - 1] + 1
    BY <1>2, <1>3 DEF Ranked
  <2>2. f[p] \in 1 .. Len(P)
    BY <1>1, <1>3, <2>1
  <2>3. A[p].req = Q[f[p]]
    BY <1>1, <1>2, <1>3, <2>2 DEF Alike
  <2> QED
    BY <1>1, <2>2, <2>3
<1>4. Alike(A, f, P)
  BY <1>3 DEF Alike
<1> QED
  BY <1>2, <1>4 DEF InOrder

\* The connection is lost, and with it all but the message in hand
LEMMA OrderFirst ==
    ASSUME NEW A \in Seq(Messages), NEW P \in Seq(Requests), NEW n, InOrder(A, P, n), A # <<>>
    PROVE  \E k \in Nat : k <= n /\ InOrder(<<A[1]>>, P, k)
<1> DEFINE L == Len(A)
           B == <<A[1]>>
<1>1. L \in Nat /\ L >= 1 /\ Len(B) = 1 /\ B[1] = A[1]
  OBVIOUS
<1>2. PICK f \in [0 .. L -> Nat] : Ranked(A, f) /\ Alike(A, f, P) /\ f[L] = n
  BY DEF InOrder
<1>3. /\ f[0] = 0 /\ n \in Nat
      /\ \A p \in 1 .. L : f[p] = f[p - 1] + (IF Setup(A[p]) THEN 1 ELSE 0)
      /\ \A p, q \in 0 .. L : p <= q => f[p] <= f[q]
      /\ \A p \in 1 .. L : Setup(A[p]) /\ f[p] <= Len(P) => A[p].req = P[f[p]]
  BY <1>1, <1>2 DEF Ranked, Alike
<1> HIDE DEF L, B
<1>4. 1 \in 1 .. L /\ f[1] = f[0] + (IF Setup(A[1]) THEN 1 ELSE 0) /\ f[1] <= f[L]
  <2>1. 1 \in 1 .. L /\ 1 - 1 = 0 /\ 1 \in 0 .. L /\ L \in 0 .. L /\ 1 <= L
    BY <1>1
  <2>2. f[1] <= f[L]
    BY <1>3, <2>1
  <2>3. f[1] = f[1 - 1] + (IF Setup(A[1]) THEN 1 ELSE 0)
    BY <1>3, <2>1
  <2> QED
    BY <2>1, <2>2, <2>3
<1> DEFINE g == [p \in 0 .. 1 |-> f[p]]
<1>5. g \in [0 .. 1 -> Nat] /\ g[0] = 0 /\ g[1] = f[1] /\ f[1] \in Nat
  BY <1>1, <1>2, <1>3
<1> HIDE DEF g
<1>6. \A p \in 1 .. 1 : p = 1
  OBVIOUS
<1>7. Ranked(B, g)
  <2>1. \A p \in 1 .. 1 : g[p] = g[p - 1] + (IF Setup(B[p]) THEN 1 ELSE 0)
    BY <1>1, <1>3, <1>4, <1>5, <1>6
  <2>2. \A p, q \in 0 .. 1 : p <= q => g[p] <= g[q]
    BY <1>5
  <2> QED
    BY <1>1, <1>5, <2>1, <2>2 DEF Ranked
<1>8. Alike(B, g, P)
  BY <1>1, <1>3, <1>4, <1>5, <1>6 DEF Alike
<1>9. InOrder(B, P, f[1])
  BY <1>1, <1>5, <1>7, <1>8 DEF InOrder
<1> QED
  BY <1>2, <1>4, <1>5, <1>9 DEF B

\* None, and so in any order
LEMMA OrderNone ==
    ASSUME NEW A \in Seq(Messages), NEW P, NEW Q, InOrder(A, P, 0)
    PROVE  InOrder(A, Q, 0) /\ \A i \in 1 .. Len(A) : ~Setup(A[i])
<1>1. PICK f \in [0 .. Len(A) -> Nat] : Ranked(A, f) /\ f[Len(A)] = 0
  BY DEF InOrder
<1>2. ASSUME NEW p \in 1 .. Len(A) PROVE ~Setup(A[p])
  <2>1. p \in 0 .. Len(A) /\ p - 1 \in 0 .. Len(A) /\ Len(A) \in 0 .. Len(A) /\ p <= Len(A)
    OBVIOUS
  <2>2. f[p] <= 0 /\ f[p - 1] \in Nat /\ f[p] = f[p - 1] + (IF Setup(A[p]) THEN 1 ELSE 0)
    BY <1>1, <2>1 DEF Ranked
  <2> QED
    BY <2>2
<1>3. Alike(A, f, Q)
  BY <1>2 DEF Alike
<1> QED
  BY <1>1, <1>2, <1>3 DEF InOrder
-----------------------------------------------------------------------------
(* Pairing                                                                 *)

\* What the server has received or will, the request in its hands first
Held == IF rtsp["server"].worker \in {"handle", "accept"} THEN <<rtsp["server"].cur>> ELSE <<>>
Incoming == Held \o (rtsp["server"].m_Buf \o net["server"])

\* The connections that were opened and not yet accepted, and the one that the
\* agent opens when its request is answered
Opened == IF pa.pc \in {"wait", "proceed"} /\ Head(pa.todo) # "resolution"
          THEN Append(backlog, Head(pa.todo)) ELSE backlog

\* Where ChannelsPaired makes its promise
Clean == /\ ~hist.rewound /\ "accept" \notin hist.failed
         /\ pa.stage <= 1 \/ hist.failed = {}

\* What the responses on their way to the agent say of the screen's channel
Answers == {m.ok : m \in {x \in Carried("client") : x.req = "screen"}}

\* The server has yet to answer a request for the screen's channel
Pending == \E p \in 1 .. Len(Incoming) :
              /\ Setup(Incoming[p]) /\ Incoming[p].req = "screen"
              /\ ~(p = 1 /\ rtsp["server"].worker = "accept")

\* The server could not set up the screen's channel: the agent will give up
Refused == pa.pc = "wait" /\ Head(pa.todo) = "screen" /\ ~pa.result /\ TRUE \notin Answers

\* Whenever the agent may go on there are as many requests as connections
Balanced(n) ==
    up /\ (pa.todo # <<>> \/ hist.failed = {}) =>
        n = Len(Opened) \/ (hist.failed # {} /\ n = 0 /\ Refused)

\* On the first stage a request for the screen's channel is the only one, and
\* until it is answered the agent waits or has given up
ScreenFirst(n) ==
    pa.stage <= 1 /\ Pending =>
        /\ n <= 1 /\ ~pa.received["screen"] /\ ~pa.result /\ Answers = {}
        /\ pa.todo = <<>> \/ (Head(pa.todo) = "screen" /\ pa.pc = "wait")

\* Before that request there is none
AtStart == \/ pa.stage = 0
           \/ /\ pa.stage = 1 /\ pa.todo # <<>> /\ Head(pa.todo) = "screen"
              /\ pa.pc \in {"idle", "store"}
Fresh(n) ==
    AtStart => /\ n = 0 /\ ~pa.received["screen"] /\ ~pa.result /\ Answers = {}
               /\ backlog = <<>>

\* The setup requests that the server has yet to deal with
Ordered(n) == InOrder(Incoming, Opened, n) /\ Balanced(n) /\ ScreenFirst(n) /\ Fresh(n)

\* Without the resolution there is no first stage
Stopped == pa.stage = 0 /\ hist.failed # {} => pa.pc = "failed"

Pairing == Clean => hist.paired = {} /\ Stopped /\ \E n \in Nat : Ordered(n)

\* What the agent has yet to ask for: the screen's channel before the others
Agenda ==
    /\ pa.stage = 0 => pa.todo = <<>> \/ pa.todo = <<"resolution">>
    /\ pa.stage # 0 => \A i \in 1 .. Len(pa.todo) : /\ pa.todo[i] # "resolution"
                                                    /\ i > 1 => pa.todo[i] # "screen"

Served ==
    /\ rtsp["server"].worker = "accept" => Setup(rtsp["server"].cur)
    /\ ~up => net["server"] = <<>>

PairInv == Agenda /\ Served /\ Pairing
-----------------------------------------------------------------------------
Cat(a, b) == a \o b

LEMMA CatType ==
    ASSUME NEW S, NEW a \in Seq(S), NEW b \in Seq(S) PROVE Cat(a, b) \in Seq(S)
BY ConcatProperties DEF Cat

LEMMA CatTogether ==
    ASSUME NEW S, NEW a \in Seq(S), NEW b \in Seq(S), NEW c \in Seq(S)
    PROVE  Cat(a, Cat(b, c)) = Cat(Cat(a, b), c)
BY ConcatAssociative DEF Cat

LEMMA CatAppend ==
    ASSUME NEW S, NEW a \in Seq(S), NEW m \in S
    PROVE  <<m>> \in Seq(S) /\ Append(a, m) = Cat(a, <<m>>)
<1>1. <<m>> \in Seq(S)
  OBVIOUS
<1>2. Append(a, m) = a \o <<m>>
  BY AppendIsConcat
<1> QED
  BY <1>1, <1>2 DEF Cat

LEMMA ConcatAppend ==
    ASSUME NEW S, NEW a \in Seq(S), NEW b \in Seq(S), NEW c \in Seq(S), NEW m \in S
    PROVE  Cat(a, Cat(b, Append(c, m))) = Append(Cat(a, Cat(b, c)), m)
<1> DEFINE o == <<m>>
           d == Cat(b, c)
           e == Cat(a, d)
<1>1. o \in Seq(S) /\ Append(c, m) = Cat(c, o)
  BY CatAppend
<1>2. d \in Seq(S)
  BY CatType
<1>3. e \in Seq(S)
  BY <1>2, CatType
<1>4. Append(e, m) = Cat(e, o)
  BY <1>3, CatAppend
<1> HIDE DEF o
<1>5. Cat(b, Cat(c, o)) = Cat(d, o)
  BY <1>1, CatTogether
<1>6. Cat(a, Cat(d, o)) = Cat(e, o)
  BY <1>1, <1>2, CatTogether
<1> QED
  BY <1>1, <1>4, <1>5, <1>6

LEMMA HeadOf ==
    ASSUME NEW S, NEW s \in Seq(S), s # <<>>
    PROVE  Tail(s) \in Seq(S) /\ <<Head(s)>> \in Seq(S) /\ Cat(<<Head(s)>>, Tail(s)) = s
<1>1. Head(s) \in S /\ Tail(s) \in Seq(S) /\ Head(s) = s[1]
  BY HeadTailProperties
<1>2. Len(s) \in Nat /\ Len(s) >= 1
  BY LenProperties, EmptySeq
<1>3. 1 \in 1 .. Len(s) /\ Len(s) \in 1 .. Len(s) /\ 1 + 1 = 2
  BY <1>2
<1>4. SubSeq(s, 1, Len(s)) = <<s[1]>> \o SubSeq(s, 1 + 1, Len(s))
  BY <1>3, SubSeqRecursiveFirst
<1>5. SubSeq(s, 1, Len(s)) = s /\ Tail(s) = SubSeq(s, 2, Len(s))
  BY SubSeqFull, TailIsSubSeq
<1> QED
  BY <1>1, <1>3, <1>4, <1>5 DEF Cat

\* The first of b and x together comes out.
LEMMA Resplit ==
    ASSUME NEW S, NEW b \in Seq(S), NEW x \in Seq(S), NEW y \in Seq(S), Cat(b, x) # <<>>
    PROVE  Cat(<<Head(Cat(b, x))>>, Cat(Tail(Cat(b, x)), y)) = Cat(b, Cat(x, y))
<1> DEFINE s == Cat(b, x)
           h == <<Head(s)>>
           t == Tail(s)
<1>1. s \in Seq(S)
  BY CatType
<1>2. h \in Seq(S) /\ t \in Seq(S) /\ Cat(h, t) = s
  BY <1>1, HeadOf
<1> HIDE DEF h, t
<1>3. Cat(h, Cat(t, y)) = Cat(Cat(h, t), y)
  BY <1>2, CatTogether
<1>4. Cat(b, Cat(x, y)) = Cat(s, y)
  BY CatTogether
<1> QED
  BY <1>2, <1>3, <1>4 DEF h, t

LEMMA Views ==
    ASSUME TypeOK
    PROVE  /\ Held \in Seq(Messages) /\ Incoming \in Seq(Messages) /\ Opened \in Seq(Requests)
           /\ rtsp["server"].m_Buf \in Seq(Messages) /\ net["server"] \in Seq(Messages)
           /\ rtsp["server"].cur \in Messages /\ rtsp["server"] \in RtspType
           /\ rtsp["client"] \in RtspType /\ backlog \in Seq(Requests)
           /\ pa \in AgentType /\ pa.stage \in Nat /\ pa.todo \in Seq(Requests)
           /\ hist \in HistType
<1>1. /\ rtsp["server"] \in RtspType /\ rtsp["client"] \in RtspType /\ net["server"] \in Seq(Messages)
      /\ pa \in AgentType /\ backlog \in Seq(Requests) /\ hist \in HistType
  BY DEF TypeOK, Side
<1>2. rtsp["server"].m_Buf \in Seq(Messages) /\ rtsp["server"].cur \in Messages
  BY <1>1 DEF RtspType
<1>3. pa.stage \in Nat /\ pa.todo \in Seq(Requests)
  BY <1>1 DEF AgentType
<1>4. Held \in Seq(Messages)
  BY <1>2 DEF Held
<1>5. Incoming \in Seq(Messages)
  BY <1>1, <1>2, <1>4, ConcatProperties DEF Incoming
<1>6. Opened \in Seq(Requests)
  <2>1. CASE pa.pc \in {"wait", "proceed"} /\ Head(pa.todo) # "resolution"
    <3>1. pa.todo # <<>>
      BY <2>1 DEF TypeOK
    <3>2. Head(pa.todo) \in Requests
      BY <1>3, <3>1, HeadTailProperties
    <3> QED
      BY <1>1, <2>1, <3>2 DEF Opened
  <2>2. CASE ~(pa.pc \in {"wait", "proceed"} /\ Head(pa.todo) # "resolution")
    BY <1>1, <2>2 DEF Opened
  <2> QED
    BY <2>1, <2>2
<1> QED
  BY <1>1, <1>2, <1>3, <1>4, <1>5, <1>6

\* The worker, and what it has received
ServerKept == /\ rtsp'["server"].worker = rtsp["server"].worker
              /\ rtsp'["server"].cur = rtsp["server"].cur
              /\ rtsp'["server"].m_Buf = rtsp["server"].m_Buf

\* A message more on the way to the server
LEMMA IncomingSend ==
    ASSUME TypeOK, ServerKept, NEW m \in Messages, net'["server"] = Append(net["server"], m)
    PROVE  Incoming' = Append(Incoming, m)
<1> DEFINE b == rtsp["server"].m_Buf
           q == net["server"]
           h == Held
<1>1. h \in Seq(Messages) /\ b \in Seq(Messages) /\ q \in Seq(Messages)
  BY Views
<1>2. Incoming' = Cat(h, Cat(b, Append(q, m))) /\ Incoming = Cat(h, Cat(b, q))
  BY DEF Incoming, Held, ServerKept, Cat
<1> HIDE DEF b, q, h
<1>3. Cat(h, Cat(b, Append(q, m))) = Append(Cat(h, Cat(b, q)), m)
  BY <1>1, ConcatAppend
<1> QED
  BY <1>2, <1>3

\* The message in hand comes first.
LEMMA IncomingFirst ==
    ASSUME TypeOK, rtsp["server"].worker \in {"handle", "accept"}
    PROVE  /\ Incoming # <<>> /\ Incoming[1] = rtsp["server"].cur
           /\ Held = <<rtsp["server"].cur>>
           /\ Tail(Incoming) = rtsp["server"].m_Buf \o net["server"]
<1> DEFINE r == rtsp["server"].m_Buf \o net["server"]
           c == rtsp["server"].cur
           h == <<c>>
<1>1. r \in Seq(Messages) /\ c \in Messages /\ h \in Seq(Messages)
  BY Views, ConcatProperties
<1>2. Incoming = h \o r /\ Held = h
  BY DEF Incoming, Held
<1> HIDE DEF r, c
<1>3. Len(h) = 1 /\ h[1] = c /\ Len(r) \in Nat
  BY <1>1
<1> HIDE DEF h
<1> DEFINE A == h \o r
<1>4. /\ A \in Seq(Messages) /\ Len(A) = 1 + Len(r)
      /\ \A i \in 1 .. 1 + Len(r) : A[i] = IF i <= 1 THEN h[i] ELSE r[i - 1]
  BY <1>1, <1>3, ConcatProperties
<1> HIDE DEF A
<1>5. A # <<>> /\ A[1] = c
  BY <1>3, <1>4
<1>6. /\ Tail(A) \in Seq(Messages) /\ Len(Tail(A)) = Len(r)
      /\ \A i \in 1 .. Len(r) : Tail(A)[i] = A[i + 1]
  BY <1>3, <1>4, <1>5, HeadTailProperties
<1>7. ASSUME NEW i \in 1 .. Len(r) PROVE Tail(A)[i] = r[i]
  <2>1. i + 1 \in 1 .. 1 + Len(r) /\ ~(i + 1 <= 1) /\ (i + 1) - 1 = i
    BY <1>3
  <2> QED
    BY <1>4, <1>6, <2>1
<1>8. Tail(A) = r
  BY <1>1, <1>6, <1>7, SeqEqual
<1> QED
  BY <1>2, <1>5, <1>8 DEF A, r, c, h

\* It is done with.
LEMMA IncomingDone ==
    ASSUME TypeOK, rtsp["server"].worker \in {"handle", "accept"}, rtsp'["server"].worker = "recv",
           rtsp'["server"].m_Buf = rtsp["server"].m_Buf, net'["server"] = net["server"]
    PROVE  Incoming' = Tail(Incoming)
<1>1. rtsp["server"].m_Buf \o net["server"] \in Seq(Messages)
  BY Views, ConcatProperties
<1>2. Incoming' = <<>> \o (rtsp["server"].m_Buf \o net["server"])
  BY DEF Incoming, Held
<1> QED
  BY <1>1, <1>2, IncomingFirst, ConcatEmptySeq

\* Recv moves messages, and the first of them becomes the one in hand.
LEMMA IncomingRecv ==
    ASSUME TypeOK, rtsp["server"].worker = "recv", rtsp'["server"].worker = "handle",
           NEW k \in 0 .. Len(net["server"]), NEW buf \in Seq(Messages), buf # <<>>,
           buf = rtsp["server"].m_Buf \o SubSeq(net["server"], 1, k),
           rtsp'["server"].cur = Head(buf), rtsp'["server"].m_Buf = Tail(buf),
           net'["server"] = SubSeq(net["server"], k + 1, Len(net["server"]))
    PROVE  Incoming' = Incoming
<1> DEFINE b == rtsp["server"].m_Buf
           q == net["server"]
           x == SubSeq(q, 1, k)
           y == SubSeq(q, k + 1, Len(q))
           t == Tail(buf)
           h == <<Head(buf)>>
<1>1. b \in Seq(Messages) /\ q \in Seq(Messages) /\ Len(q) \in Nat
  BY Views
<1>2. Incoming' = Cat(h, Cat(t, y)) /\ Incoming = <<>> \o (b \o q)
  BY DEF Incoming, Held, Cat
<1>3. buf = Cat(b, x)
  BY DEF Cat
<1> HIDE DEF b, q
<1>4. x \in Seq(Messages) /\ y \in Seq(Messages)
  <2>1. k \in Int /\ k + 1 \in Int /\ Len(q) \in Int /\ 1 \in Int
    BY <1>1 DEF q
  <2>2. \A i \in 1 .. Len(q) : q[i] \in Messages
    BY <1>1, ElementOfSeq
  <2>3. (\A i \in 1 .. k : q[i] \in Messages) /\ (\A i \in k + 1 .. Len(q) : q[i] \in Messages)
    BY <1>1, <2>2 DEF q
  <2> QED
    BY <2>1, <2>3, SubSeqProperties
<1>5. x \o y = q
  <2>1. 1 \in 1 .. Len(q) + 1 /\ k \in 1 - 1 .. Len(q) /\ Len(q) \in k .. Len(q)
    BY <1>1 DEF q
  <2>2. x \o y = SubSeq(q, 1, Len(q))
    BY <1>1, <2>1, ConcatAdjacentSubSeq
  <2> QED
    BY <1>1, <2>2, SubSeqFull
<1> HIDE DEF x, y
<1>6. Cat(h, Cat(t, y)) = Cat(b, Cat(x, y))
  <2>1. Cat(b, x) # <<>>
    BY <1>3
  <2>2. Cat(<<Head(Cat(b, x))>>, Cat(Tail(Cat(b, x)), y)) = Cat(b, Cat(x, y))
    BY <1>1, <1>4, <2>1, Resplit
  <2> QED
    BY <1>3, <2>2
<1>7. <<>> \o (b \o q) = b \o q
  <2>1. b \o q \in Seq(Messages)
    BY <1>1, ConcatProperties DEF b, q
  <2> QED
    BY <2>1, ConcatEmptySeq
<1>8. Cat(b, Cat(x, y)) = b \o q
  BY <1>5 DEF Cat
<1> QED
  BY <1>2, <1>6, <1>7, <1>8

\* Of a lost connection only the message in hand is left.
LEMMA IncomingLost ==
    ASSUME TypeOK, rtsp'["server"].m_Buf = <<>>, net'["server"] = <<>>
    PROVE  /\ Incoming' = Held'
           /\ rtsp'["server"].worker \in {"recv", "ended"} => Incoming' = <<>>
           /\ ServerKept \/ /\ rtsp'["server"].worker = rtsp["server"].worker
                            /\ rtsp'["server"].cur = rtsp["server"].cur
              => Incoming' = Held
<1>1. <<>> \in Seq(Messages)
  OBVIOUS
<1>2. <<>> \o <<>> = <<>>
  BY <1>1, ConcatEmptySeq
<1>3. Incoming' = Held' \o <<>>
  BY <1>2 DEF Incoming
<1>4. CASE rtsp'["server"].worker \in {"handle", "accept"}
  <2>1. Held' = <<rtsp'["server"].cur>>
    BY <1>4 DEF Held
  <2>2. Held' \in Seq({rtsp'["server"].cur})
    BY <2>1
  <2>3. Incoming' = Held'
    BY <1>3, <2>2, ConcatEmptySeq
  <2> QED
    BY <1>4, <2>3 DEF ServerKept, Held
<1>5. CASE rtsp'["server"].worker \notin {"handle", "accept"}
  BY <1>2, <1>3, <1>5 DEF ServerKept, Held
<1> QED
  BY <1>4, <1>5
-----------------------------------------------------------------------------
\* What a step may do to the messages on their way to the server
Passes ==
    /\ \A n \in Nat : InOrder(Incoming, Opened, n) =>
          \E k \in Nat : k <= n /\ (up' => k = n) /\ InOrder(Incoming', Opened, k)
    /\ Pending' => Pending

\* The agent's requests and the connections stay as they are.
AgentKept ==
    /\ pa'.pc = pa.pc /\ pa'.todo = pa.todo /\ pa'.stage = pa.stage
    /\ pa'.received["screen"] = pa.received["screen"] /\ pa'.result = pa.result
HistKept ==
    /\ hist'.failed = hist.failed /\ hist'.paired = hist.paired
    /\ hist.rewound => hist'.rewound

\* A promise that is not yet off was on before.
LEMMA CleanBefore ==
    ASSUME TypeOK, TypeOK', Clean', hist.rewound => hist'.rewound,
           hist.failed \subseteq hist'.failed, pa'.stage >= pa.stage
    PROVE  Clean /\ ~hist'.rewound /\ ~hist.rewound
<1>1. pa.stage \in Nat /\ pa'.stage \in Nat
  BY DEF TypeOK, AgentType
<1>2. ~hist'.rewound /\ "accept" \notin hist'.failed /\ (pa'.stage <= 1 \/ hist'.failed = {})
  BY DEF Clean
<1> QED
  BY <1>1, <1>2 DEF Clean

\* A step that leaves the agent, the connections and the screen's answers alone
LEMMA QuietPairing ==
    ASSUME TypeOK, TypeOK', Pairing, AgentKept, HistKept, backlog' = backlog, up' => up,
           Answers' \subseteq Answers, Passes
    PROVE  Pairing'
<1> SUFFICES ASSUME Clean' PROVE hist'.paired = {} /\ Stopped' /\ \E k \in Nat : Ordered(k)'
  BY DEF Pairing
<1>1. pa.stage \in Nat
  BY Views
<1>2. Clean
  BY <1>1, CleanBefore DEF AgentKept, HistKept
<1>3. PICK n \in Nat : Ordered(n)
  BY <1>2 DEF Pairing
<1>4. PICK k \in Nat : k <= n /\ (up' => k = n) /\ InOrder(Incoming', Opened, k)
  BY <1>3 DEF Ordered, Passes
<1>5. Opened' = Opened
  BY DEF Opened, AgentKept
<1>6. InOrder(Incoming, Opened, k)'
  BY <1>4, <1>5
<1>7. Refused => Refused'
  BY DEF Refused, AgentKept
<1>8. Balanced(k)'
  BY <1>3, <1>4, <1>5, <1>7 DEF Ordered, Balanced, AgentKept, HistKept
<1>9. ScreenFirst(k)'
  <2> SUFFICES ASSUME pa'.stage <= 1, Pending'
               PROVE  /\ k <= 1 /\ ~pa'.received["screen"] /\ ~pa'.result /\ Answers' = {}
                      /\ pa'.todo = <<>> \/ (Head(pa'.todo) = "screen" /\ pa'.pc = "wait")
    BY DEF ScreenFirst
  <2>1. pa.stage <= 1 /\ Pending
    BY DEF AgentKept, Passes
  <2>2. /\ n <= 1 /\ ~pa.received["screen"] /\ ~pa.result /\ Answers = {}
        /\ pa.todo = <<>> \/ (Head(pa.todo) = "screen" /\ pa.pc = "wait")
    BY <1>3, <2>1 DEF Ordered, ScreenFirst
  <2> QED
    BY <1>4, <2>2 DEF AgentKept
<1>10. Fresh(k)'
  <2> SUFFICES ASSUME AtStart'
               PROVE  /\ k = 0 /\ ~pa'.received["screen"] /\ ~pa'.result /\ Answers' = {}
                      /\ backlog' = <<>>
    BY DEF Fresh
  <2>1. AtStart
    BY DEF AtStart, AgentKept
  <2>2. /\ n = 0 /\ ~pa.received["screen"] /\ ~pa.result /\ Answers = {} /\ backlog = <<>>
    BY <1>3, <2>1 DEF Ordered, Fresh
  <2> QED
    BY <1>4, <2>2 DEF AgentKept
<1>11. Ordered(k)'
  BY <1>6, <1>8, <1>9, <1>10 DEF Ordered
<1>12. hist'.paired = {} /\ Stopped'
  BY <1>2 DEF Pairing, Stopped, AgentKept, HistKept
<1> QED
  BY <1>11, <1>12
-----------------------------------------------------------------------------
LEMMA IncomingKept ==
    ASSUME ServerKept, net'["server"] = net["server"] PROVE Incoming' = Incoming
BY DEF Incoming, Held, ServerKept

\* The messages are the same: they have been read, or the first one answered.
LEMMA PassSame ==
    ASSUME Incoming' = Incoming,
           rtsp["server"].worker = "accept" => rtsp'["server"].worker = "accept"
    PROVE  Passes
<1>1. Pending' => Pending
  BY DEF Pending
<1>2. ASSUME NEW n \in Nat, InOrder(Incoming, Opened, n)
      PROVE  \E k \in Nat : k <= n /\ (up' => k = n) /\ InOrder(Incoming', Opened, k)
  <2>1. n <= n
    OBVIOUS
  <2>2. InOrder(Incoming', Opened, n)
    BY <1>2
  <2> QED
    BY <2>1, <2>2
<1> QED
  BY <1>1, <1>2 DEF Passes

\* One more is sent that is no setup request.
LEMMA PassSend ==
    ASSUME TypeOK, ServerKept, NEW m \in Messages, ~Setup(m),
           net'["server"] = Append(net["server"], m)
    PROVE  Passes
<1>1. Incoming' = Append(Incoming, m)
  BY IncomingSend
<1>2. Incoming \in Seq(Messages) /\ Opened \in Seq(Requests)
  BY Views
<1>3. Pending' => Pending
  <2> SUFFICES ASSUME NEW p \in 1 .. Len(Incoming'), Setup(Incoming'[p]), Incoming'[p].req = "screen",
                      ~(p = 1 /\ rtsp'["server"].worker = "accept")
               PROVE  Pending
    BY DEF Pending
  <2>1. /\ Len(Incoming') = Len(Incoming) + 1 /\ Len(Incoming) \in Nat
        /\ \A i \in 1 .. Len(Incoming) : Incoming'[i] = Incoming[i]
        /\ Incoming'[Len(Incoming) + 1] = m
    BY <1>1, <1>2, AppendProperties
  <2>2. p # Len(Incoming) + 1
    BY <2>1
  <2>3. p \in 1 .. Len(Incoming)
    BY <2>1, <2>2
  <2> QED
    BY <2>1, <2>3 DEF Pending, ServerKept
<1>4. ASSUME NEW n \in Nat, InOrder(Incoming, Opened, n)
      PROVE  \E k \in Nat : k <= n /\ (up' => k = n) /\ InOrder(Incoming', Opened, k)
  <2>1. n <= n
    OBVIOUS
  <2>2. InOrder(Append(Incoming, m), Opened, n)
    BY <1>2, <1>4, OrderAppend
  <2> QED
    BY <1>1, <2>1, <2>2
<1> QED
  BY <1>3, <1>4 DEF Passes

\* The first one is done with: none that remains is a new one.
LEMMA TailPending ==
    ASSUME TypeOK, rtsp["server"].worker \in {"handle", "accept"}, Incoming' = Tail(Incoming)
    PROVE  /\ Pending' => Pending
           /\ Pending' => \E i \in 2 .. Len(Incoming) : Setup(Incoming[i])
<1>1. Incoming \in Seq(Messages) /\ Incoming # <<>>
  BY Views, IncomingFirst
<1>2. /\ Len(Tail(Incoming)) = Len(Incoming) - 1 /\ Len(Incoming) \in Nat
      /\ \A i \in 1 .. Len(Tail(Incoming)) : Tail(Incoming)[i] = Incoming[i + 1]
  BY <1>1, HeadTailProperties
<1> SUFFICES ASSUME NEW p \in 1 .. Len(Incoming'), Setup(Incoming'[p]), Incoming'[p].req = "screen"
             PROVE  Pending /\ \E i \in 2 .. Len(Incoming) : Setup(Incoming[i])
  BY DEF Pending
<1>3. p + 1 \in 1 .. Len(Incoming) /\ p + 1 \in 2 .. Len(Incoming) /\ p + 1 # 1
  BY <1>2
<1>4. Incoming'[p] = Incoming[p + 1]
  BY <1>2
<1> QED
  BY <1>3, <1>4 DEF Pending

LEMMA PassDone ==
    ASSUME TypeOK, rtsp["server"].worker \in {"handle", "accept"}, ~Setup(rtsp["server"].cur),
           Incoming' = Tail(Incoming)
    PROVE  Passes
<1>1. Incoming \in Seq(Messages) /\ Incoming # <<>> /\ Opened \in Seq(Requests)
  BY Views, IncomingFirst
<1>2. Incoming[1] = rtsp["server"].cur
  BY IncomingFirst
<1>3. Pending' => Pending
  BY TailPending
<1>4. ASSUME NEW n \in Nat, InOrder(Incoming, Opened, n)
      PROVE  \E k \in Nat : k <= n /\ (up' => k = n) /\ InOrder(Incoming', Opened, k)
  <2>1. n <= n
    OBVIOUS
  <2>2. InOrder(Tail(Incoming), Opened, n)
    BY <1>1, <1>2, <1>4, OrderTail
  <2> QED
    BY <2>1, <2>2
<1> QED
  BY <1>3, <1>4 DEF Passes

\* None is left.
LEMMA PassNone ==
    ASSUME Incoming' = <<>>, ~up' PROVE Passes /\ ~Pending'
<1>1. ~Pending'
  BY DEF Pending
<1>2. ASSUME NEW n \in Nat
      PROVE  \E k \in Nat : k <= n /\ (up' => k = n) /\ InOrder(Incoming', Opened, k)
  <2>1. InOrder(Incoming', Opened, 0)
    BY OrderEmpty
  <2>2. 0 \in Nat /\ 0 <= n
    OBVIOUS
  <2> QED
    BY <2>1, <2>2
<1> QED
  BY <1>1, <1>2 DEF Passes

\* Only the one in hand is left.
LEMMA PassLost ==
    ASSUME TypeOK, rtsp'["server"].worker = rtsp["server"].worker,
           rtsp'["server"].cur = rtsp["server"].cur,
           rtsp'["server"].m_Buf = <<>>, net'["server"] = <<>>, ~up'
    PROVE  Passes
<1>1. Incoming' = Held
  BY IncomingLost
<1>2. CASE rtsp["server"].worker \notin {"handle", "accept"}
  BY <1>1, <1>2, PassNone DEF Held
<1>3. CASE rtsp["server"].worker \in {"handle", "accept"}
  <2> DEFINE c == rtsp["server"].cur
  <2>1. Incoming \in Seq(Messages) /\ Incoming # <<>> /\ Incoming[1] = c /\ Opened \in Seq(Requests)
    BY <1>3, Views, IncomingFirst
  <2>2. Incoming' = <<c>>
    BY <1>1, <1>3 DEF Held
  <2> HIDE DEF c
  <2>3. Pending' => Pending
    <3> SUFFICES ASSUME NEW p \in 1 .. Len(Incoming'), Setup(Incoming'[p]), Incoming'[p].req = "screen",
                        ~(p = 1 /\ rtsp'["server"].worker = "accept")
                 PROVE  Pending
      BY DEF Pending
    <3>1. p = 1 /\ Incoming'[p] = c
      BY <2>2
    <3>2. 1 \in 1 .. Len(Incoming)
      BY <2>1
    <3> QED
      BY <2>1, <3>1, <3>2 DEF Pending
  <2>4. ASSUME NEW n \in Nat, InOrder(Incoming, Opened, n)
        PROVE  \E k \in Nat : k <= n /\ (up' => k = n) /\ InOrder(Incoming', Opened, k)
    <3>1. PICK k \in Nat : k <= n /\ InOrder(<<Incoming[1]>>, Opened, k)
      BY <2>1, <2>4, OrderFirst
    <3> QED
      BY <2>1, <2>2, <3>1
  <2> QED
    BY <2>3, <2>4 DEF Passes
<1> QED
  BY <1>2, <1>3
-----------------------------------------------------------------------------
\* An exception cuts the stage short: the agent's request goes without its
\* connection.
LEMMA Aborting ==
    ASSUME TypeOK, TypeOK', Agenda, Pairing, pa.todo # <<>>, pa.pc # "idle",
           pa'.todo = <<>>, pa'.stage = pa.stage, pa'.result = pa.result,
           pa'.pc = (IF Head(pa.todo) = "resolution" THEN "failed" ELSE "idle"),
           pa'.received = pa.received, hist'.failed = hist.failed \cup {"stage"},
           hist'.paired = hist.paired, hist'.rewound = hist.rewound, backlog' = backlog,
           up' = up, Answers' = Answers, ServerKept, net' = net
    PROVE  Pairing'
<1> SUFFICES ASSUME Clean' PROVE hist'.paired = {} /\ Stopped' /\ \E k \in Nat : Ordered(k)'
  BY DEF Pairing
<1>1. /\ pa.stage \in Nat /\ Incoming \in Seq(Messages) /\ backlog \in Seq(Requests)
      /\ Head(pa.todo) \in Requests /\ pa.todo \in Seq(Requests)
  BY Views, AgentTypes
<1>2. Clean
  BY <1>1, CleanBefore
<1>3. PICK n \in Nat : Ordered(n)
  BY <1>2 DEF Pairing
<1>4. Incoming' = Incoming
  BY IncomingKept
<1>5. InOrder(Incoming, backlog, n)
  <2>1. CASE Opened = backlog
    BY <1>3, <2>1 DEF Ordered
  <2>2. CASE Opened = Append(backlog, Head(pa.todo))
    BY <1>1, <1>3, <2>2, OrderShorter DEF Ordered
  <2> QED
    BY <2>1, <2>2 DEF Opened
<1>6. Opened' = backlog
  BY DEF Opened
<1>7. InOrder(Incoming, Opened, n)'
  BY <1>4, <1>5, <1>6
<1>8. Balanced(n)'
  BY DEF Balanced
<1>9. ScreenFirst(n)'
  <2>1. Pending' => Pending
    BY <1>4 DEF Pending, ServerKept
  <2> QED
    BY <1>3, <2>1 DEF Ordered, ScreenFirst
<1>10. Fresh(n)'
  <2>1. AtStart' => AtStart
    BY DEF AtStart
  <2> QED
    BY <1>3, <2>1 DEF Ordered, Fresh
<1>11. Stopped'
  <2>1. pa.stage = 0 => Head(pa.todo) = "resolution"
    <3>1. pa.stage = 0 => pa.todo = <<"resolution">>
      BY DEF Agenda
    <3> QED
      BY <3>1
  <2> QED
    BY <2>1 DEF Stopped
<1> QED
  BY <1>2, <1>3, <1>7, <1>8, <1>9, <1>10, <1>11 DEF Ordered, Pairing

\* ResquestResolution or Setup...Channel has the mutexes.
LEMMA Loading ==
    ASSUME TypeOK, TypeOK', Pairing, pa.pc = "idle", pa'.pc = "store", pa.todo # <<>>,
           pa'.todo = pa.todo, pa'.stage = pa.stage, pa'.result = pa.result,
           pa'.received = pa.received, hist' = hist, backlog' = backlog,
           up' = up, Answers' = Answers, ServerKept, net' = net
    PROVE  Pairing'
<1> SUFFICES ASSUME Clean' PROVE hist'.paired = {} /\ Stopped' /\ \E k \in Nat : Ordered(k)'
  BY DEF Pairing
<1>1. Clean
  BY DEF Clean
<1>2. PICK n \in Nat : Ordered(n)
  BY <1>1 DEF Pairing
<1>3. Incoming' = Incoming
  BY IncomingKept
<1>4. Opened' = backlog /\ Opened = backlog
  BY DEF Opened
<1>5. InOrder(Incoming, Opened, n)'
  BY <1>2, <1>3, <1>4 DEF Ordered
<1>6. Balanced(n)'
  BY <1>2, <1>4 DEF Ordered, Balanced, Refused
<1>7. ScreenFirst(n)'
  <2>1. Pending' => Pending
    BY <1>3 DEF Pending, ServerKept
  <2> QED
    BY <1>2, <2>1 DEF Ordered, ScreenFirst
<1>8. Fresh(n)'
  <2>1. AtStart' => AtStart
    BY DEF AtStart
  <2> QED
    BY <1>2, <2>1 DEF Ordered, Fresh
<1>9. hist'.paired = {} /\ Stopped'
  BY <1>1 DEF Pairing, Stopped
<1> QED
  BY <1>2, <1>5, <1>6, <1>7, <1>8, <1>9 DEF Ordered

\* The request is sent: a connection will follow, unless it is the first.
LEMMA Sending ==
    ASSUME TypeOK, TypeOK', Agenda, Pairing, up, pa.pc = "store", pa.todo # <<>>,
           pa'.pc = (IF pa.received[Head(pa.todo)] THEN "proceed" ELSE "wait"),
           pa'.todo = pa.todo, pa'.stage = pa.stage, pa'.result = pa.result,
           pa'.received = pa.received, hist' = hist, backlog' = backlog,
           up' = up, Answers' = Answers, ServerKept,
           NEW m \in Messages, m.req = Head(pa.todo), ~m.resp,
           net'["server"] = Append(net["server"], m)
    PROVE  Pairing'
<1> SUFFICES ASSUME Clean' PROVE hist'.paired = {} /\ Stopped' /\ \E k \in Nat : Ordered(k)'
  BY DEF Pairing
<1>1. Clean
  BY DEF Clean
<1>2. PICK n \in Nat : Ordered(n)
  BY <1>1 DEF Pairing
<1>3. /\ pa.stage \in Nat /\ Incoming \in Seq(Messages) /\ backlog \in Seq(Requests)
      /\ Head(pa.todo) \in Requests /\ pa.todo \in Seq(Requests)
  BY Views, AgentTypes
<1>4. Incoming' = Append(Incoming, m)
  BY IncomingSend
<1>5. Opened = backlog /\ n = Len(backlog) /\ InOrder(Incoming, backlog, n)
  BY <1>2 DEF Opened, Ordered, Balanced, Refused
<1>6. pa.stage <= 1 => ~Pending
  BY <1>2 DEF Ordered, ScreenFirst
<1>7. Setup(m) <=> Head(pa.todo) # "resolution"
  BY <1>3 DEF Setup
<1>8. Pending' => Pending \/ (Setup(m) /\ m.req = "screen")
  <2> SUFFICES ASSUME NEW p \in 1 .. Len(Incoming'), Setup(Incoming'[p]), Incoming'[p].req = "screen",
                      ~(p = 1 /\ rtsp'["server"].worker = "accept"), ~(Setup(m) /\ m.req = "screen")
               PROVE  Pending
    BY DEF Pending
  <2>1. /\ Len(Incoming') = Len(Incoming) + 1 /\ Len(Incoming) \in Nat
        /\ \A i \in 1 .. Len(Incoming) : Incoming'[i] = Incoming[i]
        /\ Incoming'[Len(Incoming) + 1] = m
    BY <1>3, <1>4, AppendProperties
  <2>2. p # Len(Incoming) + 1
    BY <2>1
  <2>3. p \in 1 .. Len(Incoming)
    BY <2>1, <2>2
  <2> QED
    BY <2>1, <2>3 DEF Pending, ServerKept
<1>9. pa.stage = 0 => Head(pa.todo) = "resolution"
  <2>1. pa.stage = 0 => pa.todo = <<"resolution">>
    BY DEF Agenda
  <2> QED
    BY <2>1
<1>10. Head(pa.todo) = "resolution" => pa.stage = 0
  <2>1. Head(pa.todo) = pa.todo[1] /\ 1 \in 1 .. Len(pa.todo)
    BY <1>3
  <2> QED
    BY <2>1 DEF Agenda
<1>11. hist'.paired = {} /\ Stopped'
  BY <1>1 DEF Pairing, Stopped
<1>12. CASE Head(pa.todo) = "resolution"
  <2>1. Opened' = backlog
    BY <1>12 DEF Opened
  <2>2. InOrder(Append(Incoming, m), backlog, n)
    BY <1>3, <1>5, <1>7, <1>12, OrderAppend
  <2>3. InOrder(Incoming, Opened, n)'
    BY <1>4, <2>1, <2>2
  <2>4. Balanced(n)'
    BY <1>5, <2>1 DEF Balanced
  <2>5. ScreenFirst(n)'
    BY <1>6, <1>7, <1>8, <1>12 DEF ScreenFirst
  <2>6. Fresh(n)'
    <3>1. AtStart' => AtStart
      BY <1>10, <1>12 DEF AtStart
    <3> QED
      BY <1>2, <3>1 DEF Ordered, Fresh
  <2> QED
    BY <1>11, <2>3, <2>4, <2>5, <2>6 DEF Ordered
<1>13. CASE Head(pa.todo) # "resolution"
  <2>0. PICK k \in Nat : k = Len(backlog) + 1
    BY <1>3
  <2>1. Opened' = Append(backlog, Head(pa.todo))
    BY <1>13 DEF Opened
  <2>2. InOrder(Append(Incoming, m), Append(backlog, m.req), k)
    BY <1>3, <1>5, <1>7, <1>13, <2>0, OrderSetup
  <2>3. InOrder(Incoming, Opened, k)'
    BY <1>4, <2>1, <2>2
  <2>4. Len(Opened') = k
    BY <1>3, <2>0, <2>1
  <2>5. Balanced(k)'
    BY <2>4 DEF Balanced
  <2>6. ScreenFirst(k)'
    <3> SUFFICES ASSUME pa.stage <= 1, Pending'
                 PROVE  /\ k <= 1 /\ ~pa.received["screen"] /\ ~pa.result /\ Answers = {}
                        /\ Head(pa.todo) = "screen" /\ pa'.pc = "wait"
      BY DEF ScreenFirst
    <3>1. Head(pa.todo) = "screen"
      BY <1>6, <1>8
    <3>2. pa.stage = 1
      BY <1>3, <1>9, <1>13
    <3>3. AtStart
      BY <3>1, <3>2 DEF AtStart
    <3>4. n = 0 /\ ~pa.received["screen"] /\ ~pa.result /\ Answers = {}
      BY <1>2, <3>3 DEF Ordered, Fresh
    <3> QED
      BY <1>5, <2>0, <3>1, <3>4
  <2>7. Fresh(k)'
    <3>1. ~AtStart'
      BY <1>9, <1>13 DEF AtStart
    <3> QED
      BY <3>1 DEF Fresh
  <2> QED
    BY <1>11, <2>3, <2>4, <2>5, <2>6, <2>7 DEF Ordered
<1> QED
  BY <1>12, <1>13

\* The answer is there, and the agent opens its connection if there is one.
LEMMA Opening ==
    ASSUME TypeOK, TypeOK', Agenda, Pairing, pa.pc \in {"wait", "proceed"}, pa.todo # <<>>,
           Head(pa.todo) = "screen" => pa.result,
           pa'.pc = "idle", pa'.todo = Tail(pa.todo), pa'.stage = pa.stage, pa'.result = pa.result,
           pa'.received = pa.received, hist' = hist, up' = up, Answers' = Answers,
           backlog' = (IF Head(pa.todo) = "resolution" THEN backlog
                       ELSE Append(backlog, Head(pa.todo))),
           ServerKept, net' = net
    PROVE  Pairing'
<1> SUFFICES ASSUME Clean' PROVE hist'.paired = {} /\ Stopped' /\ \E k \in Nat : Ordered(k)'
  BY DEF Pairing
<1>1. Clean
  BY DEF Clean
<1>2. PICK n \in Nat : Ordered(n)
  BY <1>1 DEF Pairing
<1>3. /\ pa.stage \in Nat /\ pa.todo \in Seq(Requests)
  BY Views
<1>4. Incoming' = Incoming
  BY IncomingKept
<1>5. Opened' = Opened
  BY DEF Opened
<1>6. InOrder(Incoming, Opened, n)'
  BY <1>2, <1>4, <1>5 DEF Ordered
<1>7. ~Refused
  BY DEF Refused
<1>8. Balanced(n)'
  BY <1>2, <1>5, <1>7 DEF Ordered, Balanced
<1>9. pa.stage <= 1 => ~Pending
  BY <1>2 DEF Ordered, ScreenFirst
<1>10. ScreenFirst(n)'
  <2>1. Pending' => Pending
    BY <1>4 DEF Pending, ServerKept
  <2> QED
    BY <1>9, <2>1 DEF ScreenFirst
<1>11. Fresh(n)'
  <2> SUFFICES ASSUME AtStart' PROVE AtStart /\ backlog' = backlog
    BY <1>2 DEF Ordered, Fresh
  <2>1. pa.stage = 0
    <3> SUFFICES ASSUME pa.stage # 0 PROVE FALSE
      OBVIOUS
    <3>1. pa.stage = 1 /\ Tail(pa.todo) # <<>> /\ Head(Tail(pa.todo)) = "screen"
      BY DEF AtStart
    <3>2. /\ Tail(pa.todo) \in Seq(Requests) /\ Len(Tail(pa.todo)) = Len(pa.todo) - 1
          /\ \A i \in 1 .. Len(pa.todo) - 1 : Tail(pa.todo)[i] = pa.todo[i + 1]
      BY <1>3, HeadTailProperties
    <3>3. 1 \in 1 .. Len(pa.todo) - 1
      BY <1>3, <3>1, <3>2, EmptySeq
    <3>4. Head(Tail(pa.todo)) = Tail(pa.todo)[1]
      BY <3>1, <3>2
    <3>5. pa.todo[2] = "screen" /\ 2 \in 1 .. Len(pa.todo)
      BY <1>3, <3>1, <3>2, <3>3, <3>4
    <3> QED
      BY <3>1, <3>5 DEF Agenda
  <2>2. pa.todo = <<"resolution">>
    BY <2>1 DEF Agenda
  <2> QED
    BY <2>1, <2>2 DEF AtStart
<1>12. hist'.paired = {} /\ Stopped'
  <2>1. Stopped /\ hist.paired = {}
    BY <1>1 DEF Pairing
  <2> QED
    BY <2>1 DEF Stopped
<1> QED
  BY <1>2, <1>6, <1>8, <1>10, <1>11, <1>12 DEF Ordered

\* CONNECTION_STATE_ACTIVE
LEMMA Activating ==
    ASSUME TypeOK, TypeOK', Pairing, pa.pc = "idle", pa'.pc = "idle", pa.todo = <<>>,
           pa'.stage = pa.stage + 1, pa'.result = pa.result,
           pa'.received = pa.received, hist' = hist, backlog' = backlog,
           up' = up, Answers' = Answers, ServerKept, net' = net
    PROVE  Pairing'
<1> SUFFICES ASSUME Clean' PROVE hist'.paired = {} /\ Stopped' /\ \E k \in Nat : Ordered(k)'
  BY DEF Pairing
<1>1. pa.stage \in Nat /\ pa'.stage >= pa.stage /\ Incoming \in Seq(Messages)
  BY Views
<1>2. Clean
  BY <1>1, CleanBefore
<1>3. PICK n \in Nat : Ordered(n)
  BY <1>2 DEF Pairing
<1>4. hist.failed = {}
  <2>1. CASE pa.stage = 0
    BY <1>2, <2>1 DEF Pairing, Stopped
  <2>2. CASE pa.stage # 0
    BY <1>1, <2>2 DEF Clean
  <2> QED
    BY <2>1, <2>2
<1>5. Incoming' = Incoming
  BY IncomingKept
<1>6. Opened' = backlog /\ Opened = backlog
  BY DEF Opened
<1>7. InOrder(Incoming, Opened, n)'
  BY <1>3, <1>5, <1>6 DEF Ordered
<1>8. Balanced(n)'
  BY <1>3, <1>4, <1>6 DEF Ordered, Balanced
<1>9. pa'.stage <= 1 => pa.stage = 0
  BY <1>1
<1>10. pa.stage = 0 => /\ n = 0 /\ ~pa.received["screen"] /\ ~pa.result /\ Answers = {}
                       /\ backlog = <<>>
  BY <1>3 DEF Ordered, Fresh, AtStart
<1>11. ScreenFirst(n)'
  <2> SUFFICES ASSUME pa'.stage <= 1 PROVE ~Pending'
    BY DEF ScreenFirst
  <2>1. InOrder(Incoming, Opened, 0)
    BY <1>3, <1>9, <1>10 DEF Ordered
  <2>2. \A i \in 1 .. Len(Incoming) : ~Setup(Incoming[i])
    BY <1>1, <2>1, OrderNone
  <2> QED
    BY <1>5, <2>2 DEF Pending
<1>12. Fresh(n)'
  <2>1. AtStart' => pa.stage = 0
    BY <1>1 DEF AtStart
  <2> QED
    BY <1>10, <2>1 DEF Fresh
<1>13. hist'.paired = {} /\ Stopped'
  BY <1>1, <1>2, <1>4 DEF Pairing, Stopped
<1> QED
  BY <1>3, <1>7, <1>8, <1>11, <1>12, <1>13 DEF Ordered
-----------------------------------------------------------------------------
\* A response is credited.
LEMMA Crediting ==
    ASSUME TypeOK, TypeOK', Pairing, Numbered, rtsp["client"].worker = "credit",
           pa'.pc = pa.pc, pa'.todo = pa.todo, pa'.stage = pa.stage,
           pa.match # "screen" => /\ pa'.received["screen"] = pa.received["screen"]
                                  /\ pa'.result = pa.result,
           pa.match = "screen" => pa'.result = rtsp["client"].cur.ok,
           hist'.failed = hist.failed, hist'.paired = hist.paired, hist'.rewound = hist.rewound,
           backlog' = backlog, up' = up, Answers' \subseteq Answers, ServerKept, net' = net
    PROVE  Pairing'
<1>1. Incoming' = Incoming
  BY IncomingKept
<1>2. Passes
  BY <1>1, PassSame DEF ServerKept
<1>3. CASE pa.match # "screen"
  BY <1>2, <1>3, QuietPairing DEF AgentKept, HistKept
<1>4. CASE pa.match = "screen"
  <2> SUFFICES ASSUME Clean' PROVE hist'.paired = {} /\ Stopped' /\ \E k \in Nat : Ordered(k)'
    BY DEF Pairing
  <2>1. Clean /\ ~hist.rewound
    BY DEF Clean
  <2>2. PICK n \in Nat : Ordered(n)
    BY <2>1 DEF Pairing
  <2>3. rtsp["client"].cur.req = "screen"
    BY <1>4, <2>1 DEF Numbered
  <2>4. rtsp["client"].cur \in Carried("client")
    BY DEF Carried
  <2>5. rtsp["client"].cur.ok \in Answers
    BY <2>3, <2>4 DEF Answers
  <2>6. rtsp["client"].cur.ok \in BOOLEAN
    BY DEF TypeOK, RtspType, Messages, Side
  <2>7. Opened' = Opened
    BY DEF Opened
  <2>8. InOrder(Incoming, Opened, n)'
    BY <1>1, <2>2, <2>7 DEF Ordered
  <2>9. Refused => Refused'
    BY <1>4, <2>5, <2>6 DEF Refused
  <2>10. Balanced(n)'
    BY <2>2, <2>7, <2>9 DEF Ordered, Balanced
  <2>11. ScreenFirst(n)'
    BY <1>2, <2>2, <2>5 DEF Ordered, ScreenFirst, Passes
  <2>12. Fresh(n)'
    <3>1. AtStart' => AtStart
      BY DEF AtStart
    <3> QED
      BY <2>2, <2>5, <3>1 DEF Ordered, Fresh
  <2>13. hist'.paired = {} /\ Stopped'
    BY <2>1 DEF Pairing, Stopped
  <2> QED
    BY <2>2, <2>8, <2>10, <2>11, <2>12, <2>13 DEF Ordered
<1> QED
  BY <1>3, <1>4

\* The setup request in hand is the first of those that are counted.
LEMMA SetupFirst ==
    ASSUME TypeOK, rtsp["server"].worker \in {"handle", "accept"}, Setup(rtsp["server"].cur),
           NEW n \in Nat, Ordered(n)
    PROVE  /\ n >= 1 /\ ~AtStart
           /\ n = 1 => InOrder(Tail(Incoming), Opened, 0)
           /\ n = 1 => \A i \in 2 .. Len(Incoming) : ~Setup(Incoming[i])
           /\ Opened # <<>> => /\ rtsp["server"].cur.req = Head(Opened)
                               /\ InOrder(Tail(Incoming), Tail(Opened), n - 1)
<1>1. /\ Incoming \in Seq(Messages) /\ Incoming # <<>> /\ Opened \in Seq(Requests)
      /\ Incoming[1] = rtsp["server"].cur
  BY Views, IncomingFirst
<1>2. InOrder(Incoming, Opened, n) /\ Setup(Incoming[1])
  BY <1>1 DEF Ordered
<1>3. /\ n >= 1 /\ (n = 1 => InOrder(Tail(Incoming), Opened, 0))
      /\ n = 1 => \A i \in 2 .. Len(Incoming) : ~Setup(Incoming[i])
      /\ Opened # <<>> => /\ Incoming[1].req = Head(Opened)
                          /\ InOrder(Tail(Incoming), Tail(Opened), n - 1)
  BY <1>1, <1>2, OrderTail
<1>4. ~AtStart
  BY <1>3 DEF Ordered, Fresh
<1> QED
  BY <1>1, <1>3, <1>4

\* A request for the screen's channel in the worker's hands is not answered yet.
LEMMA ScreenPending ==
    ASSUME TypeOK, rtsp["server"].worker = "handle", Setup(rtsp["server"].cur),
           rtsp["server"].cur.req = "screen"
    PROVE  Pending
<1>1. Incoming \in Seq(Messages) /\ Incoming # <<>> /\ Incoming[1] = rtsp["server"].cur
  BY Views, IncomingFirst
<1>2. 1 \in 1 .. Len(Incoming)
  BY <1>1
<1> QED
  BY <1>1, <1>2 DEF Pending

\* InitialRDPProjectorPipeline throws.
LEMMA Refusing ==
    ASSUME TypeOK, TypeOK', Pairing, rtsp["server"].worker = "handle", Setup(rtsp["server"].cur),
           rtsp["server"].cur.req = "screen", pa' = pa, backlog' = backlog, up' = up,
           hist'.failed = hist.failed \cup {"stage"}, hist'.paired = hist.paired,
           hist'.rewound = hist.rewound, Answers' \subseteq Answers \cup {FALSE},
           Incoming' = Tail(Incoming) \/ (Incoming' = <<>> /\ ~up)
    PROVE  Pairing'
<1> SUFFICES ASSUME Clean' PROVE hist'.paired = {} /\ Stopped' /\ \E k \in Nat : Ordered(k)'
  BY DEF Pairing
<1>1. pa.stage \in Nat
  BY Views
<1>2. Clean /\ pa.stage <= 1
  BY <1>1, CleanBefore DEF Clean
<1>3. PICK n \in Nat : Ordered(n)
  BY <1>2 DEF Pairing
<1>4. Pending
  BY ScreenPending
<1>5. /\ n <= 1 /\ ~pa.received["screen"] /\ ~pa.result /\ Answers = {}
      /\ pa.todo = <<>> \/ (Head(pa.todo) = "screen" /\ pa.pc = "wait")
  BY <1>2, <1>3, <1>4 DEF Ordered, ScreenFirst
<1>6. n = 1
  BY <1>3, <1>5, SetupFirst
<1>7. Opened' = Opened
  BY DEF Opened
<1>8. InOrder(Incoming, Opened, 0)' /\ ~Pending'
  <2>1. CASE Incoming' = Tail(Incoming)
    <3>1. InOrder(Incoming', Opened, 0)
      BY <1>3, <1>6, <2>1, SetupFirst
    <3>2. \A i \in 2 .. Len(Incoming) : ~Setup(Incoming[i])
      BY <1>3, <1>6, SetupFirst
    <3>3. ~Pending'
      BY <2>1, <3>2, TailPending
    <3> QED
      BY <1>7, <3>1, <3>3
  <2>2. CASE Incoming' = <<>> /\ ~up
    <3>1. ~Pending'
      BY <2>2, PassNone
    <3>2. InOrder(Incoming', Opened', 0)
      BY <2>2, OrderEmpty
    <3> QED
      BY <3>1, <3>2
  <2> QED
    BY <2>1, <2>2
<1>9. Balanced(0)'
  <2>1. TRUE \notin Answers'
    BY <1>5
  <2> QED
    BY <1>5, <2>1 DEF Balanced, Refused
<1>10. ScreenFirst(0)'
  BY <1>8 DEF ScreenFirst
<1>11. ~AtStart
  BY <1>3, SetupFirst
<1>12. Fresh(0)'
  BY <1>11 DEF Fresh, AtStart
<1>13. hist'.paired = {} /\ Stopped'
  BY <1>2, <1>11 DEF Pairing, Stopped, AtStart
<1>14. Ordered(0)'
  BY <1>8, <1>9, <1>10, <1>12 DEF Ordered
<1> QED
  BY <1>13, <1>14

\* The answer is sent, and the worker goes on to accept.
LEMMA Answering ==
    ASSUME TypeOK, TypeOK', Pairing, rtsp["server"].worker = "handle", Setup(rtsp["server"].cur),
           rtsp'["server"].worker = "accept", Incoming' = Incoming,
           pa' = pa, backlog' = backlog, up' = up, hist' = hist,
           rtsp["server"].cur.req # "screen" => Answers' \subseteq Answers
    PROVE  Pairing'
<1>1. Passes
  BY PassSame
<1>2. CASE rtsp["server"].cur.req # "screen"
  BY <1>1, <1>2, QuietPairing DEF AgentKept, HistKept
<1>3. CASE rtsp["server"].cur.req = "screen"
  <2> SUFFICES ASSUME Clean' PROVE hist'.paired = {} /\ Stopped' /\ \E k \in Nat : Ordered(k)'
    BY DEF Pairing
  <2>1. Clean
    BY DEF Clean
  <2>2. PICK n \in Nat : Ordered(n)
    BY <2>1 DEF Pairing
  <2>3. n >= 1 /\ ~AtStart
    BY <2>2, SetupFirst
  <2>4. Pending
    BY <1>3, ScreenPending
  <2>5. Opened' = Opened
    BY DEF Opened
  <2>6. InOrder(Incoming, Opened, n)'
    BY <2>2, <2>5 DEF Ordered
  <2>7. Balanced(n)'
    BY <2>2, <2>3, <2>5 DEF Ordered, Balanced
  <2>8. ScreenFirst(n)'
    <3> SUFFICES ASSUME pa.stage <= 1 PROVE ~Pending'
      BY DEF ScreenFirst
    <3>1. n <= 1
      BY <2>2, <2>4 DEF Ordered, ScreenFirst
    <3>2. n = 1
      BY <2>3, <3>1
    <3>3. \A i \in 2 .. Len(Incoming) : ~Setup(Incoming[i])
      BY <2>2, <3>2, SetupFirst
    <3>4. Incoming \in Seq(Messages)
      BY Views
    <3>5. \A i \in 1 .. Len(Incoming) : i = 1 \/ i \in 2 .. Len(Incoming)
      BY <3>4
    <3> QED
      BY <3>3, <3>5 DEF Pending
  <2>9. Fresh(n)'
    BY <2>3 DEF Fresh, AtStart
  <2>10. hist'.paired = {} /\ Stopped'
    BY <2>1 DEF Pairing, Stopped
  <2> QED
    BY <2>2, <2>6, <2>7, <2>8, <2>9, <2>10 DEF Ordered
<1> QED
  BY <1>2, <1>3

\* The oldest connection is taken: it is the one for the request in hand.
LEMMA Taking ==
    ASSUME TypeOK, TypeOK', Pairing, rtsp["server"].worker = "accept", Setup(rtsp["server"].cur),
           backlog # <<>>, backlog' = Tail(backlog), pa' = pa, up' = up,
           hist'.failed = hist.failed, hist'.rewound = hist.rewound,
           hist'.paired \subseteq hist.paired \cup Crossed(rtsp["server"].cur.req, Head(backlog)),
           Answers' \subseteq Answers \cup {FALSE},
           Incoming' = Tail(Incoming) \/ (Incoming' = <<>> /\ ~up)
    PROVE  Pairing'
<1> SUFFICES ASSUME Clean' PROVE hist'.paired = {} /\ Stopped' /\ \E k \in Nat : Ordered(k)'
  BY DEF Pairing
<1>1. Clean
  BY DEF Clean
<1>2. PICK n \in Nat : Ordered(n)
  BY <1>1 DEF Pairing
<1>3. backlog \in Seq(Requests) /\ pa.todo \in Seq(Requests) /\ Opened \in Seq(Requests)
  BY Views
<1>4. /\ Opened # <<>> /\ Head(Opened) = Head(backlog) /\ Opened' = Tail(Opened)
      /\ Len(Opened') = Len(Opened) - 1 /\ Len(Opened) \in Nat
  <2>1. CASE pa.pc \in {"wait", "proceed"} /\ Head(pa.todo) # "resolution"
    <3> DEFINE x == Head(pa.todo)
    <3>1. Opened = Append(backlog, x) /\ Opened' = Append(Tail(backlog), x)
      BY <2>1 DEF Opened
    <3>2. pa.todo # <<>>
      BY <2>1 DEF TypeOK
    <3>3. x \in Requests
      BY <1>3, <3>2, HeadTailProperties
    <3> HIDE DEF x
    <3>4. Append(backlog, x) # <<>> /\ Head(Append(backlog, x)) = Head(backlog)
      BY <1>3, <3>3, HeadTailAppend
    <3>5. Tail(Append(backlog, x)) = Append(Tail(backlog), x)
      BY <1>3, <3>3, HeadTailAppend
    <3>6. Len(Tail(Opened)) = Len(Opened) - 1 /\ Len(Opened) \in Nat
      BY <1>3, <3>1, <3>4, HeadTailProperties
    <3> QED
      BY <3>1, <3>4, <3>5, <3>6
  <2>2. CASE ~(pa.pc \in {"wait", "proceed"} /\ Head(pa.todo) # "resolution")
    <3>1. Opened = backlog /\ Opened' = Tail(backlog)
      BY <2>2 DEF Opened
    <3>2. Len(Tail(backlog)) = Len(backlog) - 1 /\ Len(backlog) \in Nat
      BY <1>3, HeadTailProperties
    <3> QED
      BY <3>1, <3>2
  <2> QED
    BY <2>1, <2>2
<1>5. /\ n >= 1 /\ ~AtStart /\ rtsp["server"].cur.req = Head(backlog)
      /\ InOrder(Tail(Incoming), Opened', n - 1)
      /\ n = 1 => \A i \in 2 .. Len(Incoming) : ~Setup(Incoming[i])
  BY <1>2, <1>4, SetupFirst
<1>6. hist'.paired = {} /\ Stopped'
  <2>1. hist.paired = {} /\ Stopped
    BY <1>1 DEF Pairing
  <2>2. Crossed(rtsp["server"].cur.req, Head(backlog)) = {}
    BY <1>5 DEF Crossed
  <2> QED
    BY <2>1, <2>2 DEF Stopped
<1>7. \A k \in Nat : Fresh(k)'
  BY <1>5 DEF Fresh, AtStart
<1>8. CASE Incoming' = Tail(Incoming)
  <2>1. PICK k \in Nat : k = n - 1
    BY <1>5
  <2>2. InOrder(Incoming, Opened, k)'
    BY <1>5, <1>8, <2>1
  <2>3. up /\ (pa.todo # <<>> \/ hist.failed = {}) => n = Len(Opened)
    BY <1>2, <1>5 DEF Ordered, Balanced
  <2>4. Balanced(k)'
    <3>1. n = Len(Opened) => k = Len(Opened')
      BY <1>4, <2>1
    <3> QED
      BY <2>3, <3>1 DEF Balanced
  <2>5. ScreenFirst(k)'
    <3> SUFFICES ASSUME pa.stage <= 1, Pending' PROVE FALSE
      BY DEF ScreenFirst
    <3>1. Pending /\ \E i \in 2 .. Len(Incoming) : Setup(Incoming[i])
      BY <1>8, TailPending
    <3>2. n <= 1
      BY <1>2, <3>1 DEF Ordered, ScreenFirst
    <3> QED
      BY <1>5, <3>1, <3>2
  <2> QED
    BY <1>6, <1>7, <2>2, <2>4, <2>5 DEF Ordered
<1>9. CASE Incoming' = <<>> /\ ~up
  <2>1. InOrder(Incoming', Opened', 0)
    BY <1>9, OrderEmpty
  <2>2. Balanced(0)'
    BY <1>9 DEF Balanced
  <2>3. ~Pending'
    BY <1>9, PassNone
  <2>4. ScreenFirst(0)'
    BY <2>3 DEF ScreenFirst
  <2>5. Ordered(0)'
    BY <1>7, <2>1, <2>2, <2>4 DEF Ordered
  <2> QED
    BY <1>6, <2>5
<1> QED
  BY <1>8, <1>9
-----------------------------------------------------------------------------
(* The threads                                                             *)

\* What the client has yet to handle: at most one message more
LEMMA ClientCarries ==
    ASSUME TypeOK, NEW m \in Messages,
           \/ rtsp'["client"].worker \in {"recv", "ended"}
           \/ rtsp'["client"].worker = rtsp["client"].worker /\ rtsp'["client"].cur = rtsp["client"].cur
           \/ rtsp["client"].worker = "handle" /\ rtsp'["client"].cur = rtsp["client"].cur,
           rtsp'["client"].m_Buf = rtsp["client"].m_Buf \/ rtsp'["client"].m_Buf = <<>>,
           \/ net'["client"] = net["client"] \/ net'["client"] = <<>>
           \/ net'["client"] = Append(net["client"], m)
    PROVE  Carried("client")' \subseteq Carried("client") \cup {m}
<1>1. Elements(<<>>) = {}
  BY DEF Elements
<1>2. net["client"] \in Seq(Messages)
  BY DEF TypeOK, Side
<1>3. Elements(net'["client"]) \subseteq Elements(net["client"]) \cup {m}
  <2>1. Elements(Append(net["client"], m)) = Elements(net["client"]) \cup {m}
    BY <1>2, ElementsOf
  <2> QED
    BY <1>1, <2>1
<1>4. Elements(rtsp'["client"].m_Buf) \subseteq Elements(rtsp["client"].m_Buf)
  BY <1>1
<1> QED
  BY <1>3, <1>4 DEF Carried

LEMMA AnswersAfter ==
    ASSUME NEW m \in Messages, Carried("client")' \subseteq Carried("client") \cup {m}
    PROVE  /\ Answers' \subseteq Answers \cup {m.ok}
           /\ m.req # "screen" => Answers' \subseteq Answers
BY DEF Answers

LEMMA AnswersKept ==
    ASSUME Carried("client")' \subseteq Carried("client")
    PROVE  Answers' \subseteq Answers
BY DEF Answers

LEMMA NoMsgType == NoMsg \in Messages /\ NoMsg.req # "screen"
BY DEF NoMsg, Messages

\* The server has no part in it.
LEMMA ServedKept ==
    ASSUME Served, ServerKept, up' = up, net'["server"] = net["server"]
    PROVE  Served'
BY DEF Served, ServerKept, Setup

\* What remains of the agenda
LEMMA AgendaKept ==
    ASSUME TypeOK, Agenda, pa'.stage = pa.stage,
           \/ pa'.todo = pa.todo \/ pa'.todo = <<>>
           \/ pa.todo # <<>> /\ pa'.todo = Tail(pa.todo)
    PROVE  Agenda'
<1>1. CASE pa'.todo = pa.todo
  BY <1>1 DEF Agenda
<1>2. CASE pa'.todo = <<>>
  BY <1>2 DEF Agenda
<1>3. CASE pa.todo # <<>> /\ pa'.todo = Tail(pa.todo)
  <2>1. pa.todo \in Seq(Requests)
    BY Views
  <2>2. /\ Len(Tail(pa.todo)) = Len(pa.todo) - 1 /\ Len(pa.todo) \in Nat
        /\ \A i \in 1 .. Len(pa.todo) - 1 : Tail(pa.todo)[i] = pa.todo[i + 1]
    BY <1>3, <2>1, HeadTailProperties
  <2>3. CASE pa.stage = 0
    <3>1. pa.todo = <<"resolution">>
      BY <1>3, <2>3 DEF Agenda
    <3>2. pa'.todo = <<>>
      BY <1>3, <3>1
    <3> QED
      BY <2>3, <3>2 DEF Agenda
  <2>4. CASE pa.stage # 0
    <3> SUFFICES ASSUME NEW i \in 1 .. Len(pa'.todo)
                 PROVE  pa'.todo[i] # "resolution" /\ pa'.todo[i] # "screen"
      BY <2>4 DEF Agenda
    <3>1. i + 1 \in 1 .. Len(pa.todo) /\ i + 1 > 1 /\ pa'.todo[i] = pa.todo[i + 1]
      BY <1>3, <2>2
    <3> QED
      BY <2>4, <3>1 DEF Agenda
  <2> QED
    BY <2>3, <2>4
<1> QED
  BY <1>1, <1>2, <1>3

\* The channels of a stage: the screen's is the first.
LEMMA ChannelOrder ==
    ASSUME NEW k \in 0 .. 5
    PROVE  \A i \in 1 .. Len(SubSeq(Channels, 1, k)) :
              /\ SubSeq(Channels, 1, k)[i] # "resolution"
              /\ i > 1 => SubSeq(Channels, 1, k)[i] # "screen"
<1>1. Channels \in Seq(Requests) /\ Len(Channels) = 5
  BY ChainLength DEF Channels
<1>2. /\ \A i \in 1 .. 5 : Channels[i] # "resolution"
      /\ \A i \in 1 .. 5 : i > 1 => Channels[i] # "screen"
  BY DEF Channels
<1>3. /\ Len(SubSeq(Channels, 1, k)) = IF 1 <= k THEN k - 1 + 1 ELSE 0
      /\ \A i \in 1 .. Len(SubSeq(Channels, 1, k)) : SubSeq(Channels, 1, k)[i] = Channels[1 + i - 1]
  BY SubSeqProperties
<1> QED
  BY <1>1, <1>2, <1>3

\* The agent's thread
LEMMA AgentPairs ==
    ASSUME TypeOK, TypeOK', PairInv, AgentStep \/ Active \/ Register
    PROVE  PairInv'
<1>0. /\ Agenda /\ Served /\ Pairing /\ pa \in AgentType /\ hist \in HistType
      /\ rtsp \in [Side -> RtspType] /\ rtsp["server"] \in RtspType
      /\ rtsp["client"] \in RtspType /\ pa.stage \in Nat /\ net \in [Side -> Seq(Messages)]
  BY Views DEF PairInv, TypeOK
<1>1. CASE RequestLoad
  <2>1. /\ pa.pc = "idle" /\ pa'.pc = "store" /\ pa.todo # <<>> /\ pa'.todo = pa.todo
        /\ pa'.stage = pa.stage /\ pa'.result = pa.result /\ pa'.received = pa.received
        /\ hist' = hist /\ backlog' = backlog /\ up' = up /\ rtsp' = rtsp /\ net' = net
    BY <1>0, <1>1 DEF RequestLoad, AgentType
  <2>2. ServerKept /\ Answers' = Answers
    BY <2>1 DEF ServerKept, Answers, Carried
  <2> QED
    BY <1>0, <2>1, <2>2, Loading, ServedKept, AgendaKept DEF PairInv
<1>2. CASE RequestSend
  <2> DEFINE req == Head(pa.todo)
  <2>1. /\ pa.pc = "store" /\ up' = up /\ backlog' = backlog
        /\ rtsp' = [rtsp EXCEPT !["client"].m_CSeq = pa.loaded + 1]
    BY <1>2 DEF RequestSend
  <2>2. pa.todo # <<>> /\ req \in Requests
    BY <1>0, <2>1, AgentTypes DEF TypeOK
  <2>3. /\ rtsp'["server"] = rtsp["server"] /\ rtsp'["client"].worker = rtsp["client"].worker
        /\ rtsp'["client"].cur = rtsp["client"].cur /\ rtsp'["client"].m_Buf = rtsp["client"].m_Buf
    BY <1>0, <2>1 DEF RtspType, Side
  <2>4. ServerKept
    BY <2>3 DEF ServerKept
  <2>5. CASE /\ Transmit("client", Msg(req, pa.loaded, FALSE, TRUE))
             /\ pa' = [pa EXCEPT !.cseqOf[req] = pa.loaded, !.loaded = 0,
                                 !.pc = IF pa.received[req] THEN "proceed" ELSE "wait"]
             /\ UNCHANGED hist
    <3>1. /\ pa'.pc = (IF pa.received[req] THEN "proceed" ELSE "wait") /\ pa'.todo = pa.todo
          /\ pa'.stage = pa.stage /\ pa'.result = pa.result /\ pa'.received = pa.received
      BY <1>0, <2>5 DEF AgentType
    <3>2. pa.loaded \in Int /\ req \in Requests \cup {"beat"}
      BY <1>0, <2>2 DEF AgentType
    <3>3. PICK m \in Messages : /\ m = Msg(req, pa.loaded, FALSE, TRUE)
                                /\ m.req = req /\ m.cseq = pa.loaded /\ m.resp = FALSE
      <4>1. PICK c \in Int : c = pa.loaded
        BY <3>2
      <4>2. PICK q \in Requests \cup {"beat"} : q = req
        BY <3>2
      <4>3. Msg(q, c, FALSE, TRUE) \in Messages
        BY DEF Msg, Messages
      <4>4. /\ Msg(q, c, FALSE, TRUE).req = q /\ Msg(q, c, FALSE, TRUE).cseq = c
            /\ Msg(q, c, FALSE, TRUE).resp = FALSE
        BY DEF Msg
      <4> HIDE DEF req
      <4> QED
        BY <4>1, <4>2, <4>3, <4>4, Zenon
    <3>4. up /\ net' = [net EXCEPT !["server"] = Append(@, m)]
      BY <2>5, <3>3 DEF Transmit, Other
    <3>5. net'["server"] = Append(net["server"], m) /\ net'["client"] = net["client"]
      BY <1>0, <3>4 DEF Side
    <3>6. Answers' = Answers
      BY <2>3, <3>5 DEF Answers, Carried
    <3>7. Pairing'
      BY <1>0, <2>1, <2>2, <2>4, <2>5, <3>1, <3>3, <3>4, <3>5, <3>6, Sending
    <3>8. Agenda'
      BY <1>0, <3>1, AgendaKept
    <3>9. Served'
      BY <1>0, <2>1, <2>4, <3>4 DEF Served, ServerKept, Setup
    <3> QED
      BY <3>7, <3>8, <3>9 DEF PairInv
  <2>6. CASE /\ Throws /\ Failed("stage")
             /\ pa' = [Aborted EXCEPT !.cseqOf[req] = pa.loaded, !.loaded = 0]
    <3>1. /\ pa'.todo = <<>> /\ pa'.stage = pa.stage /\ pa'.result = pa.result
          /\ pa'.pc = (IF Head(pa.todo) = "resolution" THEN "failed" ELSE "idle")
          /\ pa'.received = pa.received
      BY <1>0, <2>6 DEF Aborted, AgentType
    <3>2. /\ hist'.failed = hist.failed \cup {"stage"} /\ hist'.paired = hist.paired
          /\ hist'.rewound = hist.rewound
      BY <1>0, <2>6 DEF Failed, HistType
    <3>3. net' = net
      BY <2>6 DEF Throws
    <3>4. Answers' = Answers
      BY <2>3, <3>3 DEF Answers, Carried
    <3>5. Pairing'
      BY <1>0, <2>1, <2>2, <2>4, <3>1, <3>2, <3>3, <3>4, Aborting
    <3>6. Agenda' /\ Served'
      BY <1>0, <2>1, <2>4, <3>1, <3>3, AgendaKept, ServedKept
    <3> QED
      BY <3>5, <3>6 DEF PairInv
  <2> QED
    BY <1>2, <2>5, <2>6 DEF RequestSend
<1>3. CASE Proceed \/ TimeOut
  <2>1. /\ pa.pc \in {"wait", "proceed"} /\ net' = net /\ rtsp' = rtsp /\ up' = up
    BY <1>3 DEF Proceed, TimeOut, WaitOver
  <2>2. pa.todo # <<>>
    BY <2>1 DEF TypeOK
  <2>3. ServerKept /\ Answers' = Answers
    BY <2>1 DEF ServerKept, Answers, Carried
  <2>4. CASE pa' = Aborted /\ Failed("stage") /\ backlog' = backlog
    <3>1. /\ pa'.todo = <<>> /\ pa'.stage = pa.stage /\ pa'.result = pa.result
          /\ pa'.pc = (IF Head(pa.todo) = "resolution" THEN "failed" ELSE "idle")
          /\ pa'.received = pa.received
      BY <1>0, <2>4 DEF Aborted, AgentType
    <3>2. /\ hist'.failed = hist.failed \cup {"stage"} /\ hist'.paired = hist.paired
          /\ hist'.rewound = hist.rewound
      BY <1>0, <2>4 DEF Failed, HistType
    <3>3. Pairing'
      BY <1>0, <2>1, <2>2, <2>3, <2>4, <3>1, <3>2, Aborting
    <3>4. Agenda' /\ Served'
      BY <1>0, <2>1, <2>3, <3>1, AgendaKept, ServedKept
    <3> QED
      BY <3>3, <3>4 DEF PairInv
  <2>5. CASE /\ pa' = Done /\ hist' = hist /\ (Head(pa.todo) = "screen" => pa.result)
             /\ backlog' = (IF Head(pa.todo) = "resolution" THEN backlog
                            ELSE Append(backlog, Head(pa.todo)))
    <3>1. /\ pa'.todo = Tail(pa.todo) /\ pa'.stage = pa.stage /\ pa'.result = pa.result
          /\ pa'.pc = "idle" /\ pa'.received = pa.received
      BY <1>0, <2>5 DEF Done, AgentType
    <3>2. Pairing'
      BY <1>0, <2>1, <2>2, <2>3, <2>5, <3>1, Opening
    <3>3. Agenda' /\ Served'
      BY <1>0, <2>1, <2>2, <2>3, <3>1, AgendaKept, ServedKept
    <3> QED
      BY <3>2, <3>3 DEF PairInv
  <2> QED
    BY <1>3, <2>4, <2>5 DEF Proceed, TimeOut, Connect, CannotConnect
<1>4. CASE Active
  <2>1. /\ pa.pc = "idle" /\ pa'.pc = "idle" /\ pa.todo = <<>> /\ pa'.stage = pa.stage + 1
        /\ pa'.result = pa.result /\ pa'.received = pa.received
        /\ pa'.todo = SubSeq(Channels, 1, plan.setups)
        /\ hist' = hist /\ backlog' = backlog /\ up' = up /\ rtsp' = rtsp /\ net' = net
    BY <1>0, <1>4 DEF Active, AgentType
  <2>2. ServerKept /\ Answers' = Answers
    BY <2>1 DEF ServerKept, Answers, Carried
  <2>3. plan.setups \in 0 .. 5
    BY PlansAssumption DEF TypeOK
  <2>4. Agenda'
    <3>1. pa'.stage # 0
      BY <1>0, <2>1
    <3>2. \A i \in 1 .. Len(pa'.todo) : pa'.todo[i] # "resolution" /\ (i > 1 => pa'.todo[i] # "screen")
      BY <2>1, <2>3, ChannelOrder
    <3> QED
      BY <3>1, <3>2 DEF Agenda
  <2> QED
    BY <1>0, <2>1, <2>2, <2>4, Activating, ServedKept DEF PairInv
<1>5. CASE Register
  <2>1. /\ pa'.pc = pa.pc /\ pa'.todo = pa.todo /\ pa'.stage = pa.stage
        /\ pa'.result = pa.result /\ pa'.received = pa.received
        /\ hist' = hist /\ backlog' = backlog /\ up' = up /\ rtsp' = rtsp /\ net' = net
    BY <1>0, <1>5 DEF Register, AgentType
  <2>2. ServerKept /\ Answers' = Answers /\ AgentKept /\ HistKept
    BY <2>1 DEF ServerKept, Answers, Carried, AgentKept, HistKept
  <2>3. Incoming' = Incoming
    BY <2>1, <2>2, IncomingKept
  <2>4. Passes
    BY <2>1, <2>3, PassSame
  <2>5. Pairing'
    BY <1>0, <2>1, <2>2, <2>4, QuietPairing
  <2> QED
    BY <1>0, <2>1, <2>2, <2>5, AgendaKept, ServedKept DEF PairInv
<1> QED
  BY <1>1, <1>2, <1>3, <1>4, <1>5 DEF AgentStep

\* What Reply does: a response to the message in hand, or an exception
LEMMA ReplyWorkers ==
    ASSUME TypeOK, NEW s \in Side, NEW ok \in BOOLEAN, NEW then, Reply(s, ok, then)
    PROVE  \/ /\ up /\ rtsp' = then /\ net'[s] = net[s]
              /\ \E m \in Messages : /\ m.req = rtsp[s].cur.req /\ m.resp = TRUE /\ m.ok = ok
                                     /\ net'[Other(s)] = Append(net[Other(s)], m)
           \/ ~up /\ rtsp' = Ended(s) /\ net' = net
<1>1. Other(s) \in Side /\ Other(s) # s /\ net \in [Side -> Seq(Messages)]
  BY DEF Other, Side, TypeOK
<1>2. rtsp[s].cur \in Messages
  BY DEF TypeOK, RtspType
<1>3. PICK m \in Messages : /\ m = Msg(rtsp[s].cur.req, rtsp[s].cur.cseq, TRUE, ok)
                            /\ m.req = rtsp[s].cur.req /\ m.resp = TRUE /\ m.ok = ok
  <2>1. Msg(rtsp[s].cur.req, rtsp[s].cur.cseq, TRUE, ok) \in Messages
    BY <1>2 DEF Msg, Messages
  <2>2. /\ Msg(rtsp[s].cur.req, rtsp[s].cur.cseq, TRUE, ok).req = rtsp[s].cur.req
        /\ Msg(rtsp[s].cur.req, rtsp[s].cur.cseq, TRUE, ok).resp = TRUE
        /\ Msg(rtsp[s].cur.req, rtsp[s].cur.cseq, TRUE, ok).ok = ok
    BY DEF Msg
  <2> QED
    BY <2>1, <2>2, Zenon
<1>4. CASE Transmit(s, m) /\ rtsp' = then
  <2>1. net'[Other(s)] = Append(net[Other(s)], m) /\ net'[s] = net[s] /\ up
    BY <1>1, <1>4 DEF Transmit
  <2> QED
    BY <1>3, <1>4, <2>1
<1>5. CASE Throws /\ rtsp' = Ended(s)
  BY <1>5 DEF Throws
<1> QED
  BY <1>3, <1>4, <1>5 DEF Reply

\* HandleMessage returned, or an exception left Workloop.
LEMMA WorkersAfter ==
    ASSUME TypeOK, NEW s \in Side
    PROVE  /\ \A x \in Side : x # s => Handled(s)[x] = rtsp[x] /\ Ended(s)[x] = rtsp[x]
           /\ Handled(s)[s].worker = "recv" /\ Handled(s)[s].m_Buf = rtsp[s].m_Buf
           /\ Ended(s)[s].worker = "ended" /\ Ended(s)[s].m_Buf = <<>>
<1>1. rtsp \in [Side -> RtspType] /\ rtsp[s] \in RtspType
  BY DEF TypeOK
<1> QED
  BY <1>1 DEF Handled, Ended, RtspType

\* A step of a thread that leaves the agent, the connections, the history and
\* the server's worker alone, and sends at most one message that is no setup
\* request and does not answer one for the screen's channel
LEMMA QuietThread ==
    ASSUME TypeOK, TypeOK', PairInv, AgentKept, HistKept, backlog' = backlog, up' = up,
           ServerKept, NEW m \in Messages,
           \/ net'["server"] = net["server"]
           \/ up /\ ~Setup(m) /\ net'["server"] = Append(net["server"], m),
           Answers' \subseteq Answers
    PROVE  PairInv'
<1>1. Passes
  <2>1. CASE net'["server"] = net["server"]
    <3>1. Incoming' = Incoming
      BY <2>1, IncomingKept
    <3> QED
      BY <3>1, PassSame DEF ServerKept
  <2>2. CASE ~Setup(m) /\ net'["server"] = Append(net["server"], m)
    BY <2>2, PassSend
  <2> QED
    BY <2>1, <2>2
<1>2. Pairing'
  BY <1>1, QuietPairing DEF PairInv
<1>3. Agenda'
  BY AgendaKept DEF PairInv, AgentKept
<1>4. Served'
  BY DEF PairInv, Served, ServerKept, Setup
<1> QED
  BY <1>2, <1>3, <1>4 DEF PairInv

\* The heart beat's thread
LEMMA BeatPairs ==
    ASSUME TypeOK, TypeOK', PairInv, NEW s \in Side, BeatLoad(s) \/ BeatStep(s)
    PROVE  PairInv'
<1>1. \A x \in Side : /\ rtsp'[x].worker = rtsp[x].worker /\ rtsp'[x].m_Buf = rtsp[x].m_Buf
                      /\ rtsp'[x].cur = rtsp[x].cur
  BY BeatWorkers
<1>2. ServerKept
  BY <1>1 DEF ServerKept, Side
<1>3. pa' = pa /\ backlog' = backlog /\ up' = up
  BY DEF BeatStep, BeatLoad, BeatStore, BeatSend
<1>4. HistKept
  <2>1. CASE BeatStore(s)
    BY <2>1 DEF BeatStore, HistKept, TypeOK, HistType
  <2>2. CASE hist' = hist
    BY <2>2 DEF HistKept
  <2> QED
    BY <2>1, <2>2 DEF BeatStep, BeatLoad, BeatSend
<1>5. PICK m \in Messages : /\ m = Msg("beat", rtsp[s].m_CSeq, FALSE, TRUE)
                            /\ m.req = "beat" /\ m.cseq = rtsp[s].m_CSeq /\ m.resp = FALSE
  <2>1. rtsp[s].m_CSeq \in Int /\ "beat" \in Requests \cup {"beat"}
    BY DEF TypeOK, RtspType
  <2>2. PICK c \in Int : c = rtsp[s].m_CSeq
    BY <2>1
  <2>3. Msg("beat", c, FALSE, TRUE) \in Messages
    BY DEF Msg, Messages
  <2>4. /\ Msg("beat", c, FALSE, TRUE).req = "beat" /\ Msg("beat", c, FALSE, TRUE).cseq = c
        /\ Msg("beat", c, FALSE, TRUE).resp = FALSE
    BY DEF Msg
  <2> QED
    BY <2>2, <2>3, <2>4, Zenon
<1>6. "beat" \notin Requests
  BY ChainLength
<1>7. ~Setup(m)
  BY <1>5, <1>6 DEF Setup
<1>8. net \in [Side -> Seq(Messages)] /\ Other(s) \in Side /\ Other(s) # s
  BY DEF TypeOK, Other, Side
<1>9. /\ net'[s] = net[s]
      /\ net'[Other(s)] = net[Other(s)] \/ (up /\ net'[Other(s)] = Append(net[Other(s)], m))
  <2>1. net' = net \/ Transmit(s, m)
    BY <1>5 DEF BeatStep, BeatLoad, BeatStore, BeatSend, Throws
  <2> QED
    BY <1>8, <2>1 DEF Transmit
<1>10. /\ net'["server"] = net["server"] \/ (up /\ net'["server"] = Append(net["server"], m))
       /\ net'["client"] = net["client"] \/ net'["client"] = Append(net["client"], m)
  BY <1>9 DEF Other, Side
<1>11. Carried("client")' \subseteq Carried("client") \cup {m}
  BY <1>1, <1>10, ClientCarries DEF Side
<1>12. Answers' \subseteq Answers
  BY <1>5, <1>11, AnswersAfter
<1> QED
  BY <1>2, <1>3, <1>4, <1>7, <1>10, <1>12, QuietThread DEF AgentKept

\* The watch dog, the stops and the loss of the connection
LEMMA EndPairs ==
    ASSUME TypeOK, TypeOK', PairInv, NEW s \in Side,
           Watchdog(s) \/ StopCall(s) \/ StopStep(s) \/ ConnectionLost
    PROVE  PairInv'
<1>0. pa' = pa /\ hist' = hist /\ backlog' = backlog
  BY DEF Watchdog, StopCall, StopStep, StopShutdown, StopJoined, ConnectionLost
<1>1. \A x \in Side : rtsp'[x].worker = rtsp[x].worker /\ rtsp'[x].cur = rtsp[x].cur
  BY EndWorkers
<1>2. AgentKept /\ HistKept
  BY <1>0 DEF AgentKept, HistKept
<1>3. CASE up' = up /\ net' = net /\ \A x \in Side : rtsp'[x].m_Buf = rtsp[x].m_Buf
  <2>1. ServerKept
    BY <1>1, <1>3 DEF ServerKept, Side
  <2>2. Answers' \subseteq Answers
    BY <1>1, <1>3 DEF Answers, Carried, Side
  <2> QED
    BY <1>0, <1>2, <1>3, <2>1, <2>2, NoMsgType, QuietThread
<1>4. CASE ~up' /\ \A x \in Side : rtsp'[x].m_Buf = <<>> /\ net'[x] = <<>>
  <2>1. Passes
    BY <1>1, <1>4, PassLost DEF Side
  <2>2. Carried("client")' \subseteq Carried("client") \cup {NoMsg}
    BY <1>1, <1>4, NoMsgType, ClientCarries DEF Side
  <2>3. Answers' \subseteq Answers
    BY <2>2, NoMsgType, AnswersAfter
  <2>4. Pairing'
    BY <1>0, <1>2, <1>4, <2>1, <2>3, QuietPairing DEF PairInv
  <2>5. Agenda'
    BY <1>0, AgendaKept DEF PairInv
  <2>6. Served'
    BY <1>1, <1>4 DEF PairInv, Served, Setup, Side
  <2> QED
    BY <2>4, <2>5, <2>6 DEF PairInv
<1> QED
  BY <1>3, <1>4, EndWorkers

\* The server's worker is done with the message in hand, or ends.
LEMMA ServerDone ==
    ASSUME TypeOK, Served, rtsp["server"].worker \in {"handle", "accept"}, up' = up,
           \/ rtsp' = Handled("server") /\ net'["server"] = net["server"]
           \/ ~up /\ rtsp' = Ended("server") /\ net' = net
    PROVE  /\ Incoming' = Tail(Incoming) \/ (Incoming' = <<>> /\ ~up)
           /\ Served' /\ rtsp'["client"] = rtsp["client"]
<1>0. "server" \in Side /\ "client" \in Side /\ "client" # "server"
  BY DEF Side
<1>1. CASE rtsp' = Handled("server") /\ net'["server"] = net["server"]
  <2>1. /\ rtsp'["client"] = rtsp["client"] /\ rtsp'["server"].worker = "recv"
        /\ rtsp'["server"].m_Buf = rtsp["server"].m_Buf
    BY <1>0, <1>1, WorkersAfter
  <2>2. Incoming' = Tail(Incoming)
    BY <1>1, <2>1, IncomingDone
  <2>3. Served'
    BY <1>1, <2>1 DEF Served
  <2> QED
    BY <2>1, <2>2, <2>3
<1>2. CASE ~up /\ rtsp' = Ended("server") /\ net' = net
  <2>1. /\ rtsp'["client"] = rtsp["client"] /\ rtsp'["server"].worker = "ended"
        /\ rtsp'["server"].m_Buf = <<>>
    BY <1>0, <1>2, WorkersAfter
  <2>2. net'["server"] = <<>>
    BY <1>2 DEF Served
  <2>3. Incoming' = <<>>
    BY <2>1, <2>2, IncomingLost
  <2>4. Served'
    BY <2>1, <2>2 DEF Served
  <2> QED
    BY <1>2, <2>1, <2>3, <2>4
<1> QED
  BY <1>1, <1>2

\* So does a handler that sends a response.
LEMMA ServerReply ==
    ASSUME TypeOK, Served, rtsp["server"].worker \in {"handle", "accept"}, up' = up,
           NEW ok \in BOOLEAN, Reply("server", ok, Handled("server"))
    PROVE  /\ Incoming' = Tail(Incoming) \/ (Incoming' = <<>> /\ ~up)
           /\ Served' /\ Answers' \subseteq Answers \cup {ok}
           /\ rtsp["server"].cur.req # "screen" => Answers' \subseteq Answers
<1>0. "server" \in Side /\ "client" \in Side /\ Other("server") = "client"
  BY DEF Side, Other
<1>1. CASE ~up /\ rtsp' = Ended("server") /\ net' = net
  <2>1. /\ Incoming' = Tail(Incoming) \/ (Incoming' = <<>> /\ ~up)
        /\ Served' /\ rtsp'["client"] = rtsp["client"]
    BY <1>1, ServerDone
  <2>2. Answers' \subseteq Answers
    BY <1>1, <2>1 DEF Answers, Carried
  <2> QED
    BY <2>1, <2>2
<1>2. CASE /\ up /\ rtsp' = Handled("server") /\ net'["server"] = net["server"]
           /\ \E m \in Messages : /\ m.req = rtsp["server"].cur.req /\ m.resp = TRUE /\ m.ok = ok
                                  /\ net'["client"] = Append(net["client"], m)
  <2>1. /\ Incoming' = Tail(Incoming) \/ (Incoming' = <<>> /\ ~up)
        /\ Served' /\ rtsp'["client"] = rtsp["client"]
    BY <1>2, ServerDone
  <2>2. PICK m \in Messages : /\ m.req = rtsp["server"].cur.req /\ m.resp = TRUE /\ m.ok = ok
                              /\ net'["client"] = Append(net["client"], m)
    BY <1>2
  <2>3. Carried("client")' \subseteq Carried("client") \cup {m}
    BY <2>1, <2>2, ClientCarries
  <2>4. Answers' \subseteq Answers \cup {m.ok} /\ (m.req # "screen" => Answers' \subseteq Answers)
    BY <2>3, AnswersAfter
  <2> QED
    BY <2>1, <2>2, <2>4
<1> QED
  BY <1>0, <1>1, <1>2, ReplyWorkers

\* No setup request was in the worker's hands.
LEMMA QuietServer ==
    ASSUME TypeOK, TypeOK', PairInv, rtsp["server"].worker \in {"handle", "accept"},
           ~Setup(rtsp["server"].cur), pa' = pa, hist' = hist, backlog' = backlog, up' = up,
           Incoming' = Tail(Incoming) \/ (Incoming' = <<>> /\ ~up),
           Served', Answers' \subseteq Answers
    PROVE  PairInv'
<1>1. Passes
  BY PassDone, PassNone
<1>2. Pairing'
  BY <1>1, QuietPairing DEF PairInv, AgentKept, HistKept
<1>3. Agenda'
  BY AgendaKept DEF PairInv
<1> QED
  BY <1>2, <1>3 DEF PairInv

\* The client's RTSP worker
LEMMA ClientPairs ==
    ASSUME TypeOK, TypeOK', Numbered, PairInv, WorkerStep("client") PROVE PairInv'
<1>0. /\ "server" \in Side /\ "client" \in Side /\ Other("client") = "server"
      /\ rtsp \in [Side -> RtspType] /\ rtsp["client"] \in RtspType
      /\ pa \in AgentType /\ hist \in HistType
  BY DEF Side, Other, TypeOK
<1>1. CASE Recv("client")
  <2>1. /\ Carried("client")' \subseteq Carried("client")
        /\ rtsp'["server"] = rtsp["server"] /\ net'["server"] = net["server"]
    <3>1. PICK k \in 0 .. Len(net["client"]), buf \in Seq(Messages) : Received("client", k, buf)
      BY <1>0, <1>1, RecvMessages
    <3>2. Carried("client")' \subseteq Carried("client")
      BY <1>0, <1>1, RecvMessages
    <3> QED
      BY <1>0, <3>1, <3>2 DEF Received
  <2>2. pa' = pa /\ up' = up /\ backlog' = backlog /\ hist' = hist
    BY <1>1 DEF Recv
  <2>3. AgentKept /\ HistKept /\ ServerKept /\ Answers' \subseteq Answers
    BY <2>1, <2>2, AnswersKept DEF AgentKept, HistKept, ServerKept
  <2> QED
    BY <2>1, <2>2, <2>3, NoMsgType, QuietThread
<1>2. CASE RecvThrows("client") \/ (HandleResponse("client") /\ rtsp' = Handled("client") /\ pa' = pa)
  <2>1. pa' = pa /\ up' = up /\ backlog' = backlog /\ hist' = hist /\ net' = net
    BY <1>2 DEF RecvThrows, HandleResponse
  <2>2. /\ rtsp'["server"] = rtsp["server"] /\ rtsp'["client"].worker \in {"recv", "ended"}
        /\ rtsp'["client"].m_Buf = rtsp["client"].m_Buf \/ rtsp'["client"].m_Buf = <<>>
    <3>1. CASE rtsp' = Handled("client") \/ rtsp' = Ended("client")
      BY <1>0, <3>1, WorkersAfter
    <3>2. CASE rtsp' = [Ended("client") EXCEPT !["client"].reported = TRUE]
      BY <1>0, <3>2 DEF Ended, RtspType
    <3> QED
      BY <1>2, <3>1, <3>2 DEF RecvThrows, Report
  <2>3. Carried("client")' \subseteq Carried("client") \cup {NoMsg}
    BY <2>1, <2>2, NoMsgType, ClientCarries
  <2>4. AgentKept /\ HistKept /\ ServerKept /\ Answers' \subseteq Answers
    BY <2>1, <2>2, <2>3, NoMsgType, AnswersAfter DEF AgentKept, HistKept, ServerKept
  <2> QED
    BY <2>1, <2>4, NoMsgType, QuietThread
<1>3. CASE HandleBeat("client")
  <2>1. /\ pa' = pa /\ up' = up /\ backlog' = backlog /\ hist' = hist
        /\ Reply("client", TRUE, Handled("client"))
    BY <1>3 DEF HandleBeat
  <2>2. \/ /\ up /\ rtsp' = Handled("client") /\ net'["client"] = net["client"]
           /\ \E m \in Messages : /\ m.req = rtsp["client"].cur.req /\ m.resp = TRUE /\ m.ok = TRUE
                                  /\ net'["server"] = Append(net["server"], m)
        \/ ~up /\ rtsp' = Ended("client") /\ net' = net
    BY <1>0, <2>1, ReplyWorkers
  <2>3. /\ rtsp'["server"] = rtsp["server"] /\ rtsp'["client"].worker \in {"recv", "ended"}
        /\ rtsp'["client"].m_Buf = rtsp["client"].m_Buf \/ rtsp'["client"].m_Buf = <<>>
    BY <1>0, <2>2, WorkersAfter
  <2>4. Carried("client")' \subseteq Carried("client") \cup {NoMsg}
    BY <2>2, <2>3, NoMsgType, ClientCarries
  <2>5. AgentKept /\ HistKept /\ ServerKept /\ Answers' \subseteq Answers
    BY <2>1, <2>3, <2>4, NoMsgType, AnswersAfter DEF AgentKept, HistKept, ServerKept
  <2>6. CASE net' = net
    BY <2>1, <2>5, <2>6, NoMsgType, QuietThread
  <2>7. CASE up /\ \E m \in Messages : m.resp = TRUE /\ net'["server"] = Append(net["server"], m)
    <3>1. PICK m \in Messages : m.resp = TRUE /\ net'["server"] = Append(net["server"], m)
      BY <2>7
    <3>2. ~Setup(m)
      BY <3>1 DEF Setup
    <3> QED
      BY <2>1, <2>5, <2>7, <3>1, <3>2, QuietThread
  <2> QED
    BY <2>2, <2>6, <2>7
<1>4. CASE /\ HandleResponse("client") /\ rtsp' = [rtsp EXCEPT !["client"].worker = "credit"]
           /\ \E i \in Matching : pa' = [pa EXCEPT !.match = Chain[i]]
  <2>1. up' = up /\ backlog' = backlog /\ hist' = hist /\ net' = net /\ rtsp["client"].worker = "handle"
    BY <1>4 DEF HandleResponse
  <2>2. AgentKept
    BY <1>0, <1>4 DEF AgentKept, AgentType
  <2>3. /\ rtsp'["server"] = rtsp["server"] /\ rtsp'["client"].cur = rtsp["client"].cur
        /\ rtsp'["client"].m_Buf = rtsp["client"].m_Buf
    BY <1>0, <1>4 DEF RtspType
  <2>4. Carried("client")' \subseteq Carried("client") \cup {NoMsg}
    BY <2>1, <2>3, NoMsgType, ClientCarries
  <2>5. HistKept /\ ServerKept /\ Answers' \subseteq Answers
    BY <2>1, <2>3, <2>4, NoMsgType, AnswersAfter DEF HistKept, ServerKept
  <2> QED
    BY <2>1, <2>2, <2>5, NoMsgType, QuietThread
<1>5. CASE Credit
  <2>1. /\ rtsp["client"].worker = "credit" /\ up' = up /\ backlog' = backlog /\ net' = net
        /\ rtsp' = Handled("client")
    BY <1>5 DEF Credit
  <2>2. /\ pa'.pc = pa.pc /\ pa'.todo = pa.todo /\ pa'.stage = pa.stage
        /\ pa'.received = [pa.received EXCEPT ![pa.match] = TRUE]
        /\ pa'.result = IF pa.match = "screen" THEN rtsp["client"].cur.ok ELSE pa.result
    BY <1>0, <1>5 DEF Credit, AgentType
  <2>3. pa.match # "screen" => pa'.received["screen"] = pa.received["screen"]
    <3>1. "screen" \in Requests /\ pa.received \in [Requests -> BOOLEAN] /\ pa.match \in Requests
      BY <1>0, ChainLength DEF AgentType
    <3> QED
      BY <2>2, <3>1
  <2>4. /\ hist'.failed = hist.failed /\ hist'.paired = hist.paired /\ hist'.rewound = hist.rewound
    BY <1>0, <1>5 DEF Credit, HistType
  <2>5. /\ rtsp'["server"] = rtsp["server"] /\ rtsp'["client"].worker = "recv"
        /\ rtsp'["client"].m_Buf = rtsp["client"].m_Buf
    BY <1>0, <2>1, WorkersAfter
  <2>6. Carried("client")' \subseteq Carried("client") \cup {NoMsg}
    BY <2>1, <2>5, NoMsgType, ClientCarries
  <2>7. ServerKept /\ Answers' \subseteq Answers
    BY <2>5, <2>6, NoMsgType, AnswersAfter DEF ServerKept
  <2>8. Pairing'
    BY <2>1, <2>2, <2>3, <2>4, <2>7, Crediting DEF PairInv
  <2>9. Agenda' /\ Served'
    BY <2>1, <2>2, <2>7, AgendaKept, ServedKept DEF PairInv
  <2> QED
    BY <2>8, <2>9 DEF PairInv
<1>6. HandleResponse("client") =>
         \/ rtsp' = Handled("client") /\ pa' = pa
         \/ /\ rtsp' = [rtsp EXCEPT !["client"].worker = "credit"]
            /\ \E i \in Matching : pa' = [pa EXCEPT !.match = Chain[i]]
  BY DEF HandleResponse
<1> QED
  BY <1>1, <1>2, <1>3, <1>4, <1>5, <1>6 DEF WorkerStep

\* The server's
LEMMA ServerPairs ==
    ASSUME TypeOK, TypeOK', PairInv, WorkerStep("server") \/ AcceptFails PROVE PairInv'
<1>0. /\ "server" \in Side /\ "client" \in Side /\ "client" # "server" /\ Other("server") = "client"
      /\ rtsp \in [Side -> RtspType] /\ rtsp["server"] \in RtspType
      /\ pa \in AgentType /\ hist \in HistType
      /\ Agenda /\ Served /\ Pairing
  BY DEF Side, Other, TypeOK, PairInv
<1>1. CASE Recv("server")
  <2>1. PICK k \in 0 .. Len(net["server"]), buf \in Seq(Messages) : Received("server", k, buf)
    BY <1>0, <1>1, RecvMessages
  <2>2. Carried("client")' \subseteq Carried("client")
    BY <1>0, <1>1, RecvMessages
  <2>3. /\ pa' = pa /\ up' = up /\ backlog' = backlog /\ hist' = hist
        /\ rtsp["server"].worker = "recv" /\ net["server"] # <<>>
    BY <1>1 DEF Recv
  <2>4. Incoming' = Incoming /\ rtsp'["server"].worker = "handle"
    BY <2>1, <2>3, IncomingRecv DEF Received
  <2>5. Passes
    BY <2>3, <2>4, PassSame
  <2>6. Answers' \subseteq Answers
    BY <2>2, AnswersKept
  <2>7. Pairing'
    BY <1>0, <2>3, <2>5, <2>6, QuietPairing DEF AgentKept, HistKept
  <2>8. Agenda'
    BY <1>0, <2>3, AgendaKept
  <2>9. Served'
    BY <1>0, <2>3, <2>4 DEF Served
  <2> QED
    BY <2>7, <2>8, <2>9 DEF PairInv
<1>2. CASE RecvThrows("server")
  <2>1. pa' = pa /\ up' = up /\ ~up /\ backlog' = backlog /\ hist' = hist /\ net' = net
    BY <1>2 DEF RecvThrows
  <2>2. /\ rtsp'["client"] = rtsp["client"] /\ rtsp'["server"].worker = "ended"
        /\ rtsp'["server"].m_Buf = <<>>
    <3>1. CASE rtsp' = Ended("server")
      BY <1>0, <3>1, WorkersAfter
    <3>2. CASE rtsp' = [Ended("server") EXCEPT !["server"].reported = TRUE]
      BY <1>0, <3>2 DEF Ended, RtspType
    <3> QED
      BY <1>2, <3>1, <3>2 DEF RecvThrows, Report
  <2>3. net'["server"] = <<>>
    BY <1>0, <2>1 DEF Served
  <2>4. Incoming' = <<>>
    BY <2>2, <2>3, IncomingLost
  <2>5. Passes
    BY <2>1, <2>4, PassNone
  <2>6. Answers' \subseteq Answers
    BY <2>1, <2>2 DEF Answers, Carried
  <2>7. Pairing'
    BY <1>0, <2>1, <2>5, <2>6, QuietPairing DEF AgentKept, HistKept
  <2>8. Agenda'
    BY <1>0, <2>1, AgendaKept
  <2>9. Served'
    BY <2>2, <2>3 DEF Served
  <2> QED
    BY <2>7, <2>8, <2>9 DEF PairInv
<1>3. CASE HandleBeat("server") \/ ServeResolution
  <2>1. /\ pa' = pa /\ up' = up /\ backlog' = backlog /\ hist' = hist
        /\ rtsp["server"].worker = "handle" /\ rtsp["server"].cur.req \in {"beat", "resolution"}
        /\ Reply("server", TRUE, Handled("server"))
    BY <1>3 DEF HandleBeat, ServeResolution, Serving
  <2>2. ~Setup(rtsp["server"].cur)
    BY <2>1, ChainLength DEF Setup
  <2>3. /\ Incoming' = Tail(Incoming) \/ (Incoming' = <<>> /\ ~up)
        /\ Served' /\ Answers' \subseteq Answers
    BY <1>0, <2>1, ServerReply
  <2> QED
    BY <2>1, <2>2, <2>3, QuietServer
<1>4. CASE HandleResponse("server")
  <2>1. /\ pa' = pa /\ up' = up /\ backlog' = backlog /\ hist' = hist /\ net' = net
        /\ rtsp["server"].worker = "handle" /\ rtsp["server"].cur.resp
        /\ rtsp' = Handled("server")
    BY <1>4 DEF HandleResponse
  <2>2. ~Setup(rtsp["server"].cur)
    BY <2>1 DEF Setup
  <2>3. /\ Incoming' = Tail(Incoming) \/ (Incoming' = <<>> /\ ~up)
        /\ Served' /\ rtsp'["client"] = rtsp["client"]
    BY <1>0, <2>1, ServerDone
  <2>4. Answers' \subseteq Answers
    BY <2>1, <2>3 DEF Answers, Carried
  <2> QED
    BY <2>1, <2>2, <2>3, <2>4, QuietServer
<1>5. CASE InitFails
  <2>1. /\ pa' = pa /\ up' = up /\ backlog' = backlog
        /\ rtsp["server"].worker = "handle" /\ rtsp["server"].cur.req = "screen"
        /\ ~rtsp["server"].cur.resp /\ Reply("server", FALSE, Handled("server"))
    BY <1>5 DEF InitFails, Serving
  <2>2. /\ hist'.failed = hist.failed \cup {"stage"} /\ hist'.paired = hist.paired
        /\ hist'.rewound = hist.rewound
    BY <1>0, <1>5 DEF InitFails, Failed, HistType
  <2>3. Setup(rtsp["server"].cur)
    BY <2>1, ChainLength DEF Setup
  <2>4. /\ Incoming' = Tail(Incoming) \/ (Incoming' = <<>> /\ ~up)
        /\ Served' /\ Answers' \subseteq Answers \cup {FALSE}
    BY <1>0, <2>1, ServerReply
  <2>5. Pairing'
    BY <1>0, <2>1, <2>2, <2>3, <2>4, Refusing
  <2>6. Agenda'
    BY <1>0, <2>1, AgendaKept
  <2> QED
    BY <2>4, <2>5, <2>6 DEF PairInv
<1>6. CASE ServeSetup
  <2> DEFINE then == [rtsp EXCEPT !["server"].worker = "accept"]
  <2>1. /\ pa' = pa /\ up' = up /\ backlog' = backlog /\ hist' = hist
        /\ rtsp["server"].worker = "handle" /\ rtsp["server"].cur.req \in Requests \ {"resolution"}
        /\ ~rtsp["server"].cur.resp /\ Reply("server", TRUE, then)
    BY <1>6 DEF ServeSetup, Serving
  <2>2. Setup(rtsp["server"].cur)
    BY <2>1 DEF Setup
  <2>3. \/ /\ up /\ rtsp' = then /\ net'["server"] = net["server"]
           /\ \E m \in Messages : /\ m.req = rtsp["server"].cur.req /\ m.resp = TRUE /\ m.ok = TRUE
                                  /\ net'["client"] = Append(net["client"], m)
        \/ ~up /\ rtsp' = Ended("server") /\ net' = net
    BY <1>0, <2>1, ReplyWorkers
  <2>4. Agenda'
    BY <1>0, <2>1, AgendaKept
  <2>5. CASE /\ up /\ rtsp' = then /\ net'["server"] = net["server"]
             /\ \E m \in Messages : /\ m.req = rtsp["server"].cur.req /\ m.resp = TRUE /\ m.ok = TRUE
                                    /\ net'["client"] = Append(net["client"], m)
    <3>1. /\ rtsp'["client"] = rtsp["client"] /\ rtsp'["server"].worker = "accept"
          /\ rtsp'["server"].cur = rtsp["server"].cur /\ rtsp'["server"].m_Buf = rtsp["server"].m_Buf
      BY <1>0, <2>5 DEF RtspType
    <3>2. Incoming' = Incoming
      <4>1. Held' = Held
        BY <2>1, <3>1 DEF Held
      <4>2. net'["server"] = net["server"]
        BY <2>5
      <4> QED
        BY <3>1, <4>1, <4>2 DEF Incoming
    <3>3. PICK m \in Messages : /\ m.req = rtsp["server"].cur.req
                                /\ net'["client"] = Append(net["client"], m)
      BY <2>5
    <3>4. Carried("client")' \subseteq Carried("client") \cup {m}
      BY <3>1, <3>3, ClientCarries
    <3>5. rtsp["server"].cur.req # "screen" => Answers' \subseteq Answers
      BY <3>3, <3>4, AnswersAfter
    <3>6. Pairing'
      BY <1>0, <2>1, <2>2, <3>1, <3>2, <3>5, Answering
    <3>7. Served'
      BY <2>1, <2>2, <2>5, <3>1 DEF Served, Setup
    <3> QED
      BY <2>4, <3>6, <3>7 DEF PairInv
  <2>6. CASE ~up /\ rtsp' = Ended("server") /\ net' = net
    <3>1. /\ rtsp'["client"] = rtsp["client"] /\ rtsp'["server"].worker = "ended"
          /\ rtsp'["server"].m_Buf = <<>> /\ net'["server"] = <<>>
      BY <1>0, <2>6, WorkersAfter DEF Served
    <3>2. Incoming' = <<>>
      BY <3>1, IncomingLost
    <3>3. Passes
      BY <2>1, <2>6, <3>2, PassNone
    <3>4. Answers' \subseteq Answers
      BY <2>6, <3>1 DEF Answers, Carried
    <3>5. Pairing'
      BY <1>0, <2>1, <3>3, <3>4, QuietPairing DEF AgentKept, HistKept
    <3>6. Served'
      BY <3>1 DEF Served
    <3> QED
      BY <2>4, <3>5, <3>6 DEF PairInv
  <2> QED
    BY <2>3, <2>5, <2>6
<1>7. CASE Accept
  <2>1. /\ pa' = pa /\ up' = up /\ net' = net /\ rtsp["server"].worker = "accept"
        /\ backlog # <<>> /\ backlog' = Tail(backlog) /\ rtsp' = Handled("server")
    BY <1>7 DEF Accept
  <2>2. /\ hist'.failed = hist.failed /\ hist'.rewound = hist.rewound
        /\ hist'.paired = hist.paired \cup Crossed(rtsp["server"].cur.req, Head(backlog))
    BY <1>0, <1>7 DEF Accept, HistType
  <2>3. Setup(rtsp["server"].cur)
    BY <1>0, <2>1 DEF Served
  <2>4. /\ Incoming' = Tail(Incoming) \/ (Incoming' = <<>> /\ ~up)
        /\ Served' /\ rtsp'["client"] = rtsp["client"]
    BY <1>0, <2>1, ServerDone
  <2>5. Answers' \subseteq Answers \cup {FALSE}
    BY <2>1, <2>4 DEF Answers, Carried
  <2>6. Pairing'
    BY <1>0, <2>1, <2>2, <2>3, <2>4, <2>5, Taking
  <2>7. Agenda'
    BY <1>0, <2>1, AgendaKept
  <2> QED
    BY <2>4, <2>6, <2>7 DEF PairInv
<1>8. CASE AcceptFails
  <2>1. /\ pa' = pa /\ up' = up /\ rtsp["server"].worker = "accept"
        /\ Reply("server", FALSE, Handled("server"))
        /\ \/ Failed("accept") /\ backlog' = backlog
           \/ backlog # <<>> /\ backlog' = Tail(backlog) /\ hist' = hist
    BY <1>8 DEF AcceptFails
  <2>2. Setup(rtsp["server"].cur)
    BY <1>0, <2>1 DEF Served
  <2>3. /\ Incoming' = Tail(Incoming) \/ (Incoming' = <<>> /\ ~up)
        /\ Served' /\ Answers' \subseteq Answers \cup {FALSE}
    BY <1>0, <2>1, ServerReply
  <2>4. Pairing'
    <3>1. CASE Failed("accept")
      <4>1. "accept" \in hist'.failed
        BY <1>0, <3>1 DEF Failed, HistType
      <4> QED
        BY <4>1 DEF Pairing, Clean
    <3>2. CASE backlog # <<>> /\ backlog' = Tail(backlog) /\ hist' = hist
      BY <1>0, <2>1, <2>2, <2>3, <3>2, Taking
    <3> QED
      BY <2>1, <3>1, <3>2
  <2>5. Agenda'
    BY <1>0, <2>1, AgendaKept
  <2> QED
    BY <2>3, <2>4, <2>5 DEF PairInv
<1> QED
  BY <1>0, <1>1, <1>2, <1>3, <1>4, <1>5, <1>6, <1>7, <1>8 DEF WorkerStep
-----------------------------------------------------------------------------
\* No request has been made and no connection opened.
LEMMA PairInit == Init => PairInv
<1> SUFFICES ASSUME Init PROVE PairInv
  OBVIOUS
<1>1. "server" \in Side /\ "client" \in Side
  BY DEF Side
<1>2. /\ rtsp["server"].worker = "recv" /\ rtsp["server"].m_Buf = <<>> /\ net["server"] = <<>>
      /\ rtsp["client"].worker = "recv" /\ rtsp["client"].m_Buf = <<>> /\ net["client"] = <<>>
  BY <1>1 DEF Init
<1>3. /\ pa.pc = "idle" /\ pa.todo = <<"resolution">> /\ pa.stage = 0 /\ ~pa.result /\ up
      /\ backlog = <<>> /\ hist.paired = {} /\ hist.failed = {}
      /\ pa.received = [r \in Requests |-> FALSE]
  BY DEF Init
<1>4. ~pa.received["screen"]
  BY <1>3, ChainLength
<1>5. Incoming = <<>> /\ Opened = <<>>
  <2>1. <<>> \o <<>> = <<>>
    BY ConcatEmptySeq, EmptySeq
  <2> QED
    BY <1>2, <1>3, <2>1 DEF Incoming, Held, Opened
<1>6. Answers = {}
  <2>1. Elements(<<>>) = {}
    BY DEF Elements
  <2>2. Carried("client") = {}
    BY <1>2, <2>1 DEF Carried
  <2> QED
    BY <2>2 DEF Answers
<1>7. InOrder(Incoming, Opened, 0)
  BY <1>5, OrderEmpty
<1>8. Balanced(0)
  BY <1>5 DEF Balanced
<1>9. ScreenFirst(0)
  <2>1. ~Pending
    BY <1>5 DEF Pending
  <2> QED
    BY <2>1 DEF ScreenFirst
<1>10. Fresh(0)
  BY <1>3, <1>4, <1>6 DEF Fresh
<1>11. Ordered(0)
  BY <1>7, <1>8, <1>9, <1>10 DEF Ordered
<1>12. Pairing
  BY <1>3, <1>11 DEF Pairing, Stopped
<1>13. Agenda /\ Served
  BY <1>2, <1>3 DEF Agenda, Served
<1> QED
  BY <1>12, <1>13 DEF PairInv

LEMMA PairStep == NegotiationInv /\ NegotiationInv' /\ PairInv /\ [Next]_vars => PairInv'
<1> SUFFICES ASSUME TypeOK, TypeOK', Numbered, PairInv, [Next]_vars PROVE PairInv'
  BY DEF NegotiationInv
<1>1. CASE AgentStep \/ Active \/ Register
  BY <1>1, AgentPairs
<1>2. CASE AcceptFails
  BY <1>2, ServerPairs
<1>3. CASE ConnectionLost
  BY <1>3, EndPairs DEF Side
<1>4. ASSUME NEW s \in Side, BeatLoad(s) \/ BeatStep(s) PROVE PairInv'
  BY <1>4, BeatPairs
<1>5. ASSUME NEW s \in Side, WorkerStep(s) PROVE PairInv'
  BY <1>5, ClientPairs, ServerPairs DEF Side
<1>6. ASSUME NEW s \in Side, Watchdog(s) \/ StopCall(s) \/ StopStep(s) PROVE PairInv'
  BY <1>6, EndPairs
<1>7. CASE UNCHANGED vars
  <2>1. /\ net' = net /\ rtsp' = rtsp /\ pa' = pa /\ up' = up /\ backlog' = backlog
        /\ hist' = hist
    BY <1>7 DEF vars
  <2>2. AgentKept /\ HistKept /\ ServerKept /\ Answers' \subseteq Answers
    BY <2>1 DEF AgentKept, HistKept, ServerKept, Answers, Carried
  <2> QED
    BY <2>1, <2>2, NoMsgType, QuietThread
<1> QED
  BY <1>1, <1>2, <1>3, <1>4, <1>5, <1>6, <1>7 DEF Next

\* Whatever the timing of the two ends, the heart beats and the stops, every
\* channel of the projector gets the connection that the agent opened for it:
\* on the first stage as long as accept itself does not fail and m_CSeq is not
\* set back, on a later one as long as no stage was cut short either.
THEOREM Paired == Spec => []ChannelsPaired
<1>1. PairInv => ChannelsPaired
  BY DEF PairInv, Pairing, Clean, ChannelsPaired
<1>2. Init /\ [][Next]_vars => []PairInv
  BY PairInit, PairStep, NegotiationInit, NegotiationStep, PTL
<1> QED
  BY <1>1, <1>2, PTL DEF Spec
=============================================================================
