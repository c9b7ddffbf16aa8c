----------------------------- MODULE Negotiation -----------------------------
(***************************************************************************)
(* The RTSP connection between the redirector ("client") and a session of  *)
(* the projector ("server"): common/rtsp/RtspSession.cpp on both sides,    *)
(* redirector-client/ProjectorAgent.cpp on the client, the request handler *)
(* of projector/Session.cpp and the accepts of RedirectChannelFactory.cpp  *)
(* on the server.                                                          *)
(*                                                                         *)
(* Threads: on each side the RTSP worker, the heart beat timer and the     *)
(* watch dog; on the client the thread that makes the agent's requests and *)
(* the one that destroys the agent; on the server the thread that removes  *)
(* the session.  RtspSession::m_Mtx is held over more than a step only     *)
(* where the agent increments m_CSeq (pa.pc = "store"); the agent's _mutex *)
(* is held there, where wait_for found its flag set (pa.pc = "proceed"),   *)
(* and by the destructor from its first line to its last.                  *)
(*                                                                         *)
(* Time is abstract: the agent's 51 seconds, the heart beat's 5 and the    *)
(* watch dog's 10 may be over at any moment.                               *)
(***************************************************************************)
EXTENDS Integers, Sequences

CONSTANT Plans  \* bounds of a behaviour: one of these is chosen at the start

Side     == {"client", "server"}
Channels == <<"screen", "hid", "dr", "audio", "touch">>
Chain    == <<"resolution">> \o Channels
Requests == {Chain[i] : i \in 1 .. Len(Chain)}

\* How many channels are set up, how often the RDP connection becomes active,
\* how many heart beats of a side fall due, and whether the connection may fail
\* and the agent be destroyed.
ASSUME PlansAssumption ==
    Plans \subseteq [setups : 0 .. 5, stages : Nat, beats : [Side -> Nat], ends : BOOLEAN]

VARIABLES
    net,      \* per side, the messages on their way to it
    rtsp,     \* per side, its RtspSession
    pa,       \* ProjectorAgent, and the requests Redirector has yet to make
    up,       \* does the RTSP connection work?
    backlog,  \* media connections opened and not yet accepted, by channel
    hist,     \* what the properties look back at
    plan      \* the bounds

vars == <<net, rtsp, pa, up, backlog, hist, plan>>

Messages == [req : Requests \cup {"beat"}, cseq : Int, resp : BOOLEAN, ok : BOOLEAN]
NoMsg == [req |-> "beat", cseq |-> -1, resp |-> TRUE, ok |-> TRUE]
Msg(req, cseq, resp, ok) == [req |-> req, cseq |-> cseq, resp |-> resp, ok |-> ok]
Other(s) == IF s = "client" THEN "server" ELSE "client"

Init ==
    /\ net = [s \in Side |-> <<>>]
    /\ rtsp = [s \in Side |->
          [worker |-> "recv",     \* where the working thread is
           m_Buf |-> <<>>,        \* messages received and not yet taken out
           cur |-> NoMsg,         \* the message being handled
           m_CSeq |-> 0, m_IsAlive |-> TRUE,
           beat |-> "idle",       \* where the heart beat's callback is,
           loaded |-> 0,          \* what it has read of m_CSeq,
           beats |-> 0,           \* and how often it has been called
           reported |-> FALSE,    \* has DisconnectedByClientEvent arrived?
           stop |-> "no"]]        \* where Stop is
    /\ pa = [pc |-> "idle", todo |-> <<"resolution">>,
             stage |-> 0,         \* how often CONNECTION_STATE_ACTIVE was reached
             loaded |-> 0,        \* what Send has read of m_CSeq
             cseqOf |-> [r \in Requests |-> -1],         \* GetCSeq() of the requests
             received |-> [r \in Requests |-> FALSE],    \* the ...Received flags
             result |-> FALSE,    \* _setupScreenChannelResult
             match |-> "resolution", \* the request a response is credited to
             registered |-> FALSE]   \* is DisconnectedEvent set?
    /\ up = TRUE /\ backlog = <<>> /\ plan \in Plans
    /\ hist = [credited |-> {},      \* <<request credited, another answered>>
               paired |-> {},        \* <<channel served, another opened>>
               rewound |-> FALSE,    \* has a store set m_CSeq back?
               failed |-> {}]        \* has a stage been cut short, has accept failed?

MtxFree(s) == s = "client" => pa.pc # "store"
MutexFree == pa.pc \notin {"store", "proceed"} /\ rtsp["client"].stop \notin {"timers", "joining"}

\* Socket::Send of one message; on a connection that is gone it throws.  Bytes
\* that are sent or read across the loss count as sent and read before it.  The
\* messages are short, and both ends read all the time: that WaitForWriteReady
\* blocks on a full socket, or send() takes a part, is left out.
Transmit(s, msg) == up /\ net' = [net EXCEPT ![Other(s)] = Append(@, msg)]
Throws == ~up /\ UNCHANGED net

\* The connection is gone, and what a worker has in m_Buf is never looked at.
Lost(sessions) == /\ up' = FALSE /\ net' = [s \in Side |-> <<>>]
                  /\ rtsp' = [s \in Side |-> [sessions[s] EXCEPT !.m_Buf = <<>>]]

\* a pair of two that should be one
Crossed(x, y) == IF x = y THEN {} ELSE {<<x, y>>}
-----------------------------------------------------------------------------
(* The heart beat: m_CSeq++ without m_Mtx, then Send, which increments     *)
(* again under m_Mtx and numbers the request with that.                    *)

BeatLoad(s) ==
    /\ rtsp[s].beat = "idle" /\ rtsp[s].stop = "no" /\ rtsp[s].beats < plan.beats[s]
    /\ rtsp' = [rtsp EXCEPT ![s].beat = "store", ![s].beats = @ + 1,
                            ![s].loaded = rtsp[s].m_CSeq]
    /\ UNCHANGED <<net, pa, up, backlog, hist, plan>>

BeatStore(s) ==
    /\ rtsp[s].beat = "store"
    /\ rtsp' = [rtsp EXCEPT ![s].beat = "send", ![s].m_CSeq = rtsp[s].loaded + 1,
                            ![s].loaded = 0]
    /\ hist' = [hist EXCEPT !.rewound = @ \/ rtsp[s].loaded + 1 < rtsp[s].m_CSeq]
    /\ UNCHANGED <<net, pa, up, backlog, plan>>

\* catch (...) swallows what Send throws
BeatSend(s) ==
    /\ rtsp[s].beat = "send" /\ MtxFree(s)
    /\ rtsp' = [rtsp EXCEPT ![s].beat = "idle", ![s].m_CSeq = @ + 1]
    /\ Transmit(s, Msg("beat", rtsp[s].m_CSeq, FALSE, TRUE)) \/ Throws
    /\ UNCHANGED <<pa, up, backlog, hist, plan>>
-----------------------------------------------------------------------------
(* The agent's requests: ResquestResolution, then on every active stage of *)
(* the RDP connection the Setup...Channel calls in a row.                  *)

\* StageChangedEvent(CONNECTION_STATE_ACTIVE)
Active ==
    /\ pa.pc = "idle" /\ pa.todo = <<>> /\ pa.stage < plan.stages
    /\ rtsp["client"].stop = "no" /\ ~rtsp["client"].reported
    /\ pa' = [pa EXCEPT !.todo = SubSeq(Channels, 1, plan.setups), !.stage = @ + 1]
    /\ UNCHANGED <<net, rtsp, up, backlog, hist, plan>>

\* Redirector::Start ends by setting DisconnectedEvent; the RDP thread, which
\* it has started, may be setting up channels by then.
Register ==
    /\ ~pa.registered /\ (pa.stage > 0 \/ (pa.todo = <<>> /\ pa.pc = "idle"))
    /\ rtsp["client"].stop = "no"
    /\ pa' = [pa EXCEPT !.registered = TRUE]
    /\ UNCHANGED <<net, rtsp, up, backlog, hist, plan>>

\* An exception leaves the call: the rest of the stage is not set up, and
\* without a resolution there is no RDP connection.
Aborted == [pa EXCEPT !.todo = <<>>,
                      !.pc = IF Head(pa.todo) = "resolution" THEN "failed" ELSE "idle"]
Failed(what) == hist' = [hist EXCEPT !.failed = @ \cup {what}]

\* lock(_mutex); _rtsp.Send: lock(m_Mtx), the load of m_CSeq++
RequestLoad ==
    /\ pa.pc = "idle" /\ pa.todo # <<>> /\ MutexFree /\ rtsp["client"].stop = "no"
    /\ pa' = [pa EXCEPT !.pc = "store", !.loaded = rtsp["client"].m_CSeq]
    /\ UNCHANGED <<net, rtsp, up, backlog, hist, plan>>

\* A mutant: the agent numbers its request without counting it.
RequestSendUncounted ==
    /\ pa.pc = "store"
    /\ LET req == Head(pa.todo)
       IN  /\ Transmit("client", Msg(req, pa.loaded, FALSE, TRUE))
           /\ pa' = [pa EXCEPT !.cseqOf[req] = pa.loaded,
                               !.pc = IF pa.received[req] THEN "proceed" ELSE "wait"]
    /\ UNCHANGED <<rtsp, up, backlog, hist, plan>>

\* the store of m_CSeq++, SetCSeq and the socket's Send; then wait_for, which
\* does not wait when the flag is set already
RequestSend ==
    /\ pa.pc = "store"
    /\ rtsp' = [rtsp EXCEPT !["client"].m_CSeq = pa.loaded + 1]
    /\ LET req == Head(pa.todo)
       IN  \/ /\ Transmit("client", Msg(req, pa.loaded, FALSE, TRUE))
              /\ pa' = [pa EXCEPT !.cseqOf[req] = pa.loaded,
                                  !.loaded = 0,
                                  !.pc = IF pa.received[req] THEN "proceed" ELSE "wait"]
              /\ UNCHANGED hist
           \/ /\ Throws /\ Failed("stage")
              /\ pa' = [Aborted EXCEPT !.cseqOf[req] = pa.loaded, !.loaded = 0]
    /\ UNCHANGED <<up, backlog, plan>>
-----------------------------------------------------------------------------
WaitOver == pa.pc = "proceed" \/ (pa.pc = "wait" /\ pa.received[Head(pa.todo)] /\ MutexFree)
Done == [pa EXCEPT !.pc = "idle", !.todo = Tail(@)]

\* A mutant: _setupScreenChannelResult is not looked at.
ConnectAnyway ==
    /\ Head(pa.todo) # "resolution" /\ rtsp["server"].stop # "done"
    /\ pa' = Done /\ backlog' = Append(backlog, Head(pa.todo))
    /\ UNCHANGED hist

\* SocketTcp::ConnectTo: the connection waits in the listener's queue
Connect ==
    /\ Head(pa.todo) # "resolution" /\ rtsp["server"].stop # "done"
    /\ Head(pa.todo) = "screen" => pa.result
    /\ pa' = Done /\ backlog' = Append(backlog, Head(pa.todo))
    /\ UNCHANGED hist

\* "Projector cannot setup screen channel.", or ConnectTo throws, which it may at
\* any time
CannotConnect ==
    /\ Head(pa.todo) # "resolution"
    /\ pa' = Aborted /\ Failed("stage")
    /\ UNCHANGED backlog

Proceed ==
    /\ WaitOver
    /\ \/ Head(pa.todo) = "resolution" /\ pa' = Done /\ UNCHANGED <<backlog, hist>>
       \/ Connect \/ CannotConnect
    /\ UNCHANGED <<net, rtsp, up, plan>>

\* "Wait for rtsp response timeout."
TimeOut ==
    /\ pa.pc = "wait" /\ ~pa.received[Head(pa.todo)] /\ MutexFree
    /\ rtsp["client"].stop # "done"
    /\ pa' = Aborted /\ Failed("stage")
    /\ UNCHANGED <<net, rtsp, up, backlog, plan>>
-----------------------------------------------------------------------------
(* RtspSession::Workloop.  Recv brings any number of whole messages, or    *)
(* only a part of one, and at most one message is taken out of m_Buf: the  *)
(* others wait there for further bytes.                                    *)

Recv(s) ==
    /\ rtsp[s].worker = "recv" /\ net[s] # <<>>
    /\ \E k \in 0 .. Len(net[s]) :
          LET buf == rtsp[s].m_Buf \o SubSeq(net[s], 1, k)
          IN  /\ buf # <<>>
              /\ rtsp' = [rtsp EXCEPT ![s].worker = "handle", ![s].cur = Head(buf),
                                      ![s].m_Buf = Tail(buf)]
              /\ net' = [net EXCEPT ![s] = SubSeq(@, k + 1, Len(@))]
    /\ UNCHANGED <<pa, up, backlog, hist, plan>>

\* DisconnectedByClientEvent: the projector removes the session, and Redirector
\* ends the RDP connection once it has set DisconnectedEvent.
Report(s, r) == IF s = "server" \/ pa.registered THEN [r EXCEPT ![s].reported = TRUE] ELSE r

\* HandleMessage returned: m_IsAlive = true and round the loop; or an exception
\* of Send left Workloop, which AsyncBase catches, and nothing is reported
Handled(s) == [rtsp EXCEPT ![s].worker = "recv", ![s].cur = NoMsg, ![s].m_IsAlive = TRUE]
Ended(s) == [rtsp EXCEPT ![s].worker = "ended", ![s].cur = NoMsg, ![s].m_Buf = <<>>]

\* Recv throws: OnDisconnect and break; or the loop's test ends it after a stop
RecvThrows(s) ==
    /\ rtsp[s].worker = "recv" /\ ~up
    /\ rtsp' = Report(s, Ended(s)) \/ (rtsp[s].stop = "joining" /\ rtsp' = Ended(s))
    /\ UNCHANGED <<net, pa, up, backlog, hist, plan>>

Reply(s, ok, then) ==
    /\ MtxFree(s)
    /\ \/ Transmit(s, Msg(rtsp[s].cur.req, rtsp[s].cur.cseq, TRUE, ok)) /\ rtsp' = then
       \/ Throws /\ rtsp' = Ended(s)

HandleBeat(s) ==
    /\ rtsp[s].worker = "handle" /\ rtsp[s].cur.req = "beat" /\ ~rtsp[s].cur.resp
    /\ Reply(s, TRUE, Handled(s))
    /\ UNCHANGED <<pa, up, backlog, hist, plan>>

\* The chain of ifs of ReceivedResponseEvent, before any lock is taken: the
\* first request that has the response's number.  The server's Session has no
\* ReceivedResponseEvent.
Matching == {i \in 1 .. Len(Chain) : pa.cseqOf[Chain[i]] = rtsp["client"].cur.cseq}

HandleResponse(s) ==
    /\ rtsp[s].worker = "handle" /\ rtsp[s].cur.resp
    /\ \/ /\ s = "client"
          /\ rtsp' = [rtsp EXCEPT ![s].worker = "credit"]
          /\ \E i \in Matching : /\ \A j \in Matching : i <= j
                                /\ pa' = [pa EXCEPT !.match = Chain[i]]
       \/ /\ s = "server" \/ Matching = {}
          /\ rtsp' = Handled(s) /\ UNCHANGED pa
    /\ UNCHANGED <<net, up, backlog, hist, plan>>

\* lock(_mutex), and the flag of the request that was found
Credit ==
    /\ rtsp["client"].worker = "credit" /\ MutexFree
    /\ LET cur == rtsp["client"].cur
       IN  /\ pa' = [pa EXCEPT !.received[pa.match] = TRUE,
                               !.result = IF pa.match = "screen" THEN cur.ok ELSE @,
                               !.match = "resolution"]
           /\ hist' = [hist EXCEPT !.credited = @ \cup Crossed(pa.match, cur.req)]
    /\ rtsp' = Handled("client")
    /\ UNCHANGED <<net, up, backlog, plan>>
-----------------------------------------------------------------------------
(* Session's ReceivedRequestEvent, on the server's RTSP worker             *)

Serving(reqs) == /\ rtsp["server"].worker = "handle" /\ ~rtsp["server"].cur.resp
                 /\ rtsp["server"].cur.req \in reqs

ServeResolution ==
    /\ Serving({"resolution"})
    /\ Reply("server", TRUE, Handled("server"))
    /\ UNCHANGED <<pa, up, backlog, hist, plan>>

\* InitialRDPProjectorPipeline throws
InitFails ==
    /\ Serving({"screen"})
    /\ Reply("server", FALSE, Handled("server")) /\ Failed("stage")
    /\ UNCHANGED <<pa, up, backlog, plan>>

\* A mutant: a heart beat is not told from the setup requests.
ServeAny ==
    /\ Serving(({"beat"} \cup Requests) \ {"resolution"})
    /\ Reply("server", TRUE, [rtsp EXCEPT !["server"].worker = "accept"])
    /\ UNCHANGED <<pa, up, backlog, hist, plan>>

\* Send(true), then WaitForConnection.  When Send throws the catch clause sends
\* again, and throws.
ServeSetup ==
    /\ Serving(Requests \ {"resolution"})
    /\ Reply("server", TRUE, [rtsp EXCEPT !["server"].worker = "accept"])
    /\ UNCHANGED <<pa, up, backlog, hist, plan>>

\* the oldest connection becomes the channel that is being set up
Accept ==
    /\ rtsp["server"].worker = "accept" /\ backlog # <<>>
    /\ backlog' = Tail(backlog)
    /\ hist' = [hist EXCEPT !.paired = @ \cup Crossed(rtsp["server"].cur.req, Head(backlog))]
    /\ rtsp' = Handled("server")
    /\ UNCHANGED <<net, pa, up, plan>>

\* accept throws, or what follows it with the connection in hand: a second
\* response to the same request
AcceptFails ==
    /\ rtsp["server"].worker = "accept"
    /\ Reply("server", FALSE, Handled("server"))
    /\ \/ Failed("accept") /\ UNCHANGED backlog
       \/ backlog # <<>> /\ backlog' = Tail(backlog) /\ UNCHANGED hist
    /\ UNCHANGED <<pa, up, plan>>
-----------------------------------------------------------------------------
(* The watch dog, the stops and the network                                *)

\* While the connection works and the worker receives, the peer's heart beat
\* comes every 5 seconds, before the 10 of a tick are over.
Quiet(s) == ~up \/ rtsp[s].worker \in {"credit", "accept", "ended"}

\* A mutant: a tick that has found m_IsAlive false once is the last.
WatchdogOnce(s) ==
    /\ rtsp[s].stop = "no" /\ Quiet(s) /\ rtsp[s].m_IsAlive
    /\ rtsp' = Report(s, [rtsp EXCEPT ![s].m_IsAlive = FALSE])
    /\ UNCHANGED <<net, pa, up, backlog, hist, plan>>

Watchdog(s) ==
    /\ rtsp[s].stop = "no" /\ Quiet(s)
    /\ rtsp' = IF rtsp[s].m_IsAlive THEN [rtsp EXCEPT ![s].m_IsAlive = FALSE]
               ELSE Report(s, rtsp)
    /\ UNCHANGED <<net, pa, up, backlog, hist, plan>>

\* ~ProjectorAgent takes _mutex and keeps it; SessionManager removes a session
\* that has reported.  Both call RtspSession::Stop.
StopCall(s) ==
    /\ rtsp[s].stop = "no"
    /\ IF s = "client" THEN plan.ends /\ MutexFree ELSE rtsp[s].reported
    /\ rtsp' = [rtsp EXCEPT ![s].stop = "timers"]
    /\ UNCHANGED <<net, pa, up, backlog, hist, plan>>

\* A mutant: the socket is left open.
StopNoShutdown(s) ==
    /\ rtsp[s].stop = "timers" /\ rtsp[s].beat = "idle"
    /\ rtsp' = [rtsp EXCEPT ![s].stop = "joining"]
    /\ UNCHANGED <<net, pa, up, backlog, hist, plan>>

\* both timers are joined, then Socket::Shutdown
StopShutdown(s) ==
    /\ rtsp[s].stop = "timers" /\ rtsp[s].beat = "idle"
    /\ Lost([rtsp EXCEPT ![s].stop = "joining"])
    /\ UNCHANGED <<pa, backlog, hist, plan>>

\* StopAsyncBase; the end of the destructor, or of the session's Stop
StopJoined(s) ==
    /\ rtsp[s].stop = "joining" /\ rtsp[s].worker = "ended"
    /\ rtsp' = [rtsp EXCEPT ![s].stop = "done"]
    /\ UNCHANGED <<net, pa, up, backlog, hist, plan>>

ConnectionLost ==
    /\ up /\ plan.ends /\ Lost(rtsp)
    /\ UNCHANGED <<pa, backlog, hist, plan>>
-----------------------------------------------------------------------------
AgentStep == RequestLoad \/ RequestSend \/ Proceed \/ TimeOut

WorkerStep(s) ==
    \/ Recv(s) \/ RecvThrows(s) \/ HandleBeat(s) \/ HandleResponse(s)
    \/ s = "client" /\ Credit
    \/ s = "server" /\ (ServeResolution \/ InitFails \/ ServeSetup \/ Accept)

BeatStep(s) == BeatStore(s) \/ BeatSend(s)
StopStep(s) == StopShutdown(s) \/ StopJoined(s)

Next ==
    \/ AgentStep \/ Active \/ Register \/ AcceptFails \/ ConnectionLost
    \/ \E s \in Side : BeatLoad(s) \/ BeatStep(s) \/ WorkerStep(s) \/ Watchdog(s)
                          \/ StopCall(s) \/ StopStep(s)

(***************************************************************************)
(* Threads that can run do, the 51 seconds pass, and the watch dog's timer *)
(* ticks.  Nothing makes the RDP connection active, a heart beat due or    *)
(* the connection fail.                                                    *)
(***************************************************************************)
Fairness ==
    /\ WF_vars(AgentStep) /\ WF_vars(Register)
    /\ \A s \in Side : /\ WF_vars(WorkerStep(s)) /\ WF_vars(BeatStep(s))
                       /\ WF_vars(StopStep(s)) /\ WF_vars(Watchdog(s))

Spec == Init /\ [][Next]_vars /\ Fairness
-----------------------------------------------------------------------------
(* Properties                                                              *)

RtspType ==
    [worker : {"recv", "handle", "credit", "accept", "ended"},
     m_Buf : Seq(Messages), cur : Messages, m_CSeq : Nat, m_IsAlive : BOOLEAN,
     beat : {"idle", "store", "send"}, loaded : Nat, beats : Nat,
     reported : BOOLEAN, stop : {"no", "timers", "joining", "done"}]
AgentType ==
    [pc : {"idle", "store", "wait", "proceed", "failed"},
     todo : Seq(Requests), stage : Nat, loaded : Nat,
     cseqOf : [Requests -> Int], received : [Requests -> BOOLEAN],
     result : BOOLEAN, match : Requests, registered : BOOLEAN]
HistType ==
    [credited : SUBSET (Requests \X (Requests \cup {"beat"})),
     paired : SUBSET (Requests \X Requests),
     rewound : BOOLEAN, failed : SUBSET {"stage", "accept"}]

\* Each side's state and the agent's stay in their types, and every message
\* that is on its way, waiting or being handled is one of the protocol's; the
\* agent has a request in hand whenever it sends, waits or goes on.
TypeOK ==
    /\ net \in [Side -> Seq(Messages)] /\ rtsp \in [Side -> RtspType]
    /\ pa \in AgentType /\ hist \in HistType
    /\ up \in BOOLEAN /\ backlog \in Seq(Requests) /\ plan \in Plans
    /\ pa.pc \in {"store", "wait", "proceed"} => pa.todo # <<>>

\* A response sets the flag of the request that it answers and of no other,
\* however late it comes, whether its request has timed out, and whatever heart
\* beats are numbered in between: unless the heart beat's unlocked increment
\* has set m_CSeq back under requests that were numbered meanwhile.
CreditedToOwn == ~hist.rewound => hist.credited = {}

\* Every channel of the projector gets the connection that the agent opened for
\* it, though all of them come in at one port and only their order tells them
\* apart: on the first stage as long as accept itself does not fail and m_CSeq
\* is not set back, on a later one as long as no stage was cut short either.
ChannelsPaired ==
    /\ ~hist.rewound /\ "accept" \notin hist.failed
    /\ pa.stage <= 1 \/ hist.failed = {}
    => hist.paired = {}

\* ~ProjectorAgent and Session::Stop return, unless the worker they join waits
\* for the agent's _mutex, which the destructor holds, or for a connection.
StopReturns ==
    \A s \in Side : rtsp[s].stop = "timers" ~>
        rtsp[s].stop = "done" \/ rtsp[s].worker \in {"credit", "accept"}

\* A connection that is lost is reported on both sides, even if the worker died
\* of an exception that reports nothing, or reported before Redirector had set
\* DisconnectedEvent: the watch dog comes round again.
LossReported ==
    \A s \in Side : ~up /\ (s = "client" => pa.registered) ~>
        rtsp[s].reported \/ rtsp[s].stop # "no"
=============================================================================
