------------------------------ MODULE Sessions ------------------------------
(***************************************************************************)
(* The projector's sessions: the accept loop of projector/main.cpp,        *)
(* SessionManager.cpp, and of each session what Session.cpp and            *)
(* RtspSession.cpp do to its life.  The negotiation that a session serves  *)
(* is the module Negotiation; here its worker only serves or waits in      *)
(* accept for a media connection.                                          *)
(*                                                                         *)
(* Threads: main; of every session the RTSP worker and the watch dog; and  *)
(* the detached threads that call SessionManager::Remove.  _mutex is held  *)
(* over more than a step only where Remove destroys a session.             *)
(***************************************************************************)
EXTENDS Integers

CONSTANTS Addrs,        \* addresses that a Session object may get
          MaxSessions,  \* bound: connections that reach the accept loop
          MaxPending,   \* bound: threads started by watch dogs and not yet in Remove
          MaxGarbled    \* bound: how often the dangling s reads as no session

ASSUME SessionsAssumption ==
    /\ Addrs # {} /\ MaxSessions \in Nat \ {0} /\ MaxPending \in Nat \ {0} /\ MaxGarbled \in Nat

Ids == 1 .. MaxSessions

VARIABLES
    main,      \* where the accept loop is, and its local variable `session'
    sess,      \* the sessions, in the order of their connections
    sessions,  \* SessionManager::_sessions
    pending,   \* per address, the threads that are about to call Remove with it
    holder,    \* the session that Remove is destroying under _mutex, 0 if none
    garbled    \* how often s was read as no session

vars == <<main, sess, sessions, pending, holder, garbled>>

Init ==
    /\ main = [pc |-> "accept", session |-> 0]
    /\ sess = [n \in Ids |->
          [state |-> "none",    \* how far its life is
           at |-> CHOOSE a \in Addrs : TRUE,
           peer |-> "ok",       \* the redirector: there, silent or closed
           worker |-> "serve",  \* where the RTSP worker is
           hid |-> "none",      \* HIDRedirector: the handler of the input's thread
           fired |-> 0]]        \* how often DisconnectedEvent was called
    /\ sessions = {} /\ holder = 0 /\ garbled = 0
    /\ pending = [a \in Addrs |-> 0]

\* objects that exist; from the constructor until RedirectChannelFactory is gone
\* they hold the media port
Alive == {n \in Ids : sess[n].state \notin {"none", "destroyed"}}
PortBound == \E n \in Alive : sess[n].state # "closed"
-----------------------------------------------------------------------------
(* main                                                                    *)

\* WaitForConnection, make_shared<Session>, the events and Start.  While another
\* session holds the port Bind throws, and nothing in main catches it.
Connect ==
    /\ main.pc = "accept"
    /\ \E n \in Ids, a \in Addrs \ {sess[m].at : m \in Alive} :
          /\ sess[n].state = "none" /\ \A m \in 1 .. n - 1 : sess[m].state # "none"
          /\ IF PortBound
             THEN main' = [main EXCEPT !.pc = "terminated"] /\ UNCHANGED sess
             ELSE /\ sess' = [sess EXCEPT ![n].state = "live", ![n].at = a]
                  /\ main' = [pc |-> "add", session |-> n]
    /\ UNCHANGED <<sessions, pending, holder, garbled>>

\* SessionManager::Add, with the session's threads running already
Add ==
    /\ main.pc = "add" /\ holder = 0
    /\ sessions' = sessions \cup {main.session}
    /\ main' = [main EXCEPT !.pc = "release"]
    /\ UNCHANGED <<sess, pending, holder, garbled>>

\* the end of the loop's body: the local shared_ptr may be the last
Release ==
    /\ main.pc = "release"
    /\ main' = IF main.session \in sessions THEN [pc |-> "accept", session |-> 0]
               ELSE [main EXCEPT !.pc = "destroy"]
    /\ UNCHANGED <<sess, sessions, pending, holder, garbled>>
-----------------------------------------------------------------------------
(* A session's threads                                                     *)

Running == main.pc # "terminated"

\* DisconnectedEvent: thread([&]() { Remove(s); }).detach(), where s is the
\* parameter of a lambda that may have returned when the thread reads it
Fire(n, now) ==
    /\ sess' = [now EXCEPT ![n].fired = IF @ = 0 THEN 1 ELSE 2]
    /\ \/ pending' = [pending EXCEPT ![sess[n].at] = @ + 1] /\ UNCHANGED garbled
       \/ garbled < MaxGarbled /\ garbled' = garbled + 1 /\ UNCHANGED pending

\* The redirector closes the connection, or is heard no more.
PeerLeaves(n) ==
    /\ Running /\ sess[n].state = "live" /\ sess[n].peer = "ok"
    /\ \E p \in {"silent", "closed"} : sess' = [sess EXCEPT ![n].peer = p]
    /\ UNCHANGED <<main, sessions, pending, holder, garbled>>

\* a setup request brings the worker to WaitForConnection, ...
WorkerAccepts(n) ==
    /\ Running /\ sess[n].state = "live" /\ sess[n].peer = "ok" /\ sess[n].worker = "serve"
    /\ sess' = [sess EXCEPT ![n].worker = "accept"]
    /\ UNCHANGED <<main, sessions, pending, holder, garbled>>

\* ... and the redirector's connection back, with a channel for the input
WorkerAccepted(n) ==
    /\ Running /\ n \in Alive /\ sess[n].peer = "ok" /\ sess[n].worker = "accept"
    /\ sess' = [sess EXCEPT ![n].worker = "serve", ![n].hid = IF @ = "none" THEN "idle" ELSE @]
    /\ UNCHANGED <<main, sessions, pending, holder, garbled>>

\* HIDDataReceivedEvent takes m_mux and sends: TcpChannel::Send comes back when
\* the bytes before its own are gone, which needs a redirector that reads, or
\* by an exception.
HidSends(n) ==
    /\ Running /\ sess[n].state \in {"live", "stopping"} /\ sess[n].hid = "idle"
    /\ sess' = [sess EXCEPT ![n].hid = "sending"]
    /\ UNCHANGED <<main, sessions, pending, holder, garbled>>

HidSent(n) ==
    /\ Running /\ n \in Alive /\ sess[n].hid = "sending"
    /\ sess' = [sess EXCEPT ![n].hid = "idle"]
    /\ UNCHANGED <<main, sessions, pending, holder, garbled>>

\* Recv throws, of itself or because of Shutdown: OnDisconnect and the end; or a
\* handler's Send throws, and Workloop is left without it.
WorkerEnds(n) ==
    /\ Running /\ n \in Alive /\ sess[n].worker = "serve"
    /\ sess[n].peer = "closed" \/ sess[n].state = "stopping"
    /\ LET ended == [sess EXCEPT ![n].worker = "ended"]
       IN  Fire(n, ended) \/ (sess' = ended /\ UNCHANGED <<pending, garbled>>)
    /\ UNCHANGED <<main, sessions, holder>>

\* A mutant: the watch dog speaks up once.
WatchdogOnce(n) ==
    /\ Running /\ sess[n].state = "live" /\ pending[sess[n].at] < MaxPending
    /\ sess[n].peer # "ok" \/ sess[n].worker \in {"accept", "ended"}
    /\ sess[n].fired = 0
    /\ Fire(n, sess)
    /\ UNCHANGED <<main, sessions, holder>>

\* Two ticks without a message; it comes round for as long as the timer runs.
Watchdog(n) ==
    /\ Running /\ sess[n].state = "live" /\ pending[sess[n].at] < MaxPending
    /\ sess[n].peer # "ok" \/ sess[n].worker \in {"accept", "ended"}
    /\ Fire(n, sess)
    /\ UNCHANGED <<main, sessions, holder>>
-----------------------------------------------------------------------------
(* SessionManager::Remove and ~Session                                     *)

\* A mutant: remove_if does not compare.
RemoveAny(a) ==
    /\ Running /\ pending[a] > 0 /\ holder = 0
    /\ pending' = [pending EXCEPT ![a] = @ - 1]
    /\ sessions' = {}
    /\ IF sessions \subseteq {main.session} THEN UNCHANGED holder
       ELSE holder' \in sessions \ {main.session}
    /\ UNCHANGED <<main, sess, garbled>>

\* lock(_mutex); remove_if drops the list's shared_ptr, which is the last one
\* unless main has its own; _activeSession, which nobody sets, is left out
Remove(a) ==
    /\ Running /\ pending[a] > 0 /\ holder = 0
    /\ LET found == {n \in sessions : sess[n].at = a}
       IN  /\ sessions' = sessions \ found
           /\ IF found \subseteq {main.session} THEN UNCHANGED holder
              ELSE holder' \in found \ {main.session}
    /\ pending' = [pending EXCEPT ![a] = @ - 1]
    /\ UNCHANGED <<main, sess, garbled>>

Destroying(n) == Running /\ (holder = n \/ (main.pc = "destroy" /\ main.session = n))

\* RtspSession::Stop: both timers are joined, then Socket::Shutdown
DestroyStop(n) ==
    /\ Destroying(n) /\ sess[n].state = "live"
    /\ sess' = [sess EXCEPT ![n].state = "stopping"]
    /\ UNCHANGED <<main, sessions, pending, holder, garbled>>

\* A mutant: the port is given back before the worker is joined.
DestroyCloseFirst(n) ==
    /\ Destroying(n) /\ sess[n].state = "stopping"
    /\ sess' = [sess EXCEPT ![n].state = "closed"]
    /\ UNCHANGED <<main, sessions, pending, holder, garbled>>

\* StopAsyncBase joins the worker; DestoryAllChannel, which begins with
\* HIDRedirector::Stop and its m_mux; the factory closes the port
DestroyClose(n) ==
    /\ Destroying(n) /\ sess[n].state = "stopping" /\ sess[n].worker = "ended"
    /\ sess[n].hid # "sending"
    /\ sess' = [sess EXCEPT ![n].state = "closed", ![n].hid = "none"]
    /\ UNCHANGED <<main, sessions, pending, holder, garbled>>

\* DestoryAllChannel comes to the Stop of a sink that has left its loop and whose
\* pipe is full: Push of the dummy waits for ever.  How full the pipe is, and who
\* wakes whom, is the module MediaPipeline; here it may be so for every session
\* that has set up a channel.
DestroyBlocks(n) ==
    /\ Destroying(n) /\ sess[n].state = "stopping" /\ sess[n].worker = "ended"
    /\ sess[n].hid = "idle"
    /\ sess' = [sess EXCEPT ![n].state = "stuck", ![n].hid = "none"]
    /\ UNCHANGED <<main, sessions, pending, holder, garbled>>

\* the members go, and _mutex; main goes round its loop
DestroyDone(n) ==
    /\ Destroying(n) /\ sess[n].state = "closed" /\ sess[n].worker = "ended"
    /\ sess' = [sess EXCEPT ![n].state = "destroyed"]
    /\ IF holder = n THEN holder' = 0 /\ UNCHANGED main
       ELSE main' = [pc |-> "accept", session |-> 0] /\ UNCHANGED holder
    /\ UNCHANGED <<sessions, pending, garbled>>
-----------------------------------------------------------------------------
MainStep == Add \/ Release
Destroy(n) == DestroyStop(n) \/ DestroyClose(n) \/ DestroyBlocks(n) \/ DestroyDone(n)
Worker(n) == WorkerAccepted(n) \/ WorkerEnds(n)

Next ==
    \/ Connect \/ MainStep
    \/ \E n \in Ids :
          \/ PeerLeaves(n) \/ WorkerAccepts(n) \/ Worker(n) \/ Watchdog(n) \/ Destroy(n)
          \/ HidSends(n) \/ HidSent(n)
    \/ \E a \in Addrs : Remove(a)

\* Threads that can run do, those that queue for _mutex get it in the end, the
\* watch dog ticks, and a redirector that is there opens its media connections.
\* Nothing makes a connection come or go, or a Send return.
Fairness ==
    /\ SF_vars(MainStep)
    /\ \A n \in Ids : WF_vars(Worker(n)) /\ WF_vars(Watchdog(n)) /\ WF_vars(Destroy(n))
    /\ \A a \in Addrs : SF_vars(Remove(a))

Spec == Init /\ [][Next]_vars /\ Fairness
-----------------------------------------------------------------------------
(* Properties                                                              *)

MainType == [pc : {"accept", "add", "release", "destroy", "terminated"}, session : 0 .. MaxSessions]
SessionType == [state : {"none", "live", "stopping", "stuck", "closed", "destroyed"}, at : Addrs,
                peer : {"ok", "silent", "closed"}, worker : {"serve", "accept", "ended"},
                hid : {"none", "idle", "sending"}, fired : 0 .. 2]

\* The state stays in its types; a listed session has not begun to be destroyed.
TypeOK ==
    /\ main \in MainType /\ sess \in [Ids -> SessionType]
    /\ sessions \subseteq Ids /\ \A n \in sessions : sess[n].state = "live"
    /\ pending \in [Addrs -> Nat] /\ holder \in 0 .. MaxSessions /\ garbled \in 0 .. MaxGarbled

\* A session is destroyed only after its own DisconnectedEvent: unless an
\* earlier one at the same address had fired more than once, and the second
\* thread came to Remove late enough to find the new session there.
RemovedOnlyIfGone ==
    \A n \in Ids : sess[n].state \in {"stopping", "stuck", "closed", "destroyed"} =>
        \/ sess[n].fired > 0
        \/ \E m \in 1 .. n - 1 : sess[m].at = sess[n].at /\ sess[m].fired > 1

\* A session whose redirector has gone is destroyed in the end, even if its
\* event came before Add or the thread read something else for s: unless its
\* worker waits in accept, the input's thread in Send, the Stop of a sink at its
\* full pipe, or main has thrown.
DeadRemoved ==
    \A n \in Ids : sess[n].state = "live" /\ sess[n].peer # "ok" ~>
        \/ sess[n].state = "destroyed" \/ ~Running
        \/ sess[n].worker = "accept" \/ sess[n].hid = "sending" \/ sess[n].state = "stuck"

\* Add always gets _mutex, though Remove destroys a session under it whose worker
\* may never end and whose sinks may never stop: a session that could block it
\* keeps the port, and main from getting here.
AddReturns == main.pc = "add" ~> main.pc # "add"
=============================================================================
