--------------------------- MODULE MediaPipeline ---------------------------
(***************************************************************************)
(* One media pipeline of the projector: a source (projector/IRdpSource.cpp)*)
(* whose channel thread pushes each message it has parsed into a Pipe      *)
(* (media/Pipe.cpp), a sink (D2DRender, AudioPlayback, DeviceRedirecr on   *)
(* media/Component.cpp) whose thread pops and delivers to the RDP client,  *)
(* and the thread that sets them up and tears them down                    *)
(* (projector/RedirectChannelFactory.cpp).                                 *)
(*                                                                         *)
(* The channel thread is a worker of AsyncBase.  A thread that waits on    *)
(* the pipe's one condition variable is in waiting; notify_one takes any   *)
(* of them out.                                                            *)
(***************************************************************************)
EXTENDS AsyncBase, Sequences

CONSTANTS Size,   \* the Pipe's _size, 4 in ISource::operator>>
          Owner,  \* the thread that sets up and tears down
          PerRead \* bound: messages that end in one read of READING_BUF_SIZE
                  \* bytes, 4 when they are all empty

ASSUME PipeAssumption == Size \in Nat \ {0}
ASSUME OwnerAssumption == Callers = {Owner}
ASSUME ReadAssumption == PerRead \in Nat \ {0}

VARIABLES
    queue,           \* _queue of Pipe: messages, and the dummy of Stop
    waiting,         \* the threads in _cv.wait of Pipe
    parsed,          \* messages of the last read the source has still to push
    m_IsCancelRead,  \* its socket's cancel flag
    m_IsAlive,       \* of the sink
    cancelled,       \* Component::_cancelled of the sink
    cons,            \* the sink's thread
    own              \* the owner

pipeVars == <<queue, waiting>>
sinkVars == <<m_IsAlive, cancelled, cons>>
vars == <<asyncVars, pipeVars, sinkVars, parsed, m_IsCancelRead, own>>

Init ==
    /\ m_status = "Started" /\ worker = "can" /\ terminated = FALSE
    /\ m_operationMutex = NoThread /\ m_threadOpMutex = NoThread
    /\ ctl = [c \in Callers |-> "idle"]
    /\ queue = <<>> /\ waiting = {} /\ parsed = 0 /\ m_IsCancelRead = FALSE
    /\ m_IsAlive = FALSE /\ cancelled = FALSE /\ cons = "none"
    /\ own = "setup"

NotifyOne ==
    \/ waiting = {} /\ waiting' = {}
    \/ \E t \in waiting : waiting' = waiting \ {t}
-----------------------------------------------------------------------------
(* Pipe.  Each call is one critical section of its mutex.                  *)

\* Mutants of Push: the bound is not tested; nobody is notified.
PushUnbounded(t, x) ==
    /\ t \notin waiting
    /\ queue' = Append(queue, x) /\ NotifyOne

PushSilent(t, x) ==
    /\ t \notin waiting /\ Len(queue) < Size
    /\ queue' = Append(queue, x) /\ UNCHANGED waiting

Push(t, x) ==
    /\ t \notin waiting /\ Len(queue) < Size
    /\ queue' = Append(queue, x) /\ NotifyOne

PushWait(t) ==
    /\ t \notin waiting /\ Len(queue) >= Size
    /\ waiting' = waiting \cup {t} /\ UNCHANGED queue

\* Mutant of Pop: nobody is notified.
PopSilent(t) ==
    /\ t \notin waiting /\ queue # <<>>
    /\ queue' = Tail(queue) /\ UNCHANGED waiting

Pop(t) ==
    /\ t \notin waiting /\ queue # <<>>
    /\ queue' = Tail(queue) /\ NotifyOne

PopWait(t) ==
    /\ t \notin waiting /\ queue = <<>>
    /\ waiting' = waiting \cup {t} /\ UNCHANGED queue
-----------------------------------------------------------------------------
(* The source: TcpChannel's loop, whose data event runs the parser, whose  *)
(* message event pushes.                                                   *)

\* ReadBytes returns, with the end of n messages or with a part of one.  A
\* cancel that came in after the flag was last tested is lost with
\* ON_SCOPE_EXIT.
Recv(n) ==
    /\ worker = "body" /\ parsed = 0
    /\ parsed' = n
    /\ worker' = IF n = 0 THEN "can" ELSE "body"
    /\ m_IsCancelRead' = FALSE
    /\ UNCHANGED <<m_status, m_operationMutex, m_threadOpMutex, terminated, ctl,
                   pipeVars, sinkVars, own>>

\* ReadBytes throws: cancelled, or the connection is gone
RecvThrows ==
    /\ worker = "body" /\ parsed = 0
    /\ worker' = "raise" /\ m_IsCancelRead' = FALSE
    /\ UNCHANGED <<m_status, m_operationMutex, m_threadOpMutex, terminated, ctl,
                   pipeVars, sinkVars, parsed, own>>

\* the listener of the parser; Process returns after the last message
SourcePush ==
    /\ worker = "body" /\ parsed > 0 /\ Push("source", "msg")
    /\ parsed' = parsed - 1
    /\ worker' = IF parsed = 1 THEN "can" ELSE "body"
    /\ UNCHANGED <<m_status, m_operationMutex, m_threadOpMutex, terminated, ctl,
                   sinkVars, m_IsCancelRead, own>>

SourceWait ==
    /\ worker = "body" /\ parsed > 0 /\ PushWait("source")
    /\ UNCHANGED <<asyncVars, sinkVars, parsed, m_IsCancelRead, own>>

SourceLife == WorkerLifeStep /\ UNCHANGED <<pipeVars, sinkVars, parsed, m_IsCancelRead, own>>

SourceStep ==
    \/ SourceLife \/ SourcePush \/ SourceWait
    \/ m_IsCancelRead /\ RecvThrows
-----------------------------------------------------------------------------
(* The sink's thread: while (CanLoop()) Process();                         *)

SinkGoto(from, to) == cons = from /\ cons' = to
sourceSide == <<asyncVars, parsed, m_IsCancelRead>>

CanLoop ==
    /\ \/ cancelled /\ SinkGoto("can", "ended")
       \/ ~cancelled /\ SinkGoto("can", "process")
    /\ UNCHANGED <<sourceSide, pipeVars, m_IsAlive, cancelled, own>>

Process ==
    /\ \/ m_IsAlive /\ SinkGoto("process", "pop")
       \/ ~m_IsAlive /\ SinkGoto("process", "can")
    /\ UNCHANGED <<sourceSide, pipeVars, m_IsAlive, cancelled, own>>

\* a stream of one byte is the dummy, and is not delivered
SinkPop ==
    /\ cons = "pop" /\ Pop("sink")
    /\ cons' = IF Head(queue) = "dummy" THEN "can" ELSE "deliver"
    /\ UNCHANGED <<sourceSide, m_IsAlive, cancelled, own>>

SinkWait ==
    /\ cons = "pop" /\ PopWait("sink")
    /\ UNCHANGED <<sourceSide, sinkVars, own>>

Deliver ==
    /\ SinkGoto("deliver", "can")
    /\ UNCHANGED <<sourceSide, pipeVars, m_IsAlive, cancelled, own>>

SinkStep == CanLoop \/ Process \/ SinkPop \/ SinkWait \/ Deliver
-----------------------------------------------------------------------------
(* The owner.  Setup: source >> sink, source.Start(), sink.Start(); the    *)
(* initial state is after the second.  Teardown, in the order of           *)
(* DestoryAllChannel: source.Stop(), RDPProjectorPipeline.Stop(),          *)
(* sink.Stop().                                                            *)

OwnGoto(from, to) == own = from /\ own' = to

SinkStart ==
    /\ OwnGoto("setup", "up")
    /\ m_IsAlive' = TRUE /\ cons' = "can"
    /\ UNCHANGED <<sourceSide, pipeVars, cancelled>>

\* IRdpSource::Stop, that is TcpChannel::Stop
SourceStop ==
    /\ OwnGoto("up", "source") /\ StopCall(Owner)
    /\ UNCHANGED <<pipeVars, sinkVars, parsed, m_IsCancelRead>>

SourceStopStep ==
    /\ \/ StopEnter(Owner) /\ UNCHANGED m_IsCancelRead
       \/ UnBlocked(Owner) /\ m_IsCancelRead' = TRUE
       \/ (StopNotify(Owner) \/ StopJoin(Owner) \/ StopJoined(Owner)) /\ UNCHANGED m_IsCancelRead
    /\ UNCHANGED <<pipeVars, sinkVars, parsed, own>>

\* RDPProjectorPipeline::Stop frees the RDP client
PipelineStop ==
    /\ OwnGoto("source", "alive") /\ ctl[Owner] = "idle"
    /\ UNCHANGED <<sourceSide, pipeVars, sinkVars>>

\* The sink's Stop: m_IsAlive = false; _in->Push(dummy); Component::Stop()
SinkDead ==
    /\ OwnGoto("alive", "dummy")
    /\ m_IsAlive' = FALSE
    /\ UNCHANGED <<sourceSide, pipeVars, cancelled, cons>>

DummyPush ==
    /\ OwnGoto("dummy", "cancel") /\ Push("owner", "dummy")
    /\ UNCHANGED <<sourceSide, sinkVars>>

DummyWait ==
    /\ own = "dummy" /\ PushWait("owner")
    /\ UNCHANGED <<sourceSide, sinkVars, own>>

ComponentStop ==
    /\ OwnGoto("cancel", "join")
    /\ cancelled' = TRUE
    /\ UNCHANGED <<sourceSide, pipeVars, m_IsAlive, cons>>

ComponentJoined ==
    /\ OwnGoto("join", "down") /\ cons = "ended"
    /\ cons' = "none"
    /\ UNCHANGED <<sourceSide, pipeVars, m_IsAlive, cancelled>>

OwnerStep ==
    \/ SinkStart \/ SourceStopStep \/ PipelineStop
    \/ SinkDead \/ DummyPush \/ DummyWait \/ ComponentStop \/ ComponentJoined

SpuriousWakeup ==
    /\ \E t \in waiting : waiting' = waiting \ {t}
    /\ UNCHANGED <<sourceSide, sinkVars, queue, own>>

Down == own = "down" /\ UNCHANGED vars

Next == SourceStep \/ (\E n \in 0 .. PerRead : Recv(n)) \/ RecvThrows \/ SinkStep
            \/ SourceStop \/ OwnerStep \/ SpuriousWakeup \/ Down

(***************************************************************************)
(* The threads that can run do, and a delivery returns.  Nothing makes     *)
(* messages arrive (Recv) and nothing makes the session end (SourceStop).  *)
(***************************************************************************)
Fairness == WF_vars(SourceStep) /\ WF_vars(SinkStep) /\ WF_vars(OwnerStep)

Spec == Init /\ [][Next]_vars /\ Fairness
-----------------------------------------------------------------------------
(* Properties                                                              *)

\* The state stays in its types, the pipe within its bound.
TypeOK ==
    /\ AsyncTypeOK
    /\ queue \in Seq({"msg", "dummy"}) /\ Len(queue) <= Size
    /\ waiting \subseteq {"source", "sink", "owner"}
    /\ parsed \in 0 .. PerRead /\ m_IsCancelRead \in BOOLEAN
    /\ m_IsAlive \in BOOLEAN /\ cancelled \in BOOLEAN
    /\ cons \in {"none", "can", "process", "pop", "deliver", "ended"}
    /\ own \in {"setup", "up", "source", "alive", "dummy", "cancel", "join", "down"}

\* notify_one on a condition variable that the source, the sink and the owner
\* share never wakes the wrong one: nobody waits for what is already there.
NoLostWakeup ==
    /\ "sink" \in waiting => queue = <<>>
    /\ waiting \cap {"source", "owner"} # {} => Len(queue) = Size

\* The stops return: the source's though its thread may be blocked in a full
\* pipe, the sink's when the pipe has room for the dummy, whether its thread
\* sleeps in Pop, is delivering or has seen m_IsAlive fall.
StopsReturn ==
    /\ own = "source" ~> own = "alive"
    /\ (own = "dummy" /\ Len(queue) < Size) ~> own = "down"

\* "stop oreder must like this ,because of the dependence of each module"
\* (RedirectChannelFactory.cpp:105): nothing is delivered to the RDP client
\* once RDPProjectorPipeline has freed it.
DeliversToLiveClient == cons = "deliver" => own \in {"setup", "up", "source"}

\* The same comment, for the end of the teardown: every module is stopped.
TeardownReturns == own = "source" ~> own = "down"
=============================================================================
