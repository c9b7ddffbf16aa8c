------------------------ MODULE MediaPipelineProofs ------------------------
(***************************************************************************)
(* For a pipe of any size and reads of any number of messages: the types   *)
(* of the pipeline, and that the one notify_one of the pipe never wakes    *)
(* the wrong thread.  The pipe alone does not promise that: with two       *)
(* threads waiting to push, one Pop would leave a sleeper beside a free    *)
(* place.  It rests on the teardown, where the source's thread is joined   *)
(* before the owner pushes, and so on AsyncBase.                           *)
(***************************************************************************)
EXTENDS MediaPipeline, AsyncBaseProofs, SequenceTheorems

\* The owner is idle, or inside the stop of the source; after it the source's
\* thread is joined.
TeardownOrder ==
    /\ ctl[Owner] \notin {"start", "spawn"}
    /\ ctl[Owner] # "idle" => own = "source"
    /\ own \notin {"setup", "up"} /\ ctl[Owner] = "idle" => worker = "none"

\* Who waits to push is inside the call that pushes.
Pushers ==
    /\ "source" \in waiting => worker = "body" /\ parsed > 0
    /\ "owner" \in waiting => own = "dummy"

PipelineInv == AsyncInv /\ TypeOK /\ TeardownOrder /\ Pushers /\ NoLostWakeup

\* The source runs, and nothing else has begun.
LEMMA PipelineInit == Init => PipelineInv
<1> SUFFICES ASSUME Init PROVE PipelineInv
  OBVIOUS
<1> USE CallerAssumption, OwnerAssumption, PipeAssumption, ReadAssumption
<1>1. AsyncInv
  BY DEF Init, AsyncInv, AsyncTypeOK, AsyncStateOK, MutexesHeld, NoOverlap, SpawnAlone,
         StoppedMeansJoined, NoTerminate, NoForgottenSleeper, Starting, Stopping,
         Status, Ctl, Worker
<1>2. <<>> \in Seq({"msg", "dummy"}) /\ Len(<<>>) = 0
  OBVIOUS
<1>3. TypeOK
  <2>1. AsyncTypeOK
    BY <1>1 DEF AsyncInv
  <2>2. queue \in Seq({"msg", "dummy"}) /\ Len(queue) <= Size
    BY <1>2 DEF Init
  <2>3. parsed \in 0 .. PerRead
    BY DEF Init
  <2>4. waiting \subseteq {"source", "sink", "owner"}
    BY DEF Init
  <2>5. m_IsCancelRead \in BOOLEAN /\ m_IsAlive \in BOOLEAN /\ cancelled \in BOOLEAN
    BY DEF Init
  <2> QED
    BY <2>1, <2>2, <2>3, <2>4, <2>5 DEF Init, TypeOK
<1>4. TeardownOrder /\ Pushers /\ NoLostWakeup
  BY DEF Init, TeardownOrder, Pushers, NoLostWakeup
<1> QED
  BY <1>1, <1>3, <1>4 DEF PipelineInv

\* Each step of the pipeline is a step of AsyncBase's life cycle or leaves it
\* alone: TcpChannel's loop is a body, and the owner's stop begins when no start
\* is under way.
LEMMA PipelineStepIsAsync == [Next]_vars => [AsyncNext]_asyncVars
<1> SUFFICES ASSUME [Next]_vars PROVE [AsyncNext]_asyncVars
  OBVIOUS
<1> USE OwnerAssumption
<1>1. CASE SourceLife
  BY <1>1 DEF SourceLife, AsyncNext
<1>2. CASE SourcePush \/ RecvThrows \/ \E n \in 0 .. PerRead : Recv(n)
  BY <1>2 DEF SourcePush, RecvThrows, Recv, AsyncNext, Body, asyncVars
<1>3. CASE SourceWait
  BY <1>3 DEF SourceWait
<1>4. CASE SinkStep
  BY <1>4 DEF SinkStep, CanLoop, Process, SinkPop, SinkWait, Deliver, sourceSide
<1>5. CASE SourceStop
  <2>1. StopCall(Owner) /\ \A d \in Callers : ~Starting(d)
    BY <1>5 DEF SourceStop, StopCall, CtlGoto, Starting
  <2> QED
    BY <2>1 DEF AsyncNext, Call
<1>6. CASE SourceStopStep
  BY <1>6 DEF SourceStopStep, AsyncNext, CallerStep
<1>7. CASE OwnerStep /\ ~SourceStopStep
  BY <1>7 DEF OwnerStep, SinkStart, PipelineStop, SinkDead, DummyPush, DummyWait,
              ComponentStop, ComponentJoined, sourceSide
<1>8. CASE SpuriousWakeup \/ Down \/ UNCHANGED vars
  BY <1>8 DEF SpuriousWakeup, Down, vars, sourceSide
<1> QED
  BY <1>1, <1>2, <1>3, <1>4, <1>5, <1>6, <1>7, <1>8 DEF Next, SourceStep

\* The rest of TypeOK
PipeTypeOK ==
    /\ queue \in Seq({"msg", "dummy"}) /\ Len(queue) <= Size
    /\ waiting \subseteq {"source", "sink", "owner"}
    /\ parsed \in 0 .. PerRead /\ m_IsCancelRead \in BOOLEAN
    /\ m_IsAlive \in BOOLEAN /\ cancelled \in BOOLEAN
    /\ cons \in {"none", "can", "process", "pop", "deliver", "ended"}
    /\ own \in {"setup", "up", "source", "alive", "dummy", "cancel", "join", "down"}

\* A push by a thread that does not wait
LEMMA PushKeeps ==
    ASSUME PipeTypeOK, NoLostWakeup, NEW t, NEW x \in {"msg", "dummy"}, Push(t, x)
    PROVE  /\ queue' \in Seq({"msg", "dummy"}) /\ Len(queue') <= Size
           /\ waiting' = {} /\ NoLostWakeup'
<1>1. Len(queue) \in Nat /\ Len(queue') = Len(queue) + 1 /\ queue' \in Seq({"msg", "dummy"})
  BY AppendProperties DEF Push, PipeTypeOK
<1>2. waiting \subseteq {"sink"}
  BY <1>1, PipeAssumption DEF Push, PipeTypeOK, NoLostWakeup
<1>3. waiting' = {}
  BY <1>2 DEF Push, NotifyOne
<1> QED
  BY <1>1, <1>3, PipeAssumption DEF Push, PipeTypeOK, NoLostWakeup

\* A pop, when at most one thread waits to push
LEMMA PopKeeps ==
    ASSUME PipeTypeOK, NoLostWakeup, NEW t, Pop(t), ~({"source", "owner"} \subseteq waiting)
    PROVE  /\ queue' \in Seq({"msg", "dummy"}) /\ Len(queue') <= Size
           /\ waiting' = {} /\ NoLostWakeup'
<1>1. Len(queue) \in Nat /\ Len(queue') = Len(queue) - 1 /\ queue' \in Seq({"msg", "dummy"})
  BY HeadTailProperties, LenProperties DEF Pop, PipeTypeOK
<1>2. waiting \subseteq {"source"} \/ waiting \subseteq {"owner"}
  BY DEF Pop, PipeTypeOK, NoLostWakeup
<1>3. waiting' = {}
  BY <1>2 DEF Pop, NotifyOne
<1> QED
  BY <1>1, <1>3, PipeAssumption DEF PipeTypeOK, NoLostWakeup

\* A thread that finds the pipe full goes to sleep, alone or beside a pusher.
LEMMA PushWaitKeeps ==
    ASSUME PipeTypeOK, NoLostWakeup, NEW t \in {"source", "owner"}, PushWait(t)
    PROVE  queue' = queue /\ waiting' = waiting \cup {t} /\ NoLostWakeup'
<1>1. queue' = queue /\ waiting' = waiting \cup {t} /\ Len(queue) = Size /\ queue # <<>>
  BY PipeAssumption, EmptySeq, LenProperties DEF PushWait, PipeTypeOK
<1> QED
  BY <1>1 DEF NoLostWakeup

\* The source's thread
LEMMA SourceKeeps ==
    ASSUME AsyncTypeOK, PipeTypeOK, TeardownOrder, Pushers, NoLostWakeup,
           SourceStep \/ RecvThrows \/ \E n \in 0 .. PerRead : Recv(n)
    PROVE  PipeTypeOK' /\ TeardownOrder' /\ Pushers' /\ NoLostWakeup'
<1> USE OwnerAssumption, ReadAssumption
<1>1. CASE SourceLife
  <2>1. /\ UNCHANGED <<ctl, own, parsed, queue, waiting, m_IsCancelRead, m_IsAlive, cancelled, cons>>
        /\ worker \notin {"none", "body"}
    BY <1>1 DEF SourceLife, WorkerLifeStep, CanLoopContinue, WorkloopReturned, WorkloopThrew,
                pipeVars, sinkVars
  <2> QED
    BY <2>1 DEF PipeTypeOK, TeardownOrder, Pushers, NoLostWakeup
<1>2. CASE SourcePush
  <2>1. /\ UNCHANGED <<ctl, own, m_IsCancelRead, m_IsAlive, cancelled, cons>>
        /\ worker = "body" /\ Push("source", "msg") /\ parsed > 0 /\ parsed' = parsed - 1
    BY <1>2 DEF SourcePush, sinkVars
  <2>2. /\ queue' \in Seq({"msg", "dummy"}) /\ Len(queue') <= Size /\ waiting' = {} /\ NoLostWakeup'
    BY <2>1, PushKeeps
  <2>3. parsed' \in 0 .. PerRead
    BY <2>1 DEF PipeTypeOK
  <2>4. TeardownOrder' /\ Pushers'
    BY <2>1, <2>2 DEF TeardownOrder, Pushers
  <2> QED
    BY <2>1, <2>2, <2>3, <2>4 DEF PipeTypeOK
<1>3. CASE SourceWait
  <2>1. /\ UNCHANGED <<ctl, own, m_IsCancelRead, m_IsAlive, cancelled, cons, worker, parsed>>
        /\ worker = "body" /\ parsed > 0 /\ PushWait("source")
    BY <1>3 DEF SourceWait, sinkVars, asyncVars
  <2>2. queue' = queue /\ waiting' = waiting \cup {"source"} /\ NoLostWakeup'
    BY <2>1, PushWaitKeeps
  <2> QED
    BY <2>1, <2>2 DEF PipeTypeOK, TeardownOrder, Pushers
<1>4. CASE RecvThrows \/ \E n \in 0 .. PerRead : Recv(n)
  <2>1. /\ UNCHANGED <<ctl, own, queue, waiting, m_IsAlive, cancelled, cons>>
        /\ worker = "body" /\ parsed = 0 /\ parsed' \in 0 .. PerRead /\ m_IsCancelRead' = FALSE
    BY <1>4 DEF RecvThrows, Recv, pipeVars, sinkVars
  <2>2. PipeTypeOK'
    BY <2>1 DEF PipeTypeOK
  <2>3. TeardownOrder' /\ Pushers' /\ NoLostWakeup'
    BY <2>1 DEF TeardownOrder, Pushers, NoLostWakeup
  <2> QED
    BY <2>2, <2>3
<1> QED
  BY <1>1, <1>2, <1>3, <1>4 DEF SourceStep

\* The sink's thread
LEMMA SinkKeeps ==
    ASSUME AsyncTypeOK, PipeTypeOK, TeardownOrder, Pushers, NoLostWakeup, SinkStep
    PROVE  PipeTypeOK' /\ TeardownOrder' /\ Pushers' /\ NoLostWakeup'
<1>0. UNCHANGED <<ctl, own, worker, parsed, m_IsCancelRead, m_IsAlive, cancelled>>
  BY DEF SinkStep, CanLoop, Process, SinkPop, SinkWait, Deliver, sourceSide, sinkVars, asyncVars
<1>1. cons' \in {"none", "can", "process", "pop", "deliver", "ended"}
  BY DEF SinkStep, CanLoop, Process, SinkPop, SinkWait, Deliver, sinkVars, SinkGoto, PipeTypeOK
<1>2. CASE CanLoop \/ Process \/ Deliver
  <2>1. UNCHANGED <<queue, waiting>>
    BY <1>2 DEF CanLoop, Process, Deliver, pipeVars
  <2> QED
    BY <1>0, <1>1, <2>1 DEF PipeTypeOK, TeardownOrder, Pushers, NoLostWakeup
<1>3. CASE SinkPop
  <2>1. Pop("sink") /\ ~({"source", "owner"} \subseteq waiting)
    BY <1>3 DEF SinkPop, Pushers, TeardownOrder
  <2>2. /\ queue' \in Seq({"msg", "dummy"}) /\ Len(queue') <= Size /\ waiting' = {} /\ NoLostWakeup'
    BY <2>1, PopKeeps
  <2> QED
    BY <1>0, <1>1, <2>2 DEF PipeTypeOK, TeardownOrder, Pushers
<1>4. CASE SinkWait
  <2>1. queue' = queue /\ queue = <<>> /\ waiting' = waiting \cup {"sink"} /\ Len(queue) = 0
    BY <1>4, EmptySeq DEF SinkWait, PopWait
  <2>2. waiting' \subseteq {"source", "sink", "owner"} /\ waiting \cap {"source", "owner"} = {}
    BY <2>1, PipeAssumption DEF PipeTypeOK, NoLostWakeup
  <2> QED
    BY <1>0, <1>1, <2>1, <2>2 DEF PipeTypeOK, TeardownOrder, Pushers, NoLostWakeup
<1> QED
  BY <1>2, <1>3, <1>4 DEF SinkStep

\* The owner
LEMMA OwnerKeeps ==
    ASSUME AsyncTypeOK, PipeTypeOK, TeardownOrder, Pushers, NoLostWakeup, SourceStop \/ OwnerStep
    PROVE  PipeTypeOK' /\ TeardownOrder' /\ Pushers' /\ NoLostWakeup'
<1> USE OwnerAssumption
<1>0. ctl \in [Callers -> Ctl]
  BY DEF AsyncTypeOK, AsyncStateOK
<1>1. CASE SourceStop
  <2>1. /\ UNCHANGED <<worker, queue, waiting, parsed, m_IsCancelRead, m_IsAlive, cancelled, cons>>
        /\ own = "up" /\ own' = "source" /\ ctl'[Owner] = "stop"
    BY <1>0, <1>1 DEF SourceStop, OwnGoto, StopCall, CtlGoto, pipeVars, sinkVars
  <2> QED
    BY <2>1 DEF PipeTypeOK, TeardownOrder, Pushers, NoLostWakeup
<1>2. CASE SourceStopStep
  <2>1. /\ UNCHANGED <<queue, waiting, parsed, own, m_IsAlive, cancelled, cons>>
        /\ m_IsCancelRead' \in BOOLEAN
    BY <1>2 DEF SourceStopStep, pipeVars, sinkVars, PipeTypeOK
  <2>2. /\ ctl[Owner] \notin {"idle", "start", "spawn"} /\ ctl'[Owner] \notin {"start", "spawn"}
        /\ ctl'[Owner] = "idle" => worker' = "none"
        /\ worker = "body" => worker' = "body"
    BY <1>0, <1>2 DEF SourceStopStep, StopEnter, UnBlocked, StopNotify, StopJoin, StopJoined,
                      CtlGoto, LoopNotify
  <2> QED
    BY <2>1, <2>2 DEF PipeTypeOK, TeardownOrder, Pushers, NoLostWakeup
<1>3. CASE SinkStart \/ PipelineStop \/ SinkDead \/ ComponentStop \/ ComponentJoined
  <2>1. UNCHANGED <<ctl, worker, queue, waiting, parsed, m_IsCancelRead>>
    BY <1>3 DEF SinkStart, PipelineStop, SinkDead, ComponentStop, ComponentJoined, sourceSide,
                asyncVars, pipeVars
  <2>2. /\ m_IsAlive' \in BOOLEAN /\ cancelled' \in BOOLEAN
        /\ cons' \in {"none", "can", "process", "pop", "deliver", "ended"}
        /\ own # "dummy"
        /\ \/ own = "setup" /\ own' = "up"
           \/ own = "source" /\ own' = "alive" /\ ctl[Owner] = "idle"
           \/ own \in {"alive", "cancel", "join"} /\ own' \in {"dummy", "join", "down"}
    BY <1>3 DEF SinkStart, PipelineStop, SinkDead, ComponentStop, ComponentJoined, OwnGoto,
                sinkVars, PipeTypeOK
  <2> QED
    BY <2>1, <2>2 DEF PipeTypeOK, TeardownOrder, Pushers, NoLostWakeup
<1>4. CASE DummyPush
  <2>1. /\ UNCHANGED <<ctl, worker, parsed, m_IsCancelRead, m_IsAlive, cancelled, cons>>
        /\ own = "dummy" /\ own' = "cancel" /\ Push("owner", "dummy")
    BY <1>4 DEF DummyPush, OwnGoto, sourceSide, asyncVars, sinkVars
  <2>2. /\ queue' \in Seq({"msg", "dummy"}) /\ Len(queue') <= Size /\ waiting' = {} /\ NoLostWakeup'
    BY <2>1, PushKeeps
  <2> QED
    BY <2>1, <2>2 DEF PipeTypeOK, TeardownOrder, Pushers
<1>5. CASE DummyWait
  <2>1. /\ UNCHANGED <<ctl, worker, parsed, m_IsCancelRead, m_IsAlive, cancelled, cons, own>>
        /\ own = "dummy" /\ PushWait("owner")
    BY <1>5 DEF DummyWait, sourceSide, asyncVars, sinkVars
  <2>2. queue' = queue /\ waiting' = waiting \cup {"owner"} /\ NoLostWakeup'
    BY <2>1, PushWaitKeeps
  <2> QED
    BY <2>1, <2>2 DEF PipeTypeOK, TeardownOrder, Pushers
<1> QED
  BY <1>1, <1>2, <1>3, <1>4, <1>5 DEF OwnerStep

\* The invariant is inductive: one case per thread.
LEMMA PipelineStep == PipelineInv /\ [Next]_vars => PipelineInv'
<1> SUFFICES ASSUME PipelineInv, [Next]_vars PROVE PipelineInv'
  OBVIOUS
<1>0. AsyncTypeOK /\ PipeTypeOK /\ TeardownOrder /\ Pushers /\ NoLostWakeup
  BY DEF PipelineInv, TypeOK, PipeTypeOK
<1>1. AsyncInv'
  BY PipelineStepIsAsync, AsyncInvStep DEF PipelineInv
<1>2. PipeTypeOK' /\ TeardownOrder' /\ Pushers' /\ NoLostWakeup'
  <2>1. CASE SourceStep \/ RecvThrows \/ \E n \in 0 .. PerRead : Recv(n)
    BY <1>0, <2>1, SourceKeeps
  <2>2. CASE SinkStep
    BY <1>0, <2>2, SinkKeeps
  <2>3. CASE SourceStop \/ OwnerStep
    BY <1>0, <2>3, OwnerKeeps
  <2>4. CASE SpuriousWakeup
    <3>1. UNCHANGED <<ctl, worker, parsed, m_IsCancelRead, m_IsAlive, cancelled, cons, own, queue>>
          /\ waiting' \subseteq waiting
      BY <2>4 DEF SpuriousWakeup, sourceSide, asyncVars, sinkVars
    <3>2. PipeTypeOK'
      BY <1>0, <3>1 DEF PipeTypeOK
    <3>3. TeardownOrder' /\ Pushers'
      BY <1>0, <3>1 DEF TeardownOrder, Pushers
    <3>4. NoLostWakeup'
      BY <1>0, <3>1 DEF NoLostWakeup
    <3> QED
      BY <3>2, <3>3, <3>4
  <2>5. CASE Down \/ UNCHANGED vars
    <3>1. UNCHANGED <<ctl, worker, parsed, m_IsCancelRead, m_IsAlive, cancelled, cons, own, queue,
                      waiting>>
      BY <2>5 DEF Down, vars, asyncVars, pipeVars, sinkVars
    <3>2. PipeTypeOK'
      BY <1>0, <3>1 DEF PipeTypeOK
    <3>3. TeardownOrder' /\ Pushers' /\ NoLostWakeup'
      BY <1>0, <3>1 DEF TeardownOrder, Pushers, NoLostWakeup
    <3> QED
      BY <3>2, <3>3
  <2> QED
    BY <2>1, <2>2, <2>3, <2>4, <2>5 DEF Next
<1> QED
  BY <1>1, <1>2 DEF PipelineInv, TypeOK, PipeTypeOK, AsyncInv

\* It holds in every behaviour of source, pipe, sink and owner.
LEMMA PipelineInductive == Spec => []PipelineInv
  BY PipelineInit, PipelineStep, PTL DEF Spec

\* For every size of the Pipe and every number of messages in a read the state
\* stays in its types, and the pipe within its bound.
THEOREM PipelineTypes == Spec => []TypeOK
  BY PipelineInductive, PTL DEF PipelineInv

\* The Pipe's notify_one always finds the thread that has something to do.
THEOREM PipeWakeups == Spec => []NoLostWakeup
  BY PipelineInductive, PTL DEF PipelineInv
=============================================================================
