-------------------------- MODULE TcpChannelProofs --------------------------
(***************************************************************************)
(* The sending side of a channel, for every size of ring, staging buffer   *)
(* and message and any number of owners.  The channel's steps are steps of *)
(* the ring and of the worker's life cycle, so what WaitingBufferProofs    *)
(* and AsyncBaseProofs show of them holds here; on that rest the order     *)
(* and completeness of what reaches the socket.                            *)
(***************************************************************************)
EXTENDS TcpChannel, AsyncBaseProofs, SequenceTheorems

\* The ring's theorems, for one writer, one reader and one waiter
R == INSTANCE WaitingBufferProofs
        WITH Writers <- {Sender}, Readers <- {Thread}, Waiters <- {SenderWait}

\* The owner never starts the writer again, and the worker reads the ring only
\* from the body of its loop, with the bytes of the round before sent.
LoopInv ==
    /\ \A c \in Callers : ~Starting(c)
    /\ pc[Thread] # "idle" => worker = "body" /\ op = "read"
    /\ worker \in {"can", "paused"} => op = "read"
    /\ worker \in {"can", "paused", "body"} /\ op = "read" => batch = 0
    /\ room[Thread] <= MaxPkg

\* Flush: nothing but the drain waits in WaitTillBufferEmpty and nothing but the
\* write is in WriteTillFinish; until the chunk is in the ring the ring is
\* empty, and it goes in whole.
FlushInv ==
    /\ pc[SenderWait] # "idle" => snd = "drain"
    /\ pc[Sender] # "idle" <=> snd \in {"write", "throw"}
    /\ snd \in {"drain", "ensure", "write", "throw"} => staged # <<>>
    /\ snd = "ensure" => m_DataLen = 0
    /\ snd = "throw" => pc[Sender] = "exit" /\ len[Sender] > 0
    /\ len[Sender] > 0 => m_DataLen = 0 /\ sent[Sender] = 0 /\ len[Sender] = Len(staged)
    /\ pc[Sender] \in {"lock", "body"} => len[Sender] > 0
    /\ pc[Sender] \in {"idle", "notify"} => len[Sender] = 0
    /\ pc[Sender] # "wait"
    /\ Len(written) + len[Sender] <= MaxBytes

\* Is the staged chunk in the ring already?
InRing == snd = "write" /\ len[Sender] = 0

\* Bytes enter the staging buffer and the ring in the order of their numbers.
OrderInv ==
    /\ next + dataLen <= MaxBytes + 1
    /\ \A i \in 1 .. Len(stream) : stream[i] < next
    /\ \A i \in 1 .. Len(staged) : staged[i] < next
    /\ \A i, j \in 1 .. Len(stream) : i < j => stream[i] < stream[j]
    /\ \A i, j \in 1 .. Len(staged) : i < j => staged[i] < staged[j]
    /\ ~InRing => \A i \in 1 .. Len(stream), j \in 1 .. Len(staged) : stream[i] < staged[j]

\* Bytes that the worker has taken from the ring and not yet given to send()
Pending == IF pc[Thread] = "idle" THEN batch ELSE MaxPkg - room[Thread]

\* The socket takes positions in order, and none that is still pending.
WireInv ==
    /\ Pending <= Len(taken)
    /\ \A i \in 1 .. Len(wire) : wire[i] \in 1 .. Len(taken) - Pending
    /\ \A i, j \in 1 .. Len(wire) : i < j => wire[i] < wire[j]

\* Until a cancel begins no flag is set and no write is left half-way, and the
\* bytes in the ring are the first ones; the staged chunk follows them
\* for as long as the writer can be written to.
StreamWhole ==
    ~disturbed =>
       /\ cancelling = 0 /\ ~sockCancel
       /\ ~m_IsCancelRead /\ ~m_IsCancelWrite /\ ~m_IsCancelWait
       /\ pc[Sender] = "exit" => len[Sender] = 0
       /\ \A i \in 1 .. Len(stream) : stream[i] = i
       /\ Running \/ snd = "write" =>
             IF InRing THEN next = Len(stream) + 1
             ELSE /\ next = Len(stream) + Len(staged) + 1
                  /\ \A j \in 1 .. Len(staged) : staged[j] = Len(stream) + j

\* And the socket has taken all of them that are not pending, for as long as the
\* worker lives, if send() takes what it is given.
WireWhole ==
    ~disturbed /\ ~ShortSend =>
       /\ \A i \in 1 .. Len(wire) : wire[i] = i
       /\ worker \in {"can", "paused", "body"} => Len(wire) = Len(taken) - Pending
-----------------------------------------------------------------------------
(* The channel's steps, seen from the worker's life cycle and the ring     *)

\* What WaitingBuffer assumes of its constants
LEMMA RingAssumptions ==
    /\ {Sender} \cap {Thread} = {} /\ {Sender} \cap {SenderWait} = {}
    /\ {Thread} \cap {SenderWait} = {} /\ NoThread \notin {Sender} \cup {Thread}
    /\ MaxLen \in Nat /\ MaxBytes \in Nat /\ Size \in Nat \ {0}
  BY WriterAssumption

\* Sending leaves the life cycle alone, the worker's loop is a body of it, and an
\* owner closes and never starts.
LEMMA ChannelStepIsAsync == LoopInv /\ [Next]_vars => [AsyncNext]_asyncVars
<1> SUFFICES ASSUME LoopInv, [Next]_vars PROVE [AsyncNext]_asyncVars
  OBVIOUS
<1>1. CASE (\E n \in 1 .. MaxMsg : SendCall(n)) \/ SendStep \/ SpuriousWakeup
  BY <1>1 DEF SendCall, SendStep, Stage, SendReturns, Drain, WriteBytes, WriteStep, WriteDone,
              SpuriousWakeup, idleSide
<1>2. CASE WorkerStep \/ SendReady
  <2>1. CASE LoopLife
    BY <2>1 DEF LoopLife, AsyncNext, WorkerLifeStep
  <2>2. CASE LoopRead \/ LoopReadStep \/ SendCancelled \/ SendReady
    BY <2>2 DEF LoopRead, LoopReadStep, SendCancelled, SendReady
  <2>3. CASE LoopReadExit
    <3>1. worker = "body" /\ UNCHANGED <<lifeVars, ctl>> /\ (worker' = "raise" \/ UNCHANGED worker)
      BY <2>3 DEF LoopReadExit, WB!ReadExit, WB!Goto, LoopInv
    <3> QED
      BY <3>1 DEF lifeVars, AsyncNext, Body, asyncVars
  <2>4. CASE SendScopeExit
    BY <2>4 DEF SendScopeExit, OpGoto, lifeVars, AsyncNext, Body, asyncVars
  <2>5. CASE SendFails \/ \E n \in 1 .. MaxPkg : SendTakes(n)
    BY <2>5 DEF SendFails, SendTakes, OpGoto, lifeVars, AsyncNext, Body
  <2> QED
    BY <1>2, <2>1, <2>2, <2>3, <2>4, <2>5 DEF WorkerStep
<1>3. ASSUME NEW c \in Callers, Cancel(c) \/ CloseCall(c) \/ OwnerStep(c)
      PROVE  [AsyncNext]_asyncVars
  <2>1. CASE Cancel(c)
    BY <2>1 DEF Cancel
  <2>2. CASE CloseCall(c)
    BY <2>2 DEF CloseCall, AsyncNext, Call, LoopInv
  <2>3. CASE CloseUnblocked(c)
    BY <2>3 DEF CloseUnblocked, UnBlocked, lifeVars, AsyncNext
  <2>4. CASE CloseStep(c) /\ ~CloseUnblocked(c)
    BY <2>4 DEF CloseStep, CloseEnter, CallerStep, AsyncNext
  <2> QED
    BY <1>3, <2>1, <2>2, <2>3, <2>4 DEF OwnerStep
<1>4. CASE CancelStep
  BY <1>4 DEF CancelStep
<1>5. CASE UNCHANGED vars
  BY <1>5 DEF vars, writerVars
<1> QED
  BY <1>1, <1>2, <1>3, <1>4, <1>5 DEF Next

\* Every step of the channel is a step of the ring or leaves it alone: a flush
\* fits the bound of a call, and the worker's reads ask for one byte at least.
LEMMA ChannelStepIsRing ==
    TypeOK /\ [Next]_vars => [R!Next]_(R!vars)
<1> SUFFICES ASSUME TypeOK, [Next]_vars PROVE [R!Next]_(R!vars)
  OBVIOUS
<1> USE DEF WB!Goto, R!Goto, WB!ring, R!ring, WB!flags, R!flags, WB!mtxs, R!mtxs,
            WB!locals, R!locals, WB!Threads, R!Threads
<1>1. UNCHANGED bufVars => UNCHANGED R!vars
  BY DEF bufVars, R!vars
<1>2. CASE (\E n \in 1 .. MaxMsg : SendCall(n)) \/ Stage \/ SendReturns
  BY <1>1, <1>2 DEF SendCall, Stage, SendReturns
<1>3. CASE Drain
  <2>1. WB!WaitCall(SenderWait) \/ WB!WaitCheck(SenderWait)
    BY <1>3 DEF Drain
  <2>2. R!WaitCall(SenderWait) \/ R!WaitCheck(SenderWait)
    BY <2>1 DEF WB!WaitCall, WB!WaitCheck, R!WaitCall, R!WaitCheck
  <2> QED
    BY <2>2 DEF R!Next
<1>4. CASE WriteBytes
  <2>1. UNCHANGED bufVars \/ WB!WriteCall(Sender, Len(staged))
    BY <1>4 DEF WriteBytes
  <2>2. Len(staged) \in 0 .. MaxLen
    BY SizesAssumption, WriterAssumption, LenProperties DEF TypeOK
  <2>3. WB!WriteCall(Sender, Len(staged)) => R!WriteCall(Sender, Len(staged))
    BY DEF WB!WriteCall, R!WriteCall
  <2> QED
    BY <1>1, <2>1, <2>2, <2>3 DEF R!Next
<1>5. CASE WriteStep \/ WriteDone
  <2>1. WB!WriteStep(Sender)
    BY <1>5 DEF WriteStep, WriteSome, WriteDone, WB!WriteStep
  <2>2. WB!WriteSome(Sender) => R!WriteSome(Sender)
    BY DEF WB!WriteSome, R!WriteSome, WB!WriteInternal, R!WriteInternal, WB!Filled, R!Filled,
           WB!Min2, R!Min2, WB!Index, R!Index
  <2>3. WB!WriteNotify(Sender) => R!WriteNotify(Sender)
    BY DEF WB!WriteNotify, R!WriteNotify, WB!NotifyAll, R!NotifyAll
  <2>4. R!WriteStep(Sender)
    BY <2>1, <2>2, <2>3
       DEF WB!WriteStep, R!WriteStep, WB!WriteLock, R!WriteLock, WB!WriteHead, R!WriteHead,
           WB!WriteCancelled, R!WriteCancelled, WB!WriteWait, R!WriteWait, WB!WriteExit, R!WriteExit
  <2> QED
    BY <2>4 DEF R!Next
<1>6. CASE WorkerStep \/ SendReady
  <2>1. CASE LoopRead
    <3>1. R!ReadCall(Thread, MaxPkg, 1)
      BY <2>1 DEF LoopRead, WB!ReadCall, R!ReadCall
    <3>2. MaxPkg \in 1 .. MaxLen /\ 1 \in 1 .. MaxPkg
      BY WriterAssumption
    <3> QED
      BY <3>1, <3>2 DEF R!Next
  <2>2. CASE LoopReadStep \/ LoopReadExit
    <3>1. WB!ReadStep(Thread)
      BY <2>2 DEF LoopReadStep, LoopReadExit, WB!ReadStep
    <3>2. WB!ReadSome(Thread) => R!ReadSome(Thread)
      BY DEF WB!ReadSome, R!ReadSome, WB!ReadInternal, R!ReadInternal, WB!Copied, R!Copied,
             WB!Min2, R!Min2
    <3>3. WB!ReadNotifyWrite(Thread) => R!ReadNotifyWrite(Thread)
      BY DEF WB!ReadNotifyWrite, R!ReadNotifyWrite, WB!NotifyAll, R!NotifyAll
    <3>4. WB!ReadNotifyWait(Thread) => R!ReadNotifyWait(Thread)
      BY DEF WB!ReadNotifyWait, R!ReadNotifyWait
    <3>5. R!ReadStep(Thread)
      BY <3>1, <3>2, <3>3, <3>4
         DEF WB!ReadStep, R!ReadStep, WB!ReadLock, R!ReadLock, WB!ReadCancelled, R!ReadCancelled,
             WB!ReadWait, R!ReadWait, WB!ReadExit, R!ReadExit
    <3> QED
      BY <3>5 DEF R!Next
  <2>3. CASE ~(LoopRead \/ LoopReadStep \/ LoopReadExit)
    BY <1>1, <1>6, <2>3 DEF WorkerStep, LoopLife, SendReady, SendCancelled, SendScopeExit,
                            SendFails, SendTakes
  <2> QED
    BY <2>1, <2>2, <2>3
<1>7. ASSUME NEW c \in Callers, Cancel(c) \/ CloseCall(c) \/ OwnerStep(c)
      PROVE  UNCHANGED R!vars
  BY <1>1, <1>7 DEF Cancel, CloseCall, OwnerStep, CloseStep, CloseEnter, CloseUnblocked
<1>8. CASE CancelStep
  <2>1. UNCHANGED bufVars \/ WB!CancelRead \/ WB!CancelWrite \/ WB!CancelWait
    BY <1>8 DEF CancelStep
  <2> QED
    BY <1>1, <2>1 DEF WB!CancelRead, R!CancelRead, WB!CancelWrite, R!CancelWrite, WB!CancelWait,
                      R!CancelWait, WB!Woken, R!Woken, R!Next
<1>9. CASE SpuriousWakeup
  <2>1. PICK t \in {Sender, SenderWait, Thread} : WB!SpuriousWakeup(t)
    BY <1>9 DEF SpuriousWakeup
  <2>2. R!SpuriousWakeup(t) /\ t \in R!Threads
    BY <2>1 DEF WB!SpuriousWakeup, R!SpuriousWakeup
  <2> QED
    BY <2>2 DEF R!Next
<1>10. CASE UNCHANGED vars
  BY <1>1, <1>10 DEF vars, writerVars
<1> QED
  BY <1>2, <1>3, <1>4, <1>5, <1>6, <1>7, <1>8, <1>9, <1>10 DEF Next, SendStep
-----------------------------------------------------------------------------
(* What the steps of each thread leave alone                               *)

BufferOK == R!RingInv /\ R!ControlInv

\* The ring's invariants, as they are needed here
LEMMA BufferFacts ==
    ASSUME BufferOK
    PROVE  /\ WB!TypeOK
           /\ DOMAIN pc = {Sender, SenderWait, Thread}
           /\ pc[Sender] \in {"idle", "lock", "head", "body", "wait", "notify", "exit"}
           /\ pc[Thread] \in {"idle", "lock", "body", "wait", "notify", "notify2", "exit"}
           /\ pc[SenderWait] \in {"idle", "check", "wait"}
           /\ m_DataLen \in 0 .. Size /\ len[Sender] \in 0 .. MaxLen /\ sent[Sender] \in 0 .. MaxLen
           /\ DOMAIN len = {Sender} /\ DOMAIN sent = {Sender}
           /\ DOMAIN room = {Thread} /\ DOMAIN need = {Thread}
           /\ room[Thread] \in Nat /\ need[Thread] \in Int
           /\ Len(taken) \in Nat /\ Len(written) \in Nat /\ Len(written) = Len(taken) + m_DataLen
<1> USE DEF BufferOK, R!RingInv, R!ControlInv
<1>1. WB!TypeOK
  BY DEF WB!TypeOK, WB!RingTypeOK, WB!ControlTypeOK, R!RingTypeOK, R!ControlTypeOK, WB!Index,
         R!Index, WB!Byte, R!Byte, WB!Garbage, R!Garbage, WB!Threads, R!Threads, WB!WritePC,
         R!WritePC, WB!ReadPC, R!ReadPC, WB!WaitPC, R!WaitPC
<1>2. Len(written) = Len(taken) + m_DataLen
  BY DEF R!RingHoldsStream
<1>3. Len(taken) \in Nat /\ Len(written) \in Nat
  BY LenProperties DEF R!RingTypeOK
<1>4. /\ m_DataLen \in 0 .. Size /\ len[Sender] \in 0 .. MaxLen /\ sent[Sender] \in 0 .. MaxLen
      /\ DOMAIN len = {Sender} /\ DOMAIN sent = {Sender}
      /\ DOMAIN room = {Thread} /\ DOMAIN need = {Thread}
      /\ room[Thread] \in Nat /\ need[Thread] \in Int
  BY DEF R!RingTypeOK
<1>5. /\ DOMAIN pc = {Sender, SenderWait, Thread}
      /\ pc[Sender] \in {"idle", "lock", "head", "body", "wait", "notify", "exit"}
      /\ pc[Thread] \in {"idle", "lock", "body", "wait", "notify", "notify2", "exit"}
      /\ pc[SenderWait] \in {"idle", "check", "wait"}
  BY DEF R!ControlTypeOK, R!Threads, R!WritePC, R!ReadPC, R!WaitPC
<1> QED
  BY <1>1, <1>2, <1>3, <1>4, <1>5

\* The sending thread does not touch the worker's life, its socket or what it has
\* taken from the ring.
LEMMA SenderSteps ==
    ASSUME BufferOK, (\E n \in 1 .. MaxMsg : SendCall(n)) \/ SendStep
    PROVE  /\ UNCHANGED <<asyncVars, sockVars, op, cancelling, disturbed, taken, room,
                          m_IsCancelRead>>
           /\ pc'[Thread] = "idle" <=> pc[Thread] = "idle"
<1> USE BufferFacts, WriterAssumption
        DEF WB!Goto, WB!ring, WB!flags, WB!mtxs, WB!locals, WB!Threads, idleSide
<1>1. CASE (\E n \in 1 .. MaxMsg : SendCall(n)) \/ Stage \/ SendReturns
  BY <1>1 DEF SendCall, Stage, SendReturns, bufVars
<1>2. CASE Drain
  BY <1>2 DEF Drain, WB!WaitCall, WB!WaitCheck
<1>3. CASE WriteBytes
  BY <1>3 DEF WriteBytes, WB!WriteCall, bufVars
<1>4. CASE WriteStep
  <2>1. UNCHANGED idleSide
    BY <1>4 DEF WriteStep
  <2>2. CASE WB!WriteSome(Sender)
    BY <2>1, <2>2 DEF WB!WriteSome, WB!WriteInternal
  <2>3. CASE WB!WriteNotify(Sender)
    BY <2>1, <2>3 DEF WB!WriteNotify, WB!NotifyAll
  <2>4. CASE WB!WriteLock(Sender) \/ WB!WriteHead(Sender) \/ WB!WriteWait(Sender)
                \/ WB!WriteCancelled(Sender)
    BY <2>1, <2>4 DEF WB!WriteLock, WB!WriteHead, WB!WriteWait, WB!WriteCancelled
  <2> QED
    BY <1>4, <2>2, <2>3, <2>4 DEF WriteStep, WriteSome
<1>5. CASE WriteDone
  BY <1>5 DEF WriteDone, WB!WriteExit
<1> QED
  BY <1>1, <1>2, <1>3, <1>4, <1>5 DEF SendStep

\* The worker does not touch the sender's side, and only empties the ring.
LEMMA WorkerSteps ==
    ASSUME BufferOK, FlushInv, WorkerStep \/ SendReady
    PROVE  /\ UNCHANGED <<written, len, sent, cancelling, m_IsCancelWrite, m_IsCancelWait, ctl>>
           /\ pc'[Sender] = pc[Sender]
           /\ pc'[SenderWait] = "idle" <=> pc[SenderWait] = "idle"
           /\ m_DataLen = 0 => m_DataLen' = 0
           /\ m_IsCancelRead' => m_IsCancelRead
           /\ sockCancel' => sockCancel
           /\ Running' => Running
<1> USE BufferFacts, WriterAssumption
        DEF WB!Goto, WB!ring, WB!flags, WB!mtxs, WB!locals, WB!Threads
<1>1. CASE LoopLife
  BY <1>1 DEF LoopLife, CanLoopContinue, WorkloopReturned, WorkloopThrew, bufVars, sockVars, Running
<1>2. CASE LoopRead
  BY <1>2 DEF LoopRead, WB!ReadCall, asyncVars, sockVars, Running
<1>3. CASE LoopReadStep
  <2>1. UNCHANGED <<asyncVars, sockVars, cancelling>>
    BY <1>3 DEF LoopReadStep
  <2>2. CASE WB!ReadSome(Thread)
    BY <2>1, <2>2 DEF WB!ReadSome, WB!ReadInternal, asyncVars, sockVars, Running
  <2>3. CASE WB!ReadNotifyWrite(Thread)
    BY <2>1, <2>3 DEF WB!ReadNotifyWrite, WB!NotifyAll, asyncVars, sockVars, Running, FlushInv
  <2>4. CASE WB!ReadNotifyWait(Thread)
    BY <2>1, <2>4 DEF WB!ReadNotifyWait, asyncVars, sockVars, Running
  <2>5. CASE WB!ReadLock(Thread) \/ WB!ReadCancelled(Thread) \/ WB!ReadWait(Thread)
    BY <2>1, <2>5 DEF WB!ReadLock, WB!ReadCancelled, WB!ReadWait, asyncVars, sockVars, Running
  <2> QED
    BY <1>3, <2>2, <2>3, <2>4, <2>5 DEF LoopReadStep
<1>4. CASE LoopReadExit
  BY <1>4 DEF LoopReadExit, WB!ReadExit, lifeVars, Running
<1>5. CASE SendCancelled \/ SendReady \/ SendScopeExit \/ SendFails \/ \E n \in 1 .. MaxPkg : SendTakes(n)
  BY <1>5 DEF SendCancelled, SendReady, SendScopeExit, SendFails, SendTakes, bufVars, asyncVars,
              sockVars, lifeVars, Running
<1> QED
  BY <1>1, <1>2, <1>3, <1>4, <1>5 DEF WorkerStep

OwnerSide ==
    \/ \E c \in Callers : \/ Cancel(c) /\ disturbed' = TRUE /\ UNCHANGED sendVars
                          \/ CloseCall(c) /\ UNCHANGED <<sendVars, disturbed>>
                          \/ OwnerStep(c) /\ UNCHANGED sendVars
    \/ CancelStep /\ UNCHANGED <<sendVars, disturbed>>
    \/ SpuriousWakeup

\* Owners, cancels and spurious wakeups move no byte and begin no call; a flag
\* is set only by a cancel that has begun.
LEMMA OwnerSteps ==
    ASSUME BufferOK, FlushInv, cancelling \in 0 .. 4, OwnerSide
    PROVE  /\ UNCHANGED <<sendVars, m_DataLen, written, taken, len, sent, room, batch, wire, op>>
           /\ pc'[Sender] = pc[Sender]
           /\ pc'[SenderWait] = "idle" <=> pc[SenderWait] = "idle"
           /\ pc'[Thread] = "idle" <=> pc[Thread] = "idle"
           /\ Running' => Running
           /\ worker' \in {"can", "paused"} => worker \in {"can", "paused"}
           /\ worker' = "body" <=> worker = "body"
           /\ cancelling' \in 0 .. 4
           /\ ~disturbed' => /\ ~disturbed
                             /\ cancelling = 0 => /\ cancelling' = 0
                                                  /\ UNCHANGED <<sockCancel, m_IsCancelRead,
                                                                 m_IsCancelWrite, m_IsCancelWait>>
<1> USE BufferFacts, WriterAssumption
        DEF WB!Goto, WB!ring, WB!flags, WB!mtxs, WB!locals, WB!Threads, sendVars
<1>1. ASSUME NEW c \in Callers, Cancel(c), disturbed' = TRUE, UNCHANGED sendVars
      PROVE  /\ UNCHANGED <<asyncVars, bufVars, sockVars, op, sendVars>>
             /\ cancelling' \in 0 .. 4 /\ disturbed'
  BY <1>1 DEF Cancel
<1>2. ASSUME NEW c \in Callers, CloseCall(c), UNCHANGED <<sendVars, disturbed>>
      PROVE  /\ UNCHANGED <<bufVars, sockVars, op, sendVars, disturbed, cancelling>>
             /\ UNCHANGED <<m_status, worker>>
  BY <1>2 DEF CloseCall, StopCall
<1>3. ASSUME NEW c \in Callers, OwnerStep(c), UNCHANGED sendVars
      PROVE  /\ UNCHANGED <<bufVars, sockVars, op, sendVars>>
             /\ Running' => Running
             /\ worker' \in {"can", "paused"} => worker \in {"can", "paused"}
             /\ worker' = "body" <=> worker = "body"
             /\ cancelling' \in 0 .. 4
             /\ ~disturbed' => ~disturbed /\ (cancelling' = cancelling \/ cancelling' = 0)
  <2>1. CASE CloseEnter(c)
    <3>1. ctl[c] = "stop" /\ disturbed' = (disturbed \/ ctl[c] = "stop")
      BY <1>3, <2>1 DEF OwnerStep, CloseEnter, StopEnter, CtlGoto
    <3>2. disturbed'
      BY <3>1
    <3>3. /\ UNCHANGED <<bufVars, sockVars, op, sendVars, worker>>
          /\ Running' => Running
          /\ cancelling' \in 0 .. 4
      BY <1>3, <2>1 DEF CloseEnter, StopEnter, Running
    <3> QED
      BY <3>2, <3>3
  <2>2. CASE CloseUnblocked(c)
    BY <1>3, <2>2 DEF OwnerStep, CloseUnblocked, lifeVars, Running
  <2>3. CASE /\ StopNotify(c) \/ StopJoin(c) \/ StopJoined(c)
             /\ UNCHANGED <<bufVars, sockVars, op, cancelling>>
    BY <1>3, <2>3 DEF OwnerStep, StopNotify, StopJoin, StopJoined, LoopNotify, Running
  <2> QED
    BY <1>3, <2>1, <2>2, <2>3 DEF OwnerStep, CloseStep
<1>4. ASSUME CancelStep, UNCHANGED <<sendVars, disturbed>>
      PROVE  /\ UNCHANGED <<sendVars, m_DataLen, written, taken, len, sent, room, batch, wire, op>>
             /\ pc'[Sender] = pc[Sender]
             /\ pc'[SenderWait] = "idle" <=> pc[SenderWait] = "idle"
             /\ pc'[Thread] = "idle" <=> pc[Thread] = "idle"
             /\ UNCHANGED <<m_status, worker>>
             /\ cancelling' \in 0 .. 4 /\ cancelling # 0
  <2>1. UNCHANGED <<asyncVars, batch, wire, op>> /\ cancelling' \in 0 .. 4 /\ cancelling # 0
    BY <1>4 DEF CancelStep
  <2>2. CASE UNCHANGED bufVars
    BY <1>4, <2>1, <2>2 DEF bufVars, asyncVars
  <2>3. CASE WB!CancelRead \/ WB!CancelWrite \/ WB!CancelWait
    <3>1. UNCHANGED <<m_DataLen, written, taken, len, sent, room>>
      BY <2>3 DEF WB!CancelRead, WB!CancelWrite, WB!CancelWait
    <3>2. /\ pc'[Sender] = pc[Sender]
          /\ pc'[SenderWait] = "idle" <=> pc[SenderWait] = "idle"
          /\ pc'[Thread] = "idle" <=> pc[Thread] = "idle"
      BY <2>3 DEF WB!CancelRead, WB!CancelWrite, WB!CancelWait, WB!Woken, FlushInv
    <3> QED
      BY <1>4, <2>1, <3>1, <3>2 DEF asyncVars
  <2> QED
    BY <1>4, <2>2, <2>3 DEF CancelStep
<1>5. ASSUME SpuriousWakeup
      PROVE  /\ UNCHANGED <<sendVars, m_DataLen, written, taken, len, sent, room, batch, wire, op>>
             /\ pc'[Sender] = pc[Sender]
             /\ pc'[SenderWait] = "idle" <=> pc[SenderWait] = "idle"
             /\ pc'[Thread] = "idle" <=> pc[Thread] = "idle"
             /\ UNCHANGED <<m_status, worker, cancelling, disturbed, sockCancel, m_IsCancelRead,
                            m_IsCancelWrite, m_IsCancelWait>>
  <2>1. PICK t \in {Sender, SenderWait, Thread} : WB!SpuriousWakeup(t)
    BY <1>5 DEF SpuriousWakeup
  <2>2. /\ UNCHANGED <<m_DataLen, written, taken, len, sent, room, m_IsCancelRead,
                       m_IsCancelWrite, m_IsCancelWait>>
        /\ t # Sender /\ pc[t] = "wait" /\ pc' = [pc EXCEPT ![t] = IF t = Thread THEN "body" ELSE "check"]
    BY <2>1 DEF WB!SpuriousWakeup, FlushInv
  <2>3. /\ pc'[Sender] = pc[Sender]
        /\ pc'[SenderWait] = "idle" <=> pc[SenderWait] = "idle"
        /\ pc'[Thread] = "idle" <=> pc[Thread] = "idle"
    BY <2>2
  <2> QED
    BY <1>5, <2>2, <2>3 DEF SpuriousWakeup, idleSide, asyncVars, sockVars
<1> HIDE BufferFacts DEF sendVars
<1>6. CASE \E c \in Callers : Cancel(c) /\ disturbed' = TRUE /\ UNCHANGED sendVars
  BY <1>1, <1>6 DEF bufVars, sockVars, asyncVars, Running
<1>7. CASE \E c \in Callers : CloseCall(c) /\ UNCHANGED <<sendVars, disturbed>>
  BY <1>2, <1>7 DEF bufVars, sockVars, Running
<1>8. CASE \E c \in Callers : OwnerStep(c) /\ UNCHANGED sendVars
  BY <1>3, <1>8 DEF bufVars, sockVars
<1>9. CASE CancelStep /\ UNCHANGED <<sendVars, disturbed>>
  BY <1>4, <1>9 DEF Running
<1>10. CASE SpuriousWakeup
  BY <1>5, <1>10 DEF Running
<1> QED
  BY <1>6, <1>7, <1>8, <1>9, <1>10 DEF OwnerSide
-----------------------------------------------------------------------------
(* The sending thread                                                      *)

\* The sender's part of TypeOK
SendTypeOK ==
    /\ snd \in {"idle", "stage", "drain", "ensure", "write", "throw"}
    /\ dataLen \in 0 .. MaxMsg /\ next \in 1 .. MaxBytes + 1
    /\ staged \in Seq(1 .. MaxBytes) /\ Len(staged) <= BufSize
    /\ stream \in Seq(1 .. MaxBytes) /\ Len(stream) = Len(written)

SenderInv == SendTypeOK /\ FlushInv /\ OrderInv /\ StreamWhole

\* What appending n elements gives
LEMMA Appended ==
    ASSUME NEW S, NEW s \in Seq(S), NEW n \in Nat, NEW f(_), \A i \in 1 .. n : f(i) \in S
    PROVE  LET t == s \o [i \in 1 .. n |-> f(i)]
           IN  /\ t \in Seq(S) /\ Len(t) = Len(s) + n
               /\ \A i \in 1 .. Len(s) : t[i] = s[i]
               /\ \A i \in 1 .. n : t[Len(s) + i] = f(i)
<1> DEFINE g == [i \in 1 .. n |-> f(i)]
<1>1. g \in Seq(S) /\ Len(g) = n /\ \A i \in 1 .. n : g[i] = f(i)
  OBVIOUS
<1> HIDE DEF g
<1>2. /\ s \o g \in Seq(S) /\ Len(s \o g) = Len(s) + Len(g)
      /\ \A i \in 1 .. Len(s) : (s \o g)[i] = s[i]
      /\ \A i \in 1 .. Len(g) : (s \o g)[Len(s) + i] = g[i]
  BY <1>1
<1> QED
  BY <1>1, <1>2 DEF g

LEMMA Elements ==
    ASSUME SendTypeOK
    PROVE  /\ Len(stream) \in Nat /\ Len(staged) \in Nat
           /\ \A i \in 1 .. Len(stream) : stream[i] \in Int
           /\ \A i \in 1 .. Len(staged) : staged[i] \in Int
<1>1. /\ \A i \in 1 .. Len(stream) : stream[i] \in 1 .. MaxBytes
      /\ \A i \in 1 .. Len(staged) : staged[i] \in 1 .. MaxBytes
  BY ElementOfSeq DEF SendTypeOK
<1>2. 1 .. MaxBytes \subseteq Int
  OBVIOUS
<1> QED
  BY <1>1, <1>2, LenProperties DEF SendTypeOK

\* Numbering on, as an exception does, disturbs no order.
LEMMA OrderKept ==
    ASSUME SendTypeOK, OrderInv, ~InRing, UNCHANGED <<stream, staged>>,
           next' \in Int, next' >= next, next' + dataLen' <= MaxBytes + 1
    PROVE  OrderInv'
<1>1. next \in Int
  BY DEF SendTypeOK
<1>2. /\ \A i \in 1 .. Len(stream) : stream[i] < next'
      /\ \A i \in 1 .. Len(staged) : staged[i] < next'
  BY <1>1, Elements DEF OrderInv
<1> QED
  BY <1>2 DEF OrderInv

\* Calling Send and returning from it move no byte.
LEMMA CallKeepsSender ==
    ASSUME BufferOK, SenderInv, (\E n \in 1 .. MaxMsg : SendCall(n)) \/ SendReturns
    PROVE  SenderInv'
<1>1. PICK n \in 0 .. MaxMsg :
        /\ snd \in {"idle", "stage"} /\ snd' \in {"idle", "stage"}
        /\ dataLen' = n /\ next + n <= MaxBytes + 1
        /\ UNCHANGED <<staged, next, stream, idleSide, bufVars>>
  <2>1. CASE \E n \in 1 .. MaxMsg : SendCall(n)
    BY <2>1, SizesAssumption, WriterAssumption DEF SendCall, SenderInv, SendTypeOK
  <2>2. CASE SendReturns
    BY <2>2, SizesAssumption DEF SendReturns, SenderInv, SendTypeOK, OrderInv
  <2> QED
    BY <2>1, <2>2
<1>2. UNCHANGED <<pc, sent, len, written, m_DataLen, m_IsCancelRead, m_IsCancelWrite,
                  m_IsCancelWait, sockCancel, cancelling, disturbed, m_status>>
  BY <1>1 DEF idleSide, bufVars, asyncVars, sockVars
<1>3. SendTypeOK'
  BY <1>1, <1>2 DEF SenderInv, SendTypeOK
<1>4. FlushInv'
  BY <1>1, <1>2 DEF SenderInv, FlushInv
<1>5. ~InRing /\ ~InRing'
  BY <1>1 DEF InRing
<1>6. OrderInv'
  BY <1>1, <1>2, <1>5 DEF SenderInv, OrderInv
<1>7. StreamWhole'
  BY <1>1, <1>2, <1>5 DEF SenderInv, StreamWhole, Running
<1> QED
  BY <1>3, <1>4, <1>6, <1>7 DEF SenderInv

\* Staging puts the message's next bytes behind those already staged.
LEMMA StageKeepsSender ==
    ASSUME BufferOK, SenderInv, Stage
    PROVE  SenderInv'
<1> DEFINE k == WB!Min2(dataLen, BufSize - Len(staged))
<1>1. /\ snd = "stage" /\ staged' = staged \o Number(next, k)
      /\ next' = next + k /\ dataLen' = dataLen - k
      /\ snd' = IF staged' = <<>> THEN "stage" ELSE "drain"
      /\ UNCHANGED <<stream, idleSide, bufVars>>
  BY DEF Stage
<1>2. UNCHANGED <<pc, sent, len, written, m_DataLen, m_IsCancelRead, m_IsCancelWrite,
                  m_IsCancelWait, sockCancel, cancelling, disturbed, m_status>>
  BY <1>1 DEF idleSide, bufVars, asyncVars, sockVars
<1>3. /\ staged \in Seq(1 .. MaxBytes) /\ Len(staged) \in Nat /\ Len(staged) <= BufSize
      /\ next \in 1 .. MaxBytes + 1 /\ dataLen \in 0 .. MaxMsg /\ next + dataLen <= MaxBytes + 1
      /\ Len(stream) \in Nat
  BY LenProperties DEF SenderInv, SendTypeOK, OrderInv
<1>4. k \in Nat /\ k <= dataLen /\ Len(staged) + k <= BufSize
  BY <1>3, SizesAssumption DEF WB!Min2
<1> HIDE DEF k
<1>5. /\ staged' \in Seq(1 .. MaxBytes) /\ Len(staged') = Len(staged) + k
      /\ \A i \in 1 .. Len(staged) : staged'[i] = staged[i]
      /\ \A i \in 1 .. k : staged'[Len(staged) + i] = next + i - 1
  <2> DEFINE f(i) == next + i - 1
  <2>1. \A i \in 1 .. k : f(i) \in 1 .. MaxBytes
    BY <1>3, <1>4, WriterAssumption
  <2>2. staged' = staged \o [i \in 1 .. k |-> f(i)]
    BY <1>1 DEF Number
  <2> HIDE DEF f
  <2>3. LET t == staged \o [i \in 1 .. k |-> f(i)]
        IN  /\ t \in Seq(1 .. MaxBytes) /\ Len(t) = Len(staged) + k
            /\ \A i \in 1 .. Len(staged) : t[i] = staged[i]
            /\ \A i \in 1 .. k : t[Len(staged) + i] = f(i)
    BY <1>3, <1>4, <2>1, Appended
  <2> QED
    BY <2>2, <2>3 DEF f
<1>6. \A j \in 1 .. Len(staged') :
        \/ j \in 1 .. Len(staged) /\ staged'[j] = staged[j]
        \/ \E d \in 1 .. k : j = Len(staged) + d /\ staged'[j] = next + d - 1
  <2> SUFFICES ASSUME NEW j \in 1 .. Len(staged'), j \notin 1 .. Len(staged)
               PROVE  \E d \in 1 .. k : j = Len(staged) + d /\ staged'[j] = next + d - 1
    BY <1>5
  <2>1. PICK d \in 1 .. k : j = Len(staged) + d
    <3>1. j - Len(staged) \in 1 .. k /\ j = Len(staged) + (j - Len(staged))
      BY <1>3, <1>4, <1>5
    <3> QED
      BY <3>1
  <2>2. staged'[Len(staged) + d] = next + d - 1
    BY <1>5
  <2> QED
    BY <2>1, <2>2
<1>7. SendTypeOK'
  BY <1>1, <1>2, <1>3, <1>4, <1>5, WriterAssumption, SizesAssumption DEF SenderInv, SendTypeOK
<1>8. FlushInv'
  BY <1>1, <1>2, BufferFacts DEF SenderInv, FlushInv
<1>9. ~InRing /\ ~InRing'
  BY <1>1 DEF InRing
<1>10. /\ \A i \in 1 .. Len(stream) : stream[i] \in Int /\ stream[i] < next
       /\ \A i \in 1 .. Len(staged) : staged[i] \in Int /\ staged[i] < next
       /\ \A i, j \in 1 .. Len(stream) : i < j => stream[i] < stream[j]
       /\ \A i, j \in 1 .. Len(staged) : i < j => staged[i] < staged[j]
       /\ \A i \in 1 .. Len(stream), j \in 1 .. Len(staged) : stream[i] < staged[j]
  BY <1>9, Elements DEF SenderInv, OrderInv
<1>11. OrderInv'
  <2>1. next' + dataLen' <= MaxBytes + 1
    BY <1>1, <1>3, <1>4
  <2>2. \A i \in 1 .. Len(stream') : stream'[i] < next'
    BY <1>1, <1>3, <1>4, <1>10
  <2>3. \A i \in 1 .. Len(staged') : staged'[i] < next'
    BY <1>1, <1>3, <1>4, <1>6, <1>10
  <2>4. \A i, j \in 1 .. Len(staged') : i < j => staged'[i] < staged'[j]
    <3> SUFFICES ASSUME NEW i \in 1 .. Len(staged'), NEW j \in 1 .. Len(staged'), i < j
                 PROVE  staged'[i] < staged'[j]
      OBVIOUS
    <3>0. \/ j \in 1 .. Len(staged)
          \/ \E d \in 1 .. k : j = Len(staged) + d /\ staged'[j] = next + d - 1
      BY <1>6
    <3>1. CASE j \in 1 .. Len(staged)
      <4>1. i \in 1 .. Len(staged)
        BY <1>3, <3>1
      <4> QED
        BY <1>5, <1>10, <3>1, <4>1
    <3>2. CASE \E d \in 1 .. k : j = Len(staged) + d /\ staged'[j] = next + d - 1
      <4>1. PICK d \in 1 .. k : j = Len(staged) + d /\ staged'[j] = next + d - 1
        BY <3>2
      <4>0. \/ i \in 1 .. Len(staged)
            \/ \E e \in 1 .. k : i = Len(staged) + e /\ staged'[i] = next + e - 1
        BY <1>6
      <4>2. CASE i \in 1 .. Len(staged)
        <5>1. staged'[i] \in Int /\ staged'[i] < next
          BY <1>5, <1>10, <4>2
        <5> QED
          BY <1>3, <4>1, <5>1
      <4>3. CASE \E e \in 1 .. k : i = Len(staged) + e /\ staged'[i] = next + e - 1
        <5>1. PICK e \in 1 .. k : i = Len(staged) + e /\ staged'[i] = next + e - 1
          BY <4>3
        <5> QED
          BY <1>3, <1>4, <4>1, <5>1
      <4> QED
        BY <4>0, <4>2, <4>3
    <3> QED
      BY <3>0, <3>1, <3>2
  <2>5. \A i \in 1 .. Len(stream'), j \in 1 .. Len(staged') : stream'[i] < staged'[j]
    <3> SUFFICES ASSUME NEW i \in 1 .. Len(stream), NEW j \in 1 .. Len(staged')
                 PROVE  stream[i] < staged'[j]
      BY <1>1
    <3>0. \/ j \in 1 .. Len(staged)
          \/ \E d \in 1 .. k : j = Len(staged) + d /\ staged'[j] = next + d - 1
      BY <1>6
    <3>1. CASE j \in 1 .. Len(staged)
      BY <1>5, <1>10, <3>1
    <3>2. CASE \E d \in 1 .. k : j = Len(staged) + d /\ staged'[j] = next + d - 1
      BY <1>3, <1>4, <1>10, <3>2
    <3> QED
      BY <3>0, <3>1, <3>2
  <2> QED
    BY <1>1, <1>10, <2>1, <2>2, <2>3, <2>4, <2>5 DEF OrderInv
<1>12. StreamWhole'
  <2>1. ASSUME ~disturbed, Running
        PROVE  /\ next' = Len(stream) + Len(staged') + 1
               /\ \A j \in 1 .. Len(staged') : staged'[j] = Len(stream) + j
    <3>1. /\ next = Len(stream) + Len(staged) + 1
          /\ \A j \in 1 .. Len(staged) : staged[j] = Len(stream) + j
      BY <1>9, <2>1 DEF SenderInv, StreamWhole
    <3>2. next' = Len(stream) + Len(staged') + 1
      BY <1>1, <1>3, <1>4, <1>5, <3>1
    <3>3. ASSUME NEW j \in 1 .. Len(staged') PROVE staged'[j] = Len(stream) + j
      <4>1. CASE j \in 1 .. Len(staged)
        BY <1>5, <3>1, <4>1
      <4>2. CASE \E d \in 1 .. k : j = Len(staged) + d /\ staged'[j] = next + d - 1
        BY <1>3, <1>4, <3>1, <4>2
      <4> QED
        BY <1>6, <4>1, <4>2
    <3> QED
      BY <3>2, <3>3
  <2>2. snd' # "write"
    BY <1>1
  <2> QED
    BY <1>1, <1>2, <1>9, <2>1, <2>2 DEF SenderInv, StreamWhole, Running
<1> QED
  BY <1>7, <1>8, <1>11, <1>12 DEF SenderInv

\* Waiting for the ring to drain: it is left with the ring empty, or thrown out
\* of by a cancel.
LEMMA DrainKeepsSender ==
    ASSUME BufferOK, SenderInv, Drain
    PROVE  SenderInv'
<1> USE BufferFacts, WriterAssumption
        DEF WB!Goto, WB!ring, WB!flags, WB!mtxs, WB!locals, WB!Threads
<1>1. /\ snd = "drain" /\ pc'[Sender] = pc[Sender]
      /\ UNCHANGED <<staged, stream, sent, len, written, m_DataLen, m_IsCancelRead,
                     m_IsCancelWrite, sockCancel, cancelling, disturbed, m_status>>
      /\ m_IsCancelWait' => m_IsCancelWait
  BY DEF Drain, WB!WaitCall, WB!WaitCheck, idleSide, asyncVars, sockVars, sendVars, Throw
<1>2. \/ snd' = "drain" /\ UNCHANGED <<dataLen, next>>
      \/ /\ snd' = "ensure" /\ UNCHANGED <<dataLen, next>>
         /\ pc'[SenderWait] = "idle" /\ m_DataLen = 0
      \/ /\ snd' = "idle" /\ dataLen' = 0 /\ next' = next + dataLen
         /\ pc'[SenderWait] = "idle" /\ m_IsCancelWait
  BY DEF Drain, WB!WaitCall, WB!WaitCheck, sendVars, Throw
<1> HIDE WriterAssumption DEF WB!Goto, WB!ring, WB!flags, WB!mtxs, WB!locals, WB!Threads
<1>3. next \in 1 .. MaxBytes + 1 /\ dataLen \in 0 .. MaxMsg /\ next + dataLen <= MaxBytes + 1
  BY DEF SenderInv, SendTypeOK, OrderInv
<1>4. SendTypeOK'
  <2> HIDE BufferFacts
  <2>1. dataLen' \in 0 .. MaxMsg /\ next' \in 1 .. MaxBytes + 1
    BY <1>2, <1>3, SizesAssumption, WriterAssumption
  <2> QED
    BY <1>1, <1>2, <2>1 DEF SenderInv, SendTypeOK
<1>5. FlushInv'
  BY <1>1, <1>2 DEF SenderInv, FlushInv
<1>6. ~InRing /\ ~InRing'
  BY <1>1, <1>2 DEF InRing
<1>7. OrderInv'
  <2>1. next' \in Int /\ next' >= next /\ next' + dataLen' <= MaxBytes + 1
    BY <1>2, <1>3
  <2> QED
    BY <1>1, <1>6, <2>1, OrderKept DEF SenderInv
<1>8. StreamWhole'
  <2>1. ~disturbed => ~m_IsCancelWait
    BY DEF SenderInv, StreamWhole
  <2>2. ~disturbed => next' = next /\ snd' # "write"
    BY <1>2, <2>1
  <2> QED
    BY <1>1, <1>6, <2>2 DEF SenderInv, StreamWhole, Running
<1> QED
  BY <1>4, <1>5, <1>7, <1>8 DEF SenderInv

\* The write begins with the ring empty and all of the staged chunk to go, or the
\* writer is found stopped or in error.
LEMMA WriteBytesKeepsSender ==
    ASSUME BufferOK, SenderInv, WriteBytes
    PROVE  SenderInv'
<1> USE BufferFacts, WriterAssumption
        DEF WB!Goto, WB!ring, WB!flags, WB!mtxs, WB!locals, WB!Threads
<1>1. /\ snd = "ensure" /\ pc'[SenderWait] = pc[SenderWait]
      /\ UNCHANGED <<staged, stream, written, m_DataLen, m_IsCancelRead, m_IsCancelWait,
                     m_IsCancelWrite, sockCancel, cancelling, disturbed, m_status>>
  BY DEF WriteBytes, WB!WriteCall, idleSide, asyncVars, sockVars, bufVars, Throw
<1>2. \/ /\ snd' = "idle" /\ dataLen' = 0 /\ next' = next + dataLen
         /\ UNCHANGED <<pc, len, sent>> /\ ~Running
      \/ /\ snd' = "write" /\ UNCHANGED <<dataLen, next>>
         /\ pc'[Sender] = "lock" /\ len'[Sender] = Len(staged) /\ sent'[Sender] = 0
         /\ Len(written) + Len(staged) <= MaxBytes /\ Running
  BY DEF WriteBytes, WB!WriteCall, bufVars, Throw
<1> HIDE WriterAssumption DEF WB!Goto, WB!ring, WB!flags, WB!mtxs, WB!locals, WB!Threads
<1>3. /\ next \in 1 .. MaxBytes + 1 /\ dataLen \in 0 .. MaxMsg /\ next + dataLen <= MaxBytes + 1
      /\ Len(staged) \in Nat /\ Len(staged) > 0
  <2>1. staged \in Seq(1 .. MaxBytes) /\ staged # <<>>
    BY <1>1 DEF SenderInv, SendTypeOK, FlushInv
  <2>2. Len(staged) \in Nat /\ Len(staged) > 0
    BY <2>1, LenProperties, EmptySeq
  <2> QED
    BY <2>2 DEF SenderInv, SendTypeOK, OrderInv
<1>4. SendTypeOK'
  <2> HIDE BufferFacts
  <2>1. dataLen' \in 0 .. MaxMsg /\ next' \in 1 .. MaxBytes + 1
    BY <1>2, <1>3, SizesAssumption, WriterAssumption
  <2> QED
    BY <1>1, <1>2, <2>1 DEF SenderInv, SendTypeOK
<1>5. FlushInv'
  BY <1>1, <1>2, <1>3 DEF SenderInv, FlushInv
<1>6. ~InRing /\ ~InRing'
  BY <1>1, <1>2, <1>3 DEF InRing
<1>7. OrderInv'
  <2>1. next' \in Int /\ next' >= next /\ next' + dataLen' <= MaxBytes + 1
    BY <1>2, <1>3
  <2> QED
    BY <1>1, <1>6, <2>1, OrderKept DEF SenderInv
<1>8. StreamWhole'
  <2>1. CASE snd' = "idle"
    BY <1>1, <1>2, <1>6, <2>1 DEF SenderInv, StreamWhole, Running, FlushInv
  <2>2. CASE snd' = "write"
    BY <1>1, <1>2, <1>6, <2>2 DEF SenderInv, StreamWhole
  <2> QED
    BY <1>2, <2>1, <2>2
<1> QED
  BY <1>4, <1>5, <1>7, <1>8 DEF SenderInv

\* The chunk goes into the empty ring in one piece.
LEMMA WriteSomeKeepsSender ==
    ASSUME BufferOK, SenderInv, WriteSome, snd \in {"write", "throw"}, UNCHANGED idleSide
    PROVE  SenderInv'
<1> USE BufferFacts, WriterAssumption, SizesAssumption
<1> DEFINE k == Len(staged)
<1>1. /\ pc[Sender] = "body" /\ snd = "write" /\ len[Sender] = k /\ m_DataLen = 0
      /\ sent[Sender] = 0 /\ k \in Nat /\ k > 0 /\ k <= BufSize /\ WB!Min2(Size - m_DataLen, len[Sender]) = k
  <2>1. pc[Sender] = "body"
    BY DEF WriteSome, WB!WriteSome, WB!Goto
  <2> QED
    BY <2>1, LenProperties DEF SenderInv, FlushInv, SendTypeOK, WB!Min2
<1>2. /\ pc'[Sender] = "notify" /\ pc'[SenderWait] = pc[SenderWait]
      /\ len'[Sender] = 0
      /\ UNCHANGED <<snd, dataLen, staged, next, m_IsCancelRead, m_IsCancelWait,
                     m_IsCancelWrite, sockCancel, cancelling, disturbed, m_status>>
  BY <1>1 DEF WriteSome, WB!WriteSome, WB!WriteInternal, WB!Goto, WB!flags, idleSide, asyncVars, sockVars
<1>3. written' = written \o [i \in 1 .. k |-> <<Sender, sent[Sender] + i>>]
  BY <1>1 DEF WriteSome, WB!WriteSome, WB!WriteInternal
<1> HIDE DEF k
<1>4. Len(written') = Len(written) + k
  <2> DEFINE f(i) == <<Sender, sent[Sender] + i>>
  <2>1. written \in Seq({Sender} \X (1 .. MaxLen))
    BY DEF WB!TypeOK, WB!RingTypeOK, WB!Byte
  <2>2. \A i \in 1 .. k : f(i) \in {Sender} \X (1 .. MaxLen)
    BY <1>1
  <2> HIDE DEF f
  <2>3. Len(written \o [i \in 1 .. k |-> f(i)]) = Len(written) + k
    BY <1>1, <2>1, <2>2, Appended
  <2> QED
    BY <1>3, <2>3 DEF f
<1>5. /\ stream' \in Seq(1 .. MaxBytes) /\ Len(stream') = Len(stream) + k
      /\ \A i \in 1 .. Len(stream) : stream'[i] = stream[i]
      /\ \A i \in 1 .. k : stream'[Len(stream) + i] = staged[i]
  <2> DEFINE f(i) == staged[i]
  <2>1. /\ stream \in Seq(1 .. MaxBytes)
        /\ \A i \in 1 .. k : f(i) \in 1 .. MaxBytes
    BY <1>1, ElementOfSeq DEF SenderInv, SendTypeOK, k
  <2>2. stream' = stream \o [i \in 1 .. k |-> staged[i]]
    <3>1. Len(written') - Len(written) = k
      BY <1>1, <1>4
    <3>2. stream' = stream \o [i \in 1 .. k |-> staged[0 + i]]
      BY <1>1, <3>1 DEF WriteSome
    <3>3. [i \in 1 .. k |-> staged[0 + i]] = [i \in 1 .. k |-> staged[i]]
      OBVIOUS
    <3> QED
      BY <3>2, <3>3
  <2> HIDE DEF f
  <2>3. LET t == stream \o [i \in 1 .. k |-> f(i)]
        IN  /\ t \in Seq(1 .. MaxBytes) /\ Len(t) = Len(stream) + k
            /\ \A i \in 1 .. Len(stream) : t[i] = stream[i]
            /\ \A i \in 1 .. k : t[Len(stream) + i] = f(i)
    BY <1>1, <2>1, Appended
  <2> QED
    BY <2>2, <2>3 DEF f
<1>6. /\ Len(stream) \in Nat
      /\ \A j \in 1 .. Len(stream') :
            \/ j \in 1 .. Len(stream) /\ stream'[j] = stream[j]
            \/ \E d \in 1 .. k : j = Len(stream) + d /\ stream'[j] = staged[d]
  <2>1. Len(stream) \in Nat
    BY LenProperties DEF SenderInv, SendTypeOK
  <2>2. ASSUME NEW j \in 1 .. Len(stream'), j \notin 1 .. Len(stream)
        PROVE  \E d \in 1 .. k : j = Len(stream) + d /\ stream'[j] = staged[d]
    <3>1. PICK d \in 1 .. k : j = Len(stream) + d
      <4>1. j - Len(stream) \in 1 .. k /\ j = Len(stream) + (j - Len(stream))
        BY <1>1, <1>5, <2>1, <2>2
      <4> QED
        BY <4>1
    <3>2. stream'[Len(stream) + d] = staged[d]
      BY <1>5
    <3> QED
      BY <3>1, <3>2
  <2> QED
    BY <1>5, <2>1, <2>2
<1>7. SendTypeOK'
  BY <1>2, <1>4, <1>5 DEF SenderInv, SendTypeOK
<1>8. FlushInv'
  BY <1>1, <1>2, <1>4 DEF SenderInv, FlushInv, k
<1>9. ~InRing /\ InRing'
  BY <1>1, <1>2 DEF InRing
<1>10. /\ \A i \in 1 .. Len(stream) : stream[i] < next
       /\ \A i \in 1 .. k : staged[i] < next
       /\ \A i, j \in 1 .. Len(stream) : i < j => stream[i] < stream[j]
       /\ \A i, j \in 1 .. k : i < j => staged[i] < staged[j]
       /\ \A i \in 1 .. Len(stream), j \in 1 .. k : stream[i] < staged[j]
  BY <1>9 DEF SenderInv, OrderInv, k
<1>11. OrderInv'
  <2>1. \A j \in 1 .. Len(stream') : stream'[j] < next
    BY <1>6, <1>10
  <2>2. ASSUME NEW i \in 1 .. Len(stream'), NEW j \in 1 .. Len(stream'), i < j
        PROVE  stream'[i] < stream'[j]
    <3>1. CASE j \in 1 .. Len(stream)
      <4>1. i \in 1 .. Len(stream)
        BY <1>6, <2>2, <3>1
      <4> QED
        BY <1>5, <1>10, <2>2, <3>1, <4>1
    <3>2. CASE \E d \in 1 .. k : j = Len(stream) + d /\ stream'[j] = staged[d]
      <4>1. PICK d \in 1 .. k : j = Len(stream) + d /\ stream'[j] = staged[d]
        BY <3>2
      <4>2. CASE i \in 1 .. Len(stream)
        BY <1>5, <1>10, <4>1, <4>2
      <4>3. CASE \E e \in 1 .. k : i = Len(stream) + e /\ stream'[i] = staged[e]
        <5>1. PICK e \in 1 .. k : i = Len(stream) + e /\ stream'[i] = staged[e]
          BY <4>3
        <5>2. e < d
          BY <1>6, <2>2, <4>1, <5>1
        <5> QED
          BY <1>10, <4>1, <5>1, <5>2
      <4> QED
        BY <1>6, <4>2, <4>3
    <3> QED
      BY <1>6, <3>1, <3>2
  <2> QED
    BY <1>2, <1>9, <1>10, <2>1, <2>2 DEF SenderInv, OrderInv, k
<1>12. StreamWhole'
  <2>1. ASSUME ~disturbed
        PROVE  /\ \A j \in 1 .. Len(stream') : stream'[j] = j
               /\ next' = Len(stream') + 1
    <3>1. /\ \A i \in 1 .. Len(stream) : stream[i] = i
          /\ next = Len(stream) + k + 1
          /\ \A i \in 1 .. k : staged[i] = Len(stream) + i
      BY <1>1, <1>9, <2>1 DEF SenderInv, StreamWhole, k
    <3>2. \A j \in 1 .. Len(stream') : stream'[j] = j
      BY <1>6, <3>1
    <3>3. next' = Len(stream') + 1
      BY <1>1, <1>2, <1>5, <1>6, <3>1
    <3> QED
      BY <3>2, <3>3
  <2> QED
    BY <1>2, <1>9, <2>1 DEF SenderInv, StreamWhole
<1> QED
  BY <1>7, <1>8, <1>11, <1>12 DEF SenderInv

\* The other steps of WriteTillFinish move no byte; that the ring is full before
\* the write does not happen, and a cancelled write has nothing in the ring.
LEMMA WriteStepKeepsSender ==
    ASSUME BufferOK, SenderInv, WriteStep
    PROVE  SenderInv'
<1> USE BufferFacts, WriterAssumption
        DEF WB!Goto, WB!ring, WB!flags, WB!mtxs, WB!locals, WB!Threads
<1>1. CASE WriteSome
  BY <1>1, WriteSomeKeepsSender DEF WriteStep
<1>2. CASE ~WriteSome
  <2>1. ~WB!WriteWait(Sender)
    BY DEF WB!WriteWait, SenderInv, FlushInv
  <2>2. /\ UNCHANGED <<dataLen, staged, next, stream, len, sent, written, m_DataLen,
                       m_IsCancelRead, m_IsCancelWrite, m_IsCancelWait>>
        /\ pc'[SenderWait] = pc[SenderWait]
    BY <1>2, <2>1 DEF WriteStep, WB!WriteLock, WB!WriteHead, WB!WriteNotify, WB!NotifyAll,
                      WB!WriteCancelled, sendVars
  <2>3. UNCHANGED <<sockCancel, cancelling, disturbed, m_status>>
    BY DEF WriteStep, idleSide, asyncVars, sockVars
  <2>4. /\ snd = "write"
        /\ \/ pc[Sender] = "lock" /\ pc'[Sender] = "head" /\ snd' = snd
           \/ /\ pc[Sender] = "head" /\ snd' = snd
              /\ \/ pc'[Sender] = "body" /\ len[Sender] > 0
                 \/ pc'[Sender] = "exit" /\ (len[Sender] = 0 \/ m_IsCancelWrite)
           \/ pc[Sender] = "notify" /\ pc'[Sender] = "head" /\ snd' = snd
           \/ pc[Sender] = "body" /\ pc'[Sender] = "exit" /\ snd' = "throw" /\ m_IsCancelWrite
    BY <1>2, <2>1 DEF WriteStep, WB!WriteLock, WB!WriteHead, WB!WriteNotify, WB!NotifyAll,
                      WB!WriteCancelled, sendVars, SenderInv, FlushInv
  <2> HIDE WriterAssumption DEF WB!Goto, WB!ring, WB!flags, WB!mtxs, WB!locals, WB!Threads
  <2>5. SendTypeOK'
    BY <2>2, <2>4 DEF SenderInv, SendTypeOK
  <2>6. FlushInv'
    BY <2>2, <2>4 DEF SenderInv, FlushInv
  <2>7. InRing' <=> InRing
    BY <2>2, <2>4 DEF InRing, SenderInv, FlushInv
  <2>8. OrderInv'
    BY <2>2, <2>7 DEF SenderInv, OrderInv
  <2>9. StreamWhole'
    <3>1. ~disturbed => snd' = "write" /\ (pc'[Sender] = "exit" => len[Sender] = 0)
      BY <2>4 DEF SenderInv, StreamWhole
    <3> QED
      BY <2>2, <2>3, <2>4, <2>7, <3>1 DEF SenderInv, StreamWhole, Running
  <2> QED
    BY <2>5, <2>6, <2>8, <2>9 DEF SenderInv
<1> QED
  BY <1>1, <1>2

\* The end of the write: the chunk is in the ring or was cancelled.
LEMMA WriteDoneKeepsSender ==
    ASSUME BufferOK, SenderInv, WriteDone
    PROVE  SenderInv'
<1> USE BufferFacts, WriterAssumption
        DEF WB!Goto, WB!ring, WB!flags, WB!mtxs, WB!locals, WB!Threads
<1>1. /\ pc[Sender] = "exit" /\ pc'[Sender] = "idle" /\ pc'[SenderWait] = pc[SenderWait]
      /\ len'[Sender] = 0 /\ ~m_IsCancelWrite'
      /\ UNCHANGED <<stream, written, m_DataLen, m_IsCancelRead, m_IsCancelWait,
                     sockCancel, cancelling, disturbed, m_status>>
  BY DEF WriteDone, WB!WriteExit, idleSide, asyncVars, sockVars, Throw
<1>2. \/ /\ snd = "throw" /\ snd' = "idle" /\ dataLen' = 0 /\ next' = next + dataLen
         /\ staged' = staged
      \/ snd = "write" /\ snd' = "stage" /\ staged' = <<>> /\ UNCHANGED <<dataLen, next>>
  BY DEF WriteDone, Throw
<1> HIDE WriterAssumption DEF WB!Goto, WB!ring, WB!flags, WB!mtxs, WB!locals, WB!Threads
<1>3. /\ next \in 1 .. MaxBytes + 1 /\ dataLen \in 0 .. MaxMsg /\ next + dataLen <= MaxBytes + 1
      /\ <<>> \in Seq(1 .. MaxBytes) /\ Len(<<>>) = 0
  BY DEF SenderInv, SendTypeOK, OrderInv
<1>4. SendTypeOK'
  <2> HIDE BufferFacts
  <2>1. dataLen' \in 0 .. MaxMsg /\ next' \in 1 .. MaxBytes + 1
    BY <1>2, <1>3, SizesAssumption, WriterAssumption
  <2>2. staged' \in Seq(1 .. MaxBytes) /\ Len(staged') <= BufSize
    <3>1. BufSize \in Nat /\ 0 <= BufSize
      BY SizesAssumption
    <3>2. CASE staged' = staged
      BY <3>2 DEF SenderInv, SendTypeOK
    <3>3. CASE staged' = <<>>
      BY <1>3, <3>1, <3>3
    <3> QED
      BY <1>2, <3>2, <3>3
  <2> QED
    BY <1>1, <1>2, <2>1, <2>2 DEF SenderInv, SendTypeOK
<1>5. FlushInv'
  <2>1. pc[SenderWait] = "idle"
    BY <1>2 DEF SenderInv, FlushInv
  <2>2. Len(written') + len'[Sender] <= MaxBytes
    BY <1>1, WriterAssumption DEF SenderInv, FlushInv
  <2> QED
    BY <1>1, <1>2, <2>1, <2>2 DEF FlushInv
<1>6. ~InRing'
  BY <1>2 DEF InRing
<1>7. OrderInv'
  <2>1. next' \in Int /\ next' >= next /\ next' + dataLen' <= MaxBytes + 1
    BY <1>2, <1>3
  <2>3. CASE staged' = <<>> /\ UNCHANGED <<dataLen, next>>
    <3>1. Len(staged') = 0
      BY <1>3, <2>3
    <3> QED
      BY <1>1, <2>3, <3>1 DEF SenderInv, OrderInv
  <2>4. CASE snd = "throw" /\ staged' = staged
    <3>1. ~InRing
      BY <2>4 DEF InRing
    <3> QED
      BY <1>1, <2>1, <2>4, <3>1, OrderKept DEF SenderInv
  <2> QED
    BY <1>2, <2>3, <2>4
<1>8. StreamWhole'
  <2>1. ~disturbed => InRing /\ snd = "write"
    BY <1>1, <1>2 DEF SenderInv, StreamWhole, FlushInv, InRing
  <2> QED
    BY <1>1, <1>2, <1>3, <1>6, <2>1 DEF SenderInv, StreamWhole
<1> QED
  BY <1>4, <1>5, <1>7, <1>8 DEF SenderInv

LEMMA SendKeepsSender ==
    ASSUME BufferOK, SenderInv, (\E n \in 1 .. MaxMsg : SendCall(n)) \/ SendStep
    PROVE  SenderInv'
  BY CallKeepsSender, StageKeepsSender, DrainKeepsSender, WriteBytesKeepsSender,
     WriteStepKeepsSender, WriteDoneKeepsSender DEF SendStep

\* Nobody else writes to the ring, and nobody revives a writer that has ended.
LEMMA OthersKeepSender ==
    ASSUME BufferOK, SenderInv, cancelling \in 0 .. 4,
           \/ (WorkerStep \/ SendReady) /\ UNCHANGED <<sendVars, disturbed>>
           \/ OwnerSide
    PROVE  SenderInv'
<1>1. /\ UNCHANGED <<snd, dataLen, staged, next, stream, written, len, sent>>
      /\ pc'[Sender] = pc[Sender]
      /\ pc'[SenderWait] = "idle" <=> pc[SenderWait] = "idle"
      /\ m_DataLen = 0 => m_DataLen' = 0
      /\ Running' => Running
  BY WorkerSteps, OwnerSteps DEF SenderInv, sendVars
<1>2. ~disturbed' => /\ ~disturbed
                     /\ cancelling = 0 => cancelling' = 0
                     /\ cancelling = 0 /\ ~sockCancel => ~sockCancel'
                     /\ cancelling = 0 /\ ~m_IsCancelRead => ~m_IsCancelRead'
                     /\ cancelling = 0 /\ ~m_IsCancelWrite => ~m_IsCancelWrite'
                     /\ cancelling = 0 /\ ~m_IsCancelWait => ~m_IsCancelWait'
  <2>1. CASE (WorkerStep \/ SendReady) /\ UNCHANGED <<sendVars, disturbed>>
    BY <2>1, WorkerSteps, Zenon DEF SenderInv
  <2>2. CASE OwnerSide
    BY <2>2, OwnerSteps, Zenon DEF SenderInv
  <2> QED
    BY <2>1, <2>2
<1>3. InRing' <=> InRing
  BY <1>1 DEF InRing
<1>4. SendTypeOK'
  BY <1>1 DEF SenderInv, SendTypeOK
<1>5. FlushInv'
  BY <1>1 DEF SenderInv, FlushInv
<1>6. OrderInv'
  BY <1>1, <1>3 DEF SenderInv, OrderInv
<1>7. StreamWhole'
  BY <1>1, <1>2, <1>3 DEF SenderInv, StreamWhole
<1> QED
  BY <1>4, <1>5, <1>6, <1>7 DEF SenderInv
-----------------------------------------------------------------------------
(* The worker                                                              *)

\* The worker's part of TypeOK
LoopTypeOK ==
    /\ sockCancel \in BOOLEAN
    /\ op \in {"read", "test", "ready", "cancelled", "send"}
    /\ batch \in 0 .. MaxPkg
    /\ wire \in Seq(1 .. MaxBytes)
    /\ cancelling \in 0 .. 4
    /\ disturbed \in BOOLEAN

WorkerInv == LoopTypeOK /\ LoopInv /\ WireInv /\ WireWhole

\* Steps that move no byte towards the socket, of whatever thread
LEMMA IdleKeepsWorker ==
    ASSUME BufferOK, WorkerInv, LoopTypeOK', LoopInv', UNCHANGED <<taken, wire>>,
           Pending' = Pending, ~disturbed' => ~disturbed,
           worker' \in {"can", "paused", "body"} => worker \in {"can", "paused", "body"}
    PROVE  WorkerInv'
  BY DEF WorkerInv, WireInv, WireWhole

LEMMA SendKeepsWorker ==
    ASSUME BufferOK, WorkerInv, (\E n \in 1 .. MaxMsg : SendCall(n)) \/ SendStep
    PROVE  WorkerInv'
<1>1. /\ UNCHANGED <<worker, ctl, sockCancel, batch, wire, op, cancelling, disturbed, taken, room>>
      /\ pc'[Thread] = "idle" <=> pc[Thread] = "idle"
  BY SenderSteps DEF asyncVars, sockVars
<1>2. LoopTypeOK'
  BY <1>1 DEF WorkerInv, LoopTypeOK
<1>3. LoopInv'
  BY <1>1 DEF WorkerInv, LoopInv, Starting
<1>4. Pending' = Pending
  BY <1>1 DEF Pending
<1> QED
  BY <1>1, <1>2, <1>3, <1>4, IdleKeepsWorker

LEMMA OwnerKeepsWorker ==
    ASSUME AsyncStateOK, BufferOK, FlushInv, WorkerInv, OwnerSide
    PROVE  WorkerInv'
<1> USE DEF WorkerInv, LoopTypeOK
<1>1. /\ UNCHANGED <<batch, wire, op, taken, room>>
      /\ pc'[Thread] = "idle" <=> pc[Thread] = "idle"
      /\ worker' \in {"can", "paused"} => worker \in {"can", "paused"}
      /\ worker' = "body" <=> worker = "body"
      /\ cancelling' \in 0 .. 4
      /\ ~disturbed' => ~disturbed
  BY OwnerSteps
<1>2. sockCancel' \in BOOLEAN /\ disturbed' \in BOOLEAN
  <2>1. CASE \E c \in Callers : OwnerStep(c)
    BY <2>1 DEF OwnerStep, CloseStep, CloseEnter, CloseUnblocked, sockVars
  <2>2. CASE ~\E c \in Callers : OwnerStep(c)
    BY <2>2 DEF OwnerSide, Cancel, CloseCall, CancelStep, SpuriousWakeup, idleSide, sockVars
  <2> QED
    BY <2>1, <2>2
<1>3. \A c \in Callers : ~Starting(c)'
  <2>1. UNCHANGED ctl \/ \E c \in Callers, to \in {"stop", "unblock", "notify", "join", "joining", "idle"} :
            ctl' = [ctl EXCEPT ![c] = to]
    <3>1. CASE \E c \in Callers : OwnerStep(c)
      BY <3>1 DEF OwnerStep, CloseStep, CloseEnter, CloseUnblocked, StopEnter, StopNotify,
                  StopJoin, StopJoined, CtlGoto
    <3>2. CASE ~\E c \in Callers : OwnerStep(c)
      BY <3>2 DEF OwnerSide, Cancel, CloseCall, StopCall, CtlGoto, CancelStep, SpuriousWakeup,
                  idleSide, asyncVars
    <3> QED
      BY <3>1, <3>2
  <2> QED
    BY <2>1 DEF LoopInv, Starting, AsyncStateOK
<1>4. LoopTypeOK'
  BY <1>1, <1>2
<1>5. LoopInv'
  BY <1>1, <1>3 DEF LoopInv
<1>6. Pending' = Pending
  BY <1>1 DEF Pending
<1> QED
  BY <1>1, <1>4, <1>5, <1>6, IdleKeepsWorker

LEMMA ReadKeepsWorker ==
    ASSUME BufferOK, FlushInv, WorkerInv, LoopRead \/ LoopReadStep \/ LoopReadExit,
           UNCHANGED disturbed
    PROVE  WorkerInv'
<1> USE BufferFacts, WriterAssumption
        DEF WorkerInv, LoopTypeOK, WB!Goto, WB!ring, WB!flags, WB!mtxs, WB!locals, WB!Threads
<1>1. CASE LoopRead
  <2>1. /\ worker = "body" /\ op = "read" /\ pc[Thread] = "idle" /\ pc'[Thread] = "lock"
        /\ room'[Thread] = MaxPkg
        /\ UNCHANGED <<taken, worker, ctl, sockCancel, batch, wire, op, cancelling>>
    BY <1>1 DEF LoopRead, WB!ReadCall, asyncVars, sockVars
  <2>2. batch = 0
    BY <2>1 DEF LoopInv
  <2>3. Pending' = Pending
    BY <2>1, <2>2 DEF Pending
  <2>4. LoopInv'
    BY <2>1, <2>2 DEF LoopInv, Starting
  <2>5. LoopTypeOK'
    BY <2>1
  <2> QED
    BY <2>1, <2>3, <2>4, <2>5, IdleKeepsWorker
<1>2. CASE LoopReadStep
  <2>1. UNCHANGED <<worker, ctl, sockCancel, batch, wire, op, cancelling>>
    BY <1>2 DEF LoopReadStep, asyncVars, sockVars
  <2>2. LoopTypeOK'
    BY <2>1
  <2>3. CASE WB!ReadSome(Thread)
    <3> DEFINE n == WB!Min2(m_DataLen, room[Thread])
    <3>1. n \in Nat /\ n <= room[Thread] /\ n <= m_DataLen
      BY DEF WB!Min2
    <3>2. /\ pc[Thread] = "body" /\ pc'[Thread] = "notify" /\ room'[Thread] = room[Thread] - n
          /\ taken' = taken \o WB!Copied(n) /\ m_DataLen' = m_DataLen - n /\ written' = written
      BY <2>3 DEF WB!ReadSome, WB!ReadInternal
    <3> HIDE DEF n
    <3>0. /\ room[Thread] \in Nat /\ m_DataLen \in Nat /\ Len(taken) \in Nat
          /\ Len(written) = Len(taken) + m_DataLen /\ MaxPkg \in Nat
      OBVIOUS
    <3>3. Len(taken') = Len(taken) + n
      <4>1. R!RingHoldsStream'
        <5>1. R!RingInv'
          <6>1. R!ReadInternal(Thread) /\ UNCHANGED <<sent, len>>
            BY <2>3 DEF WB!ReadSome, WB!ReadInternal, R!ReadInternal, WB!Copied, R!Copied,
                        WB!Min2, R!Min2
          <6> QED
            BY <6>1, RingAssumptions, R!ReadInternalKeepsRing DEF BufferOK
        <5> QED
          BY <5>1 DEF R!RingInv
      <4>2. Len(written') = Len(taken') + m_DataLen'
        BY <4>1 DEF R!RingHoldsStream
      <4>3. Len(taken') \in Nat
        BY <3>2
      <4> HIDE BufferFacts, WriterAssumption DEF WorkerInv
      <4>4. Len(written') = Len(written) /\ m_DataLen' = m_DataLen - n
        BY <3>2
      <4> QED
        BY <3>0, <3>1, <4>2, <4>3, <4>4
    <3> HIDE BufferFacts
    <3>4. LoopInv'
      <4>1. room'[Thread] <= MaxPkg
        BY <3>0, <3>1, <3>2 DEF LoopInv
      <4> QED
        BY <2>1, <3>2, <4>1 DEF LoopInv, Starting
    <3>5. /\ Pending = MaxPkg - room[Thread] /\ Pending' = Pending + n
          /\ Pending \in Int /\ Len(taken') - Pending' = Len(taken) - Pending
      BY <3>0, <3>1, <3>2, <3>3 DEF Pending
    <3>6. WireInv'
      <4>1. Pending' <= Len(taken')
        BY <3>0, <3>1, <3>3, <3>5 DEF WireInv
      <4> QED
        BY <2>1, <3>5, <4>1 DEF WireInv
    <3>7. WireWhole'
      BY <2>1, <3>5 DEF WireWhole
    <3> QED
      BY <2>2, <3>4, <3>6, <3>7
  <2>4. CASE ~WB!ReadSome(Thread)
    <3>1. UNCHANGED <<taken, room>> /\ pc[Thread] # "idle" /\ pc'[Thread] # "idle"
      BY <1>2, <2>4 DEF LoopReadStep, WB!ReadLock, WB!ReadCancelled, WB!ReadWait,
                        WB!ReadNotifyWrite, WB!ReadNotifyWait, WB!NotifyAll
    <3>2. LoopInv'
      BY <2>1, <3>1 DEF LoopInv, Starting
    <3>3. Pending' = Pending
      BY <2>1, <3>1 DEF Pending
    <3> QED
      BY <2>1, <2>2, <3>1, <3>2, <3>3, IdleKeepsWorker
  <2> QED
    BY <2>3, <2>4
<1>3. CASE LoopReadExit
  <2>1. /\ pc[Thread] = "exit" /\ pc'[Thread] = "idle" /\ room'[Thread] = 0
        /\ UNCHANGED <<taken, ctl, sockCancel, wire, cancelling>>
    BY <1>3 DEF LoopReadExit, WB!ReadExit
  <2>2. worker = "body" /\ op = "read" /\ batch = 0
    BY <2>1 DEF LoopInv
  <2>3. CASE worker' = "raise" /\ UNCHANGED <<op, batch>>
    <3>1. Pending' = 0 /\ Pending \in Nat
      BY <2>1, <2>2, <2>3 DEF Pending, LoopInv
    <3>2. LoopInv'
      BY <2>1, <2>2, <2>3 DEF LoopInv, Starting
    <3>3. WireInv'
      <4>1. Len(taken) \in Nat
        OBVIOUS
      <4> HIDE BufferFacts
      <4>2. \A i \in 1 .. Len(wire) : wire[i] \in 1 .. Len(taken) - Pending'
        BY <3>1, <4>1 DEF WireInv
      <4> QED
        BY <2>1, <3>1, <4>1, <4>2 DEF WireInv
    <3>4. WireWhole'
      BY <2>1, <2>3 DEF WireWhole
    <3> QED
      BY <2>1, <2>3, <3>2, <3>3, <3>4
  <2>4. CASE op' = "test" /\ batch' = MaxPkg - room[Thread] /\ UNCHANGED worker
    <3>1. Pending' = Pending /\ batch' \in 0 .. MaxPkg
      BY <2>1, <2>4 DEF Pending, LoopInv
    <3>2. LoopInv'
      BY <2>1, <2>2, <2>4 DEF LoopInv, Starting
    <3>3. LoopTypeOK'
      BY <2>1, <2>4, <3>1
    <3> QED
      BY <2>1, <2>4, <3>1, <3>2, <3>3, IdleKeepsWorker
  <2> QED
    BY <1>3, <2>3, <2>4 DEF LoopReadExit, OpGoto
<1> QED
  BY <1>1, <1>2, <1>3

\* send() takes the oldest of the pending bytes and, where it does not stop short,
\* all of them.
LEMMA SendTakesKeepsWorker ==
    ASSUME BufferOK, FlushInv, WorkerInv, NEW n \in 1 .. MaxPkg, SendTakes(n), UNCHANGED disturbed
    PROVE  WorkerInv'
<1> USE BufferFacts, WriterAssumption DEF WorkerInv, LoopTypeOK
<1>1. /\ worker = "body" /\ op = "send" /\ op' = "read" /\ worker' = "can" /\ batch' = 0
      /\ n \in 1 .. batch /\ (n < batch => ShortSend)
      /\ wire' = wire \o [i \in 1 .. n |-> Len(taken) - batch + i]
      /\ UNCHANGED <<ctl, pc, room, taken, sockCancel, cancelling>>
  BY DEF SendTakes, OpGoto, bufVars
<1>2. pc[Thread] = "idle"
  BY <1>1 DEF LoopInv
<1>3. Pending = batch /\ Pending' = 0 /\ batch \in Nat /\ batch <= Len(taken)
  BY <1>1, <1>2 DEF Pending, WireInv
<1>4. LoopInv'
  BY <1>1, <1>2 DEF LoopInv, Starting
<1>5. /\ wire' \in Seq(1 .. MaxBytes) /\ Len(wire') = Len(wire) + n
      /\ \A i \in 1 .. Len(wire) : wire'[i] = wire[i]
      /\ \A i \in 1 .. n : wire'[Len(wire) + i] = Len(taken) - batch + i
  <2> DEFINE f(i) == Len(taken) - batch + i
  <2>1. \A i \in 1 .. n : f(i) \in 1 .. MaxBytes
    <3>1. Len(taken) \in Nat /\ Len(taken) <= MaxBytes
      BY DEF FlushInv
    <3> HIDE BufferFacts
    <3> QED
      BY <1>1, <1>3, <3>1
  <2>2. wire' = wire \o [i \in 1 .. n |-> f(i)]
    BY <1>1
  <2> HIDE DEF f
  <2>3. LET t == wire \o [i \in 1 .. n |-> f(i)]
        IN  /\ t \in Seq(1 .. MaxBytes) /\ Len(t) = Len(wire) + n
            /\ \A i \in 1 .. Len(wire) : t[i] = wire[i]
            /\ \A i \in 1 .. n : t[Len(wire) + i] = f(i)
    BY <2>1, Appended
  <2> QED
    BY <2>2, <2>3 DEF f
<1>6. LoopTypeOK'
  BY <1>1, <1>5
<1> HIDE DEF WorkerInv
<1>7. /\ Len(wire) \in Nat
      /\ \A j \in 1 .. Len(wire') :
            \/ j \in 1 .. Len(wire) /\ wire'[j] = wire[j]
            \/ \E d \in 1 .. n : j = Len(wire) + d /\ wire'[j] = Len(taken) - batch + d
  <2>1. Len(wire) \in Nat
    BY LenProperties DEF WorkerInv
  <2>2. ASSUME NEW j \in 1 .. Len(wire'), j \notin 1 .. Len(wire)
        PROVE  \E d \in 1 .. n : j = Len(wire) + d /\ wire'[j] = Len(taken) - batch + d
    <3>1. PICK d \in 1 .. n : j = Len(wire) + d
      <4>1. j - Len(wire) \in 1 .. n /\ j = Len(wire) + (j - Len(wire))
        BY <1>5, <2>1, <2>2
      <4> QED
        BY <4>1
    <3>2. wire'[Len(wire) + d] = Len(taken) - batch + d
      BY <1>5
    <3> QED
      BY <3>1, <3>2
  <2> QED
    BY <1>5, <2>1, <2>2
<1> HIDE BufferFacts
<1>8. Len(taken) \in Nat /\ Len(taken) - batch \in Nat
  BY <1>3, BufferFacts
<1>9. /\ \A i \in 1 .. Len(wire) : wire[i] \in 1 .. Len(taken) - batch
      /\ \A i, j \in 1 .. Len(wire) : i < j => wire[i] < wire[j]
  BY <1>3 DEF WorkerInv, WireInv
<1>10. WireInv'
  <2>1. Pending' <= Len(taken')
    BY <1>1, <1>3, <1>8
  <2>2. ASSUME NEW j \in 1 .. Len(wire') PROVE wire'[j] \in 1 .. Len(taken)
    <3>1. CASE j \in 1 .. Len(wire)
      BY <1>3, <1>5, <1>8, <1>9, <3>1
    <3>2. CASE \E d \in 1 .. n : j = Len(wire) + d /\ wire'[j] = Len(taken) - batch + d
      BY <1>1, <1>3, <1>8, <3>2
    <3> QED
      BY <1>7, <3>1, <3>2
  <2>3. ASSUME NEW i \in 1 .. Len(wire'), NEW j \in 1 .. Len(wire'), i < j
        PROVE  wire'[i] < wire'[j]
    <3>0. \/ j \in 1 .. Len(wire)
          \/ \E d \in 1 .. n : j = Len(wire) + d /\ wire'[j] = Len(taken) - batch + d
      BY <1>7
    <3>1. CASE j \in 1 .. Len(wire)
      <4>1. i \in 1 .. Len(wire)
        BY <1>7, <2>3, <3>1
      <4> QED
        BY <1>5, <1>9, <2>3, <3>1, <4>1
    <3>2. CASE \E d \in 1 .. n : j = Len(wire) + d /\ wire'[j] = Len(taken) - batch + d
      <4>1. PICK d \in 1 .. n : j = Len(wire) + d /\ wire'[j] = Len(taken) - batch + d
        BY <3>2
      <4>2. CASE i \in 1 .. Len(wire)
        <5>1. wire'[i] \in 1 .. Len(taken) - batch
          BY <1>5, <1>9, <4>2
        <5> QED
          BY <1>8, <4>1, <5>1
      <4>3. CASE \E e \in 1 .. n : i = Len(wire) + e /\ wire'[i] = Len(taken) - batch + e
        <5>1. PICK e \in 1 .. n : i = Len(wire) + e /\ wire'[i] = Len(taken) - batch + e
          BY <4>3
        <5>2. e < d
          BY <1>7, <2>3, <4>1, <5>1
        <5> QED
          BY <1>8, <4>1, <5>1, <5>2
      <4>4. \/ i \in 1 .. Len(wire)
            \/ \E e \in 1 .. n : i = Len(wire) + e /\ wire'[i] = Len(taken) - batch + e
        BY <1>7
      <4> QED
        BY <4>2, <4>3, <4>4
    <3> QED
      BY <3>0, <3>1, <3>2
  <2>4. Len(taken') - Pending' = Len(taken)
    BY <1>1, <1>3, <1>8
  <2> QED
    BY <2>1, <2>2, <2>3, <2>4 DEF WireInv
<1>11. WireWhole'
  <2> SUFFICES ASSUME ~disturbed, ~ShortSend
               PROVE  (\A j \in 1 .. Len(wire') : wire'[j] = j) /\ Len(wire') = Len(taken)
    BY <1>1, <1>3, <1>8 DEF WireWhole
  <2>1. n = batch
    BY <1>1, <1>3
  <2>2. (\A i \in 1 .. Len(wire) : wire[i] = i) /\ Len(wire) = Len(taken) - batch
    BY <1>1, <1>3 DEF WorkerInv, WireWhole
  <2>3. Len(wire') = Len(taken)
    BY <1>3, <1>5, <1>7, <1>8, <2>1, <2>2
  <2>4. \A j \in 1 .. Len(wire') : wire'[j] = j
    BY <1>7, <2>2
  <2> QED
    BY <2>3, <2>4
<1> QED
  BY <1>4, <1>6, <1>10, <1>11 DEF WorkerInv

LEMMA WorkerKeepsWorker ==
    ASSUME BufferOK, FlushInv, WorkerInv, WorkerStep \/ SendReady, UNCHANGED disturbed
    PROVE  WorkerInv'
<1> USE DEF WorkerInv, LoopTypeOK
<1>1. CASE LoopLife
  <2>1. /\ UNCHANGED <<taken, room, pc, ctl, sockCancel, batch, wire, op, cancelling>>
        /\ \/ worker = "can" /\ worker' \in {"body", "paused", "return"}
           \/ worker \in {"return", "raise"} /\ worker' = "ended"
    BY <1>1 DEF LoopLife, CanLoopContinue, WorkloopReturned, WorkloopThrew, bufVars, sockVars
  <2>2. LoopInv'
    BY <2>1 DEF LoopInv, Starting
  <2>3. Pending' = Pending
    BY <2>1 DEF Pending
  <2>4. LoopTypeOK'
    BY <2>1
  <2> QED
    BY <2>1, <2>2, <2>3, <2>4, IdleKeepsWorker
<1>2. CASE LoopRead \/ LoopReadStep \/ LoopReadExit
  BY <1>2, ReadKeepsWorker
<1>3. CASE SendCancelled \/ SendReady \/ SendScopeExit
  <2>1. /\ UNCHANGED <<taken, room, pc, ctl, batch, wire, cancelling>> /\ sockCancel' \in BOOLEAN
        /\ worker = "body" /\ op # "read"
        /\ \/ op' \in {"cancelled", "ready", "send"} /\ worker' = worker
           \/ op' = "read" /\ worker' = "raise"
    BY <1>3 DEF SendCancelled, SendReady, SendScopeExit, OpGoto, bufVars, sockVars, asyncVars
  <2>2. LoopInv'
    BY <2>1 DEF LoopInv, Starting
  <2>3. Pending' = Pending
    BY <2>1 DEF Pending
  <2>4. LoopTypeOK'
    BY <2>1
  <2> QED
    BY <2>1, <2>2, <2>3, <2>4, IdleKeepsWorker
<1>4. CASE SendFails
  <2>1. /\ UNCHANGED <<taken, room, pc, ctl, sockCancel, wire, cancelling>>
        /\ worker = "body" /\ op = "send" /\ op' = "read" /\ worker' = "raise" /\ batch' = 0
    BY <1>4 DEF SendFails, OpGoto, bufVars
  <2>2. pc[Thread] = "idle"
    BY <2>1 DEF LoopInv
  <2>3. LoopInv'
    BY <2>1, <2>2 DEF LoopInv, Starting
  <2>4. Pending = batch /\ Pending' = 0
    BY <2>1, <2>2 DEF Pending
  <2>5. WireInv'
    BY <2>1, <2>4, BufferFacts DEF WireInv
  <2>6. WireWhole'
    BY <2>1 DEF WireWhole
  <2>7. LoopTypeOK'
    BY <2>1, WriterAssumption
  <2> QED
    BY <2>3, <2>5, <2>6, <2>7
<1>5. CASE \E n \in 1 .. MaxPkg : SendTakes(n)
  BY <1>5, SendTakesKeepsWorker
<1> QED
  BY <1>1, <1>2, <1>3, <1>4, <1>5 DEF WorkerStep
-----------------------------------------------------------------------------
(* All together                                                            *)

ChannelInv == AsyncInv /\ BufferOK /\ SenderInv /\ WorkerInv

LEMMA ChannelTypesOK == ChannelInv => TypeOK
  BY BufferFacts DEF ChannelInv, AsyncInv, TypeOK, WriterTypeOK, SenderInv, SendTypeOK,
                     WorkerInv, LoopTypeOK

LEMMA PendingFacts ==
    ASSUME ChannelInv
    PROVE  Len(taken) \in Nat /\ Pending \in Nat /\ Len(taken) <= Len(stream) /\ Len(stream) \in Nat
<1>1. Len(stream) = Len(written) /\ Len(written) = Len(taken) + m_DataLen
  BY BufferFacts DEF ChannelInv, SenderInv, SendTypeOK
<1>2. Len(taken) \in Nat /\ m_DataLen \in Nat
  BY BufferFacts DEF ChannelInv
<1>3. room[Thread] \in Nat /\ room[Thread] <= MaxPkg /\ MaxPkg \in Nat /\ batch \in Nat
  BY BufferFacts, WriterAssumption DEF ChannelInv, WorkerInv, LoopTypeOK, LoopInv
<1> QED
  BY <1>1, <1>2, <1>3 DEF Pending

LEMMA ChannelInit == Init => ChannelInv
<1> SUFFICES ASSUME Init PROVE ChannelInv
  OBVIOUS
<1> USE WriterAssumption, SizesAssumption, CallerAssumption
<1>1. AsyncInv
  BY DEF Init, WriterInit, AsyncInv, AsyncTypeOK, AsyncStateOK, MutexesHeld, NoOverlap, SpawnAlone,
         StoppedMeansJoined, NoTerminate, NoForgottenSleeper, Starting, Stopping,
         Status, Ctl, Worker
<1>2. BufferOK
  <2>1. R!Init
    BY DEF Init, WriterInit, WB!Init, R!Init, WB!Index, R!Index, WB!Garbage, R!Garbage,
           WB!Threads, R!Threads
  <2> QED
    BY <2>1, RingAssumptions, R!RingInit, R!ControlInit, Zenon DEF BufferOK
<1>3. /\ pc[Sender] = "idle" /\ pc[SenderWait] = "idle" /\ pc[Thread] = "idle"
      /\ len[Sender] = 0 /\ room[Thread] = 0 /\ written = <<>> /\ taken = <<>> /\ m_DataLen = 0
      /\ ~m_IsCancelRead /\ ~m_IsCancelWrite /\ ~m_IsCancelWait
  BY DEF Init, WriterInit, WB!Init, WB!Threads
<1>4. Len(<<>>) = 0 /\ <<>> \in Seq(1 .. MaxBytes)
  OBVIOUS
<1>5. SenderInv
  <2>1. SendTypeOK
    BY <1>3, <1>4 DEF Init, SendTypeOK
  <2>2. FlushInv
    BY <1>3, <1>4 DEF Init, FlushInv
  <2>3. OrderInv
    BY <1>4 DEF Init, OrderInv
  <2>4. StreamWhole
    BY <1>3, <1>4 DEF Init, WriterInit, StreamWhole, InRing
  <2> QED
    BY <2>1, <2>2, <2>3, <2>4 DEF SenderInv
<1>6. WorkerInv
  <2>1. LoopTypeOK
    <3>1. 0 \in 0 .. MaxPkg
      OBVIOUS
    <3>2. sockCancel \in BOOLEAN /\ disturbed \in BOOLEAN /\ batch = 0 /\ cancelling = 0
          /\ wire \in Seq(1 .. MaxBytes) /\ op = "read"
      BY <1>4 DEF Init, WriterInit
    <3> QED
      BY <3>1, <3>2 DEF LoopTypeOK
  <2>2. LoopInv
    BY <1>3 DEF Init, WriterInit, LoopInv, Starting
  <2>3. Pending = 0
    BY <1>3 DEF Init, WriterInit, Pending
  <2>4. WireInv /\ WireWhole
    BY <1>3, <1>4, <2>3 DEF Init, WriterInit, WireInv, WireWhole
  <2> QED
    BY <2>1, <2>2, <2>4 DEF WorkerInv
<1> QED
  BY <1>1, <1>2, <1>5, <1>6 DEF ChannelInv

LEMMA ChannelStep == ChannelInv /\ [Next]_vars => ChannelInv'
<1> SUFFICES ASSUME ChannelInv, [Next]_vars PROVE ChannelInv'
  OBVIOUS
<1>1. AsyncInv'
  BY ChannelStepIsAsync, AsyncInvStep DEF ChannelInv, WorkerInv
<1>2. BufferOK'
  <2>1. [R!Next]_(R!vars)
    BY ChannelTypesOK, ChannelStepIsRing
  <2>2. R!RingInv /\ R!ControlInv /\ R!RingTypeOK
    BY DEF ChannelInv, BufferOK, R!RingInv
  <2>3. R!RingInv'
    BY <2>1, <2>2, RingAssumptions, R!RingStep, Zenon
  <2>4. R!ControlInv'
    BY <2>1, <2>2, RingAssumptions, R!ControlStep, Zenon
  <2> QED
    BY <2>3, <2>4 DEF BufferOK
<1>3. AsyncStateOK /\ BufferOK /\ SenderInv /\ WorkerInv /\ FlushInv /\ cancelling \in 0 .. 4
  BY DEF ChannelInv, AsyncInv, AsyncTypeOK, SenderInv, WorkerInv, LoopTypeOK
<1>4. CASE (\E n \in 1 .. MaxMsg : SendCall(n)) \/ SendStep
  BY <1>1, <1>2, <1>3, <1>4, SendKeepsSender, SendKeepsWorker DEF ChannelInv
<1>5. CASE (WorkerStep \/ SendReady) /\ UNCHANGED <<sendVars, disturbed>>
  BY <1>1, <1>2, <1>3, <1>5, OthersKeepSender, WorkerKeepsWorker DEF ChannelInv
<1>6. CASE OwnerSide
  BY <1>1, <1>2, <1>3, <1>6, OthersKeepSender, OwnerKeepsWorker DEF ChannelInv
<1>7. CASE UNCHANGED vars
  <2>1. SenderInv'
    BY <1>3, <1>7 DEF vars, writerVars, bufVars, sockVars, sendVars, asyncVars, SenderInv,
              SendTypeOK, FlushInv, OrderInv, StreamWhole, InRing, Running
  <2>2. WorkerInv'
    BY <1>3, <1>7 DEF vars, writerVars, bufVars, sockVars, sendVars, asyncVars, WorkerInv,
              LoopTypeOK, LoopInv, WireInv, WireWhole, Pending, Starting
  <2> QED
    BY <1>1, <1>2, <2>1, <2>2 DEF ChannelInv
<1> QED
  BY <1>4, <1>5, <1>6, <1>7 DEF Next, OwnerSide

LEMMA ChannelInductive == Spec => []ChannelInv
  BY ChannelInit, ChannelStep, PTL DEF Spec

\* For every size of the ring, the staging buffer and the messages, the state of
\* the channel and of its writer stays in its types, the staging buffer within
\* WRITING_BUF_SIZE and each mutex with the thread that locked it.
THEOREM ChannelTypes == Spec => []TypeOK
  BY ChannelInductive, ChannelTypesOK, PTL

\* A Flush that has waited for the ring to drain never finds it full.
THEOREM NeverBlocks == Spec => []WriteNeverBlocks
<1>1. ChannelInv => WriteNeverBlocks
  BY DEF ChannelInv, SenderInv, FlushInv, WriteNeverBlocks
<1> QED
  BY <1>1, ChannelInductive, PTL

\* No byte reaches the socket twice and none overtakes another, whatever is
\* cancelled, thrown and sent again and however short send() falls.
THEOREM InOrder == Spec => []AtMostOnceInOrder
<1>1. ChannelInv => AtMostOnceInOrder
  <2> SUFFICES ASSUME ChannelInv, NEW i \in 1 .. Len(wire), NEW j \in 1 .. Len(wire), i < j
               PROVE  stream[wire[i]] < stream[wire[j]]
    BY DEF AtMostOnceInOrder
  <2>1. Len(taken) \in Nat /\ Pending \in Nat /\ Len(taken) <= Len(stream) /\ Len(stream) \in Nat
    BY PendingFacts
  <2>2. /\ wire[i] \in 1 .. Len(taken) - Pending /\ wire[j] \in 1 .. Len(taken) - Pending
        /\ wire[i] < wire[j]
    BY DEF ChannelInv, WorkerInv, WireInv
  <2>3. wire[i] \in 1 .. Len(stream) /\ wire[j] \in 1 .. Len(stream)
    BY <2>1, <2>2
  <2> QED
    BY <2>2, <2>3 DEF ChannelInv, SenderInv, OrderInv
<1> QED
  BY <1>1, ChannelInductive, PTL

\* If send() takes all it is given, then until somebody cancels or closes the
\* socket has taken the messages from the first byte on without a hole, a broken
\* connection included.
THEOREM Whole ==
    ASSUME ~ShortSend
    PROVE  Spec => []WholeUntilDisturbed
<1>1. ChannelInv => WholeUntilDisturbed
  <2> SUFFICES ASSUME ChannelInv, ~disturbed, NEW i \in 1 .. Len(wire)
               PROVE  stream[wire[i]] = i
    BY DEF WholeUntilDisturbed
  <2>1. Len(taken) \in Nat /\ Pending \in Nat /\ Len(taken) <= Len(stream) /\ Len(stream) \in Nat
    BY PendingFacts
  <2>2. wire[i] = i /\ wire[i] \in 1 .. Len(taken) - Pending
    BY DEF ChannelInv, WorkerInv, WireInv, WireWhole
  <2>3. i \in 1 .. Len(stream)
    BY <2>1, <2>2
  <2> QED
    BY <2>2, <2>3 DEF ChannelInv, SenderInv, StreamWhole
<1> QED
  BY <1>1, ChannelInductive, PTL
=============================================================================
