----------------------------- MODULE TcpChannel -----------------------------
(***************************************************************************)
(* projector/TcpChannel.cpp, its sending side: one thread that sends       *)
(* messages through a staging buffer into an AsyncWriter, and an owner     *)
(* that cancels the sending (CancelSend, or Stop through                   *)
(* UnBlockWorkingThread) and closes the writer when it destroys the        *)
(* channel.  The receiving side is the loop of AutoReader.                 *)
(*                                                                         *)
(* The bytes handed to Send are numbered 1, 2, 3, ... in the order of the  *)
(* calls; stream says which byte is at each position of what entered the   *)
(* ring, and AsyncWriter's wire which positions the socket took.           *)
(***************************************************************************)
EXTENDS AsyncWriter

CONSTANTS BufSize,  \* WRITING_BUF_SIZE
          MaxMsg    \* bound: bytes of one message

\* 1316 bytes against ASYNC_SOCKET_WRITER_BUFFER_SIZE; MaxLen bounds a flush too
ASSUME SizesAssumption ==
    /\ BufSize \in Nat \ {0} /\ BufSize <= Size /\ BufSize <= MaxLen
    /\ MaxMsg \in Nat

VARIABLES
    snd,        \* where the sending thread is in Send and Flush
    dataLen,    \* bytes of the message not yet staged
    staged,     \* m_InternalWritingBuffer
    next,       \* the number of the message's next byte
    stream,     \* the bytes that entered the ring
    disturbed   \* has a cancel begun?

sendVars == <<snd, dataLen, staged, next, stream>>
vars == <<writerVars, sendVars, disturbed>>
idleSide == <<asyncVars, sockVars, op, cancelling, disturbed>>

Init ==
    /\ WriterInit
    /\ snd = "idle" /\ dataLen = 0 /\ staged = <<>> /\ next = 1 /\ stream = <<>>
    /\ disturbed = FALSE

Number(from, n) == [i \in 1 .. n |-> from + i - 1]
-----------------------------------------------------------------------------
(* Send(pData, n)                                                          *)

SendCall(n) ==
    /\ snd = "idle" /\ snd' = "stage"
    /\ next + n - 1 <= MaxBytes
    /\ dataLen' = n
    /\ UNCHANGED <<staged, next, stream, idleSide, bufVars>>

\* while (dataLen > 0): as much of the message as fits is staged, then Flush,
\* which does something when anything is staged
Stage ==
    /\ snd = "stage" /\ dataLen > 0
    /\ LET canWrite == WB!Min2(dataLen, BufSize - Len(staged))
       IN  /\ staged' = staged \o Number(next, canWrite)
           /\ next' = next + canWrite
           /\ dataLen' = dataLen - canWrite
    /\ snd' = IF staged' = <<>> THEN "stage" ELSE "drain"
    /\ UNCHANGED <<stream, idleSide, bufVars>>

SendReturns ==
    /\ snd = "stage" /\ dataLen = 0 /\ snd' = "idle"
    /\ UNCHANGED <<dataLen, staged, next, stream, idleSide, bufVars>>

\* An exception leaves Send: what is staged stays there, the rest of the
\* message is dropped.
Throw ==
    /\ snd' = "idle" /\ dataLen' = 0 /\ next' = next + dataLen
    /\ UNCHANGED <<staged, stream>>
-----------------------------------------------------------------------------
(* Flush                                                                   *)

\* Mutant of Drain: Flush does not wait for the ring to drain.
DrainNoWait ==
    /\ snd = "drain" /\ snd' = "ensure"
    /\ UNCHANGED <<dataLen, staged, next, stream, idleSide, bufVars>>

\* m_Writer->WaitTillSourceIdeal()
Drain ==
    /\ snd = "drain"
    /\ \/ WB!WaitCall(SenderWait) /\ UNCHANGED sendVars
       \/ /\ WB!WaitCheck(SenderWait)
          /\ \/ m_IsCancelWait /\ Throw
             \/ ~m_IsCancelWait /\ pc'[SenderWait] = "idle" /\ snd' = "ensure"
                /\ UNCHANGED <<dataLen, staged, next, stream>>
             \/ pc'[SenderWait] = "wait" /\ UNCHANGED sendVars
    /\ UNCHANGED idleSide

\* m_Writer->WriteBytes: ENSURE(IsAsyncBaseRunning()), then WriteTillFinish
WriteBytes ==
    /\ snd = "ensure"
    /\ \/ ~Running /\ Throw /\ UNCHANGED bufVars
       \/ /\ Running /\ WB!WriteCall(Sender, Len(staged))
          /\ snd' = "write" /\ UNCHANGED <<dataLen, staged, next, stream>>
    /\ UNCHANGED idleSide

WriteSome ==
    /\ WB!WriteSome(Sender)
    /\ stream' = stream \o [i \in 1 .. Len(written') - Len(written)
                                |-> staged[sent[Sender] + i]]
    /\ UNCHANGED <<snd, dataLen, staged, next>>

WriteStep ==
    /\ snd \in {"write", "throw"}
    /\ \/ WriteSome
       \/ /\ \/ WB!WriteLock(Sender) \/ WB!WriteHead(Sender)
             \/ WB!WriteWait(Sender) \/ WB!WriteNotify(Sender)
          /\ UNCHANGED sendVars
       \/ /\ WB!WriteCancelled(Sender) /\ snd' = "throw"
          /\ UNCHANGED <<dataLen, staged, next, stream>>
    /\ UNCHANGED idleSide

\* Mutant of WriteDone: the staging buffer is not cleared.
WriteDoneNoClear ==
    /\ WB!WriteExit(Sender)
    /\ \/ snd = "throw" /\ Throw
       \/ snd = "write" /\ snd' = "stage"
          /\ UNCHANGED <<dataLen, staged, next, stream>>
    /\ UNCHANGED idleSide

\* WriteTillFinish threw; or it returned, all written or not, and the
\* staging buffer is cleared
WriteDone ==
    /\ WB!WriteExit(Sender)
    /\ \/ snd = "throw" /\ Throw
       \/ snd = "write" /\ snd' = "stage" /\ staged' = <<>>
          /\ UNCHANGED <<dataLen, next, stream>>
    /\ UNCHANGED idleSide

SendStep == Stage \/ SendReturns \/ Drain \/ WriteBytes \/ WriteStep \/ WriteDone

\* wait() returning without a notify, in the sending thread or in the worker
SpuriousWakeup ==
    /\ \E t \in {Sender, SenderWait, Thread} : WB!SpuriousWakeup(t)
    /\ UNCHANGED <<sendVars, idleSide>>
-----------------------------------------------------------------------------
OwnerStep(c) == CloseStep(c) /\ disturbed' = (disturbed \/ ctl[c] = "stop")

Next ==
    \/ \E n \in 1 .. MaxMsg : SendCall(n)
    \/ SendStep
    \/ (WorkerStep \/ SendReady) /\ UNCHANGED <<sendVars, disturbed>>
    \/ \E c \in Callers :
          \/ Cancel(c) /\ disturbed' = TRUE /\ UNCHANGED sendVars
          \/ CloseCall(c) /\ UNCHANGED <<sendVars, disturbed>>
          \/ OwnerStep(c) /\ UNCHANGED sendVars
    \/ CancelStep /\ UNCHANGED <<sendVars, disturbed>>
    \/ SpuriousWakeup

(***************************************************************************)
(* The threads that can run do.  Nothing makes the peer read (SendReady),  *)
(* and nothing makes anybody send, cancel or close.                        *)
(***************************************************************************)
Fairness ==
    /\ WF_vars(SendStep)
    /\ WF_vars(WorkerStep /\ UNCHANGED <<sendVars, disturbed>>)
    /\ WF_vars(CancelStep /\ UNCHANGED <<sendVars, disturbed>>)
    /\ \A c \in Callers : WF_vars(OwnerStep(c) /\ UNCHANGED sendVars)

Spec == Init /\ [][Next]_vars /\ Fairness
-----------------------------------------------------------------------------
(* Properties                                                              *)

\* The state stays in its types, the staging buffer within WRITING_BUF_SIZE
\* and each mutex with the thread that locked it.
TypeOK ==
    /\ WriterTypeOK
    /\ snd \in {"idle", "stage", "drain", "ensure", "write", "throw"}
    /\ dataLen \in 0 .. MaxMsg /\ next \in 1 .. MaxBytes + 1
    /\ staged \in Seq(1 .. MaxBytes) /\ Len(staged) <= BufSize
    /\ stream \in Seq(1 .. MaxBytes) /\ Len(stream) = Len(written)
    /\ disturbed \in BOOLEAN

\* What Flush gains by waiting for the ring to drain: the write that follows
\* never finds the ring full, so only WaitTillBufferEmpty blocks a sender.
WriteNeverBlocks == pc[Sender] # "wait"

\* Whatever is cancelled, thrown and sent again, no byte reaches the socket
\* twice and none overtakes another: a staged chunk that an exception leaves
\* behind has not been written to the ring, not even in part.
AtMostOnceInOrder ==
    \A i, j \in 1 .. Len(wire) : i < j => stream[wire[i]] < stream[wire[j]]

\* IChannel.h:51, "Sends all buffered data.": until somebody cancels or closes,
\* what the socket has taken is the messages from the first byte on, without
\* a hole.
WholeUntilDisturbed ==
    ~disturbed => \A i \in 1 .. Len(wire) : stream[wire[i]] = i

\* A Send that is under way when CancelSend, Stop or Close runs comes back,
\* whether or not the peer reads, the worker still lives or the ring is empty.
SendReleased == (cancelling = 4 /\ snd # "idle") ~> snd = "idle"

\* Close joins the worker, wherever its cancels find it.
CloseReturns == \A c \in Callers : ctl[c] = "unblock" ~> ctl[c] = "idle"
=============================================================================
