---------------------------- MODULE AsyncWriter ----------------------------
(***************************************************************************)
(* utility/private/common/AsyncWriter.cpp on a socket                      *)
(* (AsyncSocketWriter.cpp): a worker that takes from a WaitingBuffer what  *)
(* others wrote there and sends it.  AsyncBase gives the life cycle of the *)
(* worker, WaitingBuffer the ring; here are the worker's loop, Socket::Send*)
(* and the cancel that has to release all three of them.                   *)
(*                                                                         *)
(* The worker starts with the object and is never restarted.               *)
(***************************************************************************)
EXTENDS AsyncBase, Sequences

CONSTANTS Size, MaxLen, MaxBytes,  \* of the ring, see WaitingBuffer
          Sender, SenderWait,      \* the writing thread, and the same thread as it
                                   \* waits for the ring to drain
          Thread,                  \* the working thread
          MaxPkg,                  \* m_MaxSize
          ShortSend,               \* can send() take less than it is given?
          SocketFails              \* can the connection break?

\* The writing thread counts as two, of different names; MaxLen bounds what the
\* worker asks for as well.
ASSUME WriterAssumption ==
    /\ Sender # SenderWait /\ Sender # Thread /\ SenderWait # Thread
    /\ NoThread \notin {Sender, Thread}
    /\ Size \in Nat \ {0} /\ MaxLen \in Nat /\ MaxBytes \in Nat
    /\ MaxPkg \in 1 .. MaxLen

VARIABLES
    \* the ring, m_Buffer of AsyncWriter
    m_Buffer, m_Start, m_End, m_DataLen, m_IsCancelRead, m_IsCancelWrite,
    m_IsCancelWait, m_WriteMtx, m_ReadMtx, pc, sent, len, need, room, written, taken,
    sockCancel,  \* Socket::m_IsCancelWrite
    op,          \* where the worker is in the body of its loop
    batch,       \* how many bytes of m_TempBuffer it is to send
    wire,        \* the positions in the stream of the bytes the socket took
    cancelling   \* steps of Cancel() still to come

WB == INSTANCE WaitingBuffer
        WITH Writers <- {Sender}, Readers <- {Thread}, Waiters <- {SenderWait}

bufVars  == <<m_Buffer, m_Start, m_End, m_DataLen, m_IsCancelRead, m_IsCancelWrite,
              m_IsCancelWait, m_WriteMtx, m_ReadMtx, pc, sent, len, need, room, written, taken>>
lifeVars == <<m_status, m_operationMutex, m_threadOpMutex, terminated>>
sockVars == <<sockCancel, batch, wire>>
writerVars == <<asyncVars, bufVars, sockVars, op, cancelling>>

WriterTypeOK ==
    /\ AsyncTypeOK /\ WB!TypeOK
    /\ sockCancel \in BOOLEAN
    /\ op \in {"read", "test", "ready", "cancelled", "send"}
    /\ batch \in 0 .. MaxPkg
    /\ wire \in Seq(1 .. MaxBytes)
    /\ cancelling \in 0 .. 4

\* AsyncWriter::AsyncWriter, which ends in StartAsyncBase
WriterInit ==
    /\ WB!Init
    /\ m_status = "Started" /\ worker = "can" /\ terminated = FALSE
    /\ m_operationMutex = NoThread /\ m_threadOpMutex = NoThread
    /\ ctl = [c \in Callers |-> "idle"]
    /\ sockCancel = FALSE /\ op = "read" /\ batch = 0 /\ wire = <<>>
    /\ cancelling = 0

OpGoto(from, to) == worker = "body" /\ op = from /\ op' = to

\* IsAsyncBaseRunning
Running == m_status \notin {"Error", "Stopped"}
-----------------------------------------------------------------------------
(* Workloop: m_Buffer.ReadAtless(m_TempBuffer, m_MaxSize, m_MinSize)       *)

LoopRead ==
    /\ worker = "body" /\ op = "read"
    /\ WB!ReadCall(Thread, MaxPkg, 1)
    /\ UNCHANGED <<asyncVars, sockVars, op, cancelling>>

\* ReadAtless returns a count, or throws because it was cancelled
LoopReadExit ==
    /\ \/ /\ need[Thread] > 0 /\ worker' = "raise"
          /\ UNCHANGED <<op, batch>>
       \/ /\ need[Thread] <= 0 /\ OpGoto("read", "test")
          /\ batch' = MaxPkg - room[Thread] /\ UNCHANGED worker
    /\ WB!ReadExit(Thread)
    /\ UNCHANGED <<lifeVars, ctl, sockCancel, wire, cancelling>>

LoopReadStep ==
    /\ \/ WB!ReadLock(Thread) \/ WB!ReadCancelled(Thread) \/ WB!ReadSome(Thread)
       \/ WB!ReadWait(Thread) \/ WB!ReadNotifyWrite(Thread) \/ WB!ReadNotifyWait(Thread)
    /\ UNCHANGED <<asyncVars, sockVars, op, cancelling>>
-----------------------------------------------------------------------------
(* m_Source->WriteBytes: Socket::Send, whose result is not looked at       *)

\* WaitForWriteReady, its ON_SCOPE_EXIT and send()
SendCancelled ==
    /\ OpGoto("test", "cancelled") /\ sockCancel
    /\ UNCHANGED <<asyncVars, bufVars, sockVars, cancelling>>

SendReady ==
    /\ OpGoto("test", "ready") /\ ~sockCancel
    /\ UNCHANGED <<asyncVars, bufVars, sockVars, cancelling>>

SendScopeExit ==
    /\ \/ OpGoto("ready", "send") /\ UNCHANGED worker
       \/ OpGoto("cancelled", "read") /\ worker' = "raise"
    /\ sockCancel' = FALSE
    /\ UNCHANGED <<lifeVars, ctl, bufVars, batch, wire, cancelling>>

\* send() takes the bytes, or some of them; the worker goes round its loop
SendTakes(n) ==
    /\ OpGoto("send", "read")
    /\ n \in 1 .. batch /\ (n < batch => ShortSend)
    /\ wire' = wire \o [i \in 1 .. n |-> Len(taken) - batch + i]
    /\ batch' = 0
    /\ worker' = "can"
    /\ UNCHANGED <<lifeVars, ctl, bufVars, sockCancel, cancelling>>

\* Mutant of SendFails: the error is ignored and the bytes are forgotten.
SendFailsIgnored ==
    /\ SocketFails
    /\ OpGoto("send", "read")
    /\ batch' = 0
    /\ worker' = "can"
    /\ UNCHANGED <<lifeVars, ctl, bufVars, sockCancel, wire, cancelling>>

\* the connection is gone: CheckSocketReturn throws
SendFails ==
    /\ SocketFails
    /\ OpGoto("send", "read")
    /\ batch' = 0
    /\ worker' = "raise"
    /\ UNCHANGED <<lifeVars, ctl, bufVars, sockCancel, wire, cancelling>>
-----------------------------------------------------------------------------
(* Cancel: the socket first, then the three cancels of the ring            *)

\* Mutant of CancelStep: the thread that waits for the ring is forgotten.
CancelStepNoWait ==
    /\ \/ cancelling = 4 /\ sockCancel' = TRUE /\ UNCHANGED bufVars
       \/ cancelling = 3 /\ WB!CancelRead /\ UNCHANGED sockCancel
       \/ cancelling = 2 /\ WB!CancelWrite /\ UNCHANGED sockCancel
       \/ cancelling = 1 /\ UNCHANGED <<bufVars, sockCancel>>
    /\ cancelling' = cancelling - 1
    /\ UNCHANGED <<asyncVars, batch, wire, op>>

\* Another: the worker that waits for bytes is forgotten.
CancelStepNoRead ==
    /\ \/ cancelling = 4 /\ sockCancel' = TRUE /\ UNCHANGED bufVars
       \/ cancelling = 3 /\ UNCHANGED <<bufVars, sockCancel>>
       \/ cancelling = 2 /\ WB!CancelWrite /\ UNCHANGED sockCancel
       \/ cancelling = 1 /\ WB!CancelWait /\ UNCHANGED sockCancel
    /\ cancelling' = cancelling - 1
    /\ UNCHANGED <<asyncVars, batch, wire, op>>

CancelStep ==
    /\ \/ cancelling = 4 /\ sockCancel' = TRUE /\ UNCHANGED bufVars
       \/ cancelling = 3 /\ WB!CancelRead /\ UNCHANGED sockCancel
       \/ cancelling = 2 /\ WB!CancelWrite /\ UNCHANGED sockCancel
       \/ cancelling = 1 /\ WB!CancelWait /\ UNCHANGED sockCancel
    /\ cancelling' = cancelling - 1
    /\ UNCHANGED <<asyncVars, batch, wire, op>>

\* Cancel() called by an owner that is not closing the writer
Cancel(c) ==
    /\ ctl[c] = "idle" /\ cancelling = 0
    /\ cancelling' = 4
    /\ UNCHANGED <<asyncVars, bufVars, sockVars, op>>

\* Close: StopAsyncBase, with Cancel as its UnBlockWorkingThread
CloseEnter(c) ==
    /\ StopEnter(c)
    /\ cancelling' = IF m_status # "Stopped" THEN 4 ELSE 0
    /\ UNCHANGED <<bufVars, sockVars, op>>

CloseUnblocked(c) ==
    /\ CtlGoto(c, "unblock", "notify") /\ cancelling = 0
    /\ UNCHANGED <<lifeVars, worker, bufVars, sockVars, op, cancelling>>

CloseCall(c) == StopCall(c) /\ cancelling = 0 /\ UNCHANGED <<bufVars, sockVars, op, cancelling>>

CloseStep(c) ==
    \/ CloseEnter(c) \/ CloseUnblocked(c)
    \/ /\ StopNotify(c) \/ StopJoin(c) \/ StopJoined(c)
       /\ UNCHANGED <<bufVars, sockVars, op, cancelling>>
-----------------------------------------------------------------------------
LoopLife ==
    /\ CanLoopContinue \/ WorkloopReturned \/ WorkloopThrew
    /\ UNCHANGED <<bufVars, sockVars, op, cancelling>>

WorkerStep ==
    \/ LoopLife \/ LoopRead \/ LoopReadStep \/ LoopReadExit
    \/ SendCancelled \/ SendScopeExit \/ SendFails
    \/ \E n \in 1 .. MaxPkg : SendTakes(n)
=============================================================================
