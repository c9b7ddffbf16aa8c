---------------------------- MODULE AutoReader -----------------------------
(***************************************************************************)
(* utility/private/common/AutoReader.cpp on a socket: a worker that loops  *)
(* over Socket::Recv and hands what it receives to its listeners.  The     *)
(* read side of TcpChannel and the redirector's HID, audio, touch and      *)
(* screen readers run the same loop.                                       *)
(*                                                                         *)
(* Socket::Recv blocks in WaitForReadReady, which polls with select and    *)
(* tests m_IsCancelRead in between; its ON_SCOPE_EXIT clears the flag      *)
(* however it is left, so a cancel that arrives while the call is being    *)
(* left is lost.                                                           *)
(***************************************************************************)
EXTENDS AsyncBase

VARIABLES m_IsCancelRead,  \* Socket's flag
          op,              \* where the worker is in Socket::Recv
          late             \* deliveries since m_status left Started

vars == <<asyncVars, m_IsCancelRead, op, late>>

Op == {"wait", "ready", "cancelled", "recv"}

\* The state stays in its types and each mutex with the thread that locked it.
TypeOK ==
    /\ AsyncTypeOK
    /\ m_IsCancelRead \in BOOLEAN
    /\ op \in Op
    /\ late \in Nat

Init ==
    /\ AsyncInit
    /\ m_IsCancelRead = FALSE /\ op = "wait" /\ late = 0

OpGoto(from, to) == worker = "body" /\ op = from /\ op' = to

\* WaitForReadReady finds the flag set and throws
RecvCancelled ==
    /\ OpGoto("wait", "cancelled")
    /\ m_IsCancelRead
    /\ UNCHANGED <<asyncVars, m_IsCancelRead, late>>

\* select reports the socket readable: data, the peer's close or an error
RecvReady ==
    /\ OpGoto("wait", "ready")
    /\ ~m_IsCancelRead
    /\ UNCHANGED <<asyncVars, m_IsCancelRead, late>>

\* ON_SCOPE_EXIT of WaitForReadReady
RecvScopeExit ==
    /\ \/ OpGoto("ready", "recv") /\ UNCHANGED worker
       \/ OpGoto("cancelled", "wait") /\ worker' = "raise"
    /\ m_IsCancelRead' = FALSE
    /\ UNCHANGED <<m_status, m_operationMutex, m_threadOpMutex, terminated, ctl, late>>

\* Mutant of Deliver: the reader stops by itself, behind AsyncBase's back.
DeliverAndStop ==
    /\ OpGoto("recv", "wait")
    /\ worker' = "return" /\ m_status' = "Stopped"
    /\ late' = 0
    /\ UNCHANGED <<m_operationMutex, m_threadOpMutex, terminated, ctl, m_IsCancelRead>>

\* recv returned data: the listeners are called and the loop goes round
Deliver ==
    /\ OpGoto("recv", "wait")
    /\ worker' = "can"
    /\ late' = IF m_status = "Started" THEN 0 ELSE late + 1
    /\ UNCHANGED <<m_status, m_operationMutex, m_threadOpMutex, terminated, ctl,
                   m_IsCancelRead>>

\* recv returned 0 or an error, or a listener threw
RecvFailed ==
    /\ OpGoto("recv", "wait")
    /\ worker' = "raise"
    /\ UNCHANGED <<m_status, m_operationMutex, m_threadOpMutex, terminated, ctl,
                   m_IsCancelRead, late>>

\* A mutant: the pending receive is not cancelled.
UnBlockNothing(c) ==
    /\ CtlGoto(c, "unblock", "notify")
    /\ UNCHANGED <<m_status, m_operationMutex, m_threadOpMutex, worker, terminated,
                   m_IsCancelRead, op, late>>

\* UnBlockWorkingThread: Socket::CancelRecv
UnBlockWorkingThread(c) ==
    /\ CtlGoto(c, "unblock", "notify")
    /\ m_IsCancelRead' = TRUE
    /\ UNCHANGED <<m_status, m_operationMutex, m_threadOpMutex, worker, terminated, op, late>>

\* A resume lets deliveries through again
Life(A) ==
    /\ A
    /\ late' = IF m_status' = "Started" THEN 0 ELSE late
    /\ UNCHANGED <<m_IsCancelRead, op>>

ReaderStep == RecvCancelled \/ RecvScopeExit \/ Deliver \/ RecvFailed
WorkerStep == Life(WorkerLifeStep) \/ ReaderStep
Next ==
    \/ \E c \in Callers : Life(Call(c)) \/ Life(CallerStep(c)) \/ UnBlockWorkingThread(c)
    \/ WorkerStep
    \/ RecvReady

(***************************************************************************)
(* Every thread that can take a step of its own takes it.  Nothing makes   *)
(* data arrive (RecvReady) and nothing makes a caller call.                *)
(***************************************************************************)
Fairness ==
    /\ WF_vars(WorkerStep)
    /\ \A c \in Callers : WF_vars(Life(CallerStep(c)) \/ UnBlockWorkingThread(c))

Spec == Init /\ [][Next]_vars /\ Fairness
-----------------------------------------------------------------------------
(* Properties                                                              *)

\* After a pause, a stop or an error at most the receive already under way is
\* still delivered.
AtMostOneLateDelivery == late <= 1

\* A stop that has changed the status returns, though its cancel may be lost
\* to a receive that is just being left and no data may ever arrive.
StopReturns == \A c \in Callers : ctl[c] = "unblock" ~> ctl[c] = "idle"

\* The reader is an AsyncBase: nothing its loop or its UnBlockWorkingThread
\* does goes round the life cycle.
ImplementsAsyncBase == AsyncSpec
=============================================================================
