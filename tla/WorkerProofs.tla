---------------------------- MODULE WorkerProofs ----------------------------
(***************************************************************************)
(* The reader's loop and the timer's: both refine AsyncBase's life cycle,  *)
(* and so inherit what AsyncBaseProofs shows; and of each a pause or a     *)
(* stop lets one delivery, or one callback, through at most, though a      *)
(* cancel may be lost.                                                     *)
(***************************************************************************)
EXTENDS AutoReader, TimeBasedWorker, AsyncBaseProofs

-----------------------------------------------------------------------------
(* AutoReader                                                              *)

\* Each step of the reader is a step of AsyncBase or leaves it alone.
LEMMA ReaderStepIsAsync == [Next]_vars => [AsyncNext]_asyncVars
<1> SUFFICES ASSUME [Next]_vars PROVE [AsyncNext]_asyncVars
  OBVIOUS
<1>1. ASSUME NEW c \in Callers, Life(Call(c)) \/ Life(CallerStep(c))
      PROVE  AsyncNext
  BY <1>1 DEF Life, AsyncNext
<1>2. ASSUME NEW c \in Callers, UnBlockWorkingThread(c) PROVE AsyncNext
  BY <1>2 DEF UnBlockWorkingThread, UnBlocked, AsyncNext
<1>3. CASE Life(WorkerLifeStep)
  BY <1>3 DEF Life, AsyncNext
<1>4. CASE RecvCancelled \/ RecvReady
  BY <1>4 DEF RecvCancelled, RecvReady
<1>5. CASE RecvScopeExit
  BY <1>5 DEF RecvScopeExit, OpGoto, AsyncNext, Body, asyncVars
<1>6. CASE Deliver \/ RecvFailed
  BY <1>6 DEF Deliver, RecvFailed, OpGoto, AsyncNext, Body
<1>7. CASE UNCHANGED vars
  BY <1>7 DEF vars
<1> QED
  BY <1>1, <1>2, <1>3, <1>4, <1>5, <1>6, <1>7 DEF Next, WorkerStep, ReaderStep

\* AutoReader's loop and its UnBlockWorkingThread keep to AsyncBase's life cycle.
THEOREM ReaderRefinement == Spec => ImplementsAsyncBase
<1>1. Init => AsyncInit
  BY DEF Init
<1> QED
  BY <1>1, ReaderStepIsAsync, PTL DEF Spec, ImplementsAsyncBase, AsyncSpec

\* A reader's thread is never replaced unjoined.
THEOREM ReaderNoTermination == Spec => []NoTerminate
  BY ReaderRefinement, NoTermination, PTL DEF ImplementsAsyncBase
-----------------------------------------------------------------------------
(* AtMostOneLateDelivery: once a delivery is late the status is not        *)
(* Started, and the worker is out of the body until it is.                 *)

ReaderTypeOK == m_IsCancelRead \in BOOLEAN /\ op \in Op /\ late \in Nat

LateInv ==
    /\ late \in 0 .. 1
    /\ late > 0 => m_status # "Started" /\ worker # "body"

LEMMA LateInvInit == Init => ReaderTypeOK /\ LateInv
<1> SUFFICES ASSUME Init PROVE ReaderTypeOK /\ LateInv
  OBVIOUS
<1>1. m_IsCancelRead \in BOOLEAN
  BY Zenon DEF Init
<1> QED
  BY <1>1, SMT DEF Init, AsyncInit, ReaderTypeOK, LateInv, Op

LEMMA LateInvStep ==
    AsyncTypeOK /\ ReaderTypeOK /\ LateInv /\ [Next]_vars => ReaderTypeOK' /\ LateInv'
<1> SUFFICES ASSUME AsyncTypeOK, ReaderTypeOK, LateInv, [Next]_vars
             PROVE  ReaderTypeOK' /\ LateInv'
  OBVIOUS
<1> USE DEF ReaderTypeOK, LateInv, Op, OpGoto
\* what a step of the life cycle does to the status and the worker
<1>1. ASSUME late' = IF m_status' = "Started" THEN 0 ELSE late,
             UNCHANGED <<m_IsCancelRead, op>>,
             m_status' = "Started" \/ worker' # "body" \/ worker = "body"
      PROVE  ReaderTypeOK' /\ LateInv'
  <2>1. m_IsCancelRead' \in BOOLEAN
    BY <1>1, Zenon
  <2>2. op' \in Op /\ late' \in Nat /\ LateInv'
    BY <1>1, SMT
  <2> QED
    BY <2>1, <2>2, Zenon
<1>2. ASSUME NEW c \in Callers, Call(c) \/ CallerStep(c)
      PROVE  m_status' = "Started" \/ worker' # "body" \/ worker = "body"
  BY <1>2 DEF Call, CallerStep, StartCall, StopCall, Pause, Resume, StartEnter, StartSpawn,
              StopEnter, StopNotify, StopJoin, StopJoined, LoopNotify
<1>3. WorkerLifeStep => m_status' = "Started" \/ worker' # "body" \/ worker = "body"
  BY DEF WorkerLifeStep, CanLoopContinue, WorkloopReturned, WorkloopThrew
<1>4. CASE ReaderStep \/ RecvReady
  <2> USE <1>4 DEF ReaderStep, RecvReady, RecvCancelled, RecvScopeExit, Deliver, RecvFailed,
                   asyncVars
  <2>1. m_IsCancelRead' \in BOOLEAN
    BY Zenon
  <2>2. op' \in Op /\ late' \in Nat /\ LateInv'
    BY SMT
  <2> QED
    BY <2>1, <2>2, Zenon
<1>5. ASSUME NEW c \in Callers, UnBlockWorkingThread(c) PROVE ReaderTypeOK' /\ LateInv'
  BY <1>5 DEF UnBlockWorkingThread
<1>6. CASE UNCHANGED vars
  BY <1>6 DEF vars, asyncVars
<1> QED
  BY <1>1, <1>2, <1>3, <1>4, <1>5, <1>6 DEF Next, WorkerStep, Life

\* After a pause, a stop or an error one delivery at most, in every behaviour.
THEOREM ReaderLate == Spec => []AtMostOneLateDelivery
<1>1. Spec => []AsyncTypeOK
  BY ReaderRefinement, AsyncTypes, PTL DEF ImplementsAsyncBase
<1>2. LateInv => AtMostOneLateDelivery
  BY DEF LateInv, AtMostOneLateDelivery
<1> QED
  BY LateInvInit, <1>1, <1>2, LateInvStep, PTL DEF Spec

\* The reader's types, and the mutexes of its AsyncBase.
THEOREM ReaderTypes == Spec => []TypeOK
<1>1. Spec => []AsyncTypeOK
  BY ReaderRefinement, AsyncTypes, PTL DEF ImplementsAsyncBase
<1>2. AsyncTypeOK /\ ReaderTypeOK => TypeOK
  BY DEF TypeOK, ReaderTypeOK
<1> QED
  BY LateInvInit, <1>1, <1>2, LateInvStep, PTL DEF Spec
-----------------------------------------------------------------------------
(* TimeBasedWorker                                                         *)

\* Each step of the timer is a step of AsyncBase or leaves it alone.
LEMMA TimerStepIsAsync == [TimerNext]_timerVars => [AsyncNext]_asyncVars
<1> SUFFICES ASSUME [TimerNext]_timerVars PROVE [AsyncNext]_asyncVars
  OBVIOUS
<1>1. ASSUME NEW c \in Callers, TimerLife(Call(c)) \/ TimerLife(CallerStep(c))
      PROVE  AsyncNext
  BY <1>1 DEF TimerLife, AsyncNext
<1>2. ASSUME NEW c \in Callers, TimerUnBlockWorkingThread(c) PROVE AsyncNext
  BY <1>2 DEF TimerUnBlockWorkingThread, UnBlocked, AsyncNext
<1>3. CASE TimerLife(WorkerLifeStep)
  BY <1>3 DEF TimerLife, AsyncNext
<1>4. CASE TimerWait \/ TimerExpired \/ SpuriousWakeup
  BY <1>4 DEF TimerWait, TimerExpired, SpuriousWakeup, life, asyncVars
<1>5. CASE TimerWoken \/ CallbackDone
  BY <1>5 DEF TimerWoken, CallbackDone, TimerGoto, life, AsyncNext, Body
<1>6. CASE UNCHANGED timerVars
  BY <1>6 DEF timerVars
<1> QED
  BY <1>1, <1>2, <1>3, <1>4, <1>5, <1>6 DEF TimerNext, TimerStep

\* TimeBasedWorker's loop and its UnBlockWorkingThread keep to AsyncBase's life cycle.
THEOREM TimerRefinement == TimerSpec => TimerImplementsAsyncBase
<1>1. TimerInit => AsyncInit
  BY DEF TimerInit
<1> QED
  BY <1>1, TimerStepIsAsync, PTL DEF TimerSpec, TimerImplementsAsyncBase, AsyncSpec

\* Once a callback is late the status is not Started, and the worker waits no
\* more until it is: it is in that callback or out of the body.
TickInv ==
    /\ timer \in TimerOp /\ lateTicks \in 0 .. 1
    /\ lateTicks > 0 => m_status # "Started" /\ (worker = "body" => timer = "callback")

LEMMA TickInvStep == TickInv /\ [TimerNext]_timerVars => TickInv'
<1> SUFFICES ASSUME TickInv, [TimerNext]_timerVars PROVE TickInv'
  OBVIOUS
<1> USE DEF TickInv, TimerOp, TimerGoto
\* what a step of the life cycle does to the status and the worker
<1>1. ASSUME lateTicks' = IF m_status' = "Started" THEN 0 ELSE lateTicks, UNCHANGED timer,
             m_status' = "Started" \/ worker' # "body" \/ worker = "body"
      PROVE  TickInv'
  BY <1>1
<1>2. ASSUME NEW c \in Callers, Call(c) \/ CallerStep(c)
      PROVE  m_status' = "Started" \/ worker' # "body" \/ worker = "body"
  BY <1>2 DEF Call, CallerStep, StartCall, StopCall, Pause, Resume, StartEnter, StartSpawn,
              StopEnter, StopNotify, StopJoin, StopJoined, LoopNotify
<1>3. WorkerLifeStep => m_status' = "Started" \/ worker' # "body" \/ worker = "body"
  BY DEF WorkerLifeStep, CanLoopContinue, WorkloopReturned, WorkloopThrew
<1>4. CASE TimerWait \/ TimerExpired \/ SpuriousWakeup \/ TimerWoken \/ CallbackDone
  BY <1>4 DEF TimerWait, TimerExpired, SpuriousWakeup, TimerWoken, CallbackDone, life
<1>5. ASSUME NEW c \in Callers, TimerUnBlockWorkingThread(c) PROVE TickInv'
  BY <1>5 DEF TimerUnBlockWorkingThread
<1>6. CASE UNCHANGED timerVars
  BY <1>6 DEF timerVars, asyncVars
<1> QED
  BY <1>1, <1>2, <1>3, <1>4, <1>5, <1>6 DEF TimerNext, TimerStep, TimerLife

LEMMA TickInvariant == TimerSpec => []TickInv
<1>1. TimerInit => TickInv
  BY DEF TimerInit, AsyncInit, TickInv, TimerOp
<1> QED
  BY <1>1, TickInvStep, PTL DEF TimerSpec

\* After a pause, a stop or an error one callback at most, in every behaviour.
THEOREM TimerLate == TimerSpec => []AtMostOneLateTick
<1>1. TickInv => AtMostOneLateTick
  BY DEF TickInv, AtMostOneLateTick
<1> QED
  BY <1>1, TickInvariant, PTL

\* The timer's types, and the mutexes of its AsyncBase.
THEOREM TimerTypes == TimerSpec => []TimerTypeOK
<1>1. TimerSpec => []AsyncTypeOK
  BY TimerRefinement, AsyncTypes, PTL DEF TimerImplementsAsyncBase
<1>2. AsyncTypeOK /\ TickInv => TimerTypeOK
  BY DEF TimerTypeOK, TickInv
<1> QED
  BY <1>1, <1>2, TickInvariant, PTL
=============================================================================
