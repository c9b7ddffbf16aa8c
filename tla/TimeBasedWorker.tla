-------------------------- MODULE TimeBasedWorker --------------------------
(***************************************************************************)
(* utility/private/common/timebased_worker.cpp over wait_timer.cpp: a      *)
(* worker that calls its listeners each time a wait runs its full length.  *)
(* RtspSession has two, the heart beat and the watch dog.                  *)
(*                                                                         *)
(* wait_timer::cancel only notifies: it leaves no flag behind, so a cancel *)
(* that comes before the worker is in wait_for is lost; and wait_for has   *)
(* no predicate, so a spurious wakeup looks like a cancel and ends the     *)
(* thread.                                                                 *)
(***************************************************************************)
EXTENDS AsyncBase

VARIABLES timer,     \* where the worker is in the body of its loop
          lateTicks  \* callbacks begun since m_status left Started

timerVars == <<asyncVars, timer, lateTicks>>

TimerOp == {"enter", "waiting", "woken", "callback"}

\* The state stays in its types and each mutex with the thread that locked it.
TimerTypeOK == AsyncTypeOK /\ timer \in TimerOp /\ lateTicks \in Nat

TimerInit == AsyncInit /\ timer = "enter" /\ lateTicks = 0

TimerGoto(from, to) == worker = "body" /\ timer = from /\ timer' = to
life == <<m_status, m_operationMutex, m_threadOpMutex, terminated, ctl>>

\* wait_timer::wait takes _mutex_ and blocks in wait_for
TimerWait ==
    /\ TimerGoto("enter", "waiting")
    /\ UNCHANGED <<life, worker, lateTicks>>

\* wait_for reports cv_status::timeout, and the callback is called
TimerExpired ==
    /\ TimerGoto("waiting", "callback")
    /\ lateTicks' = IF m_status = "Started" THEN 0 ELSE lateTicks + 1
    /\ UNCHANGED <<life, worker>>

\* wait_for returns before its time without a notify
SpuriousWakeup ==
    /\ TimerGoto("waiting", "woken")
    /\ UNCHANGED <<life, worker, lateTicks>>

\* Mutant of TimerWoken: the worker takes a wakeup for a stop.
TimerWokenStops ==
    /\ TimerGoto("woken", "enter")
    /\ worker' = "return" /\ m_status' = "Stopped"
    /\ UNCHANGED <<m_operationMutex, m_threadOpMutex, terminated, ctl, lateTicks>>

\* wait() returned false: the loop is left
TimerWoken ==
    /\ TimerGoto("woken", "enter")
    /\ worker' = "return"
    /\ UNCHANGED <<life, lateTicks>>

\* The callback returns; or it ends the worker with timebased_worker_cancel;
\* or it fails with ExceptionWithString.
CallbackDone ==
    /\ TimerGoto("callback", "enter")
    /\ worker' \in {"can", "return", "raise"}
    /\ UNCHANGED <<life, lateTicks>>

\* UnBlockWorkingThread: wait_timer::cancel
TimerUnBlockWorkingThread(c) ==
    /\ CtlGoto(c, "unblock", "notify")
    /\ timer' = IF timer = "waiting" THEN "woken" ELSE timer
    /\ UNCHANGED <<m_status, m_operationMutex, m_threadOpMutex, worker, terminated, lateTicks>>

TimerLife(A) ==
    /\ A
    /\ lateTicks' = IF m_status' = "Started" THEN 0 ELSE lateTicks
    /\ UNCHANGED timer

TimerStep ==
    \/ TimerLife(WorkerLifeStep)
    \/ TimerWait \/ TimerExpired \/ TimerWoken \/ CallbackDone

TimerNext ==
    \/ \E c \in Callers : TimerLife(Call(c)) \/ TimerLife(CallerStep(c)) \/ TimerUnBlockWorkingThread(c)
    \/ TimerStep
    \/ SpuriousWakeup

(***************************************************************************)
(* Every thread that can take a step takes it, and time passes: a wait     *)
(* that is not cut short expires.  Callbacks return.                       *)
(***************************************************************************)
TimerFairness ==
    /\ WF_timerVars(TimerStep)
    /\ \A c \in Callers : WF_timerVars(TimerLife(CallerStep(c)) \/ TimerUnBlockWorkingThread(c))

TimerSpec == TimerInit /\ [][TimerNext]_timerVars /\ TimerFairness
-----------------------------------------------------------------------------
(* Properties                                                              *)

\* A pause or a stop is followed by one callback at most, the one whose wait
\* was under way, even when the stop's cancel is lost.
AtMostOneLateTick == lateTicks <= 1

\* A stop returns though its cancel may be lost: the wait it missed expires
\* and CanLoopContinue ends the loop.
TimerStopReturns == \A c \in Callers : ctl[c] = "unblock" ~> ctl[c] = "idle"

\* A timer that stays started, and whose thread has not left its loop, calls
\* back again and again: no pause, resume, stop or restart leaves it asleep.
KeepsTicking ==
    []<>(\/ m_status # "Started" \/ timer = "callback"
         \/ worker \in {"raise", "return", "ended"})

\* The timer is an AsyncBase: nothing its loop or its UnBlockWorkingThread
\* does goes round the life cycle.
TimerImplementsAsyncBase == AsyncSpec
=============================================================================
