----------------------------- MODULE AsyncBase -----------------------------
(***************************************************************************)
(* utility/private/common/AsyncBase.cpp: the life cycle that every worker  *)
(* thread of the program shares.  The module has the state and the steps;  *)
(* a derived class (AutoReader, TimeBasedWorker, AsyncWriter) EXTENDS or   *)
(* instantiates it, adds what its Workloop does between two calls of       *)
(* CanLoopContinue (worker = "body") and what its UnBlockWorkingThread     *)
(* does (ctl = "unblock"), and states the specification.                   *)
(*                                                                         *)
(* A step is a critical section of m_operationMutex, except where the code *)
(* calls out or blocks while it holds the mutex.                           *)
(***************************************************************************)
EXTENDS Naturals, FiniteSets

CONSTANTS Callers,   \* the threads that start, stop, pause and resume the worker
          NoThread   \* the holder of a free mutex

ASSUME CallerAssumption == NoThread \notin Callers

VARIABLES
    m_status,          \* Ti_Worker_Status
    m_operationMutex,  \* its holder, where a step leaves it locked
    m_threadOpMutex,
    worker,            \* where the working thread is; "none" = m_workingThread is null
    terminated,        \* std::terminate: a joinable std::thread was destroyed
    ctl                \* where each caller is

asyncVars == <<m_status, m_operationMutex, m_threadOpMutex, worker, terminated, ctl>>

Status  == {"Stopped", "Started", "Paused", "Error"}
Ctl     == {"idle", "start", "spawn", "stop", "unblock", "notify", "join", "joining"}
Worker  == {"none", "can", "paused", "body", "raise", "return", "ended"}
Stopping(c) == ctl[c] \in {"stop", "unblock", "notify", "join", "joining"}
Starting(c) == ctl[c] \in {"start", "spawn"}

AsyncStateOK ==
    /\ m_status \in Status
    /\ m_operationMutex \in Callers \cup {NoThread}
    /\ m_threadOpMutex \in Callers \cup {NoThread}
    /\ worker \in Worker
    /\ terminated \in BOOLEAN
    /\ ctl \in [Callers -> Ctl]

MutexesHeld ==
    \A c \in Callers : /\ m_operationMutex = c <=> ctl[c] \in {"spawn", "unblock", "notify"}
                       /\ m_threadOpMutex = c <=> ctl[c] = "joining"

\* The state stays in its types, and a mutex is held by exactly the caller that
\* is between its lock and its unlock.
AsyncTypeOK == AsyncStateOK /\ MutexesHeld

AsyncInit ==
    /\ m_status = "Stopped"
    /\ m_operationMutex = NoThread /\ m_threadOpMutex = NoThread
    /\ worker = "none" /\ terminated = FALSE
    /\ ctl = [c \in Callers |-> "idle"]

CtlGoto(c, from, to) == ctl[c] = from /\ ctl' = [ctl EXCEPT ![c] = to]

\* m_loopNotify.notify_all(): the worker tests CanLoopContinue's predicate again
LoopNotify == worker' = IF worker = "paused" THEN "can" ELSE worker
-----------------------------------------------------------------------------
(* StartAsyncBase                                                          *)

StartCall(c) ==
    /\ CtlGoto(c, "idle", "start")
    /\ UNCHANGED <<m_status, m_operationMutex, m_threadOpMutex, worker, terminated>>

\* A mutant: an object in error is restarted as if it were stopped.
StartEnterAfterError(c) ==
    /\ m_operationMutex = NoThread
    /\ m_status \in {"Stopped", "Error"} /\ CtlGoto(c, "start", "spawn")
    /\ m_status' = "Started" /\ m_operationMutex' = c
    /\ UNCHANGED <<m_threadOpMutex, worker, terminated>>

StartEnter(c) ==
    /\ m_operationMutex = NoThread
    /\ \/ /\ m_status = "Stopped" /\ CtlGoto(c, "start", "spawn")
          /\ m_status' = "Started" /\ m_operationMutex' = c
          /\ UNCHANGED worker
       \/ /\ m_status = "Paused" /\ CtlGoto(c, "start", "idle")
          /\ m_status' = "Started" /\ LoopNotify
          /\ UNCHANGED m_operationMutex
       \/ /\ m_status \in {"Started", "Error"} /\ CtlGoto(c, "start", "idle")
          /\ UNCHANGED <<m_status, m_operationMutex, worker>>
    /\ UNCHANGED <<m_threadOpMutex, terminated>>

\* m_workingThread.reset(new std::thread(...)), under both mutexes
StartSpawn(c) ==
    /\ CtlGoto(c, "spawn", "idle")
    /\ m_threadOpMutex = NoThread
    /\ terminated' = (terminated \/ worker # "none")
    /\ worker' = "can"
    /\ m_operationMutex' = NoThread
    /\ UNCHANGED <<m_status, m_threadOpMutex>>
-----------------------------------------------------------------------------
(* StopAsyncBase                                                           *)

StopCall(c) ==
    /\ CtlGoto(c, "idle", "stop")
    /\ UNCHANGED <<m_status, m_operationMutex, m_threadOpMutex, worker, terminated>>

\* A mutant: the mutex is given up before UnBlockWorkingThread.
StopEnterUnlocked(c) ==
    /\ m_operationMutex = NoThread
    /\ \/ /\ m_status # "Stopped" /\ CtlGoto(c, "stop", "unblock")
          /\ m_status' = "Stopped"
       \/ /\ m_status = "Stopped" /\ CtlGoto(c, "stop", "join")
          /\ UNCHANGED m_status
    /\ UNCHANGED <<m_operationMutex, m_threadOpMutex, worker, terminated>>

StopEnter(c) ==
    /\ m_operationMutex = NoThread
    /\ \/ /\ m_status # "Stopped" /\ CtlGoto(c, "stop", "unblock")
          /\ m_status' = "Stopped" /\ m_operationMutex' = c
       \/ /\ m_status = "Stopped" /\ CtlGoto(c, "stop", "join")
          /\ UNCHANGED <<m_status, m_operationMutex>>
    /\ UNCHANGED <<m_threadOpMutex, worker, terminated>>

\* A mutant: the loop is not notified.
StopNotifySilent(c) ==
    /\ CtlGoto(c, "notify", "join")
    /\ m_operationMutex' = NoThread
    /\ UNCHANGED <<m_status, m_threadOpMutex, worker, terminated>>

\* after UnBlockWorkingThread: notify, and the lock_guard's end
StopNotify(c) ==
    /\ CtlGoto(c, "notify", "join")
    /\ LoopNotify
    /\ m_operationMutex' = NoThread
    /\ UNCHANGED <<m_status, m_threadOpMutex, terminated>>

\* A mutant: the stop leaves the thread to end by itself.
StopJoinSkipped(c) ==
    /\ m_threadOpMutex = NoThread
    /\ CtlGoto(c, "join", "idle")
    /\ UNCHANGED <<m_status, m_operationMutex, m_threadOpMutex, worker, terminated>>

StopJoin(c) ==
    /\ m_threadOpMutex = NoThread
    /\ \/ worker = "none" /\ CtlGoto(c, "join", "idle") /\ UNCHANGED m_threadOpMutex
       \/ worker # "none" /\ CtlGoto(c, "join", "joining") /\ m_threadOpMutex' = c
    /\ UNCHANGED <<m_status, m_operationMutex, worker, terminated>>

StopJoined(c) ==
    /\ CtlGoto(c, "joining", "idle")
    /\ worker = "ended"
    /\ worker' = "none"
    /\ m_threadOpMutex' = NoThread
    /\ UNCHANGED <<m_status, m_operationMutex, terminated>>
-----------------------------------------------------------------------------
(* PauseAsyncBase and ResumeAsyncBase                                      *)

Pause(c) ==
    /\ ctl[c] = "idle" /\ m_operationMutex = NoThread
    /\ m_status = "Started" /\ m_status' = "Paused"
    /\ UNCHANGED <<m_operationMutex, m_threadOpMutex, worker, terminated, ctl>>

\* A mutant: the paused worker is not notified.
ResumeSilent(c) ==
    /\ ctl[c] = "idle" /\ m_operationMutex = NoThread
    /\ m_status = "Paused" /\ m_status' = "Started"
    /\ UNCHANGED <<m_operationMutex, m_threadOpMutex, worker, terminated, ctl>>

Resume(c) ==
    /\ ctl[c] = "idle" /\ m_operationMutex = NoThread
    /\ m_status = "Paused" /\ m_status' = "Started"
    /\ LoopNotify
    /\ UNCHANGED <<m_operationMutex, m_threadOpMutex, terminated, ctl>>
-----------------------------------------------------------------------------
(* The working thread                                                      *)

\* A mutant: any status but Stopped lets the loop go on, a pause included.
CanLoopIgnoringPause ==
    /\ worker = "can" /\ m_operationMutex = NoThread
    /\ worker' = IF m_status = "Stopped" THEN "return" ELSE "body"
    /\ UNCHANGED <<m_status, m_operationMutex, m_threadOpMutex, terminated, ctl>>

CanLoopContinue ==
    /\ worker = "can" /\ m_operationMutex = NoThread
    /\ worker' = CASE m_status = "Paused"  -> "paused"
                   [] m_status = "Started" -> "body"
                   [] OTHER                -> "return"
    /\ UNCHANGED <<m_status, m_operationMutex, m_threadOpMutex, terminated, ctl>>

\* Workloop() returned; the thread ends with m_status as it is
WorkloopReturned ==
    /\ worker = "return" /\ worker' = "ended"
    /\ UNCHANGED <<m_status, m_operationMutex, m_threadOpMutex, terminated, ctl>>

\* catch (ExceptionWithString&): m_status is written without the mutex
WorkloopThrew ==
    /\ worker = "raise" /\ worker' = "ended"
    /\ m_status' = "Error"
    /\ UNCHANGED <<m_operationMutex, m_threadOpMutex, terminated, ctl>>
-----------------------------------------------------------------------------
CallerStep(c) ==
    \/ StartEnter(c) \/ StartSpawn(c)
    \/ StopEnter(c) \/ StopNotify(c) \/ StopJoin(c) \/ StopJoined(c)

\* The program's discipline: a start and a stop of one object do not overlap
\* (every owner starts its object once and stops it afterwards).
Call(c) ==
    \/ StartCall(c) /\ \A d \in Callers : ~Stopping(d)
    \/ StopCall(c) /\ \A d \in Callers : ~Starting(d)
    \/ Pause(c) \/ Resume(c)

WorkerLifeStep == CanLoopContinue \/ WorkloopReturned \/ WorkloopThrew

(***************************************************************************)
(* What a derived class may do: UnBlockWorkingThread leaves the life cycle *)
(* alone, and the body of Workloop goes round, returns or throws.          *)
(***************************************************************************)
UnBlocked(c) ==
    /\ CtlGoto(c, "unblock", "notify")
    /\ UNCHANGED <<m_status, m_operationMutex, m_threadOpMutex, worker, terminated>>

Body ==
    /\ worker = "body" /\ worker' \in {"can", "raise", "return"}
    /\ UNCHANGED <<m_status, m_operationMutex, m_threadOpMutex, terminated, ctl>>

AsyncNext ==
    \/ \E c \in Callers : Call(c) \/ CallerStep(c) \/ UnBlocked(c)
    \/ WorkerLifeStep \/ Body

AsyncSpec == AsyncInit /\ [][AsyncNext]_asyncVars
-----------------------------------------------------------------------------
(* Properties                                                              *)

\* No std::thread is destroyed while it can be joined: a start never replaces
\* a thread that nobody has joined, after an error included.
NoTerminate == ~terminated

\* The worker sleeps in CanLoopContinue only while the object is paused, or
\* while the stop that will notify it is still inside m_operationMutex.
NoForgottenSleeper ==
    worker = "paused" =>
        m_status = "Paused" \/ \E c \in Callers : ctl[c] \in {"unblock", "notify"}

\* A stop that has returned leaves no thread behind: while nobody is inside
\* StartAsyncBase or StopAsyncBase, a stopped object has been joined.
StoppedMeansJoined ==
    (m_status = "Stopped" /\ \A c \in Callers : ~Stopping(c)) => worker = "none"
=============================================================================
