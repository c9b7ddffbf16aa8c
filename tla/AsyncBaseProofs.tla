-------------------------- MODULE AsyncBaseProofs --------------------------
(***************************************************************************)
(* The life cycle of AsyncBase, proved for any set of callers.  The        *)
(* invariants are not inductive alone: that a start finds no thread left   *)
(* (NoTerminate) rests on every stop joining before it returns             *)
(* (StoppedMeansJoined), on starts and stops that do not overlap           *)
(* (NoOverlap), and on m_operationMutex being held from the test of        *)
(* m_status to the creation of the thread (SpawnAlone).                    *)
(***************************************************************************)
EXTENDS AsyncBase, TLAPS

NoOverlap == \A c, d \in Callers : ~(Starting(c) /\ Stopping(d))

SpawnAlone ==
    \A c \in Callers : ctl[c] = "spawn" => m_status = "Started" /\ worker = "none"

\* The strengthening that every step preserves.
AsyncInv ==
    /\ AsyncTypeOK /\ NoOverlap /\ SpawnAlone
    /\ StoppedMeansJoined /\ NoTerminate /\ NoForgottenSleeper

LEMMA AsyncInvInit == AsyncInit => AsyncInv
  BY CallerAssumption
     DEF AsyncInit, AsyncInv, AsyncTypeOK, AsyncStateOK, MutexesHeld, NoOverlap,
         SpawnAlone, StoppedMeansJoined, NoTerminate, NoForgottenSleeper, Starting,
         Stopping, Status, Ctl, Worker

LEMMA AsyncInvStep == AsyncInv /\ [AsyncNext]_asyncVars => AsyncInv'
<1> SUFFICES ASSUME AsyncInv, [AsyncNext]_asyncVars PROVE AsyncInv'
  OBVIOUS
<1> USE CallerAssumption
    DEF AsyncInv, AsyncTypeOK, AsyncStateOK, MutexesHeld, NoOverlap, SpawnAlone,
        StoppedMeansJoined, NoTerminate, NoForgottenSleeper, Starting, Stopping,
        Status, Ctl, Worker, CtlGoto, LoopNotify
<1>1. ASSUME NEW c \in Callers, Call(c) PROVE AsyncInv'
  <2>1. CASE StartCall(c) /\ \A d \in Callers : ~Stopping(d)
    BY <2>1 DEF StartCall
  <2>2. CASE StopCall(c) /\ \A d \in Callers : ~Starting(d)
    BY <2>2 DEF StopCall
  <2>3. CASE Pause(c)
    BY <2>3 DEF Pause
  <2>4. CASE Resume(c)
    BY <2>4 DEF Resume
  <2> QED
    BY <1>1, <2>1, <2>2, <2>3, <2>4 DEF Call
<1>2. ASSUME NEW c \in Callers, CallerStep(c) PROVE AsyncInv'
  <2>1. CASE StartEnter(c)
    BY <2>1 DEF StartEnter
  <2>2. CASE StartSpawn(c)
    BY <2>2 DEF StartSpawn
  <2>3. CASE StopEnter(c)
    BY <2>3 DEF StopEnter
  <2>4. CASE StopNotify(c)
    BY <2>4 DEF StopNotify
  <2>5. CASE StopJoin(c)
    BY <2>5 DEF StopJoin
  <2>6. CASE StopJoined(c)
    BY <2>6 DEF StopJoined
  <2> QED
    BY <1>2, <2>1, <2>2, <2>3, <2>4, <2>5, <2>6 DEF CallerStep
<1>3. ASSUME NEW c \in Callers, UnBlocked(c) PROVE AsyncInv'
  BY <1>3 DEF UnBlocked
<1>4. CASE WorkerLifeStep
  BY <1>4 DEF WorkerLifeStep, CanLoopContinue, WorkloopReturned, WorkloopThrew
<1>5. CASE Body
  BY <1>5 DEF Body
<1>6. CASE UNCHANGED asyncVars
  BY <1>6 DEF asyncVars
<1> QED
  BY <1>1, <1>2, <1>3, <1>4, <1>5, <1>6 DEF AsyncNext

LEMMA AsyncInvariant == AsyncSpec => []AsyncInv
  BY AsyncInvInit, AsyncInvStep, PTL DEF AsyncSpec

\* The types of AsyncBase's state and the ownership of its two mutexes.
THEOREM AsyncTypes == AsyncSpec => []AsyncTypeOK
  BY AsyncInvariant, PTL DEF AsyncInv

\* StartAsyncBase never destroys a std::thread that is still joinable.
THEOREM NoTermination == AsyncSpec => []NoTerminate
  BY AsyncInvariant, PTL DEF AsyncInv

\* CanLoopContinue sleeps through no resume, start or stop.
THEOREM Sleepers == AsyncSpec => []NoForgottenSleeper
  BY AsyncInvariant, PTL DEF AsyncInv

\* StopAsyncBase returns only once the thread is joined.
THEOREM Joined == AsyncSpec => []StoppedMeansJoined
  BY AsyncInvariant, PTL DEF AsyncInv
=============================================================================
