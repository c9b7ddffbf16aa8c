--------------------------- MODULE WaitingBuffer ---------------------------
(***************************************************************************)
(* utility/include/WaitingBuffer.h: a ring of m_Size bytes shared by       *)
(* threads that write (WriteTillFinish), read (ReadAtless), wait for it to *)
(* drain (WaitTillBufferEmpty) and cancel one another (CancelRead,         *)
(* CancelWrite, CancelWait).                                               *)
(*                                                                         *)
(* A step is what a thread does while it holds m_BufMtx, or one access it  *)
(* makes without it: the test of m_IsCancelWrite at the head of the write  *)
(* loop, the notify_all after the unlock, the reset of the cancel flag on  *)
(* leaving the call.  A thread in a condition variable's wait has pc       *)
(* "wait"; notify_all moves every such thread on.                          *)
(***************************************************************************)
EXTENDS Integers, Sequences

CONSTANTS Size,        \* m_Size
          Writers, Readers, Waiters,  \* the threads, by the call they make
          NoThread,    \* the holder of a free mutex
          MaxLen,      \* bound: bytes asked for by one call
          MaxBytes     \* bound: bytes written in a behaviour

ASSUME SizeAssumption == Size \in Nat \ {0}
ASSUME BoundAssumption == MaxLen \in Nat /\ MaxBytes \in Nat
ASSUME ThreadAssumption ==
    /\ Writers \cap Readers = {} /\ Writers \cap Waiters = {}
    /\ Readers \cap Waiters = {}
    /\ NoThread \notin Writers \cup Readers

VARIABLES
    m_Buffer, m_Start, m_End, m_DataLen,              \* the ring
    m_IsCancelRead, m_IsCancelWrite, m_IsCancelWait,  \* the cancel flags
    m_WriteMtx, m_ReadMtx,                            \* holder of each call mutex
    pc,                 \* where each thread is
    sent, len,          \* writer: bytes of this call in the ring, bytes to go
    need, room,         \* reader: bytes still required, room in its buffer
    written, taken      \* history of the bytes that entered and left the ring

ring   == <<m_Buffer, m_Start, m_End, m_DataLen, written, taken>>
flags  == <<m_IsCancelRead, m_IsCancelWrite, m_IsCancelWait>>
mtxs   == <<m_WriteMtx, m_ReadMtx>>
locals == <<sent, len, need, room>>
vars   == <<ring, flags, mtxs, pc, locals>>

Threads == Writers \cup Readers \cup Waiters
Index   == 0 .. Size - 1

\* The i-th byte of a writer's call; the ring is born with arbitrary content.
Byte    == Writers \X (1 .. MaxLen)
Garbage == <<NoThread, 0>>

Min2(a, b) == IF a <= b THEN a ELSE b

Init ==
    /\ m_Buffer = [k \in Index |-> Garbage]
    /\ m_Start = 0 /\ m_End = 0 /\ m_DataLen = 0
    /\ m_IsCancelRead = FALSE /\ m_IsCancelWrite = FALSE /\ m_IsCancelWait = FALSE
    /\ m_WriteMtx = NoThread /\ m_ReadMtx = NoThread
    /\ pc = [t \in Threads |-> "idle"]
    /\ sent = [w \in Writers |-> 0] /\ len = [w \in Writers |-> 0]
    /\ need = [r \in Readers |-> 0] /\ room = [r \in Readers |-> 0]
    /\ written = <<>> /\ taken = <<>>

Goto(t, from, to) == pc[t] = from /\ pc' = [pc EXCEPT ![t] = to]

\* Thread t goes from a notify_all to the step "to"; the threads of T that
\* are in wait() go on to their next step, "woken".
NotifyAll(t, to, T, woken) ==
    /\ pc[t] = "notify"
    /\ pc' = [u \in Threads |-> IF u = t THEN to
                                ELSE IF u \in T /\ pc[u] = "wait" THEN woken
                                ELSE pc[u]]
-----------------------------------------------------------------------------
(* The ring.                                                               *)

\* WriteInternal: n bytes of w's buffer go to m_End and, past the end of the
\* array, to its beginning.
Filled(w, n) ==
    LET byte(i)  == <<w, sent[w] + i>>
        rightLen == Size - m_End
    IN  [k \in Index |->
            IF m_End + n <= Size
            THEN IF m_End <= k /\ k < m_End + n
                 THEN byte(k - m_End + 1) ELSE m_Buffer[k]
            ELSE IF m_End <= k THEN byte(k - m_End + 1)
                 ELSE IF k < n - rightLen THEN byte(rightLen + k + 1)
                      ELSE m_Buffer[k]]

\* Mutants of WriteInternal: the free space is not consulted; m_End runs off.
WriteInternalOverrun(w) ==
    /\ m_Buffer'  = Filled(w, Min2(Size, len[w]))
    /\ m_End'     = (m_End + len[w]) % Size
    /\ m_DataLen' = m_DataLen + len[w]
    /\ written'   = written \o [i \in 1 .. len[w] |-> <<w, sent[w] + i>>]
    /\ sent'      = [sent EXCEPT ![w] = @ + len[w]]
    /\ len'       = [len EXCEPT ![w] = 0]
    /\ UNCHANGED <<m_Start, taken>>

WriteInternalNoWrap(w) ==
    LET n == Min2(Size - m_DataLen, len[w])
    IN  /\ m_Buffer'  = Filled(w, n)
        /\ m_End'     = m_End + n
        /\ m_DataLen' = m_DataLen + n
        /\ written'   = written \o [i \in 1 .. n |-> <<w, sent[w] + i>>]
        /\ sent'      = [sent EXCEPT ![w] = @ + n]
        /\ len'       = [len EXCEPT ![w] = @ - n]
        /\ UNCHANGED <<m_Start, taken>>

WriteInternal(w) ==
    LET n == Min2(Size - m_DataLen, len[w])
    IN  /\ m_Buffer'  = Filled(w, n)
        /\ m_End'     = (m_End + n) % Size
        /\ m_DataLen' = m_DataLen + n
        /\ written'   = written \o [i \in 1 .. n |-> <<w, sent[w] + i>>]
        /\ sent'      = [sent EXCEPT ![w] = @ + n]
        /\ len'       = [len EXCEPT ![w] = @ - n]
        /\ UNCHANGED <<m_Start, taken>>

\* Mutant of Copied: the second memcpy starts one byte too far.
CopiedOffByOne(n) ==
    LET rightLen == Size - m_Start
    IN  [i \in 1 .. n |->
            IF m_Start + n <= Size \/ i <= rightLen
            THEN m_Buffer[m_Start + i - 1]
            ELSE m_Buffer[(i - rightLen) % Size]]

\* ReadInternal: n bytes from m_Start on, going round the end of the array.
Copied(n) ==
    LET rightLen == Size - m_Start
    IN  [i \in 1 .. n |->
            IF m_Start + n <= Size \/ i <= rightLen
            THEN m_Buffer[m_Start + i - 1]
            ELSE m_Buffer[i - rightLen - 1]]

ReadInternal(r) ==
    LET n == Min2(m_DataLen, room[r])
    IN  /\ taken'     = taken \o Copied(n)
        /\ m_Start'   = (m_Start + n) % Size
        /\ m_DataLen' = m_DataLen - n
        /\ need'      = [need EXCEPT ![r] = @ - n]
        /\ room'      = [room EXCEPT ![r] = @ - n]
        /\ UNCHANGED <<m_Buffer, m_End, written>>
-----------------------------------------------------------------------------
(* WriteTillFinish(buffer, n)                                              *)

WriteCall(w, n) ==
    /\ Goto(w, "idle", "lock")
    /\ Len(written) + n <= MaxBytes
    /\ sent' = [sent EXCEPT ![w] = 0]
    /\ len'  = [len EXCEPT ![w] = n]
    /\ UNCHANGED <<ring, flags, mtxs, need, room>>

\* Mutant of WriteLock: the call is not serialised by m_WriteMtx.
WriteLockFree(w) ==
    /\ Goto(w, "lock", "head")
    /\ m_WriteMtx' = w
    /\ UNCHANGED <<ring, flags, m_ReadMtx, locals>>

WriteLock(w) ==
    /\ Goto(w, "lock", "head")
    /\ m_WriteMtx = NoThread
    /\ m_WriteMtx' = w
    /\ UNCHANGED <<ring, flags, m_ReadMtx, locals>>

\* while (len > 0 && !m_IsCancelWrite), tested without m_BufMtx
WriteHead(w) ==
    /\ \/ len[w] > 0 /\ ~m_IsCancelWrite /\ Goto(w, "head", "body")
       \/ (len[w] = 0 \/ m_IsCancelWrite) /\ Goto(w, "head", "exit")
    /\ UNCHANGED <<ring, flags, mtxs, locals>>

WriteCancelled(w) ==
    /\ Goto(w, "body", "exit")
    /\ m_IsCancelWrite
    /\ UNCHANGED <<ring, flags, mtxs, locals>>

WriteSome(w) ==
    /\ Goto(w, "body", "notify")
    /\ ~m_IsCancelWrite /\ Size - m_DataLen > 0
    /\ WriteInternal(w)
    /\ UNCHANGED <<flags, mtxs, need, room>>

WriteWait(w) ==
    /\ Goto(w, "body", "wait")
    /\ ~m_IsCancelWrite /\ Size - m_DataLen = 0
    /\ UNCHANGED <<ring, flags, mtxs, locals>>

WriteNotify(w) ==
    /\ NotifyAll(w, "head", Readers, "body")
    /\ UNCHANGED <<ring, flags, mtxs, locals>>

\* ON_SCOPE_EXIT, then the release of m_WriteMtx and of the call's locals
WriteExit(w) ==
    /\ Goto(w, "exit", "idle")
    /\ m_IsCancelWrite' = FALSE
    /\ m_WriteMtx' = NoThread
    /\ sent' = [sent EXCEPT ![w] = 0]
    /\ len'  = [len EXCEPT ![w] = 0]
    /\ UNCHANGED <<ring, m_IsCancelRead, m_IsCancelWait, m_ReadMtx, need, room>>
-----------------------------------------------------------------------------
(* ReadAtless(buffer, n, atless)                                           *)

ReadCall(r, n, atless) ==
    /\ Goto(r, "idle", "lock")
    /\ need' = [need EXCEPT ![r] = atless]
    /\ room' = [room EXCEPT ![r] = n]
    /\ UNCHANGED <<ring, flags, mtxs, sent, len>>

ReadLock(r) ==
    /\ Goto(r, "lock", "body")
    /\ m_ReadMtx = NoThread
    /\ m_ReadMtx' = r
    /\ UNCHANGED <<ring, flags, m_WriteMtx, locals>>

ReadCancelled(r) ==
    /\ Goto(r, "body", "exit")
    /\ m_IsCancelRead
    /\ UNCHANGED <<ring, flags, mtxs, locals>>

ReadSome(r) ==
    /\ Goto(r, "body", "notify")
    /\ ~m_IsCancelRead /\ m_DataLen > 0
    /\ ReadInternal(r)
    /\ UNCHANGED <<flags, mtxs, sent, len>>

ReadWait(r) ==
    /\ Goto(r, "body", "wait")
    /\ ~m_IsCancelRead /\ m_DataLen = 0
    /\ UNCHANGED <<ring, flags, mtxs, locals>>

\* Mutant of ReadNotifyWrite: the blocked writers are not notified.
ReadNotifyNoWrite(r) ==
    /\ Goto(r, "notify", "notify2")
    /\ UNCHANGED <<ring, flags, mtxs, locals>>

\* m_WriteCV.notify_all(), then m_WaitCV.notify_all(): one step per call
ReadNotifyWrite(r) ==
    /\ NotifyAll(r, "notify2", Writers, "head")
    /\ UNCHANGED <<ring, flags, mtxs, locals>>

\* Mutant of ReadNotifyWait: the waiters for an empty ring are not notified.
ReadNotifyNoWait(r) ==
    /\ Goto(r, "notify2", IF need[r] > 0 THEN "body" ELSE "exit")
    /\ UNCHANGED <<ring, flags, mtxs, locals>>

ReadNotifyWait(r) ==
    /\ pc[r] = "notify2"
    /\ pc' = [u \in Threads |->
                IF u = r THEN IF need[r] > 0 THEN "body" ELSE "exit"
                ELSE IF u \in Waiters /\ pc[u] = "wait" THEN "check"
                ELSE pc[u]]
    /\ UNCHANGED <<ring, flags, mtxs, locals>>

\* Mutant of ReadExit: the scope guard resets the writers' flag.
ReadExitWrongFlag(r) ==
    /\ Goto(r, "exit", "idle")
    /\ m_IsCancelWrite' = FALSE
    /\ m_ReadMtx' = NoThread
    /\ need' = [need EXCEPT ![r] = 0]
    /\ room' = [room EXCEPT ![r] = 0]
    /\ UNCHANGED <<ring, m_IsCancelRead, m_IsCancelWait, m_WriteMtx, sent, len>>

ReadExit(r) ==
    /\ Goto(r, "exit", "idle")
    /\ m_IsCancelRead' = FALSE
    /\ m_ReadMtx' = NoThread
    /\ need' = [need EXCEPT ![r] = 0]
    /\ room' = [room EXCEPT ![r] = 0]
    /\ UNCHANGED <<ring, m_IsCancelWrite, m_IsCancelWait, m_WriteMtx, sent, len>>
-----------------------------------------------------------------------------
(* WaitTillBufferEmpty(): m_BufMtx is held from the test to the reset.      *)

WaitCall(t) ==
    /\ Goto(t, "idle", "check")
    /\ UNCHANGED <<ring, flags, mtxs, locals>>

WaitCheck(t) ==
    /\ \/ /\ m_DataLen = 0 \/ m_IsCancelWait
          /\ Goto(t, "check", "idle")
          /\ m_IsCancelWait' = FALSE
       \/ /\ m_DataLen > 0 /\ ~m_IsCancelWait
          /\ Goto(t, "check", "wait")
          /\ UNCHANGED m_IsCancelWait
    /\ UNCHANGED <<ring, m_IsCancelRead, m_IsCancelWrite, mtxs, locals>>
-----------------------------------------------------------------------------
(* The cancels set the flag and notify while they hold m_BufMtx.           *)

Woken(T, to) ==
    pc' = [u \in Threads |-> IF u \in T /\ pc[u] = "wait" THEN to ELSE pc[u]]

CancelRead ==
    /\ m_IsCancelRead' = TRUE
    /\ Woken(Readers, "body")
    /\ UNCHANGED <<ring, m_IsCancelWrite, m_IsCancelWait, mtxs, locals>>

CancelWrite ==
    /\ m_IsCancelWrite' = TRUE
    /\ Woken(Writers, "head")
    /\ UNCHANGED <<ring, m_IsCancelRead, m_IsCancelWait, mtxs, locals>>

CancelWait ==
    /\ m_IsCancelWait' = TRUE
    /\ Woken(Waiters, "check")
    /\ UNCHANGED <<ring, m_IsCancelRead, m_IsCancelWrite, mtxs, locals>>

\* wait() may return without a notify; only WaitTillBufferEmpty has a predicate.
SpuriousWakeup(t) ==
    /\ Goto(t, "wait", IF t \in Writers THEN "head"
                       ELSE IF t \in Readers THEN "body" ELSE "check")
    /\ UNCHANGED <<ring, flags, mtxs, locals>>
-----------------------------------------------------------------------------
WriteStep(w) ==
    \/ WriteLock(w) \/ WriteHead(w) \/ WriteCancelled(w) \/ WriteSome(w)
    \/ WriteWait(w) \/ WriteNotify(w) \/ WriteExit(w)

ReadStep(r) ==
    \/ ReadLock(r) \/ ReadCancelled(r) \/ ReadSome(r) \/ ReadWait(r)
    \/ ReadNotifyWrite(r) \/ ReadNotifyWait(r) \/ ReadExit(r)

Next ==
    \/ \E w \in Writers : WriteStep(w)
    \/ \E w \in Writers, n \in 0 .. MaxLen : WriteCall(w, n)
    \/ \E r \in Readers : ReadStep(r)
    \/ \E r \in Readers, n \in 1 .. MaxLen : \E atless \in 1 .. n : ReadCall(r, n, atless)
    \/ \E t \in Waiters : WaitCall(t) \/ WaitCheck(t)
    \/ CancelRead \/ CancelWrite \/ CancelWait
    \/ \E t \in Threads : SpuriousWakeup(t)

Spec == Init /\ [][Next]_vars

(***************************************************************************)
(* Fairness.  The operating system runs every thread that is ready, so a   *)
(* step of a call under way is not put off for ever.  Somebody keeps       *)
(* reading with a demand of at least one byte, as AsyncWriter's and        *)
(* TcpChannel's loops do.  Nothing makes a thread call, cancel or wake     *)
(* spuriously, and std::mutex promises nothing to those that queue on it.  *)
(***************************************************************************)
Fairness ==
    /\ \A w \in Writers : WF_vars(WriteStep(w))
    /\ \A r \in Readers : /\ WF_vars(ReadStep(r))
                          /\ WF_vars(\E n \in 1 .. MaxLen : ReadCall(r, n, 1))
    /\ \A t \in Waiters : WF_vars(WaitCheck(t))

FairSpec == Spec /\ Fairness
-----------------------------------------------------------------------------
(* Properties                                                              *)

WritePC == {"idle", "lock", "head", "body", "wait", "notify", "exit"}
ReadPC  == {"idle", "lock", "body", "wait", "notify", "notify2", "exit"}
WaitPC  == {"idle", "check", "wait"}

RingTypeOK ==
    /\ m_Buffer \in [Index -> Byte \cup {Garbage}]
    /\ m_Start \in Index /\ m_End \in Index /\ m_DataLen \in 0 .. Size
    /\ sent \in [Writers -> 0 .. MaxLen] /\ len \in [Writers -> 0 .. MaxLen]
    /\ need \in [Readers -> Int] /\ room \in [Readers -> Nat]
    /\ \A w \in Writers : sent[w] + len[w] <= MaxLen
    /\ \A r \in Readers : need[r] <= room[r]
    /\ written \in Seq(Byte) /\ taken \in Seq(Byte)

ControlTypeOK ==
    /\ m_IsCancelRead \in BOOLEAN /\ m_IsCancelWrite \in BOOLEAN
    /\ m_IsCancelWait \in BOOLEAN
    /\ m_WriteMtx \in Writers \cup {NoThread}
    /\ m_ReadMtx \in Readers \cup {NoThread}
    /\ DOMAIN pc = Threads
    /\ \A w \in Writers : pc[w] \in WritePC
    /\ \A r \in Readers : pc[r] \in ReadPC
    /\ \A t \in Waiters : pc[t] \in WaitPC

\* The indices stay inside the array, the counters inside their calls and
\* each thread inside the code of the call it makes.
TypeOK == RingTypeOK /\ ControlTypeOK

\* Between m_WriteMtx's lock and unlock there is one writer, and one reader
\* between m_ReadMtx's: what WriteTillFinish and ReadAtless rely on to own the
\* cancel flag they reset.
OneCallAtATime ==
    /\ \A w \in Writers : pc[w] \notin {"idle", "lock"} <=> m_WriteMtx = w
    /\ \A r \in Readers : pc[r] \notin {"idle", "lock"} <=> m_ReadMtx = r

\* The ring holds, from m_Start on and round the end of the array, exactly
\* the bytes written and not yet taken, and what was taken is what was
\* written: the arithmetic of WriteInternal and ReadInternal loses, repeats
\* and reorders nothing, whatever the lengths and wherever the ring wraps.
RingHoldsStream ==
    /\ m_End = (m_Start + m_DataLen) % Size
    /\ Len(written) = Len(taken) + m_DataLen
    /\ \A i \in 1 .. Len(taken) : taken[i] = written[i]
    /\ \A i \in 1 .. m_DataLen :
          written[Len(taken) + i] = m_Buffer[(m_Start + i - 1) % Size]

\* The bytes of one WriteTillFinish are contiguous in the stream: a call that
\* finds the ring full and waits half-way is not interleaved with another
\* writer's call, so a message sent in one call arrives in one piece.
CallsContiguous ==
    \A i \in 1 .. Len(written) :
        written[i][2] > 1 =>
            /\ i > 1
            /\ written[i - 1][1] = written[i][1]
            /\ written[i - 1][2] = written[i][2] - 1

\* Nobody sleeps on a condition that holds already with no notify under way:
\* the notify_all after the unlock, and the waits without a predicate, lose
\* no wakeup, and a cancel never finds its target asleep.
NoLostWakeup ==
    /\ \A w \in Writers : pc[w] = "wait" =>
          /\ ~m_IsCancelWrite
          /\ m_DataLen = Size \/ \E r \in Readers : pc[r] = "notify"
    /\ \A r \in Readers : pc[r] = "wait" =>
          /\ ~m_IsCancelRead
          /\ m_DataLen = 0 \/ \E w \in Writers : pc[w] = "notify"
    /\ \A t \in Waiters : pc[t] = "wait" =>
          \/ m_DataLen > 0
          \/ \E r \in Readers : pc[r] \in {"notify", "notify2"}

\* WriteTillFinish leaves with bytes unwritten, and ReadAtless short of what
\* it must read, only because of a cancel, which is still standing when the
\* call is about to reset it.
ShortOnlyIfCancelled ==
    /\ \A w \in Writers : pc[w] = "exit" /\ len[w] > 0 => m_IsCancelWrite
    /\ \A r \in Readers : pc[r] = "exit" /\ need[r] > 0 => m_IsCancelRead

\* Seen from its two ends the buffer is a bounded FIFO of Size bytes.
Fifo == INSTANCE BoundedFifo WITH Capacity <- Size
ImplementsFifo == Fifo!Spec

\* A writer that got in gets out: while somebody reads, and the reads are not
\* cancelled over and over, a full ring does not block WriteTillFinish for ever.
WriteFinishes ==
    <>[]~m_IsCancelRead => \A w \in Writers : m_WriteMtx = w ~> m_WriteMtx # w
=============================================================================
