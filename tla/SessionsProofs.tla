--------------------------- MODULE SessionsProofs ---------------------------
(***************************************************************************)
(* For any number of sessions and addresses: the sessions' types, and that *)
(* a session is destroyed only after an event of its own or after one too  *)
(* many of an earlier session at its address.                              *)
(***************************************************************************)
EXTENDS Sessions, TLAPS

\* A session that Remove would find in the list, now or after Add
Held(n) == n \in sessions \/ (main.pc = "add" /\ main.session = n)

\* What justifies the end of session n
Justified(n) ==
    \/ sess[n].fired > 0
    \/ \E m \in 1 .. n - 1 : sess[m].at = sess[n].at /\ sess[m].fired > 1

\* Has an event at this address come more than once from one session?
Twice(a) == \E m \in Ids : sess[m].at = a /\ sess[m].fired > 1

\* Sessions begin in their order, and fire after that.
Ordered ==
    \A n \in Ids :
       /\ sess[n].state = "none" => sess[n].fired = 0
       /\ sess[n].state # "none" => \A m \in 1 .. n - 1 : sess[m].state # "none"

\* No session begins at the address of an object that is there.
AddressesApart ==
    \A n \in Alive, m \in Ids :
       m > n /\ sess[m].state # "none" => sess[m].at # sess[n].at

\* Main's session and the one that Remove destroys are different objects, and
\* neither is listed once its destruction may begin.
Owned ==
    /\ main.pc \in {"add", "release", "destroy"} <=> main.session # 0
    /\ main.pc \in {"add", "release"} => sess[main.session].state = "live"
    /\ main.pc = "destroy" => /\ main.session \in Alive /\ main.session \notin sessions
    /\ holder # 0 => /\ holder \in Alive /\ holder \notin sessions /\ holder # main.session

\* Whoever is in no list any more had a reason to leave it.
LeftForReason ==
    \A n \in Ids : sess[n].state # "none" /\ ~Held(n) => Justified(n)

\* A thread on its way to Remove was sent by a session that can still be found,
\* and is the only one, as long as no session at the address has fired twice.
PendingForHeld ==
    \A a \in Addrs : pending[a] > 0 =>
       \/ Twice(a)
       \/ pending[a] = 1 /\ \E n \in Ids : sess[n].at = a /\ sess[n].fired = 1 /\ Held(n)

SessionsRest == Ordered /\ AddressesApart /\ Owned /\ LeftForReason /\ PendingForHeld
SessionsInv == TypeOK /\ SessionsRest

USE SessionsAssumption

\* Nothing has connected: the invariant holds.
LEMMA InitInv == Init => SessionsInv
<1> SUFFICES ASSUME Init PROVE SessionsInv
  OBVIOUS
<1>0. (CHOOSE a \in Addrs : TRUE) \in Addrs
  OBVIOUS
<1>1. sess \in [Ids -> SessionType]
  <2>1. PICK c \in Addrs :
          sess = [n \in Ids |-> [state |-> "none", at |-> c, peer |-> "ok", worker |-> "serve",
                                 hid |-> "none", fired |-> 0]]
    BY <1>0, Zenon DEF Init
  <2> QED
    BY <2>1 DEF SessionType
<1>2. \A n \in Ids : sess[n].state = "none" /\ sess[n].fired = 0
  BY DEF Init
<1>3. TypeOK
  <2>1. /\ main = [pc |-> "accept", session |-> 0] /\ sessions = {} /\ holder = 0 /\ garbled = 0
        /\ pending = [a \in Addrs |-> 0]
    BY Zenon DEF Init
  <2> QED
    BY <1>1, <2>1 DEF TypeOK, MainType
<1>4. Ordered /\ AddressesApart
  BY <1>2 DEF Ordered, AddressesApart, Alive, Ids
<1>5. Owned
  BY DEF Init, Owned
<1>6. LeftForReason
  BY <1>2 DEF LeftForReason
<1>7. PendingForHeld
  BY DEF Init, PendingForHeld
<1> QED
  BY <1>3, <1>4, <1>5, <1>6, <1>7 DEF SessionsInv, SessionsRest
-----------------------------------------------------------------------------
(* Types                                                                   *)

\* Every step of main, the sessions' threads and Remove keeps the types.
LEMMA TypeStep == TypeOK /\ Owned /\ [Next]_vars => TypeOK'
<1> SUFFICES ASSUME TypeOK, Owned, [Next]_vars PROVE TypeOK'
  OBVIOUS
<1>1. CASE Connect
  <2>1. PICK n \in Ids, a \in Addrs :
          /\ sess[n].state = "none"
          /\ \/ main' = [main EXCEPT !.pc = "terminated"] /\ UNCHANGED sess
             \/ /\ sess' = [sess EXCEPT ![n].state = "live", ![n].at = a]
                /\ main' = [pc |-> "add", session |-> n]
    BY <1>1 DEF Connect
  <2>2. main' \in MainType
    BY <2>1 DEF MainType, Ids, TypeOK
  <2>3. sess' \in [Ids -> SessionType]
    BY <2>1 DEF SessionType, TypeOK
  <2>4. \A m \in sessions : sess'[m].state = "live"
    BY <2>1 DEF TypeOK
  <2> QED
    BY <2>2, <2>3, <2>4, <1>1 DEF Connect, TypeOK
<1>2. CASE MainStep
  <2>1. main' \in MainType
    BY <1>2 DEF MainStep, Add, Release, MainType, TypeOK
  <2>2. sessions' \subseteq Ids /\ \A n \in sessions' : sess[n].state = "live"
    BY <1>2 DEF MainStep, Add, Release, Owned, MainType, Ids, TypeOK
  <2> QED
    BY <2>1, <2>2, <1>2 DEF MainStep, Add, Release, TypeOK
<1>3. ASSUME NEW n \in Ids,
             PeerLeaves(n) \/ WorkerAccepts(n) \/ WorkerAccepted(n) \/ HidSends(n) \/ HidSent(n)
      PROVE  TypeOK'
  <2>1. sess' \in [Ids -> SessionType]
    BY <1>3 DEF PeerLeaves, WorkerAccepts, WorkerAccepted, HidSends, HidSent, SessionType, TypeOK
  <2>2. \A m \in Ids : sess'[m].state = sess[m].state
    BY <1>3 DEF PeerLeaves, WorkerAccepts, WorkerAccepted, HidSends, HidSent, SessionType, TypeOK
  <2> QED
    BY <2>1, <2>2, <1>3 DEF PeerLeaves, WorkerAccepts, WorkerAccepted, HidSends, HidSent, TypeOK
<1>4. ASSUME NEW n \in Ids, WorkerEnds(n) \/ Watchdog(n) PROVE TypeOK'
  <2>1. PICK w \in {"serve", "accept", "ended"} :
          /\ \/ sess' = [sess EXCEPT ![n].worker = w]
             \/ sess' = [sess EXCEPT ![n].worker = w, ![n].fired = IF @ = 0 THEN 1 ELSE 2]
          /\ pending' = pending \/ pending' = [pending EXCEPT ![sess[n].at] = @ + 1]
          /\ garbled' = garbled \/ (garbled < MaxGarbled /\ garbled' = garbled + 1)
    <3>1. CASE WorkerEnds(n)
      BY <3>1 DEF WorkerEnds, Fire, TypeOK
    <3>2. CASE Watchdog(n)
      <4>1. sess[n].worker \in {"serve", "accept", "ended"}
        BY DEF TypeOK, SessionType
      <4> WITNESS sess[n].worker \in {"serve", "accept", "ended"}
      <4> QED
        BY <3>2 DEF Watchdog, Fire, TypeOK, SessionType
    <3> QED
      BY <1>4, <3>1, <3>2
  <2>2. sess' \in [Ids -> SessionType]
    BY <2>1 DEF SessionType, TypeOK
  <2>3. \A m \in sessions : sess'[m].state = sess[m].state
    BY <2>1 DEF TypeOK, SessionType
  <2>4. pending' \in [Addrs -> Nat] /\ garbled' \in 0 .. MaxGarbled
    BY <2>1 DEF TypeOK
  <2> QED
    BY <2>2, <2>3, <2>4, <1>4 DEF WorkerEnds, Watchdog, TypeOK
<1>6. ASSUME NEW n \in Ids, Destroy(n) PROVE TypeOK'
  <2>1. sess' \in [Ids -> SessionType]
    BY <1>6 DEF Destroy, DestroyStop, DestroyClose, DestroyBlocks, DestroyDone, SessionType, TypeOK
  <2>2. n \notin sessions
    BY <1>6 DEF Destroy, DestroyStop, DestroyClose, DestroyBlocks, DestroyDone, Destroying, Owned, Ids
  <2>3. \A m \in sessions : sess'[m].state = sess[m].state
    BY <2>2, <1>6 DEF Destroy, DestroyStop, DestroyClose, DestroyBlocks, DestroyDone, TypeOK
  <2>4. main' \in MainType /\ holder' \in 0 .. MaxSessions
    BY <1>6 DEF Destroy, DestroyStop, DestroyClose, DestroyBlocks, DestroyDone, TypeOK, MainType
  <2> QED
    BY <2>1, <2>3, <2>4, <1>6 DEF Destroy, DestroyStop, DestroyClose, DestroyBlocks, DestroyDone, TypeOK
<1>7. ASSUME NEW a \in Addrs, Remove(a) PROVE TypeOK'
  <2>1. sessions' \subseteq sessions /\ holder' \in {holder} \cup sessions
    BY <1>7, Zenon DEF Remove
  <2>2. pending' \in [Addrs -> Nat]
    BY <1>7 DEF Remove, TypeOK
  <2>3. holder' \in 0 .. MaxSessions
    BY <2>1 DEF TypeOK, Ids
  <2> QED
    BY <2>1, <2>2, <2>3, <1>7 DEF Remove, TypeOK
<1>8. CASE UNCHANGED vars
  BY <1>8 DEF vars, TypeOK
<1> QED
  BY <1>1, <1>2, <1>3, <1>4, <1>6, <1>7, <1>8 DEF Next, Worker
-----------------------------------------------------------------------------
(* The rest of the invariant, by what a step does to it                    *)

\* A step that neither begins nor fires nor ends a session, nor moves main
LEMMA FrameStep ==
    ASSUME TypeOK, TypeOK', SessionsRest, UNCHANGED <<main, sessions, pending, holder>>,
           \A n \in Ids : /\ sess'[n].state = sess[n].state /\ sess'[n].at = sess[n].at
                          /\ sess'[n].fired = sess[n].fired
    PROVE  SessionsRest'
<1> USE DEF Ids
<1>1. Ordered'
  BY DEF SessionsRest, Ordered
<1>2. AddressesApart' /\ Alive' = Alive
  BY DEF SessionsRest, AddressesApart, Alive
<1>3. Owned'
  BY <1>2 DEF SessionsRest, Owned, TypeOK, MainType
<1>4. \A n \in Ids : (Held(n)' <=> Held(n)) /\ (Justified(n)' <=> Justified(n))
  <2> TAKE n \in Ids
  <2>1. \A m \in 1 .. n - 1 : m \in Ids
    OBVIOUS
  <2> QED
    BY <2>1 DEF Held, Justified
<1>5. LeftForReason'
  BY <1>4 DEF SessionsRest, LeftForReason
<1>6. PendingForHeld'
  BY <1>4 DEF SessionsRest, PendingForHeld, Twice
<1> QED
  BY <1>1, <1>2, <1>3, <1>5, <1>6 DEF SessionsRest

\* DisconnectedEvent of an object that is there
LEMMA FireStep ==
    ASSUME TypeOK, TypeOK', SessionsRest, UNCHANGED <<main, sessions, holder>>,
           NEW k \in Alive,
           \A n \in Ids : /\ sess'[n].state = sess[n].state /\ sess'[n].at = sess[n].at
                          /\ n # k => sess'[n].fired = sess[n].fired,
           sess'[k].fired = IF sess[k].fired = 0 THEN 1 ELSE 2,
           pending' = pending \/ pending' = [pending EXCEPT ![sess[k].at] = @ + 1]
    PROVE  SessionsRest'
<1> USE DEF Ids
<1>0. k \in Ids /\ sess[k].state # "none"
  BY DEF Alive
<1>1. Ordered'
  BY <1>0 DEF SessionsRest, Ordered
<1>2. AddressesApart' /\ Alive' = Alive
  BY DEF SessionsRest, AddressesApart, Alive
<1>3. Owned'
  BY <1>2 DEF SessionsRest, Owned, TypeOK, MainType
<1>4. \A n \in Ids : sess[n].fired \in 0 .. 2 /\ sess'[n].fired >= sess[n].fired
  BY <1>0 DEF TypeOK, SessionType
<1>5. \A n \in Ids : (Held(n)' <=> Held(n)) /\ (Justified(n) => Justified(n)')
  <2>1. SUFFICES ASSUME NEW n \in Ids, Justified(n) PROVE Justified(n)'
    BY DEF Held
  <2>2. CASE sess[n].fired > 0
    BY <2>2, <1>4 DEF Justified, TypeOK
  <2>3. CASE \E m \in 1 .. n - 1 : sess[m].at = sess[n].at /\ sess[m].fired > 1
    <3>1. PICK m \in 1 .. n - 1 : sess[m].at = sess[n].at /\ sess[m].fired > 1
      BY <2>3
    <3>2. m \in Ids
      BY <3>1
    <3>3. sess'[m].fired > 1
      BY <3>1, <3>2, <1>0 DEF TypeOK
    <3> QED
      BY <3>1, <3>2, <3>3 DEF Justified
  <2> QED
    BY <2>1, <2>2, <2>3 DEF Justified
<1>6. LeftForReason'
  BY <1>5 DEF SessionsRest, LeftForReason
<1>7. PendingForHeld'
  <2> SUFFICES ASSUME NEW a \in Addrs, pending'[a] > 0, ~Twice(a)'
               PROVE  pending'[a] = 1 /\ \E n \in Ids : sess'[n].at = a /\ sess'[n].fired = 1 /\ Held(n)'
    BY DEF PendingForHeld
  <2>1. ~Twice(a)
    BY <1>4, <1>0 DEF Twice, TypeOK
  <2>2. CASE sess[k].at = a
    <3>1. sess[k].fired = 0 /\ sess'[k].fired = 1
      BY <2>2, <1>0 DEF Twice
    <3>2. Held(k)
      <4>1. ~Justified(k)
        BY <3>1, <2>1, <2>2, <1>0 DEF Justified, Twice
      <4> QED
        BY <4>1, <1>0 DEF SessionsRest, LeftForReason
    <3>3. pending[a] = 0
      <4>1. SUFFICES ASSUME pending[a] > 0 PROVE FALSE
        BY DEF TypeOK
      <4>2. PICK n \in Ids : sess[n].at = a /\ sess[n].fired = 1 /\ Held(n)
        BY <4>1, <2>1 DEF SessionsRest, PendingForHeld
      <4>3. n \in Alive /\ n # k
        BY <4>2, <3>1 DEF Held, SessionsRest, Owned, TypeOK, Alive
      <4>4. n < k \/ k < n
        BY <4>3, <1>0
      <4> QED
        BY <4>2, <4>3, <4>4, <2>2, <1>0 DEF SessionsRest, AddressesApart, Alive
    <3> QED
      BY <3>1, <3>2, <3>3, <2>2, <1>0, <1>5 DEF TypeOK
  <2>3. CASE sess[k].at # a
    <3>1. pending'[a] = pending[a]
      BY <2>3 DEF TypeOK
    <3>2. PICK n \in Ids : sess[n].at = a /\ sess[n].fired = 1 /\ Held(n)
      BY <3>1, <2>1 DEF SessionsRest, PendingForHeld
    <3> QED
      BY <3>1, <3>2, <2>1, <2>3, <1>5 DEF SessionsRest, PendingForHeld
  <2> QED
    BY <2>2, <2>3
<1> QED
  BY <1>1, <1>2, <1>3, <1>6, <1>7 DEF SessionsRest

\* The accept loop takes a connection
LEMMA ConnectStep == TypeOK /\ TypeOK' /\ SessionsRest /\ Connect => SessionsRest'
<1> SUFFICES ASSUME TypeOK, TypeOK', SessionsRest, Connect PROVE SessionsRest'
  OBVIOUS
<1>0. main.pc = "accept" /\ main.session = 0
  BY DEF Connect, SessionsRest, Owned
<1>1. PICK k \in Ids, b \in Addrs \ {sess[m].at : m \in Alive} :
        /\ sess[k].state = "none" /\ \A m \in 1 .. k - 1 : sess[m].state # "none"
        /\ IF PortBound
           THEN main' = [main EXCEPT !.pc = "terminated"] /\ UNCHANGED sess
           ELSE /\ sess' = [sess EXCEPT ![k].state = "live", ![k].at = b]
                /\ main' = [pc |-> "add", session |-> k]
  BY DEF Connect
<1>2. UNCHANGED <<sessions, pending, holder>>
  BY DEF Connect
<1>3. CASE PortBound
  <2>1. main'.pc = "terminated" /\ main'.session = 0 /\ UNCHANGED sess
    BY <1>0, <1>1, <1>3 DEF TypeOK, MainType
  <2>2. Ordered' /\ AddressesApart' /\ Alive' = Alive
    BY <2>1 DEF SessionsRest, Ordered, AddressesApart, Alive
  <2>3. Owned'
    BY <2>1, <2>2, <1>2, <1>0 DEF SessionsRest, Owned
  <2>4. \A n \in Ids : (Held(n)' <=> Held(n)) /\ (Justified(n)' <=> Justified(n))
    BY <2>1, <1>0, <1>2 DEF Held, Justified
  <2>5. LeftForReason' /\ PendingForHeld'
    BY <2>1, <2>4, <1>2 DEF SessionsRest, LeftForReason, PendingForHeld, Twice
  <2> QED
    BY <2>2, <2>3, <2>5 DEF SessionsRest
<1>4. CASE ~PortBound
  <2>1. /\ main'.pc = "add" /\ main'.session = k /\ k # 0
        /\ sess'[k].state = "live" /\ sess'[k].at = b /\ sess'[k].fired = sess[k].fired
        /\ \A n \in Ids : n # k => sess'[n] = sess[n]
    BY <1>1, <1>4 DEF TypeOK, SessionType, Ids
  <2>2. \A n \in Ids : n > k => sess[n].state = "none"
    BY <1>1 DEF SessionsRest, Ordered, Ids
  <2>3. sess[k].fired = 0 /\ k \notin Alive
    BY <1>1 DEF SessionsRest, Ordered, Alive
  <2>4. Ordered'
    <3> SUFFICES ASSUME NEW n \in Ids
                 PROVE  /\ sess'[n].state = "none" => sess'[n].fired = 0
                        /\ sess'[n].state # "none" => \A m \in 1 .. n - 1 : sess'[m].state # "none"
      BY DEF Ordered
    <3>1. \A m \in 1 .. n - 1 : m \in Ids
      BY DEF Ids
    <3>2. CASE n = k
      BY <3>1, <3>2, <2>1, <1>1
    <3>3. CASE n # k
      BY <3>1, <3>3, <2>1, <2>2 DEF SessionsRest, Ordered
    <3> QED
      BY <3>2, <3>3
  <2>5. Alive' = Alive \cup {k}
    BY <2>1 DEF Alive
  <2>6. AddressesApart'
    <3> SUFFICES ASSUME NEW n \in Alive', NEW m \in Ids, m > n, sess'[m].state # "none"
                 PROVE  sess'[m].at # sess'[n].at
      BY DEF AddressesApart
    <3>1. n # k
      BY <2>1, <2>2 DEF Ids
    <3>2. n \in Alive /\ n \in Ids
      BY <3>1, <2>5 DEF Alive
    <3>3. CASE m = k
      BY <3>1, <3>2, <3>3, <2>1, <1>1
    <3>4. CASE m # k
      BY <3>1, <3>2, <3>4, <2>1 DEF SessionsRest, AddressesApart
    <3> QED
      BY <3>3, <3>4
  <2>7. Owned'
    BY <2>1, <2>3, <2>5, <1>2 DEF SessionsRest, Owned
  <2>8. \A n \in Ids : n # k => (Held(n)' <=> Held(n)) /\ (Justified(n) => Justified(n)')
    <3> TAKE n \in Ids
    <3> HAVE n # k
    <3>1. Held(n)' <=> Held(n)
      BY <2>1, <1>0, <1>2 DEF Held
    <3>2. \A m \in 1 .. n - 1 : m \in Ids
      BY DEF Ids
    <3>3. ASSUME Justified(n) PROVE Justified(n)'
      BY <2>1, <2>3, <3>2, <3>3 DEF Justified
    <3> QED
      BY <3>1, <3>3
  <2>9. LeftForReason'
    BY <2>1, <2>8 DEF SessionsRest, LeftForReason, Held
  <2>10. PendingForHeld'
    <3> SUFFICES ASSUME NEW a \in Addrs, pending[a] > 0
                 PROVE  \/ Twice(a)'
                        \/ pending[a] = 1 /\ \E n \in Ids : sess'[n].at = a /\ sess'[n].fired = 1 /\ Held(n)'
      BY <1>2 DEF PendingForHeld
    <3>1. CASE Twice(a)
      BY <3>1, <2>1, <2>3 DEF Twice
    <3>2. CASE ~Twice(a)
      <4>1. PICK n \in Ids : sess[n].at = a /\ sess[n].fired = 1 /\ Held(n)
        BY <3>2 DEF SessionsRest, PendingForHeld
      <4>2. n # k
        BY <4>1, <2>3
      <4> QED
        BY <3>2, <4>1, <4>2, <2>1, <2>8 DEF SessionsRest, PendingForHeld
    <3> QED
      BY <3>1, <3>2
  <2> QED
    BY <2>4, <2>6, <2>7, <2>9, <2>10 DEF SessionsRest
<1> QED
  BY <1>3, <1>4

\* Add, and the end of the loop's body
LEMMA MainStepInv == TypeOK /\ SessionsRest /\ MainStep => SessionsRest'
<1> SUFFICES ASSUME TypeOK, SessionsRest, MainStep PROVE SessionsRest'
  OBVIOUS
<1>1. UNCHANGED <<sess, pending, holder>> /\ main.pc \in {"add", "release"} /\ main.session \in Ids
  BY DEF MainStep, Add, Release, SessionsRest, Owned, TypeOK, MainType, Ids
<1>2. Ordered' /\ AddressesApart' /\ Alive' = Alive
  BY <1>1 DEF SessionsRest, Ordered, AddressesApart, Alive
<1>3. Owned'
  <2>1. main.session # 0 /\ sess[main.session].state = "live" /\ main.session \in Alive
    BY <1>1 DEF SessionsRest, Owned, Alive, Ids
  <2>2. CASE Add
    BY <2>1, <2>2, <1>1, <1>2 DEF Add, SessionsRest, Owned, TypeOK, MainType
  <2>3. CASE Release
    BY <2>1, <2>3, <1>1, <1>2 DEF Release, SessionsRest, Owned, TypeOK, MainType
  <2> QED
    BY <2>2, <2>3 DEF MainStep
<1>4. \A n \in Ids : (Held(n)' <=> Held(n)) /\ (Justified(n)' <=> Justified(n))
  BY <1>1 DEF MainStep, Add, Release, Held, Justified, TypeOK, MainType
<1>5. LeftForReason' /\ PendingForHeld'
  BY <1>1, <1>4 DEF SessionsRest, LeftForReason, PendingForHeld, Twice
<1> QED
  BY <1>2, <1>3, <1>5 DEF SessionsRest

\* Remove takes sessions out of the list.
LEMMA RemoveStep ==
    ASSUME TypeOK, SessionsRest, NEW a \in Addrs, Remove(a) PROVE SessionsRest'
<1> DEFINE found == {n \in sessions : sess[n].at = a}
<1>1. /\ UNCHANGED <<main, sess>> /\ sessions' = sessions \ found /\ holder = 0
      /\ pending[a] > 0 /\ pending' = [pending EXCEPT ![a] = @ - 1]
      /\ holder' = 0 \/ holder' \in found \ {main.session}
  BY DEF Remove
<1>2. Ordered' /\ AddressesApart' /\ Alive' = Alive
  BY <1>1 DEF SessionsRest, Ordered, AddressesApart, Alive
<1>3. Owned'
  <2>1. \A n \in found : n \in Alive
    BY DEF TypeOK, Alive
  <2> QED
    BY <2>1, <1>1, <1>2 DEF SessionsRest, Owned
<1>4. \A n \in found : Justified(n)
  <2> TAKE n \in found
  <2>1. n \in Ids /\ n \in Alive /\ sess[n].at = a
    BY DEF TypeOK, Alive
  <2>2. \A m \in Ids : sess[m].at = a /\ sess[m].fired > 0 => m <= n
    BY <2>1 DEF SessionsRest, AddressesApart, Ordered, Ids
  <2>3. PICK m \in Ids : /\ sess[m].at = a
                         /\ sess[m].fired > 1 \/ (sess[m].fired = 1 /\ Held(m))
    BY <1>1 DEF SessionsRest, PendingForHeld, Twice
  <2>4. m <= n /\ sess[m].fired > 0
    BY <2>2, <2>3 DEF TypeOK, SessionType
  <2>5. CASE m = n
    BY <2>4, <2>5 DEF Justified
  <2>6. CASE m < n /\ sess[m].fired > 1
    BY <2>3, <2>6, <2>1 DEF Justified, Ids
  <2>7. CASE m < n /\ Held(m)
    <3>1. m \in Alive
      BY <2>7 DEF Held, SessionsRest, Owned, TypeOK, Alive
    <3> QED
      BY <3>1, <2>1, <2>3, <2>7 DEF SessionsRest, AddressesApart, Alive, Ids
  <2> QED
    BY <2>3, <2>4, <2>5, <2>6, <2>7, <2>1 DEF Ids
<1>5. \A n \in Ids : Justified(n)' <=> Justified(n)
  BY <1>1 DEF Justified
<1>6. \A n \in Ids : Held(n) => n \in found \/ Held(n)'
  BY <1>1 DEF Held
<1>7. LeftForReason'
  BY <1>1, <1>4, <1>5, <1>6 DEF SessionsRest, LeftForReason
<1>8. PendingForHeld'
  <2> SUFFICES ASSUME NEW c \in Addrs, pending'[c] > 0, ~Twice(c)
               PROVE  pending'[c] = 1 /\ \E n \in Ids : sess[n].at = c /\ sess[n].fired = 1 /\ Held(n)'
    BY <1>1 DEF PendingForHeld, Twice
  <2>1. pending[c] = 1 /\ c # a
    BY <1>1 DEF SessionsRest, PendingForHeld, TypeOK
  <2>2. PICK n \in Ids : sess[n].at = c /\ sess[n].fired = 1 /\ Held(n)
    BY <2>1 DEF SessionsRest, PendingForHeld
  <2> QED
    BY <2>1, <2>2, <1>1, <1>6 DEF TypeOK
<1> QED
  BY <1>2, <1>3, <1>7, <1>8 DEF SessionsRest

\* A step of ~Session
LEMMA DestroyStep ==
    ASSUME TypeOK, SessionsRest, NEW k \in Ids, Destroy(k) PROVE SessionsRest'
<1>1. /\ sess[k].state \notin {"none", "destroyed"} /\ sess'[k].state # "none"
      /\ \A n \in Ids : /\ sess'[n].at = sess[n].at /\ sess'[n].fired = sess[n].fired
                        /\ n # k => sess'[n].state = sess[n].state
  BY DEF Destroy, DestroyStop, DestroyClose, DestroyBlocks, DestroyDone, TypeOK, SessionType
<1>2. UNCHANGED <<sessions, pending>>
  BY DEF Destroy, DestroyStop, DestroyClose, DestroyBlocks, DestroyDone
<1>3. k \notin sessions /\ (main.pc \notin {"add", "release"} \/ main.session # k)
  BY DEF Destroy, DestroyStop, DestroyClose, DestroyBlocks, DestroyDone, Destroying, SessionsRest, Owned, Ids
<1>4. Ordered'
  <2> SUFFICES ASSUME NEW n \in Ids
               PROVE  /\ sess'[n].state = "none" => sess'[n].fired = 0
                      /\ sess'[n].state # "none" => \A m \in 1 .. n - 1 : sess'[m].state # "none"
    BY DEF Ordered
  <2>1. \A m \in 1 .. n - 1 : m \in Ids
    BY DEF Ids
  <2> QED
    BY <1>1, <2>1 DEF SessionsRest, Ordered
<1>5. AddressesApart'
  BY <1>1 DEF SessionsRest, AddressesApart, Alive
<1>6. Owned'
  <2>1. CASE DestroyStop(k) \/ DestroyClose(k) \/ DestroyBlocks(k)
    <3>1. UNCHANGED <<main, holder, sessions>> /\ Alive' = Alive
      BY <2>1, <1>1 DEF DestroyStop, DestroyClose, DestroyBlocks, Alive, TypeOK, SessionType
    <3>2. main.pc \in {"add", "release"} => main.session # k
      BY <2>1 DEF DestroyStop, DestroyClose, DestroyBlocks, Destroying, SessionsRest, Owned, Ids
    <3> QED
      BY <3>1, <3>2, <1>1 DEF SessionsRest, Owned, TypeOK, MainType, Ids
  <2>2. CASE DestroyDone(k) /\ holder = k
    <3>1. holder' = 0 /\ UNCHANGED <<main, sessions>> /\ main.session # k
      BY <2>2 DEF DestroyDone, SessionsRest, Owned, Ids
    <3> QED
      BY <3>1, <1>1 DEF SessionsRest, Owned, Alive, TypeOK, MainType, Ids
  <2>3. CASE DestroyDone(k) /\ holder # k
    <3>1. /\ main'.pc = "accept" /\ main'.session = 0 /\ UNCHANGED <<holder, sessions>>
          /\ main.session = k
      BY <2>3 DEF DestroyDone, Destroying
    <3> QED
      BY <3>1, <2>3, <1>1 DEF SessionsRest, Owned, Alive, TypeOK, Ids
  <2> QED
    BY <2>1, <2>2, <2>3 DEF Destroy
<1>7. \A n \in Ids : Held(n)' <=> Held(n)
  BY <1>2 DEF Destroy, DestroyStop, DestroyClose, DestroyBlocks, DestroyDone, Destroying, Held, SessionsRest, Owned, Ids
<1>8. \A n \in Ids : Justified(n)' <=> Justified(n)
  <2> TAKE n \in Ids
  <2>1. \A m \in 1 .. n - 1 : m \in Ids
    BY DEF Ids
  <2> QED
    BY <1>1, <2>1 DEF Justified
<1>9. LeftForReason' /\ PendingForHeld'
  BY <1>1, <1>2, <1>7, <1>8 DEF SessionsRest, LeftForReason, PendingForHeld, Twice
<1> QED
  BY <1>4, <1>5, <1>6, <1>9 DEF SessionsRest
-----------------------------------------------------------------------------
\* The invariant is inductive: one case per action.
LEMMA InvStep == SessionsInv /\ [Next]_vars => SessionsInv'
<1> SUFFICES ASSUME TypeOK, SessionsRest, [Next]_vars PROVE TypeOK' /\ SessionsRest'
  BY DEF SessionsInv
<1>0. TypeOK'
  BY TypeStep DEF SessionsRest
<1>1. CASE Connect
  BY <1>0, <1>1, ConnectStep
<1>2. CASE MainStep
  BY <1>0, <1>2, MainStepInv
<1>3. ASSUME NEW n \in Ids,
             PeerLeaves(n) \/ WorkerAccepts(n) \/ WorkerAccepted(n) \/ HidSends(n) \/ HidSent(n)
      PROVE  SessionsRest'
  <2>1. \A m \in Ids : /\ sess'[m].state = sess[m].state /\ sess'[m].at = sess[m].at
                       /\ sess'[m].fired = sess[m].fired
    BY <1>3 DEF PeerLeaves, WorkerAccepts, WorkerAccepted, HidSends, HidSent, TypeOK, SessionType
  <2>2. UNCHANGED <<main, sessions, pending, holder>>
    BY <1>3 DEF PeerLeaves, WorkerAccepts, WorkerAccepted, HidSends, HidSent
  <2> QED
    BY <1>0, <2>1, <2>2, FrameStep
<1>4. ASSUME NEW n \in Ids, WorkerEnds(n) PROVE SessionsRest'
  <2>0. UNCHANGED <<main, sessions, holder>> /\ n \in Alive
    BY <1>4 DEF WorkerEnds
  <2>1. CASE Fire(n, [sess EXCEPT ![n].worker = "ended"])
    <3>1. \A m \in Ids : /\ sess'[m].state = sess[m].state /\ sess'[m].at = sess[m].at
                         /\ m # n => sess'[m].fired = sess[m].fired
      BY <2>1 DEF Fire, TypeOK, SessionType
    <3>2. sess'[n].fired = IF sess[n].fired = 0 THEN 1 ELSE 2
      BY <2>1 DEF Fire, TypeOK, SessionType
    <3>3. pending' = pending \/ pending' = [pending EXCEPT ![sess[n].at] = @ + 1]
      BY <2>1 DEF Fire
    <3> QED
      BY <1>0, <2>0, <3>1, <3>2, <3>3, FireStep
  <2>2. CASE sess' = [sess EXCEPT ![n].worker = "ended"] /\ UNCHANGED pending
    <3>1. \A m \in Ids : /\ sess'[m].state = sess[m].state /\ sess'[m].at = sess[m].at
                         /\ sess'[m].fired = sess[m].fired
      BY <2>2 DEF TypeOK, SessionType
    <3> QED
      BY <1>0, <2>0, <2>2, <3>1, FrameStep
  <2> QED
    BY <1>4, <2>1, <2>2 DEF WorkerEnds
<1>5. ASSUME NEW n \in Ids, Watchdog(n) PROVE SessionsRest'
  <2>0. UNCHANGED <<main, sessions, holder>> /\ n \in Alive /\ Fire(n, sess)
    BY <1>5 DEF Watchdog, Alive
  <2>1. \A m \in Ids : /\ sess'[m].state = sess[m].state /\ sess'[m].at = sess[m].at
                       /\ m # n => sess'[m].fired = sess[m].fired
    BY <2>0 DEF Fire, TypeOK, SessionType
  <2>2. sess'[n].fired = IF sess[n].fired = 0 THEN 1 ELSE 2
    BY <2>0 DEF Fire, TypeOK, SessionType
  <2>3. pending' = pending \/ pending' = [pending EXCEPT ![sess[n].at] = @ + 1]
    BY <2>0 DEF Fire
  <2> QED
    BY <1>0, <2>0, <2>1, <2>2, <2>3, FireStep
<1>6. ASSUME NEW n \in Ids, Destroy(n) PROVE SessionsRest'
  BY <1>6, DestroyStep
<1>7. ASSUME NEW a \in Addrs, Remove(a) PROVE SessionsRest'
  BY <1>7, RemoveStep
<1>8. CASE UNCHANGED vars
  <2>1. UNCHANGED <<main, sess, sessions, pending, holder>>
    BY <1>8 DEF vars
  <2> QED
    BY <1>0, <2>1, FrameStep
<1> QED
  BY <1>0, <1>1, <1>2, <1>3, <1>4, <1>5, <1>6, <1>7, <1>8 DEF Next, Worker

\* It holds in every behaviour of the accept loop and the sessions.
LEMMA Inductive == Spec => []SessionsInv
  BY InitInv, InvStep, PTL DEF Spec

\* For any number of sessions, addresses and events: the sessions keep to their
\* types, and SessionManager lists only sessions that nobody destroys.
THEOREM SessionTypes == Spec => []TypeOK
<1>1. SessionsInv => TypeOK
  BY DEF SessionsInv
<1> QED
  BY <1>1, Inductive, PTL

\* Remove and ~Session end a session only after its own DisconnectedEvent, or
\* after a second one of an earlier session whose address it has got.
THEOREM Removal == Spec => []RemovedOnlyIfGone
<1>1. SessionsInv => RemovedOnlyIfGone
  BY DEF SessionsInv, SessionsRest, RemovedOnlyIfGone, LeftForReason, Justified, Held, Owned, TypeOK
<1> QED
  BY <1>1, Inductive, PTL
=============================================================================
