------------------------ MODULE WaitingBufferProofs ------------------------
(* Proofs about WaitingBuffer, for every size, thread set and bound. *)
EXTENDS WaitingBuffer, TLAPS

\* Going round the array once.
LEMMA ModAdd ==
    ASSUME NEW a \in Index, NEW b \in 0 .. Size
    PROVE  (a + b) % Size = IF a + b < Size THEN a + b ELSE a + b - Size
  <1> USE SizeAssumption DEF Index
  <1>1. CASE a + b < Size
    BY <1>1
  <1>2. CASE a + b >= Size
    <2>1. a + b = 1 * Size + (a + b - Size) /\ a + b - Size \in 0 .. Size - 1
      BY <1>2
    <2> QED BY <2>1, <1>2
  <1> QED BY <1>1, <1>2

\* Where the i-th byte of the ring lies relative to the old end of the data.
LEMMA RingArithmetic ==
    ASSUME NEW S \in Nat, NEW s \in 0 .. S - 1, NEW d \in 0 .. S,
           NEW n \in 0 .. S - d, NEW i \in 1 .. d + n, NEW k \in Int, NEW e \in Int,
           k = IF s + i - 1 < S THEN s + i - 1 ELSE s + i - 1 - S,
           e = IF s + d < S THEN s + d ELSE s + d - S
    PROVE  /\ i > d /\ e <= k => k - e + 1 = i - d /\ (e + n <= S => k < e + n)
           /\ i > d /\ k < e => /\ (S - e) + k + 1 = i - d
                                /\ e + n > S /\ k < n - (S - e)
           /\ i <= d => /\ e + n <= S => ~(e <= k /\ k < e + n)
                        /\ e + n > S => k < e /\ k >= n - (S - e)
  OBVIOUS

\* WriteInternal: the old bytes stay where they were, the new ones follow them.
LEMMA FilledCells ==
    ASSUME RingTypeOK, m_End = (m_Start + m_DataLen) % Size,
           NEW w \in Writers, NEW n \in 0 .. Size - m_DataLen, n <= len[w],
           NEW i \in 1 .. m_DataLen + n
    PROVE  /\ (m_Start + i - 1) % Size \in Index
           /\ Filled(w, n)[(m_Start + i - 1) % Size] =
                IF i <= m_DataLen THEN m_Buffer[(m_Start + i - 1) % Size]
                ELSE <<w, sent[w] + (i - m_DataLen)>>
  <1> DEFINE k == (m_Start + i - 1) % Size
  <1> USE SizeAssumption
  <1>0. /\ m_Start \in Index /\ m_End \in Index /\ m_DataLen \in 0 .. Size
        /\ i - 1 \in 0 .. Size /\ m_Start \in Int /\ sent[w] \in Int
        /\ Size \in Int /\ m_DataLen \in Int /\ n \in Int /\ i \in Int
    BY DEF RingTypeOK, Index
  <1>1. k = IF m_Start + i - 1 < Size THEN m_Start + i - 1
            ELSE m_Start + i - 1 - Size
    <2>1. m_Start + i - 1 = m_Start + (i - 1)
      BY <1>0
    <2> QED BY <1>0, <2>1, ModAdd
  <1>2. m_End = IF m_Start + m_DataLen < Size THEN m_Start + m_DataLen
                ELSE m_Start + m_DataLen - Size
    BY <1>0, ModAdd
  <1>3. k \in Index
    BY <1>0, <1>1 DEF Index
  <1>4. Filled(w, n)[k] =
            IF m_End + n <= Size
            THEN IF m_End <= k /\ k < m_End + n
                 THEN <<w, sent[w] + (k - m_End + 1)>> ELSE m_Buffer[k]
            ELSE IF m_End <= k THEN <<w, sent[w] + (k - m_End + 1)>>
                 ELSE IF k < n - (Size - m_End)
                      THEN <<w, sent[w] + ((Size - m_End) + k + 1)>>
                      ELSE m_Buffer[k]
    BY <1>3 DEF Filled
  <1>5. /\ i > m_DataLen /\ m_End <= k =>
              k - m_End + 1 = i - m_DataLen /\ (m_End + n <= Size => k < m_End + n)
        /\ i > m_DataLen /\ k < m_End =>
              /\ (Size - m_End) + k + 1 = i - m_DataLen
              /\ m_End + n > Size /\ k < n - (Size - m_End)
        /\ i <= m_DataLen =>
              /\ m_End + n <= Size => ~(m_End <= k /\ k < m_End + n)
              /\ m_End + n > Size => k < m_End /\ k >= n - (Size - m_End)
    <2>1. k \in Int /\ m_End \in Int /\ Size \in Nat /\ m_Start \in 0 .. Size - 1
      BY <1>0, <1>3 DEF Index
    <2> HIDE DEF k
    <2> QED BY <1>0, <1>1, <1>2, <2>1, RingArithmetic
  <1>6. k \in Int /\ m_End \in Int
    BY <1>0, <1>3 DEF Index
  <1> HIDE DEF k
  <1>7. Filled(w, n)[k] = IF i <= m_DataLen THEN m_Buffer[k]
                          ELSE <<w, sent[w] + (i - m_DataLen)>>
    <2>1. CASE i <= m_DataLen
      BY <1>0, <1>4, <1>5, <1>6, <2>1
    <2>2. CASE i > m_DataLen /\ m_End <= k
      BY <1>0, <1>4, <1>5, <1>6, <2>2
    <2>3. CASE i > m_DataLen /\ k < m_End
      BY <1>0, <1>4, <1>5, <1>6, <2>3
    <2> QED BY <1>0, <1>6, <2>1, <2>2, <2>3
  <1> QED BY <1>3, <1>7 DEF k

\* ReadInternal: the two memcpys copy the bytes in ring order.
LEMMA CopiedCells ==
    ASSUME RingTypeOK, NEW n \in 0 .. m_DataLen, NEW i \in 1 .. n
    PROVE  Copied(n)[i] = m_Buffer[(m_Start + i - 1) % Size]
  <1> USE SizeAssumption
  <1>0. m_Start \in Index /\ m_DataLen \in 0 .. Size /\ i - 1 \in 0 .. Size
        /\ m_Start \in Int /\ i \in Int /\ n \in Int
    BY DEF RingTypeOK, Index
  <1>1. (m_Start + i - 1) % Size = IF m_Start + i - 1 < Size THEN m_Start + i - 1
                                   ELSE m_Start + i - 1 - Size
    <2>1. m_Start + i - 1 = m_Start + (i - 1)
      BY <1>0
    <2> QED BY <1>0, <2>1, ModAdd
  <1>2. Copied(n)[i] = IF m_Start + n <= Size \/ i <= Size - m_Start
                       THEN m_Buffer[m_Start + i - 1]
                       ELSE m_Buffer[i - (Size - m_Start) - 1]
    BY DEF Copied
  <1>3. m_Start + i - 1 - Size = i - (Size - m_Start) - 1
    BY <1>0
  <1>4. (m_Start + n <= Size \/ i <= Size - m_Start) <=> m_Start + i - 1 < Size
    BY <1>0 DEF Index
  <1> QED BY <1>1, <1>2, <1>3, <1>4

-----------------------------------------------------------------------------
(* Types and the content of the ring, together: that the bytes taken are   *)
(* bytes somebody wrote, and not the garbage of the fresh array, needs the *)
(* correspondence between the ring and the stream.                         *)

RingInv == RingTypeOK /\ RingHoldsStream

LEMMA RingInit == Init => RingInv
  <1> SUFFICES ASSUME Init PROVE RingInv
    OBVIOUS
  <1> USE SizeAssumption, BoundAssumption
  <1>1. RingTypeOK
    <2>1. m_Buffer \in [Index -> Byte \cup {Garbage}]
      BY DEF Init
    <2>2. 0 \in Index /\ 0 \in 0 .. Size
      BY DEF Index
    <2> QED BY <2>1, <2>2 DEF Init, RingTypeOK
  <1>2. 0 % Size = 0
    OBVIOUS
  <1> QED BY <1>1, <1>2 DEF Init, RingInv, RingHoldsStream

LEMMA WriteInternalKeepsRing ==
    ASSUME RingInv, NEW w \in Writers, WriteInternal(w), UNCHANGED <<need, room>>
    PROVE  RingInv'
  <1> DEFINE n == Min2(Size - m_DataLen, len[w])
             new == [i \in 1 .. n |-> <<w, sent[w] + i>>]
  <1> USE SizeAssumption, BoundAssumption
  <1>1. /\ n \in 0 .. Size - m_DataLen /\ n <= len[w] /\ n \in Nat
        /\ m_DataLen \in 0 .. Size /\ m_Start \in Index /\ m_End \in Index
        /\ sent[w] \in Nat /\ len[w] \in Nat /\ sent[w] + len[w] <= MaxLen
    BY DEF RingInv, RingTypeOK, Min2, Index
  <1>2. /\ m_Buffer'  = Filled(w, n) /\ m_End' = (m_End + n) % Size
        /\ m_DataLen' = m_DataLen + n /\ written' = written \o new
        /\ sent' = [sent EXCEPT ![w] = @ + n] /\ len' = [len EXCEPT ![w] = @ - n]
        /\ m_Start' = m_Start /\ taken' = taken
    BY DEF WriteInternal
  <1> HIDE DEF n
  <1>3. \A i \in 1 .. n : <<w, sent[w] + i>> \in Byte
    BY <1>1 DEF Byte
  <1>4. new \in Seq(Byte) /\ Len(new) = n
    BY <1>1, <1>3
  <1>5. /\ written' \in Seq(Byte) /\ Len(written') = Len(written) + n
        /\ \A i \in 1 .. Len(written) : written'[i] = written[i]
        /\ \A i \in 1 .. n : written'[Len(written) + i] = <<w, sent[w] + i>>
    <2>1. written \in Seq(Byte) /\ new \in Seq(Byte)
      BY <1>4 DEF RingInv, RingTypeOK
    <2>2. /\ Len(new) = n /\ written' = written \o new
          /\ \A i \in 1 .. n : new[i] = <<w, sent[w] + i>>
      BY <1>2, <1>4
    <2> HIDE DEF new
    <2>3. /\ written \o new \in Seq(Byte) /\ Len(written \o new) = Len(written) + Len(new)
          /\ \A i \in 1 .. Len(written) : (written \o new)[i] = written[i]
          /\ \A i \in 1 .. Len(new) : (written \o new)[Len(written) + i] = new[i]
      BY <2>1
    <2> QED BY <2>2, <2>3
  <1>6. m_End' \in Index /\ m_End' = (m_Start + (m_DataLen + n)) % Size
    <2>1. m_End = IF m_Start + m_DataLen < Size THEN m_Start + m_DataLen
                  ELSE m_Start + m_DataLen - Size
      BY <1>1, ModAdd DEF RingInv, RingHoldsStream
    <2>2. m_End' = IF m_End + n < Size THEN m_End + n ELSE m_End + n - Size
      BY <1>1, <1>2, ModAdd
    <2>3. m_DataLen + n \in 0 .. Size
      BY <1>1
    <2>4. (m_Start + (m_DataLen + n)) % Size =
            IF m_Start + (m_DataLen + n) < Size THEN m_Start + (m_DataLen + n)
            ELSE m_Start + (m_DataLen + n) - Size
      BY <1>1, <2>3, ModAdd
    <2> QED BY <1>1, <2>1, <2>2, <2>4 DEF Index
  <1>7. Filled(w, n) \in [Index -> Byte \cup {Garbage}]
    <2> SUFFICES ASSUME NEW k \in Index
                 PROVE  Filled(w, n)[k] \in Byte \cup {Garbage}
      BY DEF Filled
    <2>1. m_Buffer[k] \in Byte \cup {Garbage} /\ k \in Nat /\ k < Size
      BY DEF RingInv, RingTypeOK, Index
    <2>2. /\ m_End + n <= Size /\ m_End <= k /\ k < m_End + n => k - m_End + 1 \in 1 .. n
          /\ m_End + n > Size /\ m_End <= k => k - m_End + 1 \in 1 .. n
          /\ m_End + n > Size /\ k < n - (Size - m_End) => Size - m_End + k + 1 \in 1 .. n
      BY <1>1, <2>1 DEF Index
    <2> QED BY <1>1, <1>3, <2>1, <2>2 DEF Filled, Index
  <1>8. RingTypeOK'
    <2>1. /\ sent[w] + n \in 0 .. MaxLen /\ len[w] - n \in 0 .. MaxLen
          /\ (sent[w] + n) + (len[w] - n) <= MaxLen
      BY <1>1
    <2>2. sent' \in [Writers -> 0 .. MaxLen] /\ len' \in [Writers -> 0 .. MaxLen]
      BY <1>2, <2>1 DEF RingInv, RingTypeOK
    <2>3. \A v \in Writers : sent'[v] + len'[v] <= MaxLen
      BY <1>2, <2>1 DEF RingInv, RingTypeOK
    <2>4. m_DataLen' \in 0 .. Size
      BY <1>1, <1>2
    <2>5. m_Buffer' \in [Index -> Byte \cup {Garbage}]
      BY <1>2, <1>7
    <2> QED BY <1>2, <1>5, <1>6, <2>2, <2>3, <2>4, <2>5 DEF RingInv, RingTypeOK
  <1>9. RingHoldsStream'
    <2>1. \A i \in 1 .. m_DataLen + n :
            written'[Len(taken) + i] = Filled(w, n)[(m_Start + i - 1) % Size]
      <3> SUFFICES ASSUME NEW i \in 1 .. m_DataLen + n
                   PROVE  written'[Len(taken) + i] = Filled(w, n)[(m_Start + i - 1) % Size]
        OBVIOUS
      <3>1. Filled(w, n)[(m_Start + i - 1) % Size] =
                IF i <= m_DataLen THEN m_Buffer[(m_Start + i - 1) % Size]
                ELSE <<w, sent[w] + (i - m_DataLen)>>
        BY <1>1, FilledCells DEF RingInv, RingHoldsStream
      <3>2. CASE i <= m_DataLen
        <4>1. i \in 1 .. m_DataLen /\ Len(taken) + i \in 1 .. Len(written)
          BY <1>1, <3>2 DEF RingInv, RingTypeOK, RingHoldsStream
        <4>2. written[Len(taken) + i] = m_Buffer[(m_Start + i - 1) % Size]
          BY <4>1 DEF RingInv, RingHoldsStream
        <4> QED BY <1>5, <3>1, <3>2, <4>1, <4>2
      <3>3. CASE i > m_DataLen
        <4>1. i - m_DataLen \in 1 .. n /\ Len(taken) + i = Len(written) + (i - m_DataLen)
          BY <1>1, <3>3 DEF RingInv, RingTypeOK, RingHoldsStream
        <4>2. ~(i <= m_DataLen)
          BY <1>1, <3>3
        <4> QED BY <1>5, <3>1, <4>1, <4>2
      <3> QED BY <1>1, <3>2, <3>3
    <2>2. \A i \in 1 .. Len(taken) : taken[i] = written'[i]
      <3>1. \A i \in 1 .. Len(taken) : i \in 1 .. Len(written)
        BY <1>1 DEF RingInv, RingTypeOK, RingHoldsStream
      <3>2. \A i \in 1 .. Len(taken) : taken[i] = written[i]
        BY DEF RingInv, RingHoldsStream
      <3> QED BY <1>5, <3>1, <3>2
    <2>3. Len(written') = Len(taken) + (m_DataLen + n)
      BY <1>1, <1>5 DEF RingInv, RingTypeOK, RingHoldsStream
    <2> QED BY <1>2, <1>6, <2>1, <2>2, <2>3 DEF RingHoldsStream
  <1> QED BY <1>8, <1>9 DEF RingInv

LEMMA ReadInternalKeepsRing ==
    ASSUME RingInv, NEW r \in Readers, ReadInternal(r), UNCHANGED <<sent, len>>
    PROVE  RingInv'
  <1> DEFINE n == Min2(m_DataLen, room[r])
  <1> USE SizeAssumption, BoundAssumption
  <1>1. /\ n \in 0 .. m_DataLen /\ n <= room[r] /\ n \in Nat
        /\ m_DataLen \in 0 .. Size /\ m_Start \in Index
        /\ need[r] \in Int /\ room[r] \in Nat /\ need[r] <= room[r]
    BY DEF RingInv, RingTypeOK, Min2
  <1>2. /\ taken' = taken \o Copied(n) /\ m_Start' = (m_Start + n) % Size
        /\ m_DataLen' = m_DataLen - n
        /\ need' = [need EXCEPT ![r] = @ - n] /\ room' = [room EXCEPT ![r] = @ - n]
        /\ m_Buffer' = m_Buffer /\ m_End' = m_End /\ written' = written
    BY DEF ReadInternal
  <1> HIDE DEF n
  <1>3. \A i \in 1 .. n : Copied(n)[i] = written[Len(taken) + i]
    <2> SUFFICES ASSUME NEW i \in 1 .. n
                 PROVE  Copied(n)[i] = written[Len(taken) + i]
      OBVIOUS
    <2>1. i \in 1 .. m_DataLen
      BY <1>1
    <2> QED BY <1>1, <2>1, CopiedCells DEF RingInv, RingHoldsStream
  <1>4. \A i \in 1 .. n : Len(taken) + i \in 1 .. Len(written)
    BY <1>1 DEF RingInv, RingTypeOK, RingHoldsStream
  <1>5. Copied(n) \in Seq(Byte) /\ Len(Copied(n)) = n
    <2>0. \A i \in 1 .. Len(written) : written[i] \in Byte
      BY DEF RingInv, RingTypeOK
    <2>1. \A i \in 1 .. n : Copied(n)[i] \in Byte
      BY <1>3, <1>4, <2>0
    <2> QED BY <1>1, <2>1 DEF Copied
  <1>6. /\ taken' \in Seq(Byte) /\ Len(taken') = Len(taken) + n
        /\ \A i \in 1 .. Len(taken) : taken'[i] = taken[i]
        /\ \A i \in 1 .. n : taken'[Len(taken) + i] = Copied(n)[i]
    <2> DEFINE copy == Copied(n)
    <2>0. taken \in Seq(Byte) /\ copy \in Seq(Byte)
      BY <1>5 DEF RingInv, RingTypeOK
    <2>1. Len(copy) = n /\ taken' = taken \o copy
      BY <1>2, <1>5
    <2> HIDE DEF copy
    <2>2. /\ taken \o copy \in Seq(Byte) /\ Len(taken \o copy) = Len(taken) + Len(copy)
          /\ \A i \in 1 .. Len(taken) : (taken \o copy)[i] = taken[i]
          /\ \A i \in 1 .. Len(copy) : (taken \o copy)[Len(taken) + i] = copy[i]
      BY <2>0
    <2> QED BY <2>1, <2>2 DEF copy
  <1>7. m_Start' = (IF m_Start + n < Size THEN m_Start + n ELSE m_Start + n - Size)
        /\ m_Start' \in Index
    <2>1. n \in 0 .. Size
      BY <1>1
    <2>2. m_Start' = IF m_Start + n < Size THEN m_Start + n ELSE m_Start + n - Size
      BY <1>1, <1>2, <2>1, ModAdd
    <2> QED BY <1>1, <2>1, <2>2 DEF Index
  <1>8. RingTypeOK'
    <2>1. need[r] - n \in Int /\ room[r] - n \in Nat /\ need[r] - n <= room[r] - n
      BY <1>1
    <2>2. need' \in [Readers -> Int] /\ room' \in [Readers -> Nat]
      BY <1>2, <2>1 DEF RingInv, RingTypeOK
    <2>3. \A q \in Readers : need'[q] <= room'[q]
      BY <1>2, <2>1 DEF RingInv, RingTypeOK
    <2>4. m_DataLen' \in 0 .. Size
      BY <1>1, <1>2
    <2> QED BY <1>2, <1>6, <1>7, <2>2, <2>3, <2>4 DEF RingInv, RingTypeOK
  <1>9. RingHoldsStream'
    <2>1. m_End = (m_Start' + (m_DataLen - n)) % Size
      <3>1. m_End = IF m_Start + m_DataLen < Size THEN m_Start + m_DataLen
                    ELSE m_Start + m_DataLen - Size
        BY <1>1, ModAdd DEF RingInv, RingHoldsStream
      <3>2. m_DataLen - n \in 0 .. Size
        BY <1>1
      <3>3. (m_Start' + (m_DataLen - n)) % Size =
              IF m_Start' + (m_DataLen - n) < Size THEN m_Start' + (m_DataLen - n)
              ELSE m_Start' + (m_DataLen - n) - Size
        BY <1>7, <3>2, ModAdd
      <3> QED BY <1>1, <1>7, <3>1, <3>3 DEF Index
    <2>2. Len(written) = Len(taken') + (m_DataLen - n)
      BY <1>1, <1>6 DEF RingInv, RingTypeOK, RingHoldsStream
    <2>3. \A i \in 1 .. Len(taken') : taken'[i] = written[i]
      <3> SUFFICES ASSUME NEW i \in 1 .. Len(taken') PROVE taken'[i] = written[i]
        OBVIOUS
      <3>0. Len(taken) \in Nat
        BY DEF RingInv, RingTypeOK
      <3>1. CASE i <= Len(taken)
        <4>1. i \in 1 .. Len(taken)
          BY <3>0, <3>1
        <4> QED BY <1>6, <4>1 DEF RingInv, RingHoldsStream
      <3>2. CASE i > Len(taken)
        <4> DEFINE j == i - Len(taken)
        <4>1. j \in 1 .. n /\ i = Len(taken) + j
          BY <1>1, <1>6, <3>0, <3>2
        <4> HIDE DEF j
        <4> QED BY <1>3, <1>6, <4>1
      <3> QED BY <3>0, <3>1, <3>2
    <2>4. \A i \in 1 .. m_DataLen - n :
            written[Len(taken') + i] = m_Buffer[(m_Start' + i - 1) % Size]
      <3> SUFFICES ASSUME NEW i \in 1 .. m_DataLen - n
                   PROVE  written[Len(taken') + i] = m_Buffer[(m_Start' + i - 1) % Size]
        OBVIOUS
      <3>1. n + i \in 1 .. m_DataLen /\ Len(taken') + i = Len(taken) + (n + i)
        BY <1>1, <1>6 DEF RingInv, RingTypeOK
      <3>2. written[Len(taken) + (n + i)] = m_Buffer[(m_Start + (n + i) - 1) % Size]
        BY <3>1 DEF RingInv, RingHoldsStream
      <3>3. (m_Start + (n + i) - 1) % Size = (m_Start' + i - 1) % Size
        <4>1. n + i - 1 \in 0 .. Size /\ i - 1 \in 0 .. Size
          BY <1>1
        <4>2. m_Start + (n + i) - 1 = m_Start + (n + i - 1) /\ m_Start' + i - 1 = m_Start' + (i - 1)
          BY <1>1, <1>7 DEF Index
        <4>3. (m_Start + (n + i - 1)) % Size =
                IF m_Start + (n + i - 1) < Size THEN m_Start + (n + i - 1)
                ELSE m_Start + (n + i - 1) - Size
          BY <1>1, <4>1, ModAdd
        <4>4. (m_Start' + (i - 1)) % Size =
                IF m_Start' + (i - 1) < Size THEN m_Start' + (i - 1)
                ELSE m_Start' + (i - 1) - Size
          BY <1>7, <4>1, ModAdd
        <4> QED BY <1>1, <1>7, <4>1, <4>2, <4>3, <4>4 DEF Index
      <3> QED BY <3>1, <3>2, <3>3
    <2> QED BY <1>2, <2>1, <2>2, <2>3, <2>4 DEF RingHoldsStream
  <1> QED BY <1>8, <1>9 DEF RingInv

\* A step that leaves the ring alone only has to keep the call's counters.
LEMMA RingUnchanged ==
    ASSUME RingInv, UNCHANGED ring,
           sent' \in [Writers -> 0 .. MaxLen], len' \in [Writers -> 0 .. MaxLen],
           need' \in [Readers -> Int], room' \in [Readers -> Nat],
           \A w \in Writers : sent'[w] + len'[w] <= MaxLen,
           \A r \in Readers : need'[r] <= room'[r]
    PROVE  RingInv'
  BY DEF RingInv, RingTypeOK, RingHoldsStream, ring

LEMMA RingStep == RingInv /\ [Next]_vars => RingInv'
  <1> SUFFICES ASSUME RingInv, [Next]_vars PROVE RingInv'
    OBVIOUS
  <1> USE BoundAssumption
  <1>0. ASSUME UNCHANGED <<ring, locals>> PROVE RingInv'
    BY <1>0, RingUnchanged DEF RingInv, RingTypeOK, locals
  <1>1. ASSUME NEW w \in Writers, WriteStep(w) PROVE RingInv'
    <2>1. CASE WriteSome(w)
      BY <2>1, WriteInternalKeepsRing DEF WriteSome
    <2>2. CASE WriteExit(w)
      BY <2>2, RingUnchanged DEF WriteExit, RingInv, RingTypeOK
    <2>3. CASE \/ WriteLock(w) \/ WriteHead(w) \/ WriteCancelled(w)
               \/ WriteWait(w) \/ WriteNotify(w)
      BY <1>0, <2>3 DEF WriteLock, WriteHead, WriteCancelled, WriteWait, WriteNotify
    <2> QED BY <1>1, <2>1, <2>2, <2>3 DEF WriteStep
  <1>2. ASSUME NEW w \in Writers, NEW n \in 0 .. MaxLen, WriteCall(w, n) PROVE RingInv'
    BY <1>2, RingUnchanged DEF WriteCall, RingInv, RingTypeOK
  <1>3. ASSUME NEW r \in Readers, ReadStep(r) PROVE RingInv'
    <2>1. CASE ReadSome(r)
      BY <2>1, ReadInternalKeepsRing DEF ReadSome
    <2>2. CASE ReadExit(r)
      BY <2>2, RingUnchanged DEF ReadExit, RingInv, RingTypeOK
    <2>3. CASE \/ ReadLock(r) \/ ReadCancelled(r) \/ ReadWait(r)
               \/ ReadNotifyWrite(r) \/ ReadNotifyWait(r)
      BY <1>0, <2>3
         DEF ReadLock, ReadCancelled, ReadWait, ReadNotifyWrite, ReadNotifyWait
    <2> QED BY <1>3, <2>1, <2>2, <2>3 DEF ReadStep
  <1>4. ASSUME NEW r \in Readers, NEW n \in 1 .. MaxLen, NEW atless \in 1 .. n,
               ReadCall(r, n, atless)
        PROVE  RingInv'
    BY <1>4, RingUnchanged DEF ReadCall, RingInv, RingTypeOK
  <1>5. ASSUME NEW t \in Waiters, WaitCall(t) \/ WaitCheck(t) PROVE RingInv'
    BY <1>0, <1>5 DEF WaitCall, WaitCheck
  <1>6. CASE CancelRead \/ CancelWrite \/ CancelWait
    BY <1>0, <1>6 DEF CancelRead, CancelWrite, CancelWait
  <1>7. ASSUME NEW t \in Threads, SpuriousWakeup(t) PROVE RingInv'
    BY <1>0, <1>7 DEF SpuriousWakeup
  <1>8. CASE UNCHANGED vars
    BY <1>0, <1>8 DEF vars
  <1> QED BY <1>1, <1>2, <1>3, <1>4, <1>5, <1>6, <1>7, <1>8 DEF Next

\* In every reachable state the ring holds exactly the bytes written and not
\* yet taken (WriteInternal and ReadInternal, for any m_Size and any lengths).
THEOREM RingCorrect == Spec => []RingHoldsStream
  <1>1. RingInv => RingHoldsStream
    BY DEF RingInv
  <1> QED BY <1>1, RingInit, RingStep, PTL DEF Spec

-----------------------------------------------------------------------------
(* Seen from its ends the ring is a bounded FIFO.                          *)

\* Every step of the buffer is a Put, a Get or no step of the FIFO.
LEMMA FifoStep ==
    ASSUME RingInv, RingInv', [Next]_vars
    PROVE  [Fifo!Next]_(Fifo!vars)
  <1> USE SizeAssumption
  <1>0. ASSUME UNCHANGED ring PROVE UNCHANGED Fifo!vars
    BY <1>0 DEF ring, Fifo!vars
  <1>1. ASSUME NEW w \in Writers, WriteSome(w) PROVE Fifo!Put
    <2> DEFINE n == Min2(Size - m_DataLen, len[w])
               new == [i \in 1 .. n |-> <<w, sent[w] + i>>]
    <2>1. n \in Nat /\ sent[w] \in Nat
      BY DEF RingInv, RingTypeOK, Min2
    <2>2. written' = written \o new /\ taken' = taken
      BY <1>1 DEF WriteSome, WriteInternal
    <2>3. written \in Seq(Byte) /\ new \in Seq(Writers \X Int)
      <3>1. written \in Seq(Byte)
        BY DEF RingInv, RingTypeOK
      <3>2. \A i \in 1 .. n : <<w, sent[w] + i>> \in Writers \X Int
        BY <2>1
      <3> HIDE DEF n
      <3> QED BY <2>1, <3>1, <3>2
    <2> HIDE DEF new
    <2>4. Len(written) \in Nat /\ Len(new) \in Nat
      BY <2>3
    <2>5. /\ Len(written \o new) = Len(written) + Len(new)
          /\ \A i \in 1 .. Len(written) : (written \o new)[i] = written[i]
      BY <2>3
    <2>6. Fifo!Prefix(written, written')
      BY <2>2, <2>4, <2>5 DEF Fifo!Prefix
    <2>7. Len(written') - Len(taken) <= Size
      BY <2>2 DEF RingInv, RingTypeOK, RingHoldsStream
    <2> QED BY <2>2, <2>6, <2>7 DEF Fifo!Put
  <1>2. ASSUME NEW r \in Readers, ReadSome(r) PROVE Fifo!Get
    <2>1. /\ written' = written /\ m_DataLen' <= m_DataLen
          /\ m_DataLen \in Nat /\ m_DataLen' \in Nat
      BY <1>2 DEF ReadSome, ReadInternal, RingInv, RingTypeOK, Min2
    <2>2. /\ Len(taken) \in Nat /\ Len(taken') \in Nat /\ Len(written) \in Nat
          /\ Len(written) = Len(taken) + m_DataLen
          /\ Len(written) = Len(taken') + m_DataLen'
          /\ \A i \in 1 .. Len(taken) : taken[i] = written[i]
          /\ \A i \in 1 .. Len(taken') : taken'[i] = written[i]
      <3>1. /\ Len(taken) \in Nat /\ Len(written) \in Nat
            /\ Len(written) = Len(taken) + m_DataLen
            /\ \A i \in 1 .. Len(taken) : taken[i] = written[i]
        BY DEF RingInv, RingTypeOK, RingHoldsStream
      <3>2. /\ Len(written') = Len(taken') + m_DataLen'
            /\ \A i \in 1 .. Len(taken') : taken'[i] = written'[i]
            /\ taken' \in Seq(Byte)
        BY DEF RingInv, RingTypeOK, RingHoldsStream
      <3>3. Len(taken') \in Nat
        BY <3>2
      <3> QED BY <2>1, <3>1, <3>2, <3>3
    <2>3. Len(taken) <= Len(taken') /\ Len(taken') <= Len(written)
      BY <2>1, <2>2
    <2>4. Fifo!Prefix(taken', written)
      BY <2>2, <2>3 DEF Fifo!Prefix
    <2>5. Fifo!Prefix(taken, taken')
      BY <2>2, <2>3 DEF Fifo!Prefix
    <2> QED BY <2>1, <2>4, <2>5 DEF Fifo!Get
  <1>3. ASSUME NEW w \in Writers, WriteStep(w) PROVE [Fifo!Next]_(Fifo!vars)
    <2>1. CASE WriteSome(w)
      BY <1>1, <2>1 DEF Fifo!Next
    <2>2. CASE ~WriteSome(w)
      BY <1>0, <1>3, <2>2
         DEF WriteStep, WriteLock, WriteHead, WriteCancelled, WriteWait, WriteNotify, WriteExit
    <2> QED BY <2>1, <2>2
  <1>4. ASSUME NEW r \in Readers, ReadStep(r) PROVE [Fifo!Next]_(Fifo!vars)
    <2>1. CASE ReadSome(r)
      BY <1>2, <2>1 DEF Fifo!Next
    <2>2. CASE ~ReadSome(r)
      BY <1>0, <1>4, <2>2
         DEF ReadStep, ReadLock, ReadCancelled, ReadWait, ReadNotifyWrite, ReadNotifyWait, ReadExit
    <2> QED BY <2>1, <2>2
  <1>5. CASE \/ \E w \in Writers, n \in 0 .. MaxLen : WriteCall(w, n)
             \/ \E r \in Readers, n \in 1 .. MaxLen : \E atless \in 1 .. n : ReadCall(r, n, atless)
             \/ \E t \in Waiters : WaitCall(t) \/ WaitCheck(t)
             \/ CancelRead \/ CancelWrite \/ CancelWait
             \/ \E t \in Threads : SpuriousWakeup(t)
    BY <1>0, <1>5 DEF WriteCall, ReadCall, WaitCall, WaitCheck, CancelRead, CancelWrite,
                      CancelWait, SpuriousWakeup
  <1>6. CASE UNCHANGED vars
    BY <1>0, <1>6 DEF vars
  <1> QED BY <1>3, <1>4, <1>5, <1>6 DEF Next

\* WaitingBuffer implements the bounded FIFO of Size bytes.
THEOREM Refinement == Spec => ImplementsFifo
  <1>1. Init => Fifo!Init
    BY DEF Init, Fifo!Init
  <1>2. RingInv /\ RingInv' /\ [Next]_vars => [Fifo!Next]_(Fifo!vars)
    BY FifoStep
  <1> QED BY <1>1, <1>2, RingInit, RingStep, PTL DEF Spec, Fifo!Spec, ImplementsFifo

-----------------------------------------------------------------------------
(* Threads, mutexes, wakeups and cancels.                                  *)

ControlInv == ControlTypeOK /\ OneCallAtATime

LEMMA ControlStep == RingTypeOK /\ ControlInv /\ [Next]_vars => ControlInv'
  <1> SUFFICES ASSUME RingTypeOK, ControlInv, [Next]_vars PROVE ControlInv'
    OBVIOUS
  <1> USE ThreadAssumption DEF ControlInv, ControlTypeOK, OneCallAtATime, Threads,
                               WritePC, ReadPC, WaitPC, Goto
  <1>1. ASSUME NEW w \in Writers, WriteStep(w) PROVE ControlInv'
    <2>1. CASE WriteLock(w)
      BY <2>1 DEF WriteLock, flags
    <2>2. CASE WriteHead(w)
      BY <2>2 DEF WriteHead, flags, mtxs
    <2>3. CASE WriteCancelled(w) \/ WriteSome(w) \/ WriteWait(w)
      BY <2>3 DEF WriteCancelled, WriteSome, WriteWait, flags, mtxs
    <2>4. CASE WriteNotify(w)
      BY <2>4 DEF WriteNotify, NotifyAll, flags, mtxs
    <2>5. CASE WriteExit(w)
      BY <2>5 DEF WriteExit
    <2> QED BY <1>1, <2>1, <2>2, <2>3, <2>4, <2>5 DEF WriteStep
  <1>2. ASSUME NEW w \in Writers, NEW n \in 0 .. MaxLen, WriteCall(w, n) PROVE ControlInv'
    BY <1>2 DEF WriteCall, flags, mtxs
  <1>3. ASSUME NEW r \in Readers, ReadStep(r) PROVE ControlInv'
    <2>1. CASE ReadLock(r)
      BY <2>1 DEF ReadLock, flags
    <2>2. CASE ReadCancelled(r) \/ ReadSome(r) \/ ReadWait(r)
      BY <2>2 DEF ReadCancelled, ReadSome, ReadWait, flags, mtxs
    <2>3. CASE ReadNotifyWrite(r)
      BY <2>3 DEF ReadNotifyWrite, NotifyAll, flags, mtxs
    <2>4. CASE ReadNotifyWait(r)
      BY <2>4 DEF ReadNotifyWait, flags, mtxs
    <2>5. CASE ReadExit(r)
      BY <2>5 DEF ReadExit
    <2> QED BY <1>3, <2>1, <2>2, <2>3, <2>4, <2>5 DEF ReadStep
  <1>4. ASSUME NEW r \in Readers, NEW n \in 1 .. MaxLen, NEW atless \in 1 .. n,
               ReadCall(r, n, atless)
        PROVE  ControlInv'
    BY <1>4 DEF ReadCall, flags, mtxs
  <1>5. ASSUME NEW t \in Waiters, WaitCall(t) \/ WaitCheck(t) PROVE ControlInv'
    BY <1>5 DEF WaitCall, WaitCheck, flags, mtxs
  <1>6. CASE CancelRead \/ CancelWrite \/ CancelWait
    <2>1. CASE CancelRead
      BY <2>1 DEF CancelRead, Woken, mtxs
    <2>2. CASE CancelWrite
      BY <2>2 DEF CancelWrite, Woken, mtxs
    <2>3. CASE CancelWait
      BY <2>3 DEF CancelWait, Woken, mtxs
    <2> QED BY <1>6, <2>1, <2>2, <2>3
  <1>7. ASSUME NEW t \in Threads, SpuriousWakeup(t) PROVE ControlInv'
    BY <1>7 DEF SpuriousWakeup, flags, mtxs
  <1>8. CASE UNCHANGED vars
    BY <1>8 DEF vars, flags, mtxs
  <1> QED BY <1>1, <1>2, <1>3, <1>4, <1>5, <1>6, <1>7, <1>8 DEF Next

LEMMA ControlInit == Init => ControlInv
  BY ThreadAssumption
     DEF Init, ControlInv, ControlTypeOK, OneCallAtATime, Threads, WritePC, ReadPC, WaitPC

\* One writer and one reader at a time are between lock and unlock, whatever
\* the number of threads that call.
THEOREM MutualExclusion == Spec => []OneCallAtATime
  <1>1. ControlInv /\ RingInv => OneCallAtATime /\ RingTypeOK
    BY DEF ControlInv, RingInv
  <1> QED BY <1>1, RingInit, RingStep, ControlInit, ControlStep, PTL DEF Spec

\* Types, of the ring and of the threads.
THEOREM TypeCorrect == Spec => []TypeOK
  <1>1. ControlInv /\ RingInv => TypeOK /\ RingTypeOK
    BY DEF ControlInv, RingInv, TypeOK
  <1> QED BY <1>1, RingInit, RingStep, ControlInit, ControlStep, PTL DEF Spec

\* The two properties of the cancel flags and the condition variables.
SignalInv == NoLostWakeup /\ ShortOnlyIfCancelled

LEMMA SignalStep == RingTypeOK /\ ControlInv /\ SignalInv /\ [Next]_vars => SignalInv'
  <1> SUFFICES ASSUME RingTypeOK, ControlInv, SignalInv, [Next]_vars PROVE SignalInv'
    OBVIOUS
  <1> USE ThreadAssumption, SizeAssumption
      DEF SignalInv, NoLostWakeup, ShortOnlyIfCancelled, ControlInv, ControlTypeOK,
          OneCallAtATime, Threads, WritePC, ReadPC, WaitPC, Goto
  <1>0. /\ m_DataLen \in Nat /\ m_DataLen <= Size /\ Size \in Nat /\ Size > 0
        /\ \A w \in Writers : len[w] \in Nat
        /\ DOMAIN len = Writers /\ DOMAIN need = Readers
    BY DEF RingTypeOK
  <1>1. ASSUME NEW w \in Writers, WriteStep(w) PROVE SignalInv'
    <2>1. CASE WriteLock(w)
      BY <2>1 DEF WriteLock, flags, ring, locals
    <2>2. CASE WriteHead(w)
      BY <2>2 DEF WriteHead, flags, ring, locals
    <2>3. CASE WriteCancelled(w)
      BY <2>3 DEF WriteCancelled, flags, ring, locals
    <2>4. CASE WriteSome(w)
      <3>1. m_DataLen' \in Nat /\ m_DataLen' >= m_DataLen
        BY <1>0, <2>4 DEF WriteSome, WriteInternal, Min2
      <3>2. \A u \in Writers \ {w} : len'[u] = len[u]
        BY <1>0, <2>4 DEF WriteSome, WriteInternal
      <3> QED BY <1>0, <2>4, <3>1, <3>2 DEF WriteSome, flags
    <2>5. CASE WriteWait(w)
      BY <1>0, <2>5 DEF WriteWait, flags, ring, locals
    <2>6. CASE WriteNotify(w)
      BY <2>6 DEF WriteNotify, NotifyAll, flags, ring, locals
    <2>7. CASE WriteExit(w)
      BY <1>0, <2>7 DEF WriteExit, ring
    <2> QED BY <1>1, <2>1, <2>2, <2>3, <2>4, <2>5, <2>6, <2>7 DEF WriteStep
  <1>2. ASSUME NEW w \in Writers, NEW n \in 0 .. MaxLen, WriteCall(w, n) PROVE SignalInv'
    BY <1>0, <1>2 DEF WriteCall, flags, ring
  <1>3. ASSUME NEW r \in Readers, ReadStep(r) PROVE SignalInv'
    <2>1. CASE ReadLock(r)
      BY <2>1 DEF ReadLock, flags, ring, locals
    <2>2. CASE ReadCancelled(r)
      BY <2>2 DEF ReadCancelled, flags, ring, locals
    <2>3. CASE ReadSome(r)
      <3>1. \A q \in Readers \ {r} : need'[q] = need[q]
        BY <1>0, <2>3 DEF ReadSome, ReadInternal
      <3> QED BY <1>0, <2>3, <3>1 DEF ReadSome, flags
    <2>4. CASE ReadWait(r)
      BY <1>0, <2>4 DEF ReadWait, flags, ring, locals
    <2>5. CASE ReadNotifyWrite(r)
      BY <2>5 DEF ReadNotifyWrite, NotifyAll, flags, ring, locals
    <2>6. CASE ReadNotifyWait(r)
      BY <2>6 DEF ReadNotifyWait, flags, ring, locals
    <2>7. CASE ReadExit(r)
      BY <1>0, <2>7 DEF ReadExit, ring
    <2> QED BY <1>3, <2>1, <2>2, <2>3, <2>4, <2>5, <2>6, <2>7 DEF ReadStep
  <1>4. ASSUME NEW r \in Readers, NEW n \in 1 .. MaxLen, NEW atless \in 1 .. n,
               ReadCall(r, n, atless)
        PROVE  SignalInv'
    BY <1>0, <1>4 DEF ReadCall, flags, ring
  <1>5. ASSUME NEW t \in Waiters, WaitCall(t) \/ WaitCheck(t) PROVE SignalInv'
    <2>1. CASE WaitCall(t)
      BY <2>1 DEF WaitCall, flags, ring, locals
    <2>2. CASE WaitCheck(t)
      BY <1>0, <2>2 DEF WaitCheck, ring, locals
    <2> QED BY <1>5, <2>1, <2>2
  <1>6. CASE CancelRead \/ CancelWrite \/ CancelWait
    <2>1. CASE CancelRead
      BY <2>1 DEF CancelRead, Woken, ring, locals
    <2>2. CASE CancelWrite
      BY <2>2 DEF CancelWrite, Woken, ring, locals
    <2>3. CASE CancelWait
      BY <2>3 DEF CancelWait, Woken, ring, locals
    <2> QED BY <1>6, <2>1, <2>2, <2>3
  <1>7. ASSUME NEW t \in Threads, SpuriousWakeup(t) PROVE SignalInv'
    BY <1>7 DEF SpuriousWakeup, flags, ring, locals
  <1>8. CASE UNCHANGED vars
    BY <1>8 DEF vars, flags, ring, locals
  <1> QED BY <1>1, <1>2, <1>3, <1>4, <1>5, <1>6, <1>7, <1>8 DEF Next

LEMMA SignalInit == Init => SignalInv
  BY DEF Init, SignalInv, NoLostWakeup, ShortOnlyIfCancelled, Threads

\* No thread sleeps on a condition that holds already: notifying after the
\* unlock, and waiting without a predicate, lose no wakeup and no cancel.
THEOREM Wakeups == Spec => []NoLostWakeup
  <1>1. RingInv => RingTypeOK
    BY DEF RingInv
  <1>2. SignalInv => NoLostWakeup
    BY DEF SignalInv
  <1> QED BY <1>1, <1>2, RingInit, RingStep, ControlInit, ControlStep,
             SignalInit, SignalStep, PTL DEF Spec

\* A call stops short of its length only because of a cancel.
THEOREM ShortCalls == Spec => []ShortOnlyIfCancelled
  <1>1. RingInv => RingTypeOK
    BY DEF RingInv
  <1>2. SignalInv => ShortOnlyIfCancelled
    BY DEF SignalInv
  <1> QED BY <1>1, <1>2, RingInit, RingStep, ControlInit, ControlStep,
             SignalInit, SignalStep, PTL DEF Spec

-----------------------------------------------------------------------------
(* The bytes of a call are contiguous in the stream.                       *)

\* The strengthening: a call with bytes in the ring holds m_WriteMtx, and the
\* last byte of the stream is its last byte.
Continuing ==
    \A w \in Writers : sent[w] > 0 =>
        /\ m_WriteMtx = w
        /\ Len(written) > 0 /\ written[Len(written)] = <<w, sent[w]>>

ContiguousInv == CallsContiguous /\ Continuing

LEMMA ContiguousStep ==
    RingTypeOK /\ ControlInv /\ ContiguousInv /\ [Next]_vars => ContiguousInv'
  <1> SUFFICES ASSUME RingTypeOK, ControlInv, ContiguousInv, [Next]_vars
               PROVE  ContiguousInv'
    OBVIOUS
  <1> USE ThreadAssumption, SizeAssumption
  <1>0. /\ written \in Seq(Byte) /\ Len(written) \in Nat
        /\ sent \in [Writers -> Nat] /\ len \in [Writers -> Nat]
        /\ m_DataLen \in Nat /\ m_DataLen <= Size
    BY DEF RingTypeOK
  <1>1. ASSUME UNCHANGED <<written, sent, m_WriteMtx>> PROVE ContiguousInv'
    BY <1>1 DEF ContiguousInv, CallsContiguous, Continuing
  <1>2. ASSUME NEW w \in Writers, WriteStep(w) PROVE ContiguousInv'
    <2>1. CASE WriteSome(w)
      <3> DEFINE n == Min2(Size - m_DataLen, len[w])
                 new == [i \in 1 .. n |-> <<w, sent[w] + i>>]
      <3>1. n \in Nat /\ sent[w] \in Nat /\ m_WriteMtx = w
        <4>1. n \in Nat /\ sent[w] \in Nat
          BY <1>0 DEF Min2
        <4>2. m_WriteMtx = w
          BY <2>1 DEF WriteSome, Goto, ControlInv, OneCallAtATime
        <4> QED BY <4>1, <4>2
      <3>2. /\ written' = written \o new /\ sent' = [sent EXCEPT ![w] = @ + n]
            /\ m_WriteMtx' = m_WriteMtx
        BY <2>1 DEF WriteSome, WriteInternal, mtxs
      <3> HIDE DEF n
      <3>3. new \in Seq(Writers \X Int) /\ Len(new) = n
            /\ \A i \in 1 .. n : new[i] = <<w, sent[w] + i>>
        BY <3>1
      <3> HIDE DEF new
      <3>4. /\ Len(written \o new) = Len(written) + Len(new)
            /\ \A i \in 1 .. Len(written) : (written \o new)[i] = written[i]
            /\ \A i \in 1 .. Len(new) : (written \o new)[Len(written) + i] = new[i]
        BY <1>0, <3>3
      <3>5. /\ Len(written') = Len(written) + n
            /\ \A i \in 1 .. Len(written) : written'[i] = written[i]
            /\ \A i \in 1 .. n : written'[Len(written) + i] = <<w, sent[w] + i>>
        BY <3>2, <3>3, <3>4
      <3>6. Continuing'
        <4> SUFFICES ASSUME NEW u \in Writers, sent'[u] > 0
                     PROVE  /\ m_WriteMtx' = u
                            /\ Len(written') > 0 /\ written'[Len(written')] = <<u, sent'[u]>>
          BY DEF Continuing
        <4>1. CASE u = w /\ n > 0
          <5>1. sent'[u] = sent[w] + n
            BY <1>0, <3>2, <4>1
          <5>2. n \in 1 .. n
            BY <3>1, <4>1
          <5>3. written'[Len(written')] = <<w, sent[w] + n>>
            BY <3>5, <5>2
          <5> QED BY <1>0, <3>1, <3>2, <3>5, <4>1, <5>1, <5>3
        <4>2. CASE u = w /\ n = 0
          <5>1. sent'[u] = sent[w]
            BY <1>0, <3>1, <3>2, <4>2
          <5>2. Len(written) > 0 /\ written[Len(written)] = <<w, sent[w]>>
            BY <4>2, <5>1 DEF ContiguousInv, Continuing
          <5>3. Len(written') = Len(written) /\ Len(written) \in 1 .. Len(written)
            BY <1>0, <3>5, <4>2, <5>2
          <5> QED BY <3>1, <3>2, <3>5, <4>2, <5>1, <5>2, <5>3
        <4>3. CASE u # w
          <5>1. sent'[u] = sent[u]
            BY <1>0, <3>2, <4>3
          <5> QED BY <3>1, <4>3, <5>1 DEF ContiguousInv, Continuing
        <4> QED BY <3>1, <4>1, <4>2, <4>3
      <3>7. CallsContiguous'
        <4> SUFFICES ASSUME NEW i \in 1 .. Len(written'), written'[i][2] > 1
                     PROVE  /\ i > 1 /\ written'[i - 1][1] = written'[i][1]
                            /\ written'[i - 1][2] = written'[i][2] - 1
          BY DEF CallsContiguous
        <4>1. CASE i <= Len(written)
          <5>1. i \in 1 .. Len(written)
            BY <1>0, <4>1
          <5>2. /\ i > 1 /\ written[i - 1][1] = written[i][1]
                /\ written[i - 1][2] = written[i][2] - 1
            BY <3>5, <5>1 DEF ContiguousInv, CallsContiguous
          <5>3. i - 1 \in 1 .. Len(written)
            BY <1>0, <5>1, <5>2
          <5> QED BY <3>5, <5>1, <5>2, <5>3
        <4>2. CASE i > Len(written)
          <5> DEFINE j == i - Len(written)
          <5>1. j \in 1 .. n /\ i = Len(written) + j
            BY <1>0, <3>1, <3>5, <4>2
          <5> HIDE DEF j
          <5>2. written'[i] = <<w, sent[w] + j>>
            BY <3>5, <5>1
          <5>6. written'[i][1] = w
            BY <5>2
          <5>7. written'[i][2] = sent[w] + j
            BY <5>2
          <5>3. sent[w] + j > 1
            BY <5>7
          <5>4. CASE j > 1
            <6>1. j - 1 \in 1 .. n /\ i - 1 = Len(written) + (j - 1) /\ i > 1
              BY <1>0, <3>1, <5>1, <5>4
            <6>2. written'[i - 1] = <<w, sent[w] + (j - 1)>>
              BY <3>5, <6>1
            <6>3. written'[i - 1][1] = w /\ written'[i - 1][2] = sent[w] + (j - 1)
              BY <6>2
            <6> QED BY <3>1, <5>1, <5>6, <5>7, <6>1, <6>3
          <5>5. CASE j = 1
            <6>1. sent[w] > 0
              BY <3>1, <5>3, <5>5
            <6>2. Len(written) > 0 /\ written[Len(written)] = <<w, sent[w]>>
              BY <6>1 DEF ContiguousInv, Continuing
            <6>3. i - 1 = Len(written) /\ Len(written) \in 1 .. Len(written) /\ i > 1
              BY <1>0, <5>1, <5>5, <6>2
            <6>4. written'[i - 1] = <<w, sent[w]>>
              BY <3>5, <6>2, <6>3
            <6>5. written'[i - 1][1] = w /\ written'[i - 1][2] = sent[w]
              BY <6>4
            <6> QED BY <3>1, <5>5, <5>6, <5>7, <6>3, <6>5
          <5> QED BY <5>1, <5>4, <5>5
        <4> QED BY <1>0, <4>1, <4>2
      <3> QED BY <3>6, <3>7 DEF ContiguousInv
    <2>2. CASE WriteExit(w)
      <3>1. written' = written /\ sent' = [sent EXCEPT ![w] = 0]
        BY <2>2 DEF WriteExit, ring
      <3>2. m_WriteMtx = w
        BY <2>2 DEF WriteExit, Goto, ControlInv, OneCallAtATime
      <3>3. \A u \in Writers : ~(sent'[u] > 0)
        BY <1>0, <3>1, <3>2 DEF ContiguousInv, Continuing
      <3> QED BY <3>1, <3>3 DEF ContiguousInv, CallsContiguous, Continuing
    <2>3. CASE WriteLock(w)
      <3>1. UNCHANGED <<written, sent>> /\ m_WriteMtx = NoThread
        BY <2>3 DEF WriteLock, ring, locals
      <3>2. \A u \in Writers : ~(sent[u] > 0)
        BY <3>1 DEF ContiguousInv, Continuing
      <3> QED BY <3>1, <3>2 DEF ContiguousInv, CallsContiguous, Continuing
    <2>4. CASE WriteHead(w) \/ WriteCancelled(w) \/ WriteWait(w) \/ WriteNotify(w)
      BY <1>1, <2>4 DEF WriteHead, WriteCancelled, WriteWait, WriteNotify, ring, locals, mtxs
    <2> QED BY <1>2, <2>1, <2>2, <2>3, <2>4 DEF WriteStep
  <1>3. ASSUME NEW w \in Writers, NEW n \in 0 .. MaxLen, WriteCall(w, n)
        PROVE  ContiguousInv'
    <2>1. written' = written /\ sent' = [sent EXCEPT ![w] = 0] /\ m_WriteMtx' = m_WriteMtx
      BY <1>3 DEF WriteCall, ring, mtxs
    <2>2. \A u \in Writers : sent'[u] > 0 => sent'[u] = sent[u]
      BY <1>0, <2>1
    <2> QED BY <2>1, <2>2 DEF ContiguousInv, CallsContiguous, Continuing
  <1>4. ASSUME NEW r \in Readers, ReadStep(r) PROVE ContiguousInv'
    BY <1>1, <1>4
       DEF ReadStep, ReadLock, ReadCancelled, ReadSome, ReadInternal, ReadWait,
           ReadNotifyWrite, ReadNotifyWait, ReadExit, ring, locals, mtxs
  <1>5. CASE \/ \E r \in Readers, n \in 1 .. MaxLen : \E atless \in 1 .. n : ReadCall(r, n, atless)
             \/ \E t \in Waiters : WaitCall(t) \/ WaitCheck(t)
             \/ CancelRead \/ CancelWrite \/ CancelWait
             \/ \E t \in Threads : SpuriousWakeup(t)
    BY <1>1, <1>5 DEF ReadCall, WaitCall, WaitCheck, CancelRead, CancelWrite, CancelWait,
                      SpuriousWakeup, ring, locals, mtxs
  <1>6. CASE UNCHANGED vars
    BY <1>1, <1>6 DEF vars, ring, locals, mtxs
  <1> QED BY <1>2, <1>3, <1>4, <1>5, <1>6 DEF Next

LEMMA ContiguousInit == Init => ContiguousInv
  BY DEF Init, ContiguousInv, CallsContiguous, Continuing

\* A WriteTillFinish that waits for room half-way is never interleaved with
\* the call of another writer.
THEOREM Contiguity == Spec => []CallsContiguous
  <1>1. RingInv => RingTypeOK
    BY DEF RingInv
  <1>2. ContiguousInv => CallsContiguous
    BY DEF ContiguousInv
  <1> QED BY <1>1, <1>2, RingInit, RingStep, ControlInit, ControlStep,
             ContiguousInit, ContiguousStep, PTL DEF Spec
=============================================================================
