---------------------------- MODULE I2sDmaProofs ----------------------------
(***************************************************************************)
(* For every number and length of the DMA buffers: an underrun or a shared *)
(* buffer means that the decoder was late, and as long as slc_isr runs     *)
(* before the next buffer ends, the queue of empty buffers is the trail of *)
(* the engine and the buffer it drops is the one the engine has just       *)
(* begun.                                                                  *)
(***************************************************************************)
EXTENDS I2sDma, FiniteSetTheorems, TLAPS

(* The pending interrupt is for the buffer just behind the engine. *)
Timely == intr => dmaPos = next_link(eofDes)

(* While the decoder has never been late: the engine is in a buffer that   *)
(* was rewritten, the buffers on the queue or on their way there were not  *)
(* and are there only once, and the one the decoder fills is neither.      *)
OnTime ==
    late \/ /\ fresh[dmaPos]
            /\ \A i \in 1 .. Len(dmaQueue) : ~fresh[dmaQueue[i]]
            /\ \A i, j \in 1 .. Len(dmaQueue) : i # j => dmaQueue[i] # dmaQueue[j]
            /\ intr => /\ ~fresh[eofDes]
                       /\ \A i \in 1 .. Len(dmaQueue) : dmaQueue[i] # eofDes
            /\ (currDMABuff # NULL /\ currDMABuffPos < I2SDMABUFLEN) =>
                  /\ ~fresh[currDMABuff]
                  /\ \A i \in 1 .. Len(dmaQueue) : dmaQueue[i] # currDMABuff
                  /\ intr => eofDes # currDMABuff

IInv == TypeOK /\ Timely /\ QueueIsTrail /\ OnTime /\ NoFalseAlarm

-----------------------------------------------------------------------------
LEMMA ConstantsAreNat ==
    /\ I2SDMABUFCNT \in Nat /\ I2SDMABUFCNT >= 2
    /\ I2SDMABUFLEN \in Nat /\ I2SDMABUFLEN >= 1
    /\ Names \in Nat /\ Names >= 1
    /\ MaxUnderrun \in Nat /\ MaxUnderrun >= 1
    /\ MaxMissed \in Nat
    /\ NULL \notin Buffer
BY I2sAssumption DEF Buffer

(* One lap round the descriptors: what lies k behind b lies k + 1 behind   *)
(* the next one, and the last of the trail is the next one itself.         *)
LEMMA BehindNext ==
    ASSUME NEW b \in Buffer, NEW k \in 0 .. I2SDMABUFCNT - 1
    PROVE  /\ Behind(b, k) \in Buffer
           /\ next_link(b) \in Buffer /\ next_link(b) # b
           /\ k < I2SDMABUFCNT - 1 => Behind(next_link(b), k + 1) = Behind(b, k)
           /\ k = I2SDMABUFCNT - 1 => Behind(b, k) = next_link(b)
BY ConstantsAreNat DEF Behind, next_link, Buffer

LEMMA BehindOne ==
    ASSUME NEW b \in Buffer
    PROVE  Behind(next_link(b), 1) = b
BY ConstantsAreNat DEF Behind, next_link, Buffer

LEMMA BehindDistinct ==
    ASSUME NEW b \in Buffer, NEW j \in 0 .. I2SDMABUFCNT - 1,
           NEW k \in 0 .. I2SDMABUFCNT - 1, j # k
    PROVE  Behind(b, j) # Behind(b, k)
BY ConstantsAreNat DEF Behind, Buffer

(* A sample name is heard, or silence: both keep the ear well typed. *)
LEMMA HearType ==
    ASSUME NEW w \in Sample \cup {Silence}, heard \in Sample \cup {Silence},
           garbled \in BOOLEAN, Hear(w)
    PROVE  heard' \in Sample \cup {Silence} /\ garbled' \in BOOLEAN
<1>1. w # Silence => (w + 1) % Names \in Sample
    BY ConstantsAreNat DEF Sample
<1>. QED  BY <1>1 DEF Hear

-----------------------------------------------------------------------------
(* What i2sInit leaves satisfies the invariant. *)
THEOREM InitInv == Init => IInv
<1>. SUFFICES ASSUME Init PROVE IInv
    OBVIOUS
<1>. USE ConstantsAreNat DEF Init
<1>1. TypeOK
  <2>1. i2sBuf \in [Buffer -> [Word -> Sample \cup {Silence}]]
      OBVIOUS
  <2>2. dmaQueue \in Seq(Buffer) /\ Len(dmaQueue) = 0
      OBVIOUS
  <2>3. fresh \in [Buffer -> BOOLEAN]
      OBVIOUS
  <2>4. 0 \in Buffer /\ 0 \in Word /\ 0 \in Sample
      BY DEF Buffer, Word, Sample
  <2>. QED  BY <2>1, <2>2, <2>3, <2>4 DEF TypeOK
<1>2. Timely /\ QueueIsTrail /\ NoFalseAlarm
    BY DEF Timely, QueueIsTrail, NoFalseAlarm
<1>3. OnTime
    BY DEF OnTime, Buffer
<1>. QED  BY <1>1, <1>2, <1>3 DEF IInv

LEMMA DmaWordStep ==
    ASSUME IInv, DmaWord
    PROVE  IInv'
<1>. USE ConstantsAreNat DEF DmaWord, cpu
<1>1. TypeOK /\ i2sBuf[dmaPos][dmaIdx] \in Sample \cup {Silence}
    BY DEF IInv, TypeOK, Word
<1>2. TypeOK'
    BY <1>1, HearType DEF TypeOK, Word
<1>3. (Timely /\ QueueIsTrail /\ OnTime /\ NoFalseAlarm)'
    BY DEF IInv, Timely, QueueIsTrail, Edge, OnTime, NoFalseAlarm
<1>. QED  BY <1>2, <1>3 DEF IInv

LEMMA DmaEofStep ==
    ASSUME IInv, DmaEof
    PROVE  IInv'
<1>. USE ConstantsAreNat DEF cpu
<1>1. /\ TypeOK /\ dmaPos \in Buffer
      /\ i2sBuf[dmaPos][dmaIdx] \in Sample \cup {Silence}
    BY DEF IInv, TypeOK, DmaEof, Word
<1>2. next_link(dmaPos) \in Buffer /\ next_link(dmaPos) # dmaPos
    BY <1>1, BehindNext
<1>3. TypeOK'
  <2>1. missed' \in 0 .. MaxMissed
      BY <1>1 DEF TypeOK, DmaEof
  <2>. QED  BY <1>1, <1>2, <2>1, HearType DEF TypeOK, DmaEof, Word
<1>4. Timely'
    BY <1>1 DEF Timely, DmaEof
<1>5. QueueIsTrail'
  <2>. SUFFICES ASSUME missed' = 0 PROVE QueueIsTrail'
      BY DEF QueueIsTrail
  <2>1. missed = 0 /\ ~intr
      BY <1>1 DEF TypeOK, DmaEof
  <2>. QED  BY <1>1, <2>1 DEF IInv, QueueIsTrail, Edge, DmaEof
<1>6. OnTime'
  <2>. SUFFICES ASSUME ~late' PROVE OnTime'
      BY DEF OnTime
  <2>1. ~late /\ fresh[next_link(dmaPos)]
      BY DEF DmaEof
  <2>2. /\ fresh[dmaPos]
        /\ \A i \in 1 .. Len(dmaQueue) : ~fresh[dmaQueue[i]]
        /\ \A i, j \in 1 .. Len(dmaQueue) : i # j => dmaQueue[i] # dmaQueue[j]
        /\ (currDMABuff # NULL /\ currDMABuffPos < I2SDMABUFLEN) =>
               /\ ~fresh[currDMABuff]
               /\ \A i \in 1 .. Len(dmaQueue) : dmaQueue[i] # currDMABuff
      BY <2>1 DEF IInv, OnTime
  <2>3. \A i \in 1 .. Len(dmaQueue) : dmaQueue[i] \in Buffer
      BY <1>1 DEF TypeOK
  <2>4. \A b \in Buffer : fresh'[b] = (fresh[b] /\ b # dmaPos)
      BY <1>1 DEF DmaEof, TypeOK
  <2>. QED  BY <1>1, <1>2, <2>1, <2>2, <2>3, <2>4 DEF OnTime, DmaEof, TypeOK
<1>7. NoFalseAlarm'
    BY DEF IInv, NoFalseAlarm, DmaEof
<1>. QED  BY <1>3, <1>4, <1>5, <1>6, <1>7 DEF IInv

(* A queue that is full, the buffer to be appended and the engine's own    *)
(* cannot all be different.                                                *)
LEMMA FullIsLate ==
    ASSUME IInv, intr, QueueFull
    PROVE  late
<1>. SUFFICES ASSUME ~late PROVE FALSE
    OBVIOUS
<1>. USE ConstantsAreNat
<1>1. Len(dmaQueue) = I2SDMABUFCNT - 1 /\ TypeOK
    BY DEF QueueFull, IInv
<1>. DEFINE f == [i \in 1 .. I2SDMABUFCNT + 1 |->
                     IF i < I2SDMABUFCNT THEN dmaQueue[i]
                     ELSE IF i = I2SDMABUFCNT THEN eofDes ELSE dmaPos]
<1>2. f \in [1 .. I2SDMABUFCNT + 1 -> Buffer]
    BY <1>1 DEF TypeOK
<1>3. \A i, j \in 1 .. I2SDMABUFCNT + 1 : i # j => f[i] # f[j]
  <2>1. /\ fresh[dmaPos] /\ ~fresh[eofDes]
        /\ \A i \in 1 .. Len(dmaQueue) : ~fresh[dmaQueue[i]] /\ dmaQueue[i] # eofDes
        /\ \A i, j \in 1 .. Len(dmaQueue) : i # j => dmaQueue[i] # dmaQueue[j]
      BY DEF IInv, OnTime
  <2>. QED  BY <1>1, <2>1
<1>4. /\ IsFiniteSet(1 .. I2SDMABUFCNT + 1) /\ IsFiniteSet(Buffer)
      /\ Cardinality(Buffer) < Cardinality(1 .. I2SDMABUFCNT + 1)
    BY FS_Interval DEF Buffer
<1>. HIDE DEF f
<1>. QED  BY <1>2, <1>3, <1>4, FS_PigeonHole

(* The queue grows at the back by the buffer just sent; when it is full it *)
(* loses the head, which is the engine's own buffer.                       *)
LEMMA HeadIsPlaying ==
    ASSUME IInv, intr, QueueFull, missed = 0
    PROVE  Head(dmaQueue) = dmaPos
<1>. USE ConstantsAreNat
<1>1. TypeOK /\ Timely /\ QueueIsTrail
    BY DEF IInv
<1>2. Len(dmaQueue) = I2SDMABUFCNT - 1 /\ Len(dmaQueue) >= 1
    BY DEF QueueFull
<1>3. dmaQueue[1] = Behind(eofDes, I2SDMABUFCNT - 1)
    BY <1>1, <1>2 DEF QueueIsTrail, Edge
<1>4. Behind(eofDes, I2SDMABUFCNT - 1) = dmaPos
    BY <1>1, BehindNext DEF TypeOK, Timely
<1>. QED  BY <1>1, <1>2, <1>3, <1>4 DEF TypeOK

LEMMA IsrStep ==
    ASSUME IInv, slc_isr
    PROVE  IInv'
<1>. USE ConstantsAreNat DEF cpu, ear
<1>1. /\ TypeOK /\ Timely /\ QueueIsTrail /\ OnTime /\ NoFalseAlarm
      /\ intr /\ intr' = FALSE
      /\ UNCHANGED <<dmaPos, dmaIdx, eofDes, missed, i2sBuf, pc, currDMABuff, currDMABuffPos,
                     next, fresh, late, heard, garbled>>
    BY DEF IInv, slc_isr
<1>2. CASE QueueFull
  <2>1. Len(dmaQueue) = I2SDMABUFCNT - 1 /\ Len(dmaQueue) >= 1 /\ late
      BY <1>1, <1>2, FullIsLate DEF QueueFull
  <2>2. dmaQueue' = Append(Tail(dmaQueue), eofDes)
      BY <1>2 DEF slc_isr
  <2>3. /\ dmaQueue' \in Seq(Buffer) /\ Len(dmaQueue') = Len(dmaQueue)
        /\ \A i \in 1 .. Len(dmaQueue') :
               dmaQueue'[i] = IF i < Len(dmaQueue) THEN dmaQueue[i + 1] ELSE eofDes
      BY <1>1, <2>1, <2>2 DEF TypeOK
  <2>4. TypeOK'
    <3>1. underrunCnt' \in 0 .. MaxUnderrun
        BY <1>1, <1>2 DEF TypeOK, slc_isr
    <3>2. Len(dmaQueue') < I2SDMABUFCNT
        BY <2>1, <2>3
    <3>. QED  BY <1>1, <2>3, <3>1, <3>2, Zenon DEF TypeOK
  <2>5. QueueIsTrail'
    <3>. SUFFICES ASSUME missed = 0, NEW i \in 1 .. Len(dmaQueue')
                  PROVE  dmaQueue'[i] = Behind(dmaPos, Len(dmaQueue') + 1 - i)
        BY <1>1 DEF QueueIsTrail, Edge
    <3>1. eofDes \in Buffer /\ dmaPos = next_link(eofDes)
        BY <1>1 DEF TypeOK, Timely
    <3>2. CASE i < Len(dmaQueue)
      <4>1. dmaQueue'[i] = Behind(eofDes, Len(dmaQueue) - i)
          BY <1>1, <2>1, <2>3, <3>2 DEF QueueIsTrail, Edge
      <4>2. Len(dmaQueue) - i \in 0 .. I2SDMABUFCNT - 1 /\ Len(dmaQueue) - i < I2SDMABUFCNT - 1
          BY <2>1, <3>2
      <4>. QED  BY <2>3, <3>1, <4>1, <4>2, BehindNext
    <3>3. CASE i = Len(dmaQueue)
      <4>1. Behind(dmaPos, 1) = eofDes
          BY <3>1, BehindOne
      <4>. QED  BY <2>1, <2>3, <3>3, <4>1
    <3>. QED  BY <2>1, <2>3, <3>2, <3>3
  <2>6. (Timely /\ OnTime /\ NoFalseAlarm)'
      BY <1>1, <2>1 DEF Timely, OnTime, NoFalseAlarm
  <2>. QED  BY <2>4, <2>5, <2>6 DEF IInv
<1>3. CASE ~QueueFull
  <2>1. Len(dmaQueue) \in 0 .. I2SDMABUFCNT - 2
      BY <1>1, <1>3 DEF TypeOK, QueueFull
  <2>2. dmaQueue' = Append(dmaQueue, eofDes) /\ UNCHANGED underrunCnt
      BY <1>3 DEF slc_isr
  <2>3. /\ dmaQueue' \in Seq(Buffer) /\ Len(dmaQueue') = Len(dmaQueue) + 1
        /\ \A i \in 1 .. Len(dmaQueue') :
               dmaQueue'[i] = IF i <= Len(dmaQueue) THEN dmaQueue[i] ELSE eofDes
      BY <1>1, <2>1, <2>2 DEF TypeOK
  <2>4. TypeOK'
    <3>1. Len(dmaQueue') < I2SDMABUFCNT
        BY <2>1, <2>3
    <3>. QED  BY <1>1, <2>2, <2>3, <3>1, Zenon DEF TypeOK
  <2>5. QueueIsTrail'
    <3>. SUFFICES ASSUME missed = 0, NEW i \in 1 .. Len(dmaQueue')
                  PROVE  dmaQueue'[i] = Behind(dmaPos, Len(dmaQueue') + 1 - i)
        BY <1>1 DEF QueueIsTrail, Edge
    <3>1. eofDes \in Buffer /\ dmaPos = next_link(eofDes)
        BY <1>1 DEF TypeOK, Timely
    <3>2. CASE i <= Len(dmaQueue)
      <4>1. dmaQueue'[i] = Behind(eofDes, Len(dmaQueue) + 1 - i)
          BY <1>1, <2>1, <2>3, <3>2 DEF QueueIsTrail, Edge
      <4>2. /\ Len(dmaQueue) + 1 - i \in 0 .. I2SDMABUFCNT - 1
            /\ Len(dmaQueue) + 1 - i < I2SDMABUFCNT - 1
          BY <2>1, <3>2
      <4>. QED  BY <2>1, <2>3, <3>1, <4>1, <4>2, BehindNext
    <3>3. CASE i = Len(dmaQueue) + 1
      <4>1. Behind(dmaPos, 1) = eofDes
          BY <3>1, BehindOne
      <4>. QED  BY <2>1, <2>3, <3>3, <4>1
    <3>. QED  BY <2>1, <2>3, <3>2, <3>3
  <2>6. (Timely /\ NoFalseAlarm)'
      BY <1>1, <2>2 DEF Timely, NoFalseAlarm
  <2>7. OnTime'
      BY <1>1, <2>1, <2>3 DEF OnTime
  <2>. QED  BY <2>4, <2>5, <2>6, <2>7 DEF IInv
<1>. QED  BY <1>2, <1>3

LEMMA PushSampleStep ==
    ASSUME IInv, PushSample
    PROVE  IInv'
<1>. USE DEF PushSample, dma, ear
<1>1. TypeOK'
    BY DEF IInv, TypeOK
<1>2. (Timely /\ QueueIsTrail /\ OnTime /\ NoFalseAlarm)'
    BY DEF IInv, Timely, QueueIsTrail, Edge, OnTime, NoFalseAlarm
<1>. QED  BY <1>1, <1>2 DEF IInv

(* The buffer taken is not one the queue will hand out again. *)
LEMMA PushReceiveStep ==
    ASSUME IInv, PushReceive
    PROVE  IInv'
<1>. USE ConstantsAreNat
<1>1. /\ TypeOK /\ Timely /\ QueueIsTrail /\ OnTime /\ NoFalseAlarm
      /\ dmaQueue # <<>> /\ dmaQueue' = Tail(dmaQueue)
      /\ currDMABuff' = Head(dmaQueue) /\ currDMABuffPos' = 0
      /\ UNCHANGED <<dmaPos, dmaIdx, intr, eofDes, missed, i2sBuf, underrunCnt, pc, next,
                     fresh, late, heard, garbled>>
    BY DEF IInv, PushReceive, dma, ear
<1>2. /\ Len(dmaQueue) \in 1 .. I2SDMABUFCNT - 1
      /\ dmaQueue' \in Seq(Buffer) /\ Len(dmaQueue') = Len(dmaQueue) - 1
      /\ \A i \in 1 .. Len(dmaQueue') : dmaQueue'[i] = dmaQueue[i + 1]
      /\ currDMABuff' = dmaQueue[1] /\ currDMABuff' \in Buffer
    BY <1>1 DEF TypeOK
<1>3. TypeOK'
  <2>1. Len(dmaQueue') < I2SDMABUFCNT
      BY <1>2
  <2>2. currDMABuffPos' \in 0 .. I2SDMABUFLEN
      BY <1>1
  <2>. QED  BY <1>1, <1>2, <2>1, <2>2, Zenon DEF TypeOK
<1>4. (Timely /\ NoFalseAlarm)'
    BY <1>1 DEF Timely, NoFalseAlarm
<1>5. Edge' = Edge /\ Edge \in Buffer
    BY <1>1 DEF Edge, TypeOK
<1>6. QueueIsTrail'
    BY <1>1, <1>2, <1>5 DEF QueueIsTrail
<1>7. OnTime'
  <2>. SUFFICES ASSUME ~late PROVE OnTime'
      BY <1>1 DEF OnTime
  <2>1. /\ fresh[dmaPos]
        /\ \A i \in 1 .. Len(dmaQueue) : ~fresh[dmaQueue[i]]
        /\ intr => ~fresh[eofDes]
      BY <1>1 DEF OnTime
  <2>2. \A i, j \in 1 .. Len(dmaQueue) : i # j => dmaQueue[i] # dmaQueue[j]
      BY <1>1 DEF OnTime
  <2>3. intr => \A i \in 1 .. Len(dmaQueue) : dmaQueue[i] # eofDes
      BY <1>1 DEF OnTime
  <2>4. \A i \in 1 .. Len(dmaQueue') : ~fresh[dmaQueue'[i]]
      BY <1>2, <2>1
  <2>. QED  BY <1>1, <1>2, <2>1, <2>2, <2>3, <2>4 DEF OnTime
<1>. QED  BY <1>3, <1>4, <1>6, <1>7 DEF IInv

LEMMA PushStoreStep ==
    ASSUME IInv, PushStore
    PROVE  IInv'
<1>. USE ConstantsAreNat
<1>1. /\ TypeOK /\ Timely /\ QueueIsTrail /\ OnTime /\ NoFalseAlarm
      /\ currDMABuff \in Buffer /\ currDMABuff # NULL
      /\ currDMABuffPos \in Word /\ currDMABuffPos < I2SDMABUFLEN
      /\ UNCHANGED <<dmaPos, dmaIdx, intr, eofDes, missed, dmaQueue, underrunCnt,
                     currDMABuff, late, heard, garbled>>
      /\ currDMABuffPos' = currDMABuffPos + 1
    BY DEF IInv, PushStore, NeedBuffer, TypeOK, Word, dma, ear
<1>2. /\ \A b \in Buffer : b # currDMABuff => fresh'[b] = fresh[b]
      /\ fresh'[currDMABuff] =
             (currDMABuffPos + 1 = I2SDMABUFLEN \/ fresh[currDMABuff])
      /\ fresh' \in [Buffer -> BOOLEAN]
  <2>1. fresh' = [fresh EXCEPT ![currDMABuff] =
                     currDMABuffPos + 1 = I2SDMABUFLEN \/ fresh[currDMABuff]]
      BY DEF PushStore
  <2>2. fresh \in [Buffer -> BOOLEAN]
      BY <1>1 DEF TypeOK
  <2>. QED  BY <1>1, <2>1, <2>2, Zenon
<1>3. TypeOK'
  <2>1. next \in Sample /\ next' \in Sample
      BY <1>1 DEF TypeOK, PushStore, Sample
  <2>2. i2sBuf' \in [Buffer -> [Word -> Sample \cup {Silence}]]
      BY <1>1, <2>1 DEF TypeOK, PushStore
  <2>3. currDMABuffPos' \in 0 .. I2SDMABUFLEN
      BY <1>1 DEF Word
  <2>4. pc' = "idle"
      BY DEF PushStore
  <2>. QED  BY <1>1, <1>2, <2>1, <2>2, <2>3, <2>4, Zenon DEF TypeOK
<1>4. (Timely /\ QueueIsTrail /\ NoFalseAlarm)'
    BY <1>1 DEF Timely, QueueIsTrail, Edge, NoFalseAlarm
<1>5. OnTime'
  <2>. SUFFICES ASSUME ~late PROVE OnTime'
      BY <1>1 DEF OnTime
  <2>1. /\ fresh[dmaPos] /\ ~fresh[currDMABuff]
        /\ \A i \in 1 .. Len(dmaQueue) :
               ~fresh[dmaQueue[i]] /\ dmaQueue[i] # currDMABuff
        /\ intr => ~fresh[eofDes] /\ eofDes # currDMABuff
        /\ \A i, j \in 1 .. Len(dmaQueue) : i # j => dmaQueue[i] # dmaQueue[j]
        /\ intr => \A i \in 1 .. Len(dmaQueue) : dmaQueue[i] # eofDes
      BY <1>1 DEF OnTime
  <2>2. /\ dmaPos \in Buffer /\ eofDes \in Buffer
        /\ \A i \in 1 .. Len(dmaQueue) : dmaQueue[i] \in Buffer
      BY <1>1 DEF TypeOK
  <2>3. currDMABuffPos' < I2SDMABUFLEN => ~fresh'[currDMABuff]
    <3>1. currDMABuffPos' < I2SDMABUFLEN => currDMABuffPos + 1 # I2SDMABUFLEN
        BY <1>1 DEF Word
    <3>. QED  BY <1>2, <2>1, <3>1, Zenon
  <2>4. /\ fresh'[dmaPos]
        /\ \A i \in 1 .. Len(dmaQueue) : ~fresh'[dmaQueue[i]]
        /\ intr => ~fresh'[eofDes]
      BY <1>2, <2>1, <2>2
  <2>. QED  BY <1>1, <2>1, <2>3, <2>4 DEF OnTime
<1>. QED  BY <1>3, <1>4, <1>5 DEF IInv

-----------------------------------------------------------------------------
(* Every step of the engine, of slc_isr and of i2sPushSample keeps it. *)
LEMMA StepInv == IInv /\ [Next]_vars => IInv'
<1>. SUFFICES ASSUME IInv, [Next]_vars PROVE IInv'
    OBVIOUS
<1>1. CASE DmaWord
    BY <1>1, DmaWordStep
<1>2. CASE DmaEof
    BY <1>2, DmaEofStep
<1>3. CASE slc_isr
    BY <1>3, IsrStep
<1>4. CASE PushSample
    BY <1>4, PushSampleStep
<1>5. CASE PushReceive
    BY <1>5, PushReceiveStep
<1>6. CASE PushStore
    BY <1>6, PushStoreStep
<1>7. CASE UNCHANGED vars
  <2>. USE <1>7 DEF vars, dma, cpu, ear, IInv
  <2>1. TypeOK'
      BY DEF TypeOK
  <2>2. (Timely /\ QueueIsTrail /\ NoFalseAlarm)'
      BY DEF Timely, QueueIsTrail, Edge, NoFalseAlarm
  <2>3. OnTime'
      BY DEF OnTime
  <2>. QED  BY <2>1, <2>2, <2>3
<1>. QED  BY <1>1, <1>2, <1>3, <1>4, <1>5, <1>6, <1>7 DEF Next

-----------------------------------------------------------------------------
(* The theorems *)

(* The invariant holds in every state the driver reaches. *)
THEOREM InvHolds == Spec => []IInv
<1>1. IInv /\ [Next]_vars => IInv'
    BY StepInv
<1>. QED  BY <1>1, InitInv, PTL DEF Spec

(* Every variable keeps its range; the queue has room for what slc_isr     *)
(* sends it.                                                               *)
THEOREM TypeCorrect == Spec => []TypeOK
<1>1. IInv => TypeOK
    BY DEF IInv
<1>. QED  BY <1>1, InvHolds, PTL

(* The queue holds the buffers just behind the engine, in order, each once.*)
THEOREM QueueFollowsEngine == Spec => []QueueIsTrail
<1>1. IInv => QueueIsTrail
    BY DEF IInv
<1>. QED  BY <1>1, InvHolds, PTL

(* underrunCnt counts nothing while the decoder keeps up. *)
THEOREM UnderrunsAreReal == Spec => []NoFalseAlarm
<1>1. IInv => NoFalseAlarm
    BY DEF IInv
<1>. QED  BY <1>1, InvHolds, PTL

(* A decoder that keeps up never writes in the buffer that is being sent. *)
THEOREM KeepingUpSeparates == Spec => []SharedOnlyIfLate
<1>1. IInv => SharedOnlyIfLate
    BY ConstantsAreNat DEF IInv, TypeOK, OnTime, SharedOnlyIfLate
<1>. QED  BY <1>1, InvHolds, PTL

(* What slc_isr drops from a full queue is the engine's present buffer. *)
THEOREM DropIsHarmless == Spec => DroppedIsPlaying
<1>1. IInv /\ [Next]_vars =>
          [(missed = 0 /\ slc_isr /\ QueueFull) => Head(dmaQueue) = dmaPos]_vars
    BY HeadIsPlaying DEF slc_isr
<1>. QED  BY <1>1, InvHolds, PTL DEF Spec, DroppedIsPlaying

-----------------------------------------------------------------------------
(* The order of the samples.  While the decoder is not late the words from *)
(* the engine on follow each other, through all buffers that were          *)
(* rewritten; the decoder goes on where the last of them ends, or behind a *)
(* buffer that was not, which the engine cannot enter without the decoder  *)
(* being late.                                                             *)

Last == I2SDMABUFLEN - 1

(* What may be heard after a. *)
Follows(a, b) == IF a = Silence THEN b \in {Silence, 0} ELSE b = (a + 1) % Names

(* How many places b is behind the buffer d. *)
Lag(d, b) == IF b <= d THEN d - b ELSE d + I2SDMABUFCNT - b

(* The decoder has room in the buffer it holds. *)
Unfilled == currDMABuff # NULL /\ currDMABuffPos < I2SDMABUFLEN

(* The buffer the decoder fills, or will fill next. *)
Front == IF Unfilled THEN currDMABuff
         ELSE IF Len(dmaQueue) > 0 THEN dmaQueue[1]
         ELSE IF intr THEN eofDes ELSE dmaPos

(* The first word of that buffer. *)
First == IF Unfilled /\ currDMABuffPos > 0 THEN i2sBuf[currDMABuff][0] ELSE next

(* Buffers are filled in the order they were sent. *)
Ordered ==
    /\ \A i, j \in 1 .. Len(dmaQueue) :
           i < j => Lag(dmaPos, dmaQueue[i]) > Lag(dmaPos, dmaQueue[j])
    /\ intr => \A i \in 1 .. Len(dmaQueue) : Lag(dmaPos, dmaQueue[i]) > Lag(dmaPos, eofDes)
    /\ Unfilled =>
           /\ \A i \in 1 .. Len(dmaQueue) :
                  Lag(dmaPos, currDMABuff) > Lag(dmaPos, dmaQueue[i])
           /\ intr => Lag(dmaPos, currDMABuff) > Lag(dmaPos, eofDes)

(* From there to the engine nothing was rewritten. *)
Stale == \A b \in Buffer : Lag(dmaPos, b) \in 1 .. Lag(dmaPos, Front) => ~fresh[b]

(* The words in rewritten buffers follow each other, also from one buffer  *)
(* to the next, unless that is the one being sent.                         *)
Chained ==
    \A b \in Buffer : fresh[b] =>
        /\ \A i \in 1 .. Last : Follows(i2sBuf[b][i - 1], i2sBuf[b][i])
        /\ (fresh[next_link(b)] /\ next_link(b) # dmaPos)
               => Follows(i2sBuf[b][Last], i2sBuf[next_link(b)][0])

(* So do the words in the buffer being filled, and the next sample. *)
Filling == Unfilled =>
    /\ \A i \in 1 .. currDMABuffPos - 1 :
           Follows(i2sBuf[currDMABuff][i - 1], i2sBuf[currDMABuff][i])
    /\ currDMABuffPos > 0 => Follows(i2sBuf[currDMABuff][currDMABuffPos - 1], next)

(* It goes on where a rewritten buffer before it ends. *)
Seam == \A b \in Buffer :
    next_link(b) = Front /\ fresh[b] => Follows(i2sBuf[b][Last], First)

Due == InOrder(i2sBuf[dmaPos][dmaIdx])

HInv ==
    /\ HeardInOrder
    /\ late \/ (Ordered /\ Stale /\ Chained /\ Filling /\ Seam /\ Due)

LEMMA LastIsWord == Last \in Word /\ 0 \in Word /\ Silence \notin Int
BY ConstantsAreNat, I2sAssumption DEF Last, Word

LEMMA Links ==
    ASSUME NEW b \in Buffer, NEW c \in Buffer
    PROVE  /\ next_link(b) \in Buffer /\ next_link(b) # b
           /\ next_link(b) = next_link(c) => b = c
BY ConstantsAreNat DEF next_link, Buffer

(* How the lag changes when the engine moves on, and from buffer to buffer.*)
LEMMA Lags ==
    ASSUME NEW d \in Buffer, NEW b \in Buffer
    PROVE  /\ Lag(d, b) \in 0 .. I2SDMABUFCNT - 1
           /\ Lag(d, b) = 0 <=> b = d
           /\ b # d => Lag(d, b) >= 1
           /\ Lag(next_link(d), d) = 1
           /\ b # next_link(d) => Lag(next_link(d), b) = Lag(d, b) + 1
           /\ b # d => Lag(d, next_link(b)) = Lag(d, b) - 1
BY ConstantsAreNat DEF Lag, next_link, Buffer

LEMMA LagIsPlace ==
    ASSUME NEW d \in Buffer, NEW b \in Buffer, NEW c \in Buffer, Lag(d, b) = Lag(d, c)
    PROVE  b = c
BY ConstantsAreNat DEF Lag, Buffer

(* After a word that was due whatever follows it is due. *)
LEMMA NextIsDue ==
    ASSUME NEW w \in Sample \cup {Silence}, NEW v, heard \in Sample \cup {Silence},
           InOrder(w), Follows(w, v), Hear(w)
    PROVE  IF heard' = Silence THEN v \in {Silence, 0} ELSE v = heard'
<1>. USE ConstantsAreNat, LastIsWord DEF Sample
<1>1. CASE w = Silence
    BY <1>1 DEF InOrder, Follows, Hear
<1>2. CASE w # Silence
    <2>1. (w + 1) % Names # Silence
        BY <1>2
    <2>. QED  BY <1>2, <2>1 DEF Follows, Hear
<1>. QED  BY <1>1, <1>2

(* The types the steps below need. *)
LEMMA Places ==
    ASSUME TypeOK
    PROVE  /\ dmaPos \in Buffer /\ eofDes \in Buffer /\ dmaIdx \in Word
           /\ \A i \in 1 .. Len(dmaQueue) : dmaQueue[i] \in Buffer
           /\ Len(dmaQueue) \in Nat
           /\ Unfilled => currDMABuff \in Buffer
           /\ Front \in Buffer
           /\ i2sBuf[dmaPos][dmaIdx] \in Sample \cup {Silence}
           /\ heard \in Sample \cup {Silence}
<1>1. /\ dmaPos \in Buffer /\ eofDes \in Buffer /\ dmaIdx \in Word
      /\ dmaQueue \in Seq(Buffer) /\ heard \in Sample \cup {Silence}
      /\ i2sBuf[dmaPos][dmaIdx] \in Sample \cup {Silence}
    BY DEF TypeOK
<1>2. Len(dmaQueue) \in Nat /\ \A i \in 1 .. Len(dmaQueue) : dmaQueue[i] \in Buffer
    BY <1>1
<1>3. Unfilled => currDMABuff \in Buffer
    BY DEF TypeOK, Unfilled
<1>4. Front \in Buffer
    BY <1>1, <1>2, <1>3 DEF Front
<1>. QED  BY <1>1, <1>2, <1>3, <1>4

(* The buffers that wait to be filled were not rewritten, the engine's was.*)
LEMMA FrontIsStale ==
    ASSUME IInv, ~late
    PROVE  /\ fresh[dmaPos]
           /\ Front # dmaPos => ~fresh[Front]
           /\ Unfilled => ~fresh[currDMABuff]
           /\ \A i \in 1 .. Len(dmaQueue) : ~fresh[dmaQueue[i]]
           /\ intr => ~fresh[eofDes]
BY Places DEF IInv, OnTime, Front, Unfilled

(* What is heard is due while the decoder is not late. *)
LEMMA HeardStep ==
    ASSUME IInv, HInv, Hear(i2sBuf[dmaPos][dmaIdx]), late => late'
    PROVE  HeardInOrder'
BY DEF HInv, HeardInOrder, Due, Hear

LEMMA HeardWord ==
    ASSUME IInv, HInv, DmaWord
    PROVE  HInv'
<1>. USE ConstantsAreNat
<1>1. HeardInOrder' /\ late' = late
    BY HeardStep DEF DmaWord
<1>. SUFFICES ASSUME ~late
              PROVE  (Ordered /\ Stale /\ Chained /\ Filling /\ Seam /\ Due)'
    BY <1>1 DEF HInv
<1>2. /\ Ordered /\ Stale /\ Chained /\ Filling /\ Seam /\ Due
      /\ TypeOK /\ fresh[dmaPos]
    BY FrontIsStale DEF HInv, IInv
<1>3. UNCHANGED <<dmaPos, intr, eofDes, i2sBuf, dmaQueue, currDMABuff, currDMABuffPos,
                  next, fresh>>
    BY DEF DmaWord, cpu
<1>4. (Ordered /\ Stale /\ Chained /\ Filling /\ Seam)'
    BY <1>2, <1>3 DEF Ordered, Stale, Chained, Filling, Seam, Front, First, Unfilled
<1>5. Due'
    <2>1. /\ dmaIdx \in Word /\ dmaIdx < Last /\ dmaIdx' = dmaIdx + 1
          /\ Hear(i2sBuf[dmaPos][dmaIdx])
        BY <1>2 DEF DmaWord, Last, TypeOK
    <2>2. Follows(i2sBuf[dmaPos][dmaIdx], i2sBuf[dmaPos][dmaIdx + 1])
        <3>1. dmaIdx + 1 \in 1 .. Last /\ (dmaIdx + 1) - 1 = dmaIdx
            BY <2>1 DEF Word, Last
        <3>. QED  BY <1>2, <3>1, Places DEF Chained
    <2>. DEFINE w == i2sBuf[dmaPos][dmaIdx]  v == i2sBuf[dmaPos][dmaIdx + 1]
    <2>3. IF heard' = Silence THEN v \in {Silence, 0} ELSE v = heard'
        <3>1. w \in Sample \cup {Silence} /\ heard \in Sample \cup {Silence} /\ InOrder(w)
            BY <1>2, Places DEF Due
        <3>2. Follows(w, v) /\ Hear(w)
            BY <2>1, <2>2
        <3>. HIDE DEF w, v
        <3>. QED  BY <3>1, <3>2, NextIsDue
    <2>. QED  BY <1>3, <2>1, <2>3 DEF Due, InOrder
<1>. QED  BY <1>4, <1>5

(* The engine goes on to a buffer that was rewritten, and the one it       *)
(* leaves is the last to be filled.                                        *)
LEMMA HeardEof ==
    ASSUME IInv, HInv, DmaEof
    PROVE  HInv'
<1>. USE ConstantsAreNat
<1>1. HeardInOrder'
    BY HeardStep DEF DmaEof
<1>. SUFFICES ASSUME ~late'
              PROVE  (Ordered /\ Stale /\ Chained /\ Filling /\ Seam /\ Due)'
    BY <1>1 DEF HInv
<1>2. /\ ~late /\ dmaIdx = Last /\ dmaIdx' = 0 /\ dmaPos' = next_link(dmaPos)
      /\ intr' = TRUE /\ eofDes' = dmaPos /\ fresh[dmaPos']
      /\ fresh' = [fresh EXCEPT ![dmaPos] = FALSE]
      /\ UNCHANGED <<i2sBuf, dmaQueue, currDMABuff, currDMABuffPos, next>>
    BY DEF DmaEof, cpu, Last
<1>3. /\ Ordered /\ Stale /\ Chained /\ Filling /\ Seam /\ Due
      /\ TypeOK /\ Timely /\ OnTime
    BY <1>2 DEF HInv, IInv
<1>4. /\ dmaPos \in Buffer /\ dmaPos' \in Buffer /\ dmaPos' # dmaPos
      /\ Len(dmaQueue) \in Nat
      /\ \A i \in 1 .. Len(dmaQueue) : dmaQueue[i] \in Buffer /\ dmaQueue[i] # dmaPos'
                                         /\ dmaQueue[i] # dmaPos
      /\ Unfilled => currDMABuff \in Buffer /\ currDMABuff # dmaPos' /\ currDMABuff # dmaPos
      /\ Front \in Buffer
    BY <1>2, <1>3, Places, Links, FrontIsStale
<1>5. \A b \in Buffer : fresh'[b] = (fresh[b] /\ b # dmaPos)
    BY <1>2, <1>3 DEF TypeOK
<1>6. Unfilled' = Unfilled /\ First' = First
    BY <1>2 DEF Unfilled, First
<1>7. \A b \in Buffer : b # dmaPos' => Lag(dmaPos', b) = Lag(dmaPos, b) + 1
    BY <1>2, <1>4, Lags
<1>8. Lag(dmaPos', dmaPos) = 1 /\ \A b \in Buffer : Lag(dmaPos, b) \in 0 .. I2SDMABUFCNT - 1
    BY <1>2, <1>4, Lags
<1>9. \A b \in Buffer : b # dmaPos => Lag(dmaPos, b) >= 1
    BY <1>4, <1>8, Lags
<1>10. Ordered'
    BY <1>2, <1>3, <1>4, <1>6, <1>7, <1>8, <1>9 DEF Ordered
<1>11. Front' = Front \/ (intr /\ Front = eofDes /\ Front' = dmaPos)
    BY <1>2, <1>6 DEF Front
<1>12. Front # dmaPos'
    BY <1>2, <1>3, <1>4, FrontIsStale
<1>13. Stale'
    <2>. SUFFICES ASSUME NEW b \in Buffer, Lag(dmaPos', b) \in 1 .. Lag(dmaPos', Front')
                  PROVE  ~fresh'[b]
        BY DEF Stale
    <2>1. CASE b = dmaPos
        BY <1>5, <2>1
    <2>2. CASE b # dmaPos
        <3>1. b # dmaPos'
            BY <1>4, Lags
        <3>2. Lag(dmaPos', b) = Lag(dmaPos, b) + 1 /\ Lag(dmaPos, b) >= 1
            BY <1>7, <1>9, <2>2, <3>1
        <3>3. CASE Front' = Front
            <4>1. Lag(dmaPos', Front) = Lag(dmaPos, Front) + 1
                BY <1>4, <1>7, <1>12
            <4>2. Lag(dmaPos, b) \in 1 .. Lag(dmaPos, Front)
                BY <1>4, <1>8, <3>2, <3>3, <4>1
            <4>. QED  BY <1>3, <1>5, <4>2 DEF Stale
        <3>4. CASE Front' = dmaPos
            BY <1>8, <3>2, <3>4
        <3>. QED  BY <1>11, <3>3, <3>4
    <2>. QED  BY <2>1, <2>2
<1>14. Chained'
    <2>. SUFFICES ASSUME NEW b \in Buffer, fresh'[b]
                  PROVE  /\ \A i \in 1 .. Last : Follows(i2sBuf[b][i - 1], i2sBuf[b][i])
                         /\ (fresh'[next_link(b)] /\ next_link(b) # dmaPos')
                                => Follows(i2sBuf[b][Last], i2sBuf[next_link(b)][0])
        BY <1>2 DEF Chained
    <2>1. fresh[b] /\ next_link(b) \in Buffer
        BY <1>5, Links
    <2>2. fresh'[next_link(b)] => fresh[next_link(b)] /\ next_link(b) # dmaPos
        BY <1>5, <2>1
    <2>. QED  BY <1>3, <2>1, <2>2 DEF Chained
<1>15. Filling'
    BY <1>2, <1>3, <1>6 DEF Filling
<1>16. Seam'
    <2>. SUFFICES ASSUME NEW b \in Buffer, next_link(b) = Front', fresh'[b]
                  PROVE  Follows(i2sBuf[b][Last], First)
        BY <1>2, <1>6 DEF Seam
    <2>1. fresh[b] /\ b # dmaPos
        BY <1>5
    <2>2. CASE Front' = Front
        BY <1>3, <2>1, <2>2 DEF Seam
    <2>3. CASE intr /\ Front' = dmaPos
        <3>1. next_link(b) = next_link(eofDes)
            BY <1>3, <2>3 DEF Timely
        <3>2. b = eofDes
            BY <1>3, <3>1, Links, Places
        <3>. QED  BY <1>2, <2>1, <2>3, <3>2, FrontIsStale
    <2>. QED  BY <1>11, <2>2, <2>3
<1>17. Due'
    <2>. DEFINE w == i2sBuf[dmaPos][dmaIdx]  v == i2sBuf[dmaPos'][0]
    <2>1. Follows(w, v)
        <3>1. fresh[dmaPos] /\ fresh[next_link(dmaPos)] /\ next_link(dmaPos) # dmaPos
            BY <1>2, <1>4, FrontIsStale
        <3>. QED  BY <1>2, <1>3, <1>4, <3>1 DEF Chained
    <2>2. w \in Sample \cup {Silence} /\ heard \in Sample \cup {Silence} /\ InOrder(w)
        BY <1>3, Places DEF Due
    <2>3. Hear(w)
        BY DEF DmaEof
    <2>4. IF heard' = Silence THEN v \in {Silence, 0} ELSE v = heard'
        <3>. HIDE DEF w, v
        <3>. QED  BY <2>1, <2>2, <2>3, NextIsDue
    <2>. QED  BY <1>2, <2>4 DEF Due, InOrder
<1>. QED  BY <1>10, <1>13, <1>14, <1>15, <1>16, <1>17

(* slc_isr queues the buffer that ended last behind those that wait. *)
LEMMA HeardIsr ==
    ASSUME IInv, HInv, slc_isr
    PROVE  HInv'
<1>. USE ConstantsAreNat
<1>1. /\ UNCHANGED <<dmaPos, dmaIdx, eofDes, i2sBuf, currDMABuff, currDMABuffPos, next,
                     fresh, late, heard, garbled>>
      /\ intr /\ intr' = FALSE
    BY DEF slc_isr, cpu, ear
<1>2. HeardInOrder'
    BY <1>1 DEF HInv, HeardInOrder
<1>. SUFFICES ASSUME ~late
              PROVE  (Ordered /\ Stale /\ Chained /\ Filling /\ Seam /\ Due)'
    BY <1>1, <1>2 DEF HInv
<1>3. Ordered /\ Stale /\ Chained /\ Filling /\ Seam /\ Due /\ TypeOK
    BY DEF HInv, IInv
<1>4. dmaQueue' = Append(dmaQueue, eofDes)
    <2>1. ~QueueFull
        BY <1>1, FullIsLate
    <2>. QED  BY <2>1 DEF slc_isr
<1>5. /\ Len(dmaQueue) \in Nat /\ Len(dmaQueue') = Len(dmaQueue) + 1
      /\ \A i \in 1 .. Len(dmaQueue') :
             dmaQueue'[i] = IF i <= Len(dmaQueue) THEN dmaQueue[i] ELSE eofDes
    BY <1>3, <1>4 DEF TypeOK
<1>6. Unfilled' = Unfilled /\ First' = First
    BY <1>1 DEF Unfilled, First
<1>7. Front' = Front
    BY <1>1, <1>5, <1>6 DEF Front
<1>8. Ordered'
    BY <1>1, <1>3, <1>5, <1>6 DEF Ordered
<1>9. (Stale /\ Chained /\ Filling /\ Seam /\ Due)'
    BY <1>1, <1>3, <1>6, <1>7 DEF Stale, Chained, Filling, Seam, Due, InOrder
<1>. QED  BY <1>8, <1>9

LEMMA HeardCall ==
    ASSUME IInv, HInv, PushSample \/ UNCHANGED vars
    PROVE  HInv'
BY DEF HInv, HeardInOrder, Ordered, Stale, Chained, Filling, Seam, Due, InOrder, Front,
       First, Unfilled, PushSample, vars, dma, cpu, ear

(* The decoder takes the buffer that comes next. *)
LEMMA HeardReceive ==
    ASSUME IInv, HInv, PushReceive
    PROVE  HInv'
<1>. USE ConstantsAreNat
<1>1. /\ UNCHANGED <<dmaPos, dmaIdx, intr, eofDes, i2sBuf, next, fresh, late, heard, garbled>>
      /\ dmaQueue # <<>> /\ dmaQueue' = Tail(dmaQueue)
      /\ currDMABuff' = Head(dmaQueue) /\ currDMABuffPos' = 0
      /\ ~Unfilled
    BY DEF PushReceive, NeedBuffer, Unfilled, dma, ear, IInv, TypeOK
<1>2. HeardInOrder'
    BY <1>1 DEF HInv, HeardInOrder
<1>. SUFFICES ASSUME ~late
              PROVE  (Ordered /\ Stale /\ Chained /\ Filling /\ Seam /\ Due)'
    BY <1>1, <1>2 DEF HInv
<1>3. Ordered /\ Stale /\ Chained /\ Seam /\ Due /\ TypeOK
    BY DEF HInv, IInv
<1>4. /\ Len(dmaQueue) \in Nat /\ Len(dmaQueue) >= 1
      /\ Len(dmaQueue') = Len(dmaQueue) - 1
      /\ \A i \in 1 .. Len(dmaQueue') : dmaQueue'[i] = dmaQueue[i + 1]
      /\ currDMABuff' = dmaQueue[1] /\ currDMABuff' \in Buffer
    BY <1>1, <1>3 DEF TypeOK
<1>5. Unfilled' /\ First' = next /\ First = next
    <2>1. currDMABuff' # NULL
        BY <1>4
    <2>. QED  BY <1>1, <2>1 DEF Unfilled, First
<1>6. Front' = Front
    BY <1>1, <1>4, <1>5 DEF Front
<1>7. Ordered'
    BY <1>1, <1>3, <1>4 DEF Ordered
<1>8. Filling'
    BY <1>1 DEF Filling
<1>9. (Stale /\ Chained /\ Seam /\ Due)'
    BY <1>1, <1>3, <1>5, <1>6 DEF Stale, Chained, Seam, Due, InOrder
<1>. QED  BY <1>7, <1>8, <1>9

(* A sample is stored behind the one before it; a buffer that gets full    *)
(* joins those that may be heard.                                          *)
LEMMA HeardStore ==
    ASSUME IInv, HInv, PushStore
    PROVE  HInv'
<1>. USE ConstantsAreNat
<1>. DEFINE c == currDMABuff  p == currDMABuffPos
<1>1. /\ UNCHANGED <<dmaPos, dmaIdx, intr, eofDes, dmaQueue, currDMABuff, late, heard,
                     garbled>>
      /\ Unfilled /\ currDMABuffPos' = p + 1 /\ next' = (next + 1) % Names
      /\ c \in Buffer /\ p \in Word /\ c # NULL
    BY DEF PushStore, NeedBuffer, Unfilled, dma, ear, IInv, TypeOK, Word
<1>2. HeardInOrder'
    BY <1>1 DEF HInv, HeardInOrder
<1>. SUFFICES ASSUME ~late
              PROVE  (Ordered /\ Stale /\ Chained /\ Filling /\ Seam /\ Due)'
    BY <1>1, <1>2 DEF HInv
<1>3. Ordered /\ Stale /\ Chained /\ Filling /\ Seam /\ Due /\ TypeOK
    BY DEF HInv, IInv
<1>4. /\ ~fresh[c] /\ fresh[dmaPos] /\ Front = c
      /\ dmaPos \in Buffer /\ dmaIdx \in Word /\ dmaPos # c
      /\ fresh \in [Buffer -> BOOLEAN] /\ next \in Sample
      /\ Len(dmaQueue) \in Nat /\ \A i \in 1 .. Len(dmaQueue) : dmaQueue[i] \in Buffer
      /\ eofDes \in Buffer
    BY <1>1, <1>3, FrontIsStale, Places DEF TypeOK, Front
<1>5. /\ i2sBuf'[c][p] = next
      /\ \A i \in Word : i # p => i2sBuf'[c][i] = i2sBuf[c][i]
      /\ \A b \in Buffer : b # c => i2sBuf'[b] = i2sBuf[b]
    BY <1>1, <1>3 DEF PushStore, TypeOK
<1>6. /\ \A b \in Buffer : b # c => fresh'[b] = fresh[b]
      /\ fresh'[c] = (p + 1 = I2SDMABUFLEN)
    <2>1. fresh' = [fresh EXCEPT ![c] = p + 1 = I2SDMABUFLEN \/ fresh[c]]
        BY DEF PushStore
    <2>2. /\ \A b \in Buffer : b # c => fresh'[b] = fresh[b]
          /\ fresh'[c] = (p + 1 = I2SDMABUFLEN \/ fresh[c])
        BY <1>1, <1>4, <2>1, Zenon
    <2>3. (p + 1 = I2SDMABUFLEN \/ fresh[c]) = (p + 1 = I2SDMABUFLEN)
        BY <1>4, Zenon
    <2>. QED  BY <2>2, <2>3, Zenon
<1>7. Follows(next, next')
    BY <1>1, <1>4, LastIsWord DEF Follows, Sample
<1>8. Due'
    BY <1>1, <1>3, <1>4, <1>5 DEF Due, InOrder
<1>9. \A i \in 1 .. p : Follows(i2sBuf'[c][i - 1], i2sBuf'[c][i])
    <2>. SUFFICES ASSUME NEW i \in 1 .. p
                  PROVE  Follows(i2sBuf'[c][i - 1], i2sBuf'[c][i])
        OBVIOUS
    <2>1. i - 1 \in Word /\ i - 1 # p /\ i \in Word
        BY <1>1 DEF Word
    <2>2. i2sBuf'[c][i - 1] = i2sBuf[c][i - 1]
        BY <1>5, <2>1
    <2>3. CASE i = p
        BY <1>1, <1>3, <1>5, <2>2, <2>3 DEF Filling, Word
    <2>4. CASE i # p
        <3>1. i \in 1 .. p - 1
            BY <1>1, <2>4 DEF Word
        <3>2. i2sBuf'[c][i] = i2sBuf[c][i]
            BY <1>5, <2>1, <2>4
        <3>. QED  BY <1>1, <1>3, <2>2, <3>1, <3>2 DEF Filling
    <2>. QED  BY <2>3, <2>4
<1>10. i2sBuf'[c][0] = First
    <2>1. CASE p = 0
        BY <1>5, <2>1 DEF First
    <2>2. CASE p > 0
        BY <1>1, <1>5, <2>2, LastIsWord DEF First
    <2>. QED  BY <1>1, <2>1, <2>2 DEF Word
<1>11. CASE p + 1 < I2SDMABUFLEN
    <2>1. Unfilled' /\ Front' = Front /\ First' = First /\ ~fresh'[c]
        BY <1>1, <1>4, <1>6, <1>10, <1>11 DEF Unfilled, Front, First, Word
    <2>2. \A b \in Buffer : fresh'[b] = fresh[b] /\ (fresh[b] => b # c)
        BY <1>4, <1>6, <2>1
    <2>3. Ordered'
        BY <1>1, <1>3, <2>1 DEF Ordered
    <2>4. Stale'
        BY <1>1, <1>3, <2>1, <2>2 DEF Stale
    <2>5. Chained'
        <3>. SUFFICES ASSUME NEW b \in Buffer, fresh'[b]
                      PROVE  /\ \A i \in 1 .. Last : Follows(i2sBuf'[b][i - 1], i2sBuf'[b][i])
                             /\ (fresh'[next_link(b)] /\ next_link(b) # dmaPos)
                                    => Follows(i2sBuf'[b][Last], i2sBuf'[next_link(b)][0])
            BY <1>1 DEF Chained
        <3>1. fresh[b] /\ i2sBuf'[b] = i2sBuf[b] /\ next_link(b) \in Buffer
            BY <1>5, <2>2, Links
        <3>2. fresh'[next_link(b)] =>
                  fresh[next_link(b)] /\ i2sBuf'[next_link(b)] = i2sBuf[next_link(b)]
            BY <1>5, <2>2, <3>1
        <3>. QED  BY <1>3, <3>1, <3>2 DEF Chained
    <2>6. Filling'
        <3>1. /\ currDMABuff' = c /\ currDMABuffPos' - 1 = p /\ i2sBuf'[c][p] = next
            BY <1>1, <1>5 DEF Word
        <3>. QED  BY <1>7, <1>9, <3>1 DEF Filling
    <2>7. Seam'
        BY <1>3, <1>5, <2>1, <2>2 DEF Seam
    <2>. QED  BY <1>8, <2>3, <2>4, <2>5, <2>6, <2>7
<1>12. CASE p + 1 = I2SDMABUFLEN
    <2>1. ~Unfilled' /\ First' = next' /\ fresh'[c] /\ p = Last
        <3>1. ~Unfilled' /\ p = Last
            BY <1>1, <1>12 DEF Unfilled, Last, Word
        <3>2. fresh'[c]
            BY <1>6, <1>12, Zenon
        <3>. QED  BY <3>1, <3>2 DEF First
    <2>2. /\ Front' = IF Len(dmaQueue) > 0 THEN dmaQueue[1]
                      ELSE IF intr THEN eofDes ELSE dmaPos
          /\ Front' \in Buffer
        BY <1>1, <1>4, <2>1 DEF Front
    <2>3. Lag(dmaPos, Front') < Lag(dmaPos, c)
        <3>1. Len(dmaQueue) > 0 => Lag(dmaPos, dmaQueue[1]) < Lag(dmaPos, c)
            BY <1>1, <1>3, <1>4 DEF Ordered
        <3>2. intr => Lag(dmaPos, eofDes) < Lag(dmaPos, c)
            BY <1>1, <1>3 DEF Ordered
        <3>3. Lag(dmaPos, dmaPos) < Lag(dmaPos, c)
            <4>1. Lag(dmaPos, dmaPos) = 0 /\ Lag(dmaPos, c) \in Nat /\ Lag(dmaPos, c) # 0
                BY <1>1, <1>4, Lags
            <4>. QED  BY <4>1
        <3>. QED  BY <2>2, <3>1, <3>2, <3>3
    <2>4. /\ \A b \in Buffer : Lag(dmaPos, b) \in Nat
          /\ Lag(dmaPos, c) >= 1
          /\ \A b \in Buffer : b # dmaPos => Lag(dmaPos, b) >= 1
          /\ \A b \in Buffer : b # dmaPos =>
                 Lag(dmaPos, next_link(b)) = Lag(dmaPos, b) - 1
        BY <1>1, <1>4, Lags
    <2>5. Ordered'
        BY <1>1, <1>3, <2>1 DEF Ordered
    <2>6. \A b \in Buffer : Lag(dmaPos, b) \in 1 .. Lag(dmaPos, c) - 1 => ~fresh'[b] /\ b # c
        <3>. SUFFICES ASSUME NEW b \in Buffer, Lag(dmaPos, b) \in 1 .. Lag(dmaPos, c) - 1
                      PROVE  ~fresh'[b] /\ b # c
            OBVIOUS
        <3>1. b # c
            BY <2>4
        <3>2. ~fresh[b]
            <4>1. Lag(dmaPos, b) \in 1 .. Lag(dmaPos, Front)
                BY <1>1, <1>4, <2>4
            <4>. QED  BY <1>3, <4>1 DEF Stale
        <3>. QED  BY <1>6, <3>1, <3>2
    <2>7. Stale'
        <3>. SUFFICES ASSUME NEW b \in Buffer, Lag(dmaPos, b) \in 1 .. Lag(dmaPos, Front')
                      PROVE  ~fresh'[b]
            BY <1>1 DEF Stale
        <3>. QED  BY <1>1, <2>2, <2>3, <2>4, <2>6
    <2>8. Chained'
        <3>. SUFFICES ASSUME NEW b \in Buffer, fresh'[b]
                      PROVE  /\ \A i \in 1 .. Last : Follows(i2sBuf'[b][i - 1], i2sBuf'[b][i])
                             /\ (fresh'[next_link(b)] /\ next_link(b) # dmaPos)
                                    => Follows(i2sBuf'[b][Last], i2sBuf'[next_link(b)][0])
            BY <1>1 DEF Chained
        <3>1. next_link(b) \in Buffer /\ next_link(b) # b
            BY Links
        <3>2. CASE b = c
            <4>1. fresh'[next_link(c)] => next_link(c) = dmaPos
                <5>1. next_link(c) # dmaPos => Lag(dmaPos, next_link(c)) \in 1 .. Lag(dmaPos, c) - 1
                    <6>1. /\ Lag(dmaPos, next_link(c)) \in Nat
                          /\ Lag(dmaPos, next_link(c)) = Lag(dmaPos, c) - 1
                        BY <1>1, <1>4, <2>4, <3>1, <3>2
                    <6>2. next_link(c) # dmaPos => Lag(dmaPos, next_link(c)) >= 1
                        BY <2>4, <3>1, <3>2
                    <6>. QED  BY <6>1, <6>2
                <5>. QED  BY <2>6, <3>1, <3>2, <5>1
            <4>. QED  BY <1>9, <2>1, <3>2, <4>1
        <3>3. CASE b # c
            <4>1. fresh[b] /\ i2sBuf'[b] = i2sBuf[b]
                BY <1>5, <1>6, <3>3
            <4>2. CASE next_link(b) = c
                BY <1>3, <1>4, <1>10, <4>1, <4>2 DEF Chained, Seam
            <4>3. CASE next_link(b) # c
                <5>1. /\ fresh'[next_link(b)] = fresh[next_link(b)]
                      /\ i2sBuf'[next_link(b)] = i2sBuf[next_link(b)]
                    BY <1>5, <1>6, <3>1, <4>3
                <5>. QED  BY <1>3, <4>1, <5>1 DEF Chained
            <4>. QED  BY <4>2, <4>3
        <3>. QED  BY <3>2, <3>3
    <2>9. Filling'
        BY <2>1 DEF Filling
    <2>10. Seam'
        <3>. SUFFICES ASSUME NEW b \in Buffer, next_link(b) = Front', fresh'[b]
                      PROVE  Follows(i2sBuf'[b][Last], next')
            BY <2>1 DEF Seam
        <3>1. CASE b = c
            BY <1>5, <1>7, <2>1, <3>1
        <3>2. CASE b = dmaPos
            <4>1. Lag(dmaPos, next_link(dmaPos)) = I2SDMABUFCNT - 1
                BY <1>4 DEF Lag, next_link, Buffer
            <4>2. Lag(dmaPos, c) <= I2SDMABUFCNT - 1
                BY <1>1, <1>4, Lags
            <4>. QED  BY <1>1, <2>2, <2>3, <2>4, <3>2, <4>1, <4>2
        <3>3. CASE b # c /\ b # dmaPos
            <4>1. Lag(dmaPos, b) = Lag(dmaPos, Front') + 1
                BY <2>2, <2>4, <3>3
            <4>2. Lag(dmaPos, b) # Lag(dmaPos, c)
                BY <1>1, <1>4, <3>3, LagIsPlace
            <4>3. Lag(dmaPos, b) \in 1 .. Lag(dmaPos, c) - 1
                BY <1>1, <2>2, <2>3, <2>4, <4>1, <4>2
            <4>. QED  BY <2>6, <4>3
        <3>. QED  BY <3>1, <3>2, <3>3
    <2>. QED  BY <1>8, <2>5, <2>7, <2>8, <2>9, <2>10
<1>. QED  BY <1>1, <1>11, <1>12 DEF Word

(* What i2sInit leaves: silence, and the first sample is to follow it. *)
LEMMA HeardInit == Init => HInv
<1>. SUFFICES ASSUME Init PROVE HInv
    OBVIOUS
<1>. USE ConstantsAreNat, LastIsWord DEF Init
<1>1. /\ \A b \in Buffer, i \in Word : i2sBuf[b][i] = Silence
      /\ dmaPos = 0 /\ 0 \in Buffer /\ Len(dmaQueue) = 0 /\ ~intr /\ ~Unfilled
      /\ next = 0 /\ heard = Silence /\ dmaIdx = 0
    BY DEF Buffer, Unfilled
<1>2. Front = dmaPos /\ First = 0 /\ Lag(dmaPos, dmaPos) = 0
    BY <1>1, Lags DEF Front, First
<1>3. \A i \in 1 .. Last : i - 1 \in Word /\ i \in Word
    BY DEF Word, Last
<1>4. Chained /\ Seam
    BY <1>1, <1>2, <1>3, Links DEF Chained, Seam, Follows
<1>5. HeardInOrder /\ Ordered /\ Stale /\ Filling /\ Due
    BY <1>1, <1>2 DEF HeardInOrder, Ordered, Stale, Filling, Due, InOrder
<1>. QED  BY <1>4, <1>5 DEF HInv

(* Samples are heard in the order of the calls of i2sPushSample, none lost *)
(* and none twice, until the decoder is late: whatever the number and the  *)
(* length of the buffers, and however late slc_isr comes.                  *)
THEOREM SamplesInOrder == Spec => []HeardInOrder
<1>1. IInv /\ HInv /\ [Next]_vars => HInv'
    BY HeardWord, HeardEof, HeardIsr, HeardCall, HeardReceive, HeardStore DEF Next
<1>2. HInv => HeardInOrder
    BY DEF HInv
<1>. QED  BY <1>1, <1>2, HeardInit, InvHolds, PTL DEF Spec

-----------------------------------------------------------------------------
(* Where the empty buffers are.  OnTime says that what is on the queue is  *)
(* empty; this is the converse, and it needs the interrupts to be taken in *)
(* time as well: a buffer whose interrupt was missed is on no list.        *)

OnTheQueue(b) == \E i \in 1 .. Len(dmaQueue) : dmaQueue[i] = b
OnItsWay(b) == intr /\ eofDes = b
InHand(b) == Unfilled /\ currDMABuff = b

(* As long as decoder and interrupts are in time, the buffers that were    *)
(* sent and not rewritten are those on the queue, the one slc_isr is about *)
(* to put there and the one the decoder fills.                             *)
EmptiesAreKnown == (missed = 0 /\ ~late) =>
    \A b \in Buffer : ~fresh[b] <=> OnTheQueue(b) \/ OnItsWay(b) \/ InHand(b)

(* i2sPushSample has no room in hand and blocks in xQueueReceive. *)
Blocked == pc = "push" /\ NeedBuffer /\ dmaQueue = <<>>

(* It blocks only when there is nothing to write to: every buffer of the   *)
(* ring holds samples that were not sent yet, but for one at most, whose   *)
(* interrupt is pending.                                                   *)
BlockedIfFull == (missed = 0 /\ ~late /\ Blocked) =>
    \A b \in Buffer : fresh[b] \/ OnItsWay(b)

(* None is forgotten: the half that the steps have to keep. *)
NoneForgotten == (missed = 0 /\ ~late) =>
    \A b \in Buffer : ~fresh[b] => OnTheQueue(b) \/ OnItsWay(b) \/ InHand(b)

LEMMA ForgottenStep == IInv /\ NoneForgotten /\ [Next]_vars => NoneForgotten'
<1>. SUFFICES ASSUME IInv, NoneForgotten, [Next]_vars, missed' = 0, ~late',
                     NEW b \in Buffer, ~fresh'[b]
              PROVE  (OnTheQueue(b) \/ OnItsWay(b) \/ InHand(b))'
    BY DEF NoneForgotten
<1>. USE ConstantsAreNat
<1>1. TypeOK
    BY DEF IInv
<1>2. CASE DmaWord \/ PushSample \/ UNCHANGED vars
  <2>1. UNCHANGED <<intr, eofDes, missed, dmaQueue, currDMABuff, currDMABuffPos, fresh, late>>
      BY <1>2 DEF DmaWord, PushSample, vars, dma, cpu
  <2>. QED  BY <2>1 DEF NoneForgotten, OnTheQueue, OnItsWay, InHand, Unfilled
<1>3. CASE DmaEof
  <2>1. /\ missed = 0 /\ ~intr /\ ~late /\ intr' = TRUE /\ eofDes' = dmaPos
        /\ UNCHANGED <<dmaQueue, currDMABuff, currDMABuffPos>>
      BY <1>1, <1>3 DEF DmaEof, TypeOK, cpu
  <2>2. b # dmaPos => ~fresh[b]
      BY <1>1, <1>3 DEF DmaEof, TypeOK
  <2>3. b = dmaPos => OnItsWay(b)'
      BY <2>1 DEF OnItsWay
  <2>4. b # dmaPos => OnTheQueue(b) \/ InHand(b)
      BY <2>1, <2>2 DEF NoneForgotten, OnItsWay
  <2>. QED  BY <2>1, <2>3, <2>4 DEF OnTheQueue, InHand, Unfilled
<1>4. CASE slc_isr
  <2>1. /\ missed = 0 /\ ~late /\ intr /\ ~QueueFull
        /\ UNCHANGED <<currDMABuff, currDMABuffPos, fresh>>
      BY <1>4, FullIsLate DEF slc_isr, cpu
  <2>2. dmaQueue' = Append(dmaQueue, eofDes)
      BY <1>4, <2>1 DEF slc_isr
  <2>3. /\ Len(dmaQueue) \in Nat /\ Len(dmaQueue') = Len(dmaQueue) + 1
        /\ \A i \in 1 .. Len(dmaQueue) : dmaQueue'[i] = dmaQueue[i]
        /\ dmaQueue'[Len(dmaQueue) + 1] = eofDes
      BY <1>1, <2>2 DEF TypeOK
  <2>4. OnTheQueue(b) \/ OnItsWay(b) \/ InHand(b)
      BY <2>1 DEF NoneForgotten
  <2>5. OnTheQueue(b) => OnTheQueue(b)'
      BY <2>3 DEF OnTheQueue
  <2>6. OnItsWay(b) => OnTheQueue(b)'
      BY <2>3 DEF OnTheQueue, OnItsWay
  <2>7. InHand(b) => InHand(b)'
      BY <2>1 DEF InHand, Unfilled
  <2>. QED  BY <2>4, <2>5, <2>6, <2>7
<1>5. CASE PushReceive
  <2>1. /\ missed = 0 /\ ~late /\ ~Unfilled /\ ~fresh[b] /\ dmaQueue # <<>>
        /\ dmaQueue' = Tail(dmaQueue) /\ currDMABuff' = Head(dmaQueue) /\ currDMABuffPos' = 0
        /\ UNCHANGED <<intr, eofDes>>
      BY <1>1, <1>5 DEF PushReceive, NeedBuffer, Unfilled, TypeOK, dma
  <2>2. /\ Len(dmaQueue) \in Nat /\ Len(dmaQueue) >= 1
        /\ Len(dmaQueue') = Len(dmaQueue) - 1
        /\ \A i \in 2 .. Len(dmaQueue) : /\ i - 1 \in 1 .. Len(dmaQueue')
                                         /\ dmaQueue'[i - 1] = dmaQueue[i]
        /\ currDMABuff' = dmaQueue[1] /\ currDMABuff' \in Buffer
      BY <1>1, <2>1 DEF TypeOK
  <2>3. OnTheQueue(b) \/ OnItsWay(b)
      BY <2>1 DEF NoneForgotten, InHand
  <2>4. OnItsWay(b) => OnItsWay(b)'
      BY <2>1 DEF OnItsWay
  <2>5. Unfilled'
      BY <2>1, <2>2 DEF Unfilled
  <2>6. ASSUME NEW i \in 1 .. Len(dmaQueue), dmaQueue[i] = b
        PROVE  OnTheQueue(b)' \/ InHand(b)'
    <3>1. CASE i = 1
        BY <2>2, <2>5, <2>6, <3>1 DEF InHand
    <3>2. CASE i \in 2 .. Len(dmaQueue)
        BY <2>2, <2>6, <3>2 DEF OnTheQueue
    <3>. QED  BY <2>2, <3>1, <3>2
  <2>. QED  BY <2>3, <2>4, <2>6 DEF OnTheQueue
<1>6. CASE PushStore
  <2>1. /\ missed = 0 /\ ~late /\ currDMABuff \in Buffer /\ currDMABuffPos' = currDMABuffPos + 1
        /\ currDMABuffPos \in 0 .. I2SDMABUFLEN - 1
        /\ UNCHANGED <<intr, eofDes, dmaQueue, currDMABuff>>
      BY <1>1, <1>6 DEF PushStore, NeedBuffer, TypeOK, dma
  <2>2. fresh' = [fresh EXCEPT ![currDMABuff] =
                     currDMABuffPos + 1 = I2SDMABUFLEN \/ fresh[currDMABuff]]
      BY <1>6 DEF PushStore
  <2>3. fresh \in [Buffer -> BOOLEAN]
      BY <1>1 DEF TypeOK
  <2>4. ~fresh[b] /\ (b = currDMABuff => currDMABuffPos + 1 # I2SDMABUFLEN)
      BY <2>1, <2>2, <2>3, Zenon
  <2>5. OnTheQueue(b) \/ OnItsWay(b) \/ InHand(b)
      BY <2>1, <2>4 DEF NoneForgotten
  <2>6. InHand(b) => InHand(b)'
      BY <2>1, <2>4 DEF InHand, Unfilled
  <2>. QED  BY <2>1, <2>5, <2>6 DEF OnTheQueue, OnItsWay
<1>. QED  BY <1>2, <1>3, <1>4, <1>5, <1>6 DEF Next

LEMMA NoneIsForgotten == Spec => []NoneForgotten
<1>1. Init => NoneForgotten
    BY DEF Init, NoneForgotten
<1>. QED  BY <1>1, ForgottenStep, InvHolds, PTL DEF Spec

(* No empty buffer gets lost between engine, interrupt, queue and decoder, *)
(* and none that still holds unsent samples is among them.                 *)
THEOREM EmptiesAccountedFor == Spec => []EmptiesAreKnown
<1>1. IInv /\ NoneForgotten => EmptiesAreKnown
  <2>. SUFFICES ASSUME IInv, NoneForgotten, missed = 0, ~late, NEW b \in Buffer
                PROVE  ~fresh[b] <=> OnTheQueue(b) \/ OnItsWay(b) \/ InHand(b)
      BY DEF EmptiesAreKnown
  <2>1. ~fresh[b] => OnTheQueue(b) \/ OnItsWay(b) \/ InHand(b)
      BY DEF NoneForgotten
  <2>2. OnTheQueue(b) \/ OnItsWay(b) \/ InHand(b) => ~fresh[b]
      BY DEF IInv, OnTime, OnTheQueue, OnItsWay, InHand, Unfilled
  <2>. QED  BY <2>1, <2>2
<1>. QED  BY <1>1, InvHolds, NoneIsForgotten, PTL

(* i2sPushSample blocks only when the ring is full.  What it waits for is  *)
(* an interrupt that is pending or the end of the buffer being sent.       *)
THEOREM BlocksOnlyWhenFull == Spec => []BlockedIfFull
<1>1. TypeOK /\ EmptiesAreKnown => BlockedIfFull
  <2>. SUFFICES ASSUME TypeOK, EmptiesAreKnown, missed = 0, ~late, Blocked,
                       NEW b \in Buffer, ~fresh[b]
                PROVE  OnItsWay(b)
      BY DEF BlockedIfFull
  <2>1. OnTheQueue(b) \/ OnItsWay(b) \/ InHand(b)
      BY DEF EmptiesAreKnown
  <2>2. ~OnTheQueue(b) /\ ~InHand(b)
      BY ConstantsAreNat DEF Blocked, NeedBuffer, OnTheQueue, InHand, Unfilled, TypeOK
  <2>. QED  BY <2>1, <2>2
<1>. QED  BY <1>1, TypeCorrect, EmptiesAccountedFor, PTL

(* How much a blocked push still has to wait for: the words to the end of  *)
(* the buffer being sent, and the interrupt.                               *)
StepsToBuffer == IF ~Blocked THEN 0
                 ELSE IF intr THEN 1
                 ELSE 1 + (I2SDMABUFLEN - dmaIdx)

(* While a push is blocked every step brings its buffer nearer, but for    *)
(* words that are sent before slc_isr takes a pending interrupt.           *)
BringsBuffer ==
    Blocked => \/ StepsToBuffer' < StepsToBuffer
               \/ intr /\ intr' /\ StepsToBuffer' = 1

(* i2sPushSample waits for the rest of one buffer and one interrupt, not   *)
(* longer, also when the decoder was late or interrupts were missed: what  *)
(* PushReturns leaves to fairness is that the engine and slc_isr run.      *)
THEOREM WaitIsShort ==
    Spec => /\ [](StepsToBuffer \in 0 .. I2SDMABUFLEN + 1)
            /\ [][BringsBuffer]_vars
<1>1. TypeOK => StepsToBuffer \in 0 .. I2SDMABUFLEN + 1
    BY ConstantsAreNat DEF TypeOK, StepsToBuffer, Word
<1>2. TypeOK /\ [Next]_vars => [BringsBuffer]_vars
  <2>. SUFFICES ASSUME TypeOK, Next, Blocked  PROVE BringsBuffer
      BY DEF BringsBuffer
  <2>. USE ConstantsAreNat
  <2>1. dmaIdx \in 0 .. I2SDMABUFLEN - 1 /\ pc = "push" /\ NeedBuffer /\ dmaQueue = <<>>
      BY DEF TypeOK, Word, Blocked
  <2>2. CASE DmaWord
    <3>1. dmaIdx' = dmaIdx + 1 /\ intr' = intr /\ Blocked'
        BY <2>1, <2>2 DEF DmaWord, Blocked, NeedBuffer, cpu
    <3>. QED  BY <2>1, <3>1 DEF BringsBuffer, StepsToBuffer
  <2>3. CASE DmaEof
    <3>1. intr' = TRUE /\ Blocked'
        BY <2>1, <2>3 DEF DmaEof, Blocked, NeedBuffer, cpu
    <3>. QED  BY <2>1, <3>1 DEF BringsBuffer, StepsToBuffer
  <2>4. CASE slc_isr
    <3>1. intr /\ ~QueueFull
        BY <2>1, <2>4 DEF slc_isr, QueueFull
    <3>2. dmaQueue' # <<>>
        BY <2>1, <2>4, <3>1 DEF slc_isr
    <3>. QED  BY <3>1, <3>2 DEF BringsBuffer, StepsToBuffer, Blocked
  <2>5. ~PushSample /\ ~PushReceive /\ ~PushStore
      BY <2>1 DEF PushSample, PushReceive, PushStore
  <2>. QED  BY <2>2, <2>3, <2>4, <2>5 DEF Next
<1>. QED  BY <1>1, <1>2, TypeCorrect, PTL DEF Spec
=============================================================================
