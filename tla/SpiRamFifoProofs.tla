-------------------------- MODULE SpiRamFifoProofs --------------------------
(***************************************************************************)
(* The safety of the FIFO of spiram_fifo.c for every chip size, transfer   *)
(* size, low-water mark and length of the calls, proved from an inductive  *)
(* invariant.  Only the relation SPIRAMSIZE >= 2 * SPIREADSIZE is needed,  *)
(* for the two tasks not to fall asleep on each other.                     *)
(***************************************************************************)
EXTENDS MCSpiRamFifo, SequenceTheorems, TLAPS

(* A task is between its take and its give of the mutex when it holds it.  *)
MutexHeld ==
    /\ mux = "tskmad" <=> rdPc \in {"fill", "check", "spi", "unlock"}
    /\ mux = "tskreader" <=> wrPc \in {"free", "check", "spi", "unlock"}

SpiQuiet == (rdPc = "spi" \/ wrPc = "spi") => SpiIdle

(* What a call of spiRamFifoRead knows of its next transfer. *)
ReadShape ==
    /\ rdLen + rdGot <= MaxLen
    /\ rdPc \in {"take", "check", "mark", "wait", "spi"} => rdLen >= 1
    /\ rdPc \in {"check", "mark", "wait", "spi"} =>
           rdN >= 1 /\ rdN <= rdLen /\ rdN <= SPIRAMSIZE - fifoRpos
    /\ rdPc = "spi" => rdN <= fifoFill
    /\ rdPc \in {"idle", "fill"} => rdLen = 0

WriteShape ==
    /\ wrPc \in {"take", "check", "wait", "spi"} => wrLen >= 1
    /\ wrPc \in {"check", "wait", "spi"} =>
           wrN >= 1 /\ wrN <= wrLen /\ wrN <= SPIRAMSIZE - fifoWpos
    /\ wrPc = "spi" => wrN <= SPIRAMSIZE - fifoFill

(* NoLostWakeup, which the reader owes already when it has given the mutex *)
(* back and not yet looked at fifoFill again.                              *)
WakeupOwed ==
    /\ (rdPc \in {"mark", "wait"} /\ semCanRead = 0 /\ fifoFill >= rdN)
           => wrPc \in {"unlock", "signal"}
    /\ (wrPc = "wait" /\ semCanWrite = 0 /\ SPIRAMSIZE - fifoFill >= wrN)
           => rdPc \in {"unlock", "signal"}

Control == MutexHeld /\ SpiQuiet /\ ReadShape /\ WriteShape /\ WakeupOwed /\ KnownFillHolds

Data == RingShape /\ FifoOrder /\ ReadDelivers

IInv == TypeOK /\ Control /\ Data
-----------------------------------------------------------------------------
(* Arithmetic of the ring *)

LEMMA ConstantsAreNat ==
    /\ SPIRAMSIZE \in Nat /\ SPIRAMSIZE >= 1
    /\ SPIREADSIZE \in Nat /\ SPIREADSIZE >= 1
    /\ SPIRAMSIZE >= 2 * SPIREADSIZE
    /\ MaxLen \in Nat /\ MaxLen >= 1
    /\ Names \in Nat /\ Names > SPIRAMSIZE /\ Names > MaxLen
    /\ CounterMod \in Nat /\ CounterMod >= 1
BY SpiRamAssumption, FifoAssumption

(* A transfer moves something, and never past the end of the chip. *)
LEMMA ChunkBounds ==
    ASSUME NEW len \in Nat, len >= 1, NEW pos \in Address
    PROVE  /\ Chunk(len, pos) \in 0 .. SPIREADSIZE
           /\ Chunk(len, pos) >= 1
           /\ Chunk(len, pos) <= len
           /\ Chunk(len, pos) <= SPIRAMSIZE - pos
BY ConstantsAreNat DEF Chunk, Smaller, Address

LEMMA NameIsByte ==
    ASSUME NEW b \in Nat, b < 2 * Names
    PROVE  Name(b) \in Byte
BY ConstantsAreNat DEF Name, Byte

(* Names may be advanced in two steps. *)
LEMMA NameAdd ==
    ASSUME NEW b \in Byte, NEW d \in Nat, NEW m \in Nat, d + m < Names
    PROVE  Name(b + (d + m)) = Name(Name(b + d) + m)
BY ConstantsAreNat DEF Name, Byte

LEMMA WrapIsAddress ==
    ASSUME NEW p \in Nat, p < 2 * SPIRAMSIZE
    PROVE  Wrap(p) \in Address
BY ConstantsAreNat DEF Wrap, Address

-----------------------------------------------------------------------------
(* What spiRamFifoInit leaves satisfies the invariant. *)
THEOREM InitInv == Init => IInv
<1> SUFFICES ASSUME Init PROVE IInv
    OBVIOUS
<1>. USE ConstantsAreNat
<1>1. TypeOK
    BY DEF Init, TypeOK, Address, Byte, NoTransfer
<1>2. Control
    BY DEF Init, Control, MutexHeld, SpiQuiet, ReadShape, WriteShape, WakeupOwed,
           KnownFillHolds
<1>3. Data
    BY DEF Init, Data, RingShape, FifoOrder, ReadDelivers, Wrap, Name
<1>. QED  BY <1>1, <1>2, <1>3 DEF IInv

-----------------------------------------------------------------------------
(* Steps of the two calls that only move control: chip, ring and the       *)
(* reader's buffer stay as they are.                                       *)
ControlStep ==
    \/ ReadTake \/ ReadEmpty \/ ReadMark \/ ReadWait \/ ReadSpi
    \/ ReadUnlock \/ ReadSignal \/ FillTake \/ FillGive
    \/ \E len \in 1 .. MaxLen : WriteCall(len)
    \/ WriteTake \/ WriteFull \/ WriteWait \/ WriteSpi
    \/ WriteUnlock \/ WriteSignal \/ FreeTake \/ FreeGive

LEMMA ControlStepFrame ==
    ASSUME ControlStep
    PROVE  UNCHANGED <<ram, spi, fifoRpos, fifoWpos, fifoFill, rdGot, buf, sent, rcvd>>
BY DEF ControlStep, ReadTake, ReadEmpty, ReadMark, ReadWait, ReadSpi, ReadUnlock,
       ReadSignal, FillTake, FillGive, WriteCall, WriteTake, WriteFull, WriteWait,
       WriteSpi, WriteUnlock, WriteSignal, FreeTake, FreeGive,
       chip, ring, counters, sems, rdVars, wrVars

LEMMA ControlStepData ==
    ASSUME Data, ControlStep
    PROVE  Data'
<1>. UNCHANGED <<ram, spi, fifoRpos, fifoWpos, fifoFill, rdGot, buf, sent, rcvd>>
    BY ControlStepFrame
<1>. QED  BY DEF Data, RingShape, FifoOrder, ReadDelivers, Settled

LEMMA ControlStepType ==
    ASSUME IInv, ControlStep
    PROVE  TypeOK'
<1>. USE ConstantsAreNat DEF chip, ring, counters, sems, rdVars, wrVars
<1>1. TypeOK /\ ReadShape /\ WriteShape
    BY DEF IInv, Control
<1>2. UNCHANGED <<ram, spi, fifoRpos, fifoWpos, fifoFill, rdGot, buf, sent, rcvd>>
    BY ControlStepFrame
<1>3. ReadTake \/ WriteTake => TypeOK'
  <2>1. CASE ReadTake
    <3>1. rdN' \in 0 .. SPIREADSIZE
        BY <1>1, <2>1, ChunkBounds DEF TypeOK, ReadShape, ReadTake
    <3>. QED  BY <1>1, <1>2, <2>1, <3>1 DEF TypeOK, ReadTake
  <2>2. CASE WriteTake
    <3>1. wrN' \in 0 .. SPIREADSIZE
        BY <1>1, <2>2, ChunkBounds DEF TypeOK, WriteShape, WriteTake
    <3>. QED  BY <1>1, <1>2, <2>2, <3>1 DEF TypeOK, WriteTake
  <2>. QED  BY <2>1, <2>2
<1>4. CASE ReadEmpty
    BY <1>1, <1>2, <1>4 DEF TypeOK, ReadEmpty
<1>5. CASE ReadMark \/ ReadWait \/ ReadSpi \/ ReadUnlock \/ ReadSignal \/ FillTake \/ FillGive
  <2>1. CASE ReadMark
    BY <1>1, <1>2, <2>1 DEF TypeOK, ReadMark
  <2>2. CASE ReadWait
    BY <1>1, <1>2, <2>2 DEF TypeOK, ReadWait
  <2>3. CASE ReadSpi
    BY <1>1, <1>2, <2>3 DEF TypeOK, ReadSpi
  <2>4. CASE ReadUnlock
    BY <1>1, <1>2, <2>4 DEF TypeOK, ReadUnlock
  <2>5. CASE ReadSignal
    BY <1>1, <1>2, <2>5 DEF TypeOK, ReadSignal
  <2>6. CASE FillTake
    BY <1>1, <1>2, <2>6 DEF TypeOK, FillTake
  <2>7. CASE FillGive
    BY <1>1, <1>2, <2>7 DEF TypeOK, FillGive
  <2>. QED  BY <1>5, <2>1, <2>2, <2>3, <2>4, <2>5, <2>6, <2>7
<1>6. CASE WriteFull
    BY <1>1, <1>2, <1>6 DEF TypeOK, WriteFull
<1>7. CASE \/ \E len \in 1 .. MaxLen : WriteCall(len)
           \/ WriteWait \/ WriteSpi \/ WriteUnlock \/ WriteSignal \/ FreeTake \/ FreeGive
  <2>1. CASE \E len \in 1 .. MaxLen : WriteCall(len)
    BY <1>1, <1>2, <2>1 DEF TypeOK, WriteCall
  <2>2. CASE WriteWait
    BY <1>1, <1>2, <2>2 DEF TypeOK, WriteWait
  <2>3. CASE WriteSpi
    BY <1>1, <1>2, <2>3 DEF TypeOK, WriteSpi
  <2>4. CASE WriteUnlock
    BY <1>1, <1>2, <2>4 DEF TypeOK, WriteUnlock
  <2>5. CASE WriteSignal
    BY <1>1, <1>2, <2>5 DEF TypeOK, WriteSignal
  <2>6. CASE FreeTake
    BY <1>1, <1>2, <2>6 DEF TypeOK, FreeTake
  <2>7. CASE FreeGive
    BY <1>1, <1>2, <2>7 DEF TypeOK, FreeGive
  <2>. QED  BY <1>7, <2>1, <2>2, <2>3, <2>4, <2>5, <2>6, <2>7
<1>. QED  BY <1>3, <1>4, <1>5, <1>6, <1>7 DEF ControlStep

LEMMA ControlStepControl ==
    ASSUME IInv, ControlStep
    PROVE  Control'
<1>. USE ConstantsAreNat DEF chip, ring, counters, sems, rdVars, wrVars,
                             Control, MutexHeld, SpiQuiet, SpiIdle, ReadShape,
                             WriteShape, WakeupOwed, KnownFillHolds
<1>1. TypeOK /\ Control
    BY DEF IInv
<1>2. UNCHANGED <<ram, spi, fifoRpos, fifoWpos, fifoFill, rdGot, buf, sent, rcvd>>
    BY ControlStepFrame
<1>3. CASE ReadTake
  <2>1. /\ rdN' \in 0 .. SPIREADSIZE /\ rdN' >= 1
        /\ rdN' <= rdLen /\ rdN' <= SPIRAMSIZE - fifoRpos
      BY <1>1, <1>3, ChunkBounds DEF TypeOK, ReadTake
  <2>. QED  BY <1>1, <1>2, <1>3, <2>1 DEF TypeOK, ReadTake
<1>4. CASE ReadEmpty
    BY <1>1, <1>2, <1>4 DEF TypeOK, ReadEmpty
<1>5. CASE ReadMark
    BY <1>1, <1>2, <1>5 DEF TypeOK, ReadMark
<1>6. CASE ReadWait
    BY <1>1, <1>2, <1>6 DEF TypeOK, ReadWait
<1>7. CASE ReadSpi
    BY <1>1, <1>2, <1>7 DEF TypeOK, ReadSpi
<1>8. CASE ReadUnlock
    BY <1>1, <1>2, <1>8 DEF TypeOK, ReadUnlock
<1>9. CASE ReadSignal
    BY <1>1, <1>2, <1>9 DEF TypeOK, ReadSignal
<1>10. CASE FillTake
    BY <1>1, <1>2, <1>10 DEF TypeOK, FillTake
<1>11. CASE FillGive
    BY <1>1, <1>2, <1>11 DEF TypeOK, FillGive
<1>12. CASE WriteTake
  <2>1. /\ wrN' \in 0 .. SPIREADSIZE /\ wrN' >= 1
        /\ wrN' <= wrLen /\ wrN' <= SPIRAMSIZE - fifoWpos
      BY <1>1, <1>12, ChunkBounds DEF TypeOK, WriteTake
  <2>. QED  BY <1>1, <1>2, <1>12, <2>1 DEF TypeOK, WriteTake
<1>13. CASE WriteFull
    BY <1>1, <1>2, <1>13 DEF TypeOK, WriteFull
<1>14. CASE WriteWait
    BY <1>1, <1>2, <1>14 DEF TypeOK, WriteWait
<1>15. CASE WriteSpi
    BY <1>1, <1>2, <1>15 DEF TypeOK, WriteSpi
<1>16. CASE WriteUnlock
    BY <1>1, <1>2, <1>16 DEF TypeOK, WriteUnlock
<1>17. CASE WriteSignal
    BY <1>1, <1>2, <1>17 DEF TypeOK, WriteSignal
<1>18. CASE FreeTake
    BY <1>1, <1>2, <1>18 DEF TypeOK, FreeTake
<1>19. CASE FreeGive
    BY <1>1, <1>2, <1>19 DEF TypeOK, FreeGive
<1>20. CASE \E len \in 1 .. MaxLen : WriteCall(len)
    BY <1>1, <1>2, <1>20 DEF TypeOK, WriteCall
<1>. QED
    BY <1>3, <1>4, <1>5, <1>6, <1>7, <1>8, <1>9, <1>10, <1>11, <1>12, <1>13, <1>14, <1>15, <1>16, <1>17, <1>18, <1>19, <1>20 DEF ControlStep

-----------------------------------------------------------------------------
(* The four steps that touch the chip, the ring or the reader's buffer *)

LEMMA ReadCallStep ==
    ASSUME IInv, NEW len \in 1 .. MaxLen, ReadCall(len)
    PROVE  IInv'
<1>. USE ConstantsAreNat DEF chip, ring, counters, sems, wrVars, ReadCall
<1>1. TypeOK /\ Control /\ Data
    BY DEF IInv
<1>2. TypeOK'
    BY <1>1 DEF TypeOK
<1>3. Control'
    BY <1>1 DEF TypeOK, Control, MutexHeld, SpiQuiet, SpiIdle, ReadShape, WriteShape,
                WakeupOwed, KnownFillHolds
<1>4. RingShape' /\ FifoOrder'
    BY <1>1 DEF Data, RingShape, FifoOrder, Settled
<1>5. ReadDelivers'
    BY DEF ReadDelivers
<1>. QED  BY <1>2, <1>3, <1>4, <1>5 DEF IInv, Data

(* The engine may end its write at any moment: what the chip holds then is *)
(* what it was going to hold.                                              *)
LEMMA SpiEndStep ==
    ASSUME IInv, SpiEnd
    PROVE  IInv'
<1>. USE ConstantsAreNat DEF ring, counters, sems, rdVars, wrVars, SpiEnd, SpiTransferEnd
<1>1. TypeOK /\ Control /\ Data
    BY DEF IInv
<1>2. TypeOK'
    BY <1>1 DEF TypeOK, Settled, NoTransfer
<1>3. Control'
    BY <1>1 DEF Control, MutexHeld, SpiQuiet, SpiIdle, ReadShape, WriteShape,
                WakeupOwed, KnownFillHolds
<1>4. Settled' = Settled
    BY <1>1 DEF Settled, NoTransfer
<1>5. Data'
    BY <1>1, <1>4 DEF Data, RingShape, FifoOrder, ReadDelivers
<1>. QED  BY <1>2, <1>3, <1>5 DEF IInv

LEMMA ReadTransferStep ==
    ASSUME IInv, ReadTransfer
    PROVE  IInv'
<1>. USE ConstantsAreNat
<1>1. TypeOK /\ Control /\ Data
    BY DEF IInv
<1>2. /\ UNCHANGED <<ram, spi, fifoWpos, fifoOvfCnt, fifoUdrCnt, semCanRead, semCanWrite,
                     mux, rdN, wrPc, wrLen, wrN, sent>>
      /\ rdPc = "spi" /\ rdPc' = "unlock"
      /\ rdGot' = rdGot + rdN /\ rdLen' = rdLen - rdN
      /\ rdSeen' = IF rdSeen > rdN THEN rdSeen - rdN ELSE 0
      /\ rcvd' = Name(rcvd + rdN) /\ fifoFill' = fifoFill - rdN
      /\ fifoRpos' = Wrap(fifoRpos + rdN)
    BY <1>1 DEF ReadTransfer, chip, counters, sems, wrVars, Wrap, TypeOK, Address,
                Control, ReadShape
<1>3. /\ rdN \in Nat /\ rdN >= 1 /\ rdN <= rdLen /\ rdLen + rdGot <= MaxLen
      /\ rdN <= SPIRAMSIZE - fifoRpos /\ rdN <= fifoFill
      /\ spi = NoTransfer /\ SpiIdle
    BY <1>1, <1>2 DEF TypeOK, Control, SpiQuiet, SpiIdle, ReadShape, NoTransfer
<1>4. Settled = ram /\ Settled' = ram
    BY <1>1, <1>2, <1>3 DEF TypeOK, Settled, SpiIdle
<1>5. /\ buf' \in [0 .. MaxLen -> Byte \cup {Junk, Old}]
      /\ \A k \in 0 .. rdGot - 1 : buf'[k] = buf[k]
      /\ \A k \in 0 .. rdN - 1 : buf'[rdGot + k] = ram[fifoRpos + k]
  <2>1. \A k \in 0 .. MaxLen : buf'[k] =
            IF k - rdGot \in 0 .. rdN - 1 THEN ram[fifoRpos + (k - rdGot)]
            ELSE IF k - rdGot \in SpiRamReadStores(rdN) THEN Junk ELSE buf[k]
      BY DEF ReadTransfer
  <2>2. \A k \in 0 .. rdN - 1 : ram[fifoRpos + k] \in Byte \cup {Junk}
      BY <1>1, <1>3 DEF TypeOK, Address
  <2>3. buf' \in [0 .. MaxLen -> Byte \cup {Junk, Old}]
      BY <1>1, <1>3, <2>1, <2>2 DEF TypeOK, ReadTransfer
  <2>4. \A k \in 0 .. rdGot - 1 : buf'[k] = buf[k]
    <3>1. \A b \in SpiRamReadStores(rdN) : b \in Nat
        BY <1>3, SpiRamAssumption DEF SpiRamReadStores
    <3>2. rdGot \in Nat /\ rdGot <= MaxLen
        BY <1>1 DEF TypeOK
    <3>3. ASSUME NEW k \in 0 .. rdGot - 1  PROVE buf'[k] = buf[k]
        <4>1. k \in 0 .. MaxLen /\ k - rdGot \in Int /\ k - rdGot < 0
            BY <3>2
        <4>2. k - rdGot \notin 0 .. rdN - 1 /\ k - rdGot \notin SpiRamReadStores(rdN)
            BY <3>1, <4>1
        <4>. QED  BY <2>1, <4>1, <4>2
    <3>. QED  BY <3>3
  <2>5. \A k \in 0 .. rdN - 1 : buf'[rdGot + k] = ram[fifoRpos + k]
    <3>. SUFFICES ASSUME NEW k \in 0 .. rdN - 1
                  PROVE  buf'[rdGot + k] = ram[fifoRpos + k]
        OBVIOUS
    <3>1. rdGot + k \in 0 .. MaxLen /\ (rdGot + k) - rdGot = k
        BY <1>1, <1>3 DEF TypeOK
    <3>. QED  BY <2>1, <3>1
  <2>. QED  BY <2>3, <2>4, <2>5
<1>6. TypeOK'
    BY <1>1, <1>2, <1>3, <1>5, WrapIsAddress, NameIsByte DEF TypeOK, Address, Byte
<1>7. Control'
    BY <1>1, <1>2, <1>3 DEF TypeOK, Control, MutexHeld, SpiQuiet, SpiIdle, ReadShape,
                            WriteShape, WakeupOwed, KnownFillHolds
<1>8. RingShape'
    BY <1>1, <1>2, <1>3 DEF TypeOK, Data, RingShape, Wrap, Address
<1>9. FifoOrder'
  <2>1. sent' = Name(rcvd' + fifoFill')
      BY <1>1, <1>2, <1>3 DEF TypeOK, Data, FifoOrder, Name, Byte
  <2>2. ASSUME NEW k \in 0 .. fifoFill' - 1
        PROVE  Settled'[Wrap(fifoRpos' + k)] = Name(rcvd' + k)
    <3>1. rdN + k \in 0 .. fifoFill - 1
        BY <1>1, <1>2, <1>3 DEF TypeOK
    <3>2. Settled[Wrap(fifoRpos + (rdN + k))] = Name(rcvd + (rdN + k))
        BY <1>1, <3>1 DEF Data, FifoOrder
    <3>3. Wrap(fifoRpos + (rdN + k)) = Wrap(fifoRpos' + k)
        BY <1>1, <1>2, <1>3, <3>1 DEF TypeOK, Wrap, Address
    <3>4. Name(rcvd + (rdN + k)) = Name(rcvd' + k)
        BY <1>1, <1>2, <1>3, <3>1 DEF TypeOK, Name, Byte
    <3>. QED  BY <1>4, <3>2, <3>3, <3>4
  <2>. QED  BY <2>1, <2>2 DEF FifoOrder
<1>10. ReadDelivers'
  <2>1. ASSUME NEW k \in 0 .. rdGot' - 1
        PROVE  buf'[k] \in Byte /\ Name(buf'[k] + (rdGot' - k)) = rcvd'
    <3>1. CASE k < rdGot
      <4>1. buf'[k] = buf[k] /\ buf[k] \in Byte /\ Name(buf[k] + (rdGot - k)) = rcvd
          BY <1>1, <1>5, <3>1 DEF TypeOK, Data, ReadDelivers
      <4>2. PICK d \in 1 .. MaxLen : d = rdGot - k /\ d + rdN <= MaxLen
          BY <1>1, <1>2, <1>3, <3>1 DEF TypeOK
      <4>3. rdGot' - k = d + rdN
          BY <1>1, <1>2, <1>3, <4>2 DEF TypeOK
      <4>4. Name(buf[k] + d) = rcvd
          BY <4>1, <4>2
      <4>5. Name(buf[k] + (d + rdN)) = Name(rcvd + rdN)
          BY <1>3, <4>1, <4>2, <4>4, NameAdd
      <4>. QED  BY <1>2, <4>1, <4>3, <4>5
    <3>2. CASE k >= rdGot
      <4>1. PICK j \in 0 .. rdN - 1 : k = rdGot + j
          BY <1>1, <1>2, <1>3, <3>2 DEF TypeOK
      <4>2. buf'[k] = ram[fifoRpos + j]
          BY <1>5, <4>1
      <4>3. ram[fifoRpos + j] = Name(rcvd + j)
        <5>1. Wrap(fifoRpos + j) = fifoRpos + j
            BY <1>1, <1>3, <4>1 DEF TypeOK, Wrap, Address
        <5>. QED  BY <1>1, <1>3, <1>4, <4>1, <5>1 DEF TypeOK, Data, FifoOrder
      <4>4. buf'[k] \in Byte
          BY <1>1, <1>3, <4>1, <4>2, <4>3, NameIsByte DEF TypeOK, Byte
      <4>. QED  BY <1>1, <1>2, <1>3, <4>1, <4>2, <4>3, <4>4 DEF TypeOK, Name, Byte
    <3>. QED  BY <1>1, <1>2, <1>3, <3>1, <3>2 DEF TypeOK
  <2>. QED  BY <2>1 DEF ReadDelivers, Byte
<1>. QED  BY <1>6, <1>7, <1>8, <1>9, <1>10 DEF IInv, Data

LEMMA WriteTransferStep ==
    ASSUME IInv, WriteTransfer
    PROVE  IInv'
<1>. USE ConstantsAreNat
<1>1. TypeOK /\ Control /\ Data
    BY DEF IInv
<1>2. /\ UNCHANGED <<ram, fifoRpos, fifoOvfCnt, fifoUdrCnt, semCanRead, semCanWrite,
                     mux, wrN, rdPc, rdLen, rdN, rdGot, buf, rdSeen, rcvd>>
      /\ wrPc = "spi" /\ wrPc' = "unlock"
      /\ spi' = [a \in fifoWpos .. fifoWpos + wrN - 1 |-> Name(sent + (a - fifoWpos))]
      /\ wrLen' = wrLen - wrN /\ sent' = Name(sent + wrN)
      /\ fifoFill' = fifoFill + wrN /\ fifoWpos' = Wrap(fifoWpos + wrN)
    BY <1>1 DEF WriteTransfer, SpiRamWrite, counters, sems, rdVars, Wrap, TypeOK, Address,
                Control, WriteShape
<1>3. /\ wrN \in Nat /\ wrN >= 1 /\ wrN <= wrLen
      /\ wrN <= SPIRAMSIZE - fifoWpos /\ wrN <= SPIRAMSIZE - fifoFill
      /\ SpiIdle /\ rdPc # "spi"
    BY <1>1, <1>2 DEF TypeOK, Control, SpiQuiet, SpiIdle, WriteShape, MutexHeld
<1>4. Settled = ram
    BY <1>1, <1>3 DEF TypeOK, Settled, SpiIdle
<1>5. \A a \in Address : Settled'[a] =
          IF a \in fifoWpos .. fifoWpos + wrN - 1
          THEN Name(sent + (a - fifoWpos)) ELSE Settled[a]
    BY <1>2, <1>4 DEF Settled
<1>6. TypeOK'
  <2>1. DOMAIN spi' \subseteq Address
      BY <1>1, <1>2, <1>3 DEF TypeOK, Address
  <2>2. \A a \in DOMAIN spi' : spi'[a] \in Byte
      BY <1>1, <1>2, <1>3, NameIsByte DEF TypeOK, Address, Byte
  <2>3. fifoWpos' \in Address /\ sent' \in Byte
    <3>1. fifoWpos + wrN \in Nat /\ fifoWpos + wrN < 2 * SPIRAMSIZE
        BY <1>1, <1>3 DEF TypeOK, Address
    <3>2. sent + wrN \in Nat /\ sent + wrN < 2 * Names
        BY <1>1, <1>3 DEF TypeOK, Byte
    <3>. QED  BY <1>2, <3>1, <3>2, WrapIsAddress, NameIsByte
  <2>. QED  BY <1>1, <1>2, <1>3, <2>1, <2>2, <2>3 DEF TypeOK
<1>7. Control'
    BY <1>1, <1>2, <1>3 DEF TypeOK, Control, MutexHeld, SpiQuiet, SpiIdle, ReadShape,
                            WriteShape, WakeupOwed, KnownFillHolds
<1>8. RingShape'
    BY <1>1, <1>2, <1>3 DEF TypeOK, Data, RingShape, Wrap, Address
<1>9. FifoOrder'
  <2>1. sent' = Name(rcvd' + fifoFill')
      BY <1>1, <1>2, <1>3 DEF TypeOK, Data, FifoOrder, Name, Byte
  <2>2. ASSUME NEW k \in 0 .. fifoFill' - 1
        PROVE  Settled'[Wrap(fifoRpos' + k)] = Name(rcvd' + k)
    <3>1. Wrap(fifoRpos + k) \in Address
      <4>1. fifoRpos + k \in Nat /\ fifoRpos + k < 2 * SPIRAMSIZE
          BY <1>1, <1>2, <1>3 DEF TypeOK, Address
      <4>. QED  BY <4>1, WrapIsAddress
    <3>2. CASE k < fifoFill
      <4>1. Wrap(fifoRpos + k) \notin fifoWpos .. fifoWpos + wrN - 1
        <5>1. fifoRpos \in Nat /\ fifoRpos < SPIRAMSIZE /\ k \in Nat /\ fifoFill \in Nat
            BY <1>1, <1>2, <1>3 DEF TypeOK, Address
        <5>2. fifoWpos = Wrap(fifoRpos + fifoFill)
            BY <1>1 DEF Data, RingShape
        <5>. QED  BY <1>3, <3>2, <5>1, <5>2, SMT DEF Wrap
      <4>2. Settled[Wrap(fifoRpos + k)] = Name(rcvd + k)
          BY <1>1, <3>2 DEF TypeOK, Data, FifoOrder
      <4>. QED  BY <1>2, <1>5, <3>1, <4>1, <4>2
    <3>3. CASE k >= fifoFill
      <4>1. PICK j \in 0 .. wrN - 1 : k = fifoFill + j
          BY <1>1, <1>2, <1>3, <3>3 DEF TypeOK
      <4>2. Wrap(fifoRpos + k) = fifoWpos + j
          BY <1>1, <1>3, <4>1 DEF TypeOK, Data, RingShape, Wrap, Address
      <4>3. Settled'[Wrap(fifoRpos + k)] = Name(sent + j)
          BY <1>1, <1>3, <1>5, <3>1, <4>1, <4>2 DEF TypeOK, Address
      <4>4. Name(sent + j) = Name(rcvd + k)
        <5>1. sent = Name(rcvd + fifoFill) /\ rcvd \in Byte
            BY <1>1 DEF TypeOK, Data, FifoOrder
        <5>2. j \in Nat /\ fifoFill \in Nat /\ fifoFill + j < Names
            BY <1>1, <1>3, <4>1 DEF TypeOK
        <5>. QED  BY <4>1, <5>1, <5>2, NameAdd
      <4>. QED  BY <1>2, <4>3, <4>4
    <3>. QED  BY <1>1, <1>2, <1>3, <3>2, <3>3 DEF TypeOK
  <2>. QED  BY <2>1, <2>2 DEF FifoOrder
<1>10. ReadDelivers'
    BY <1>1, <1>2 DEF Data, ReadDelivers
<1>. QED  BY <1>6, <1>7, <1>8, <1>9, <1>10 DEF IInv, Data

-----------------------------------------------------------------------------
(* The inductive invariant *)

(* Every step of either task and of the engine keeps the invariant. *)
LEMMA StepInv == IInv /\ [Next]_vars => IInv'
<1>. SUFFICES ASSUME IInv, [Next]_vars PROVE IInv'
    OBVIOUS
<1>1. CASE ControlStep
    BY <1>1, ControlStepType, ControlStepControl, ControlStepData DEF IInv
<1>2. CASE \E len \in 1 .. MaxLen : ReadCall(len)
    BY <1>2, ReadCallStep
<1>3. CASE ReadTransfer
    BY <1>3, ReadTransferStep
<1>4. CASE WriteTransfer
    BY <1>4, WriteTransferStep
<1>5. CASE SpiEnd
    BY <1>5, SpiEndStep
<1>6. CASE UNCHANGED vars
  <2>. USE <1>6 DEF vars, chip, ring, counters, sems, rdVars, wrVars, IInv
  <2>1. TypeOK'
      BY DEF TypeOK
  <2>2. Control'
      BY DEF Control, MutexHeld, SpiQuiet, SpiIdle, ReadShape, WriteShape, WakeupOwed,
             KnownFillHolds
  <2>3. Data'
      BY DEF Data, RingShape, FifoOrder, ReadDelivers, Settled
  <2>. QED  BY <2>1, <2>2, <2>3
<1>. QED
    BY <1>1, <1>2, <1>3, <1>4, <1>5, <1>6 DEF Next, ReadStep, WriteStep, ControlStep

(* The invariant holds in every state the FIFO reaches. *)
THEOREM InvHolds == Spec => []IInv
BY InitInv, StepInv, PTL DEF Spec

-----------------------------------------------------------------------------
(* The theorems *)

(* Every variable of spiram_fifo.c keeps its range: no index leaves the    *)
(* chip and fifoFill never leaves 0 .. SPIRAMSIZE.                         *)
THEOREM TypeCorrect == Spec => []TypeOK
<1>1. IInv => TypeOK
    BY DEF IInv
<1>. QED  BY <1>1, InvHolds, PTL

(* Bytes stay between the indices, in the order spiRamFifoWrite put them.  *)
THEOREM RingKeepsOrder == Spec => [](RingShape /\ FifoOrder)
<1>1. IInv => RingShape /\ FifoOrder
    BY DEF IInv, Data
<1>. QED  BY <1>1, InvHolds, PTL

(* spiRamFifoRead hands out the next bytes of the stream, none lost, none  *)
(* twice, whatever the transfers and wraps it takes.                       *)
THEOREM ReadsDeliverTheStream == Spec => []ReadDelivers
<1>1. IInv => ReadDelivers
    BY DEF IInv, Data
<1>. QED  BY <1>1, InvHolds, PTL

(* The mutex and the busy waits are enough for the driver, which is not    *)
(* thread-safe.                                                            *)
THEOREM EngineIsExclusive == Spec => []SpiExclusive
<1>1. IInv => SpiExclusive
    BY DEF IInv, Control, MutexHeld, SpiQuiet, SpiExclusive
<1>. QED  BY <1>1, InvHolds, PTL

(* Giving the mutex back before waiting on the semaphore loses no wake-up. *)
THEOREM WakeupsAreNotLost == Spec => []NoLostWakeup
<1>1. IInv => NoLostWakeup
    BY DEF IInv, Control, WakeupOwed, NoLostWakeup
<1>. QED  BY <1>1, InvHolds, PTL

(* The two tasks do not sleep on each other, because the chip holds two    *)
(* transfers: one task's shortage is the other's plenty.                   *)
THEOREM TasksNeverBothAsleep == Spec => []NotBothAsleep
<1>1. IInv => NotBothAsleep
    BY ConstantsAreNat DEF IInv, TypeOK, Control, WakeupOwed, NotBothAsleep
<1>. QED  BY <1>1, InvHolds, PTL

(* A read of no more than spiRamFifoFill answered never waits.             *)
THEOREM PoliteReadsNeverWait == Spec => []KnownFillHolds
<1>1. IInv => KnownFillHolds
    BY DEF IInv, Control
<1>. QED  BY <1>1, InvHolds, PTL

-----------------------------------------------------------------------------
(* The refinement: the ring in the chip is the channel of ByteChannel.     *)

(* The bytes in transit and those of the request, as MCSpiRamFifo maps them.*)
Pipe == [k \in 1 .. fifoFill |-> Settled[Wrap(fifoRpos + k - 1)]]
Out == [k \in 1 .. rdGot |-> buf[k - 1]]

LEMMA NameIsRemainder ==
    ASSUME NEW b \in Nat, b < 2 * Names
    PROVE  Name(b) = b % Names
<1>1. Names \in Nat /\ Names >= 1
    BY ConstantsAreNat
<1>2. CASE b < Names
    BY <1>1, <1>2, SMT DEF Name
<1>3. CASE b >= Names
    <2>1. b - Names \in 0 .. Names - 1 /\ b = Names * 1 + (b - Names)
        BY <1>1, <1>3
    <2>2. b % Names = b - Names
        BY <1>1, <2>1, SMT
    <2>. QED  BY <1>1, <1>3, <2>2 DEF Name
<1>. QED  BY <1>1, <1>2, <1>3

(* The bytes in transit are the next ones of the stream. *)
PipeHolds ==
    /\ Pipe \in Seq(Byte) /\ Len(Pipe) = fifoFill
    /\ \A k \in 1 .. fifoFill : Pipe[k] = Name(rcvd + k - 1)

LEMMA PipeIsStream == IInv => PipeHolds
<1>. SUFFICES ASSUME IInv PROVE PipeHolds
    OBVIOUS
<1>. USE ConstantsAreNat
<1>1. /\ fifoFill \in Nat /\ fifoFill <= SPIRAMSIZE /\ rcvd \in Byte
      /\ \A k \in 0 .. fifoFill - 1 : Settled[Wrap(fifoRpos + k)] = Name(rcvd + k)
    BY DEF IInv, TypeOK, Data, FifoOrder
<1>2. fifoRpos \in Nat
    BY DEF IInv, TypeOK, Address
<1>3. ASSUME NEW k \in 1 .. fifoFill
      PROVE  Settled[Wrap(fifoRpos + k - 1)] = Name(rcvd + k - 1) /\ Name(rcvd + k - 1) \in Byte
    <2>1. PICK j \in 0 .. fifoFill - 1 : j = k - 1
        BY <1>1
    <2>2. fifoRpos + k - 1 = fifoRpos + j /\ rcvd + k - 1 = rcvd + j
        BY <1>1, <1>2, <2>1 DEF Byte
    <2>3. Name(rcvd + j) \in Byte
        BY <1>1, <2>1, NameIsByte DEF Byte
    <2>. QED  BY <1>1, <2>2, <2>3
<1>4. Pipe \in [1 .. fifoFill -> Byte]
    BY <1>3 DEF Pipe
<1>. QED  BY <1>1, <1>3, <1>4 DEF Pipe, PipeHolds

(* The filled part of the caller's buffer. *)
OutHolds == Out \in Seq(Byte) /\ Len(Out) = rdGot

LEMMA OutIsSequence == IInv => OutHolds
<1>. SUFFICES ASSUME IInv PROVE OutHolds
    OBVIOUS
<1>. USE ConstantsAreNat
<1>1. rdGot \in Nat /\ \A k \in 0 .. rdGot - 1 : buf[k] \in Byte
    BY DEF IInv, TypeOK, Data, ReadDelivers
<1>2. \A k \in 1 .. rdGot : buf[k - 1] \in Byte
    BY <1>1
<1>3. Out \in [1 .. rdGot -> Byte]
    BY <1>2 DEF Out
<1>. QED  BY <1>1, <1>3 DEF Out, OutHolds

(* spiRamFifoInit leaves an empty channel. *)
LEMMA InitIsChanInit == Init => Channel!ChanInit
<1>. SUFFICES ASSUME Init PROVE Channel!ChanInit
    OBVIOUS
<1>1. IInv
    BY InitInv
<1>2. fifoFill = 0 /\ rdGot = 0 /\ rdLen = 0 /\ sent = 0
    BY DEF Init
<1>3. Pipe = <<>> /\ Out = <<>>
    BY <1>1, <1>2, PipeIsStream, OutIsSequence, EmptySeq DEF PipeHolds, OutHolds
<1>. QED  BY <1>2, <1>3 DEF Channel!ChanInit, Pipe, Out

(* The steps of the tasks that move no bytes, and the end of a transfer,   *)
(* leave the channel alone.                                                *)
LEMMA QuietStepsStutter ==
    ASSUME IInv, ControlStep \/ SpiEnd \/ UNCHANGED vars
    PROVE  UNCHANGED <<Pipe, sent, rdLen, Out>>
<1>1. CASE ControlStep
    <2>1. UNCHANGED <<ram, spi, fifoRpos, fifoWpos, fifoFill, rdGot, buf, sent, rcvd>>
        BY <1>1, ControlStepFrame
    <2>2. UNCHANGED rdLen
        BY <1>1 DEF ControlStep, ReadTake, ReadEmpty, ReadMark, ReadWait, ReadSpi,
               ReadUnlock, ReadSignal, FillTake, FillGive, WriteCall, WriteTake,
               WriteFull, WriteWait, WriteSpi, WriteUnlock, WriteSignal, FreeTake,
               FreeGive, rdVars
    <2>. QED  BY <2>1, <2>2 DEF Pipe, Out, Settled
<1>2. CASE SpiEnd
    <2>1. UNCHANGED <<ring, rdVars, wrVars>> /\ Settled' = Settled
        BY <1>2 DEF SpiEnd, SpiTransferEnd, Settled, NoTransfer
    <2>. QED  BY <2>1 DEF Pipe, Out, ring, rdVars, wrVars
<1>3. CASE UNCHANGED vars
    BY <1>3 DEF vars, chip, ring, rdVars, wrVars, Pipe, Out, Settled
<1>. QED  BY <1>1, <1>2, <1>3

(* A call of spiRamFifoRead is a request: the one before was served.       *)
LEMMA ReadCallIsRequest ==
    ASSUME IInv, NEW len \in 1 .. MaxLen, ReadCall(len)
    PROVE  Channel!Request(len)
<1>1. rdLen = 0 /\ rdLen' = len
    BY DEF IInv, Control, ReadShape, ReadCall
<1>2. UNCHANGED <<Pipe, sent>>
    BY DEF ReadCall, chip, ring, wrVars, Pipe, Settled
<1>3. Out' = <<>>
    <2>1. IInv' /\ rdGot' = 0
        BY ReadCallStep DEF ReadCall
    <2>2. Out' \in Seq(Byte) /\ Len(Out') = 0
        <3>1. OutHolds'
            BY <2>1, OutIsSequence, PTL
        <3>. QED  BY <2>1, <3>1 DEF OutHolds
    <2>. QED  BY <2>2, EmptySeq
<1>. QED  BY <1>1, <1>2, <1>3 DEF Channel!Request, Pipe, Out

(* A transfer out of the chip takes the oldest bytes of the channel.       *)
LEMMA ReadTransferIsTake ==
    ASSUME IInv, ReadTransfer
    PROVE  \E n \in 1 .. SPIRAMSIZE : Channel!Take(n)
<1>. USE ConstantsAreNat
<1>1. /\ rdN \in Nat /\ rdN >= 1 /\ rdN <= rdLen /\ rdN <= fifoFill
      /\ fifoFill \in Nat /\ fifoFill <= SPIRAMSIZE
      /\ rcvd \in Byte /\ rdGot \in Nat /\ rdGot + rdN <= MaxLen /\ rdLen \in Nat
    BY DEF IInv, TypeOK, Control, ReadShape, ReadTransfer
<1>2. /\ rdLen' = rdLen - rdN /\ rdGot' = rdGot + rdN /\ fifoFill' = fifoFill - rdN
      /\ rcvd' = Name(rcvd + rdN) /\ sent' = sent
    BY DEF ReadTransfer, wrVars
<1>3. PipeHolds /\ OutHolds
    BY PipeIsStream, OutIsSequence
<1>4. PipeHolds' /\ OutHolds'
    <2>1. IInv'
        BY ReadTransferStep
    <2>. QED  BY <2>1, PipeIsStream, OutIsSequence, PTL
<1>5. Pipe' = SubSeq(Pipe, rdN + 1, Len(Pipe))
    <2>. DEFINE t == SubSeq(Pipe, rdN + 1, Len(Pipe))
    <2>1. /\ t \in Seq(Byte) /\ Len(t) = fifoFill - rdN
          /\ \A k \in 1 .. fifoFill - rdN : t[k] = Pipe[rdN + k]
        <3>1. \A k \in rdN + 1 .. Len(Pipe) : Pipe[k] \in Byte
            BY <1>1, <1>3 DEF PipeHolds
        <3>2. /\ t \in Seq(Byte)
              /\ Len(t) = IF rdN + 1 <= fifoFill THEN fifoFill - (rdN + 1) + 1 ELSE 0
              /\ \A k \in 1 .. fifoFill - (rdN + 1) + 1 : t[k] = Pipe[rdN + 1 + k - 1]
            BY <1>1, <1>3, <3>1, SubSeqProperties DEF PipeHolds
        <3>. HIDE DEF t
        <3>. QED  BY <1>1, <3>2
    <2>. HIDE DEF t
    <2>2. ASSUME NEW k \in 1 .. fifoFill - rdN  PROVE Pipe'[k] = t[k]
        <3>1. Pipe'[k] = Name(rcvd' + k - 1)
            BY <1>2, <1>4 DEF PipeHolds
        <3>2. t[k] = Name(rcvd + (rdN + k) - 1)
            <4>1. rdN + k \in 1 .. fifoFill
                BY <1>1
            <4>. QED  BY <1>3, <2>1, <4>1 DEF PipeHolds
        <3>3. PICK j \in Nat : j = k - 1 /\ rdN + j < Names
            BY <1>1
        <3>4. Name(rcvd + (rdN + j)) = Name(rcvd' + j)
            BY <1>1, <1>2, <3>3, NameAdd
        <3>5. rcvd + (rdN + k) - 1 = rcvd + (rdN + j)
            BY <1>1, <3>3 DEF Byte
        <3>6. Name(rcvd + rdN) \in Byte
            BY <1>1, NameIsByte DEF Byte
        <3>7. rcvd' + k - 1 = rcvd' + j
            BY <1>2, <3>3, <3>6 DEF Byte
        <3>. QED  BY <3>1, <3>2, <3>4, <3>5, <3>7
    <2>3. Pipe' \in Seq(Byte) /\ Len(Pipe') = fifoFill - rdN
        BY <1>2, <1>4 DEF PipeHolds
    <2>4. Pipe' = t
        BY <2>1, <2>2, <2>3, SeqEqual
    <2>. QED  BY <2>4 DEF t
<1>6. Out' = Out \o SubSeq(Pipe, 1, rdN)
    <2>. DEFINE h == SubSeq(Pipe, 1, rdN)  c == Out \o h
    <2>1. /\ h \in Seq(Byte) /\ Len(h) = rdN
          /\ \A k \in 1 .. rdN : h[k] = Pipe[k]
        <3>1. \A k \in 1 .. rdN : Pipe[k] \in Byte
            BY <1>1, <1>3 DEF PipeHolds
        <3>2. /\ h \in Seq(Byte) /\ Len(h) = IF 1 <= rdN THEN rdN - 1 + 1 ELSE 0
              /\ \A k \in 1 .. rdN - 1 + 1 : h[k] = Pipe[1 + k - 1]
            BY <1>1, <3>1, SubSeqProperties
        <3>. HIDE DEF h
        <3>. QED  BY <1>1, <3>2
    <2>. HIDE DEF h
    <2>2. /\ c \in Seq(Byte) /\ Len(c) = rdGot + rdN
          /\ \A k \in 1 .. rdGot + rdN : c[k] = IF k <= rdGot THEN Out[k] ELSE h[k - rdGot]
        BY <1>3, <2>1, ConcatProperties DEF OutHolds
    <2>. HIDE DEF c
    <2>3. ASSUME NEW k \in 1 .. rdGot + rdN  PROVE Out'[k] = c[k]
        <3>1. Out'[k] = buf'[k - 1]
            BY <1>2 DEF Out
        <3>2. k - 1 \in 0 .. MaxLen
            BY <1>1
        <3>3. buf'[k - 1] = IF (k - 1) - rdGot \in 0 .. rdN - 1
                            THEN ram[fifoRpos + ((k - 1) - rdGot)]
                            ELSE IF (k - 1) - rdGot \in SpiRamReadStores(rdN) THEN Junk
                            ELSE buf[k - 1]
            BY <3>2 DEF ReadTransfer
        <3>4. CASE k <= rdGot
            <4>1. (k - 1) - rdGot \notin 0 .. rdN - 1
                BY <1>1, <3>4
            <4>2. (k - 1) - rdGot \notin SpiRamReadStores(rdN)
                <5>1. \A b \in SpiRamReadStores(rdN) : b \in Nat
                    BY <1>1, SpiRamAssumption DEF SpiRamReadStores
                <5>. QED  BY <1>1, <3>4, <5>1
            <4>3. Out[k] = buf[k - 1]
                BY <1>1, <3>4 DEF Out
            <4>. QED  BY <1>1, <2>2, <3>1, <3>3, <3>4, <4>1, <4>2, <4>3
        <3>5. CASE k > rdGot
            <4>1. PICK j \in 1 .. rdN : j = k - rdGot
                BY <1>1, <3>5
            <4>2. (k - 1) - rdGot = j - 1 /\ j - 1 \in 0 .. rdN - 1 /\ j \in 1 .. fifoFill
                BY <1>1, <4>1
            <4>3. Out'[k] = ram[fifoRpos + (j - 1)]
                BY <3>1, <3>3, <4>2
            <4>4. c[k] = Pipe[j]
                BY <1>1, <2>1, <2>2, <3>5, <4>1
            <4>5. Pipe[j] = Settled[Wrap(fifoRpos + j - 1)]
                BY <4>2 DEF Pipe
            <4>6. fifoRpos \in Nat /\ fifoRpos + j - 1 = fifoRpos + (j - 1)
                  /\ fifoRpos + (j - 1) < SPIRAMSIZE
                BY <1>1, <4>1 DEF IInv, TypeOK, Control, ReadShape, ReadTransfer, Address
            <4>7. Settled = ram
                BY DEF IInv, TypeOK, Control, SpiQuiet, SpiIdle, ReadTransfer, Settled
            <4>. QED  BY <4>1, <4>3, <4>4, <4>5, <4>6, <4>7 DEF Wrap
        <3>. QED  BY <1>1, <3>4, <3>5
    <2>4. Out' \in Seq(Byte) /\ Len(Out') = rdGot + rdN
        BY <1>2, <1>4 DEF OutHolds
    <2>5. Out' = c
        BY <2>2, <2>3, <2>4, SeqEqual
    <2>. QED  BY <2>5 DEF c, h
<1>7. PICK n \in 1 .. SPIRAMSIZE : n = rdN
    BY <1>1
<1>8. Channel!Take(n)
    <2>1. rdN <= rdLen /\ rdN <= Len(Pipe)
        BY <1>1, <1>3 DEF PipeHolds
    <2>. QED  BY <1>2, <1>5, <1>6, <1>7, <2>1 DEF Channel!Take, Pipe, Out
<1>. QED  BY <1>8

(* A transfer into the chip puts its bytes at the end of the channel, also *)
(* while it is not over.                                                   *)
LEMMA WriteTransferIsPut ==
    ASSUME IInv, WriteTransfer
    PROVE  \E n \in 1 .. SPIRAMSIZE : Channel!Put(n)
<1>. USE ConstantsAreNat
<1>1. /\ wrN \in Nat /\ wrN >= 1 /\ wrN <= SPIRAMSIZE - fifoFill
      /\ fifoFill \in Nat /\ fifoFill <= SPIRAMSIZE
      /\ rcvd \in Byte /\ sent \in Byte /\ sent = Name(rcvd + fifoFill)
    BY DEF IInv, TypeOK, Control, WriteShape, WriteTransfer, Data, FifoOrder
<1>2. /\ fifoFill' = fifoFill + wrN /\ sent' = Name(sent + wrN)
      /\ UNCHANGED <<rcvd, rdLen, rdGot, buf>>
    BY DEF WriteTransfer, rdVars
<1>3. PipeHolds /\ PipeHolds'
    <2>1. IInv'
        BY WriteTransferStep
    <2>. QED  BY <2>1, PipeIsStream, PTL
<1>4. Pipe' = Pipe \o Channel!Run(sent, wrN)
    <2>. DEFINE r == Channel!Run(sent, wrN)  c == Pipe \o r
    <2>1. ASSUME NEW k \in 1 .. wrN
          PROVE  r[k] = Name(rcvd + (fifoFill + k) - 1) /\ r[k] \in Byte
        <3>1. PICK j \in Nat : j = k - 1 /\ fifoFill + j < Names /\ j < Names
            BY <1>1
        <3>2. r[k] = (sent + k - 1) % Names
            BY DEF Channel!Run
        <3>3. sent + k - 1 = sent + j /\ sent + j \in Nat /\ sent + j < 2 * Names
            BY <1>1, <3>1 DEF Byte
        <3>4. Name(sent + j) = (sent + j) % Names
            BY <3>3, NameIsRemainder
        <3>5. Name(rcvd + (fifoFill + j)) = Name(sent + j)
            BY <1>1, <3>1, NameAdd
        <3>6. rcvd + (fifoFill + k) - 1 = rcvd + (fifoFill + j)
            BY <1>1, <3>1 DEF Byte
        <3>7. Name(sent + j) \in Byte
            BY <3>3, NameIsByte
        <3>8. r[k] = Name(sent + j)
            BY <3>2, <3>3, <3>4
        <3>. QED  BY <3>5, <3>6, <3>7, <3>8
    <2>2. r \in Seq(Byte) /\ Len(r) = wrN
        <3>1. r \in [1 .. wrN -> Byte]
            <4>1. r = [k \in 1 .. wrN |-> (sent + k - 1) % Names]
                BY DEF Channel!Run
            <4>. HIDE DEF r
            <4>. QED  BY <2>1, <4>1
        <3>. HIDE DEF r
        <3>. QED  BY <1>1, <3>1
    <2>. HIDE DEF r
    <2>3. /\ c \in Seq(Byte) /\ Len(c) = fifoFill + wrN
          /\ \A k \in 1 .. fifoFill + wrN :
                 c[k] = IF k <= fifoFill THEN Pipe[k] ELSE r[k - fifoFill]
        BY <1>3, <2>2, ConcatProperties DEF PipeHolds
    <2>. HIDE DEF c
    <2>4. ASSUME NEW k \in 1 .. fifoFill + wrN  PROVE Pipe'[k] = c[k]
        <3>1. Pipe'[k] = Name(rcvd + k - 1)
            BY <1>2, <1>3 DEF PipeHolds
        <3>2. CASE k <= fifoFill
            BY <1>1, <1>3, <2>3, <3>1, <3>2 DEF PipeHolds
        <3>3. CASE k > fifoFill
            <4>1. PICK j \in 1 .. wrN : j = k - fifoFill /\ k = fifoFill + j
                BY <1>1, <3>3
            <4>2. c[k] = r[j]
                BY <1>1, <2>3, <3>3, <4>1
            <4>. QED  BY <2>1, <3>1, <4>1, <4>2
        <3>. QED  BY <1>1, <3>2, <3>3
    <2>5. Pipe' \in Seq(Byte) /\ Len(Pipe') = fifoFill + wrN
        BY <1>2, <1>3 DEF PipeHolds
    <2>6. Pipe' = c
        BY <2>3, <2>4, <2>5, SeqEqual
    <2>. QED  BY <2>6 DEF c, r
<1>5. sent' = (sent + wrN) % Names
    <2>1. sent + wrN \in Nat /\ sent + wrN < 2 * Names
        BY <1>1 DEF Byte
    <2>. QED  BY <1>2, <2>1, NameIsRemainder
<1>6. PICK n \in 1 .. SPIRAMSIZE : n = wrN
    BY <1>1
<1>7. Channel!Put(n)
    <2>1. Len(Pipe) + wrN <= SPIRAMSIZE
        BY <1>1, <1>3 DEF PipeHolds
    <2>2. UNCHANGED <<rdLen, Out>>
        BY <1>2 DEF Out
    <2>. QED  BY <1>4, <1>5, <1>6, <2>1, <2>2 DEF Channel!Put, Pipe, Out
<1>. QED  BY <1>7

(* The mutex, the semaphores, the two indices and the slow engine of       *)
(* spiram_fifo.c implement the channel: nobody sees more of them than the  *)
(* order of Put, Request and Take.                                         *)
THEOREM FifoImplementsChannel == Spec => IsChannel
<1>1. IInv /\ [Next]_vars => [Channel!ChanNext]_(Channel!chanVars)
    <2>. SUFFICES ASSUME IInv, [Next]_vars
                  PROVE  [Channel!ChanNext]_(Channel!chanVars)
        OBVIOUS
    <2>1. CASE ControlStep \/ SpiEnd \/ UNCHANGED vars
        <3>1. UNCHANGED <<Pipe, sent, rdLen, Out>>
            BY <2>1, QuietStepsStutter
        <3>. QED  BY <3>1 DEF Channel!chanVars, Pipe, Out
    <2>2. CASE \E len \in 1 .. MaxLen : ReadCall(len)
        BY <2>2, ReadCallIsRequest DEF Channel!ChanNext
    <2>3. CASE ReadTransfer
        BY <2>3, ReadTransferIsTake DEF Channel!ChanNext
    <2>4. CASE WriteTransfer
        BY <2>4, WriteTransferIsPut DEF Channel!ChanNext
    <2>. QED  BY <2>1, <2>2, <2>3, <2>4 DEF Next, ReadStep, WriteStep, ControlStep
<1>. QED  BY <1>1, InitIsChanInit, InvHolds, PTL DEF Spec, IsChannel, Channel!ChanSpec

-----------------------------------------------------------------------------
(* How far spiRamRead stores past the bytes asked for *)

(* The bytes asked for are always stored, and one more when they do not    *)
(* fill their last register.                                               *)
LEMMA ReadStoresOneMore ==
    ASSUME NEW n \in Nat
    PROVE  SpiRamReadStores(n) = IF n % WordBytes = 0 THEN 0 .. n - 1 ELSE 0 .. n
<1>1. WordBytes \in Nat /\ WordBytes >= 1
    BY SpiRamAssumption
<1>2. \A b \in Nat : b % WordBytes \in 0 .. WordBytes - 1 /\ b % WordBytes <= b
    BY <1>1
<1>3. ASSUME NEW b \in Nat
      PROVE  b \in SpiRamReadStores(n) <=> b < n \/ (b = n /\ n % WordBytes # 0)
  <2>. DEFINE s == b % WordBytes
  <2>1. s \in Nat /\ s <= b
      BY <1>2
  <2>2. b = n => s = n % WordBytes
      OBVIOUS
  <2>3. b \in SpiRamReadStores(n) <=>
            b <= n + WordBytes /\ n - (b - s) > 0 /\ n - (b - s) >= s
      BY <1>1, <2>1 DEF SpiRamReadStores
  <2>. HIDE DEF s
  <2>4. (n - (b - s) > 0 /\ n - (b - s) >= s) <=> b < n \/ (b = n /\ s # 0)
      BY <2>1
  <2>5. b <= n => b <= n + WordBytes
      BY <1>1
  <2>. QED  BY <2>2, <2>3, <2>4, <2>5
<1>4. \A b \in SpiRamReadStores(n) : b \in Nat
    BY <1>1 DEF SpiRamReadStores
<1>5. \A b : b \in SpiRamReadStores(n) <=>
                 b \in IF n % WordBytes = 0 THEN 0 .. n - 1 ELSE 0 .. n
    BY <1>3, <1>4
<1>. QED  BY <1>5

(* A call of spiRamFifoRead changes at most one byte of the caller's       *)
(* memory behind the ones it has delivered, and none when the last         *)
(* transfer was of whole registers.                                        *)
OverrunIsOneByte ==
    /\ \A k \in 0 .. MaxLen : k > rdGot => buf[k] = Old
    /\ (rdPc \in {"unlock", "signal", "idle", "fill"} /\ rdN % WordBytes = 0)
           => buf[rdGot] = Old

LEMMA OverrunStep == IInv /\ OverrunIsOneByte /\ [Next]_vars => OverrunIsOneByte'
<1>. SUFFICES ASSUME IInv, OverrunIsOneByte, [Next]_vars PROVE OverrunIsOneByte'
    OBVIOUS
<1>. USE ConstantsAreNat
<1>1. TypeOK /\ ReadShape
    BY DEF IInv, Control
<1>2. CASE \E len \in 1 .. MaxLen : ReadCall(len)
    BY <1>2 DEF ReadCall, OverrunIsOneByte
<1>3. CASE ReadTransfer
  <2>1. /\ rdN \in Nat /\ rdN >= 1 /\ rdGot \in Nat /\ rdGot + rdN <= MaxLen
        /\ rdGot' = rdGot + rdN /\ UNCHANGED rdN
      BY <1>1, <1>3 DEF ReadTransfer, TypeOK, ReadShape
  <2>2. \A k \in 0 .. MaxLen : buf'[k] =
            IF k - rdGot \in 0 .. rdN - 1 THEN ram[fifoRpos + (k - rdGot)]
            ELSE IF k - rdGot \in SpiRamReadStores(rdN) THEN Junk ELSE buf[k]
      BY <1>3 DEF ReadTransfer
  <2>3. ASSUME NEW k \in 0 .. MaxLen, k - rdGot \notin 0 .. rdN - 1, k > rdGot,
               k - rdGot \notin SpiRamReadStores(rdN)
        PROVE  buf'[k] = Old
      BY <2>2, <2>3 DEF OverrunIsOneByte
  <2>4. ASSUME NEW k \in 0 .. MaxLen, k > rdGot'
        PROVE  buf'[k] = Old
    <3>1. k > rdGot /\ k - rdGot \in Int /\ k - rdGot > rdN
        BY <2>1, <2>4
    <3>2. k - rdGot \notin 0 .. rdN - 1 /\ k - rdGot \notin SpiRamReadStores(rdN)
        BY <2>1, <3>1, ReadStoresOneMore
    <3>. QED  BY <2>3, <3>1, <3>2
  <2>5. ASSUME rdN % WordBytes = 0
        PROVE  buf'[rdGot'] = Old
    <3>1. /\ rdGot' \in 0 .. MaxLen /\ rdGot' > rdGot /\ rdGot' - rdGot = rdN
        BY <2>1
    <3>2. rdN \notin 0 .. rdN - 1 /\ rdN \notin SpiRamReadStores(rdN)
        BY <2>1, <2>5, ReadStoresOneMore
    <3>. QED  BY <2>3, <3>1, <3>2
  <2>. QED  BY <2>1, <2>4, <2>5 DEF OverrunIsOneByte
<1>4. CASE ReadTake
    BY <1>4 DEF ReadTake, OverrunIsOneByte
<1>5. CASE ~ReadTransfer /\ ~ReadTake /\ ~\E len \in 1 .. MaxLen : ReadCall(len)
  <2>1. /\ UNCHANGED <<rdN, rdGot, buf>>
        /\ rdPc' \in {"unlock", "signal", "idle", "fill"}
               => rdPc \in {"unlock", "signal", "idle", "fill"}
      BY <1>5 DEF Next, ReadStep, WriteStep, ReadEmpty, ReadMark, ReadWait, ReadSpi,
                  ReadUnlock, ReadSignal, FillTake, FillGive, WriteCall, WriteTake,
                  WriteFull, WriteWait, WriteSpi, WriteTransfer, WriteUnlock, WriteSignal,
                  FreeTake, FreeGive, SpiEnd, rdVars, vars
  <2>. QED  BY <2>1 DEF OverrunIsOneByte
<1>. QED  BY <1>2, <1>3, <1>4, <1>5

(* spiRamRead stores past the end of the caller's buffer (the run          *)
(* fifo_overread), but one byte and never two: for every length of a call  *)
(* and every way the calls are cut into transfers.                         *)
THEOREM OverrunIsBounded == Spec => []OverrunIsOneByte
<1>1. Init => OverrunIsOneByte
    BY ConstantsAreNat DEF Init, OverrunIsOneByte
<1>. QED  BY <1>1, OverrunStep, InvHolds, PTL DEF Spec
=============================================================================
