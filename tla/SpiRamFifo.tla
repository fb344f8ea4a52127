----------------------------- MODULE SpiRamFifo -----------------------------
(***************************************************************************)
(* mp3/user/spiram_fifo.c: the SPI RAM as one big byte FIFO between two    *)
(* tasks.  tskreader (which reads the socket) calls spiRamFifoWrite, tskmad*)
(* (the decoder) calls spiRamFifoRead; a mutex guards the indices and the  *)
(* SPI bus, two binary semaphores wake a task that found the FIFO too full *)
(* or too empty.                                                           *)
(*                                                                         *)
(* A step is what one task does between two points where the other can see *)
(* the difference.  A byte is named by its place in the stream, modulo     *)
(* Names: the writer puts the bytes in the order 0, 1, 2 ...               *)
(***************************************************************************)
EXTENDS SpiRam

CONSTANTS SPIREADSIZE,   \* the largest transfer, 64 bytes
          FIFO_LOWMARK,  \* 112*1024, whatever SPIRAMSIZE is
          MaxLen,        \* largest len of one call
          Names,         \* number of byte names
          CounterMod,    \* the width of the event counters, 2^32
          Junk, Old      \* not bytes of the stream: register residue, untouched

ASSUME FifoAssumption ==
    /\ SPIREADSIZE \in Nat \ {0}
    /\ SPIRAMSIZE >= 2 * SPIREADSIZE
    /\ FIFO_LOWMARK \in Nat
    /\ MaxLen \in Nat \ {0}
    /\ Names \in Nat /\ Names > SPIRAMSIZE /\ Names > MaxLen
    /\ CounterMod \in Nat \ {0}
    /\ Junk \notin Int /\ Old \notin Int /\ Junk # Old

VARIABLES fifoRpos, fifoWpos, fifoFill,    \* file statics of spiram_fifo.c
          fifoOvfCnt, fifoUdrCnt,
          semCanRead, semCanWrite, mux,
          rdPc, rdLen, rdN, rdGot, buf,    \* tskmad in spiRamFifoRead
          rdSeen,                          \* bytes spiRamFifoFill told it of
          wrPc, wrLen, wrN,                \* tskreader in spiRamFifoWrite
          sent, rcvd                       \* the next byte in, the next byte out

chip == <<ram, spi>>
counters == <<fifoOvfCnt, fifoUdrCnt>>
sems == <<semCanRead, semCanWrite>>
rdVars == <<rdPc, rdLen, rdN, rdGot, buf, rdSeen, rcvd>>
wrVars == <<wrPc, wrLen, wrN, sent>>
ring == <<fifoRpos, fifoWpos, fifoFill>>
vars == <<chip, ring, counters, sems, mux, rdVars, wrVars>>

Byte == 0 .. Names - 1

Smaller(a, b) == IF a < b THEN a ELSE b

(* A position counted past the end of the chip, a name counted past Names. *)
Wrap(p) == IF p >= SPIRAMSIZE THEN p - SPIRAMSIZE ELSE p
Name(b) == IF b >= Names THEN b - Names ELSE b

(* The transfer size for what is left of a call at position pos. *)
Chunk(len, pos) == Smaller(Smaller(len, SPIREADSIZE), SPIRAMSIZE - pos)

-----------------------------------------------------------------------------
(* After spiRamFifoInit: vSemaphoreCreateBinary leaves both semaphores     *)
(* given.                                                                  *)
Init ==
    /\ ram = [a \in Address |-> Junk]
    /\ spi = NoTransfer
    /\ fifoRpos = 0 /\ fifoWpos = 0 /\ fifoFill = 0
    /\ fifoOvfCnt = 0 /\ fifoUdrCnt = 0
    /\ semCanRead = 1 /\ semCanWrite = 1 /\ mux = "free"
    /\ rdPc = "idle" /\ rdLen = 0 /\ rdN = 0 /\ rdGot = 0 /\ rdSeen = 0
    /\ buf = [k \in 0 .. MaxLen |-> Old]
    /\ wrPc = "idle" /\ wrLen = 0 /\ wrN = 0
    /\ sent = 0 /\ rcvd = 0

-----------------------------------------------------------------------------
(* spiRamFifoRead(buff, len), called by tskmad *)

ReadCall(len) ==
    /\ rdPc = "idle"
    /\ rdPc' = "take" /\ rdLen' = len /\ rdGot' = 0
    /\ buf' = [k \in 0 .. MaxLen |-> Old]
    /\ UNCHANGED <<chip, ring, counters, sems, mux, rdN, rdSeen, rcvd, wrVars>>

(* Mutant: the mutex is not waited for. *)
ReadTake_NoMutex ==
    /\ rdPc = "take"
    /\ rdPc' = "check" /\ mux' = "tskmad"
    /\ rdN' = Chunk(rdLen, fifoRpos)
    /\ UNCHANGED <<chip, ring, counters, sems, rdLen, rdGot, buf, rdSeen, rcvd, wrVars>>

ReadTake ==
    /\ rdPc = "take" /\ mux = "free"
    /\ rdPc' = "check" /\ mux' = "tskmad"
    /\ rdN' = Chunk(rdLen, fifoRpos)
    /\ UNCHANGED <<chip, ring, counters, sems, rdLen, rdGot, buf, rdSeen, rcvd, wrVars>>

(* Mutant: a FIFO that holds exactly the bytes wanted counts as too empty. *)
ReadEmpty_OffByOne ==
    /\ rdPc = "check" /\ fifoFill <= rdN
    /\ rdPc' = "mark" /\ mux' = "free"
    /\ fifoUdrCnt' = (fifoUdrCnt + 1) % CounterMod
    /\ UNCHANGED <<chip, ring, fifoOvfCnt, sems,
                   rdLen, rdN, rdGot, buf, rdSeen, rcvd, wrVars>>

(* Not enough data: count an underrun and give the mutex back. *)
ReadEmpty ==
    /\ rdPc = "check" /\ fifoFill < rdN
    /\ rdPc' = "mark" /\ mux' = "free"
    /\ fifoUdrCnt' = (fifoUdrCnt + 1) % CounterMod
    /\ UNCHANGED <<chip, ring, fifoOvfCnt, sems,
                   rdLen, rdN, rdGot, buf, rdSeen, rcvd, wrVars>>

(* fifoFill is read again, without the mutex, to decide whether to wait. *)
ReadMark ==
    /\ rdPc = "mark"
    /\ rdPc' = IF fifoFill < FIFO_LOWMARK THEN "wait" ELSE "take"
    /\ UNCHANGED <<chip, ring, counters, sems, mux,
                   rdLen, rdN, rdGot, buf, rdSeen, rcvd, wrVars>>

ReadWait ==
    /\ rdPc = "wait" /\ semCanRead = 1
    /\ rdPc' = "take" /\ semCanRead' = 0
    /\ UNCHANGED <<chip, ring, counters, semCanWrite, mux,
                   rdLen, rdN, rdGot, buf, rdSeen, rcvd, wrVars>>

(* spiRamRead gets past its first busy wait and programs the engine. *)
ReadSpi ==
    /\ rdPc = "check" /\ fifoFill >= rdN /\ SpiIdle
    /\ rdPc' = "spi"
    /\ UNCHANGED <<chip, ring, counters, sems, mux,
                   rdLen, rdN, rdGot, buf, rdSeen, rcvd, wrVars>>

(* The bytes are in; spiRamRead stores them and the indices move on. *)
ReadTransfer ==
    /\ rdPc = "spi"
    /\ rdPc' = "unlock"
    /\ buf' = [k \in 0 .. MaxLen |->
                  IF k - rdGot \in 0 .. rdN - 1 THEN ram[fifoRpos + (k - rdGot)]
                  ELSE IF k - rdGot \in SpiRamReadStores(rdN) THEN Junk
                  ELSE buf[k]]
    /\ rdGot' = rdGot + rdN /\ rdLen' = rdLen - rdN
    /\ rdSeen' = IF rdSeen > rdN THEN rdSeen - rdN ELSE 0
    /\ rcvd' = Name(rcvd + rdN)
    /\ fifoFill' = fifoFill - rdN
    /\ fifoRpos' = IF fifoRpos + rdN >= SPIRAMSIZE THEN 0 ELSE fifoRpos + rdN
    /\ UNCHANGED <<chip, fifoWpos, counters, sems, mux, rdN, wrVars>>

ReadUnlock ==
    /\ rdPc = "unlock"
    /\ rdPc' = "signal" /\ mux' = "free"
    /\ UNCHANGED <<chip, ring, counters, sems,
                   rdLen, rdN, rdGot, buf, rdSeen, rcvd, wrVars>>

(* Tell the writer there is room; go round again while bytes are wanted. *)
ReadSignal ==
    /\ rdPc = "signal"
    /\ rdPc' = IF rdLen > 0 THEN "take" ELSE "idle"
    /\ rdSeen' = IF rdLen > 0 THEN rdSeen ELSE 0
    /\ semCanWrite' = 1
    /\ UNCHANGED <<chip, ring, counters, semCanRead, mux,
                   rdLen, rdN, rdGot, buf, rcvd, wrVars>>

(* spiRamFifoFill() of tskmad, and spiRamGetUnderrunCt, which takes and    *)
(* gives the mutex the same way: an answer that may be old when it is used.*)
FillTake ==
    /\ rdPc = "idle" /\ mux = "free"
    /\ rdPc' = "fill" /\ mux' = "tskmad"
    /\ UNCHANGED <<chip, ring, counters, sems,
                   rdLen, rdN, rdGot, buf, rdSeen, rcvd, wrVars>>

FillGive ==
    /\ rdPc = "fill"
    /\ rdPc' = "idle" /\ mux' = "free" /\ rdSeen' = fifoFill
    /\ UNCHANGED <<chip, ring, counters, sems, rdLen, rdN, rdGot, buf, rcvd, wrVars>>

-----------------------------------------------------------------------------
(* spiRamFifoWrite(buff, len), called by tskreader *)

WriteCall(len) ==
    /\ wrPc \in {"idle", "ready"}
    /\ wrPc' = "take" /\ wrLen' = len
    /\ UNCHANGED <<chip, ring, counters, sems, mux, rdVars, wrN, sent>>

WriteTake ==
    /\ wrPc = "take" /\ mux = "free"
    /\ wrPc' = "check" /\ mux' = "tskreader"
    /\ wrN' = Chunk(wrLen, fifoWpos)
    /\ UNCHANGED <<chip, ring, counters, sems, rdVars, wrLen, sent>>

(* Mutant: a full FIFO is tried again at once, without the semaphore. *)
WriteFull_Spin ==
    /\ wrPc = "check" /\ SPIRAMSIZE - fifoFill < wrN
    /\ wrPc' = "take" /\ mux' = "free"
    /\ fifoOvfCnt' = (fifoOvfCnt + 1) % CounterMod
    /\ UNCHANGED <<chip, ring, fifoUdrCnt, sems, rdVars, wrLen, wrN, sent>>

(* Not enough room: count an overflow and give the mutex back. *)
WriteFull ==
    /\ wrPc = "check" /\ SPIRAMSIZE - fifoFill < wrN
    /\ wrPc' = "wait" /\ mux' = "free"
    /\ fifoOvfCnt' = (fifoOvfCnt + 1) % CounterMod
    /\ UNCHANGED <<chip, ring, fifoUdrCnt, sems, rdVars, wrLen, wrN, sent>>

WriteWait ==
    /\ wrPc = "wait" /\ semCanWrite = 1
    /\ wrPc' = "take" /\ semCanWrite' = 0
    /\ UNCHANGED <<chip, ring, counters, semCanRead, mux, rdVars, wrLen, wrN, sent>>

(* Mutant: spiRamWrite without its busy wait. *)
WriteSpi_NoWait ==
    /\ wrPc = "check" /\ SPIRAMSIZE - fifoFill >= wrN
    /\ wrPc' = "spi"
    /\ UNCHANGED <<chip, ring, counters, sems, mux, rdVars, wrLen, wrN, sent>>

(* spiRamWrite gets past its busy wait and programs the engine. *)
WriteSpi ==
    /\ wrPc = "check" /\ SPIRAMSIZE - fifoFill >= wrN /\ SpiIdle
    /\ wrPc' = "spi"
    /\ UNCHANGED <<chip, ring, counters, sems, mux, rdVars, wrLen, wrN, sent>>

(* The transfer is started, not awaited, and the indices move on. *)
WriteTransfer ==
    /\ wrPc = "spi"
    /\ wrPc' = "unlock"
    /\ SpiRamWrite([a \in fifoWpos .. fifoWpos + wrN - 1 |->
                       Name(sent + (a - fifoWpos))])
    /\ wrLen' = wrLen - wrN
    /\ sent' = Name(sent + wrN)
    /\ fifoFill' = fifoFill + wrN
    /\ fifoWpos' = IF fifoWpos + wrN >= SPIRAMSIZE THEN 0 ELSE fifoWpos + wrN
    /\ UNCHANGED <<fifoRpos, counters, sems, mux, rdVars, wrN>>

WriteUnlock ==
    /\ wrPc = "unlock"
    /\ wrPc' = "signal" /\ mux' = "free"
    /\ UNCHANGED <<chip, ring, counters, sems, rdVars, wrLen, wrN, sent>>

(* Mutant: the reader is told when the whole call is done. *)
WriteSignal_AtEnd ==
    /\ wrPc = "signal"
    /\ wrPc' = IF wrLen > 0 THEN "take" ELSE "idle"
    /\ semCanRead' = IF wrLen > 0 THEN semCanRead ELSE 1
    /\ UNCHANGED <<chip, ring, counters, semCanWrite, mux, rdVars, wrLen, wrN, sent>>

(* Mutant: the reader is not told at all. *)
WriteSignal_Silent ==
    /\ wrPc = "signal"
    /\ wrPc' = IF wrLen > 0 THEN "take" ELSE "idle"
    /\ UNCHANGED <<chip, ring, counters, sems, mux, rdVars, wrLen, wrN, sent>>

(* Tell the reader there is data; go round again while bytes are left. *)
WriteSignal ==
    /\ wrPc = "signal"
    /\ wrPc' = IF wrLen > 0 THEN "take" ELSE "idle"
    /\ semCanRead' = 1
    /\ UNCHANGED <<chip, ring, counters, semCanWrite, mux, rdVars, wrLen, wrN, sent>>

(* spiRamFifoFree() of tskreader, between two writes. *)
FreeTake ==
    /\ wrPc = "idle" /\ mux = "free"
    /\ wrPc' = "free" /\ mux' = "tskreader"
    /\ UNCHANGED <<chip, ring, counters, sems, rdVars, wrLen, wrN, sent>>

FreeGive ==
    /\ wrPc = "free"
    /\ wrPc' = "ready" /\ mux' = "free"
    /\ UNCHANGED <<chip, ring, counters, sems, rdVars, wrLen, wrN, sent>>

-----------------------------------------------------------------------------
(* The HSPI engine ends the write it was given. *)
SpiEnd ==
    /\ SpiTransferEnd
    /\ UNCHANGED <<ring, counters, sems, mux, rdVars, wrVars>>

ReadStep == \/ ReadTake \/ ReadEmpty \/ ReadMark \/ ReadWait \/ ReadSpi
            \/ ReadTransfer \/ ReadUnlock \/ ReadSignal \/ FillGive

WriteStep == \/ WriteTake \/ WriteFull \/ WriteWait \/ WriteSpi
             \/ WriteTransfer \/ WriteUnlock \/ WriteSignal \/ FreeGive

Next ==
    \/ \E len \in 1 .. MaxLen : ReadCall(len)
    \/ \E len \in 1 .. MaxLen : WriteCall(len)
    \/ FillTake \/ FreeTake
    \/ ReadStep
    \/ WriteStep
    \/ SpiEnd

Spec == Init /\ [][Next]_vars
-----------------------------------------------------------------------------
(* Correctness *)

(* Every variable stays in its range; fifoFill never leaves 0..SPIRAMSIZE. *)
TypeOK ==
    /\ ram \in [Address -> Byte \cup {Junk}]
    /\ DOMAIN spi \subseteq Address /\ \A a \in DOMAIN spi : spi[a] \in Byte
    /\ fifoRpos \in Address /\ fifoWpos \in Address
    /\ fifoFill \in 0 .. SPIRAMSIZE
    /\ fifoOvfCnt \in 0 .. CounterMod - 1 /\ fifoUdrCnt \in 0 .. CounterMod - 1
    /\ semCanRead \in {0, 1} /\ semCanWrite \in {0, 1}
    /\ mux \in {"free", "tskmad", "tskreader"}
    /\ rdPc \in {"idle", "fill", "take", "check", "mark", "wait", "spi",
                 "unlock", "signal"}
    /\ wrPc \in {"idle", "free", "ready", "take", "check", "wait", "spi",
                 "unlock", "signal"}
    /\ rdLen \in 0 .. MaxLen /\ rdGot \in 0 .. MaxLen /\ rdN \in 0 .. SPIREADSIZE
    /\ rdSeen \in 0 .. SPIRAMSIZE
    /\ buf \in [0 .. MaxLen -> Byte \cup {Junk, Old}]
    /\ wrLen \in 0 .. MaxLen /\ wrN \in 0 .. SPIREADSIZE
    /\ sent \in Byte /\ rcvd \in Byte

(* The write index is the read index plus the fill, around the ring.       *)
RingShape == fifoWpos = Wrap(fifoRpos + fifoFill)

(* The bytes between the indices are the ones written and not yet read, in *)
(* the order they were written, also while the last write is still on its  *)
(* way to the chip.                                                        *)
FifoOrder ==
    /\ \A k \in 0 .. fifoFill - 1 : Settled[Wrap(fifoRpos + k)] = Name(rcvd + k)
    /\ sent = Name(rcvd + fifoFill)

(* A call of spiRamFifoRead has put the next bytes of the stream, in order,*)
(* at the start of the caller's buffer.                                    *)
ReadDelivers ==
    \A k \in 0 .. rdGot - 1 :
        buf[k] \in Byte /\ Name(buf[k] + (rdGot - k)) = rcvd

(* spiram.c is not thread-safe: no task programs the SPI engine while the  *)
(* other does, or while a write is being shifted out.                      *)
SpiExclusive ==
    /\ ~(rdPc = "spi" /\ wrPc = "spi")
    /\ (rdPc = "spi" \/ wrPc = "spi") => SpiIdle

(* No lost wake-up: a task that waits on its semaphore although it could   *)
(* go on is about to be woken, the other task is on its way to the give.   *)
NoLostWakeup ==
    /\ (rdPc = "wait" /\ semCanRead = 0 /\ fifoFill >= rdN)
           => wrPc \in {"unlock", "signal"}
    /\ (wrPc = "wait" /\ semCanWrite = 0 /\ SPIRAMSIZE - fifoFill >= wrN)
           => rdPc \in {"unlock", "signal"}

(* The tasks never both sleep on their semaphores.                         *)
NotBothAsleep ==
    ~(/\ rdPc = "wait" /\ semCanRead = 0
      /\ wrPc = "wait" /\ semCanWrite = 0)

(* input() asks for the fill and then reads no more than that.  The answer *)
(* may be old, but only too small: such a read never finds the FIFO short  *)
(* and never waits, through all its chunks.                                *)
KnownFillHolds ==
    /\ rdSeen <= fifoFill
    /\ rdPc \in {"mark", "wait"} => rdSeen < rdLen

(* What spiRamFifoRead(buff, len) leaves in the caller's memory: the len   *)
(* bytes asked for, and nothing after them.                                *)
ReadStoresOnlyLen ==
    rdPc = "idle" => \A k \in rdGot .. MaxLen : buf[k] = Old

(* tskreader and tskmad run for ever, and each calls the FIFO again:       *)
(* tskmad however often it asks for the fill in between.  tskreader has the*)
(* higher priority: it gets a mutex that is free again and again.          *)
Fairness ==
    /\ SF_vars(\E len \in 1 .. MaxLen : ReadCall(len))
    /\ WF_vars(\E len \in 1 .. MaxLen : WriteCall(len))
    /\ WF_vars(ReadStep) /\ SF_vars(WriteStep) /\ WF_vars(SpiEnd)

FairSpec == Spec /\ Fairness

(* Every call returns: neither the mutex nor a semaphore keeps a task for  *)
(* ever while the other one goes on calling.                               *)
CallsReturn ==
    /\ rdPc # "idle" ~> rdPc = "idle"
    /\ wrPc # "idle" ~> wrPc = "idle"
=============================================================================
