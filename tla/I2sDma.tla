------------------------------- MODULE I2sDma -------------------------------
(***************************************************************************)
(* mp3/driver/i2s_freertos.c: the sound output.  The SLC engine sends a    *)
(* ring of DMA buffers to the I2S port, word after word and for ever.      *)
(* At the end of each buffer it raises an interrupt; slc_isr puts the      *)
(* buffer on a queue of empty ones, and i2sPushSample, called by tskmad    *)
(* for every sample, takes the next buffer from there when the one in hand *)
(* is full.                                                                *)
(*                                                                         *)
(* Nothing stops the engine: when the decoder is late the ring plays what  *)
(* is in it.  Samples are named 0, 1, 2 ... modulo Names, in the order of  *)
(* the calls, to see in which order they are heard.                        *)
(***************************************************************************)
EXTENDS Integers, Sequences

CONSTANTS I2SDMABUFCNT,   \* buffers in the ring: 14
          I2SDMABUFLEN,   \* words in a buffer: 64
          Names,          \* number of sample names
          MaxUnderrun,    \* underrunCnt stops there: a bound of the model
          MaxMissed,      \* interrupts that may come too late: a bound too
          Silence, NULL

ASSUME I2sAssumption ==
    /\ I2SDMABUFCNT \in Nat /\ I2SDMABUFCNT >= 2
    /\ I2SDMABUFLEN \in Nat /\ I2SDMABUFLEN >= 1
    /\ Names \in Nat /\ Names > I2SDMABUFCNT * I2SDMABUFLEN
    /\ MaxUnderrun \in Nat \ {0}
    /\ MaxMissed \in Nat
    /\ Silence \notin Int /\ NULL \notin Int

VARIABLES dmaPos, dmaIdx,      \* the word the SLC engine sends next
          intr, eofDes,        \* RX_EOF_INT raised, SLC_RX_EOF_DES_ADDR
          missed,              \* buffers that ended while one was pending
          i2sBuf,              \* the samples in the ring
          dmaQueue, underrunCnt,
          pc, currDMABuff, currDMABuffPos,   \* i2sPushSample
          next,                \* name of the next sample pushed
          fresh,               \* buffers rewritten since they were last sent
          late,                \* the engine has come to one that was not
          heard, garbled       \* the next sample due, and was another heard?

dma == <<dmaPos, dmaIdx, intr, eofDes, missed>>
cpu == <<pc, currDMABuff, currDMABuffPos, next>>
ear == <<heard, garbled>>
vars == <<dma, i2sBuf, dmaQueue, underrunCnt, cpu, fresh, late, ear>>

Buffer == 0 .. I2SDMABUFCNT - 1
Word == 0 .. I2SDMABUFLEN - 1
Sample == 0 .. Names - 1

(* The circular list of the descriptors. *)
next_link(b) == IF b < I2SDMABUFCNT - 1 THEN b + 1 ELSE 0

(* The buffer k places behind b. *)
Behind(b, k) == IF k <= b THEN b - k ELSE b + I2SDMABUFCNT - k

-----------------------------------------------------------------------------
(* i2sInit: silence in the ring, nothing in the queue, the engine starts   *)
(* on buffer 0.                                                            *)
Init ==
    /\ dmaPos = 0 /\ dmaIdx = 0 /\ intr = FALSE /\ eofDes = 0 /\ missed = 0
    /\ i2sBuf = [b \in Buffer |-> [i \in Word |-> Silence]]
    /\ dmaQueue = <<>> /\ underrunCnt = 0
    /\ pc = "idle" /\ currDMABuff = NULL /\ currDMABuffPos = 0
    /\ next = 0
    /\ fresh = [b \in Buffer |-> TRUE] /\ late = FALSE
    /\ heard = Silence /\ garbled = FALSE

(* Until the first sample is heard silence is due as well. *)
InOrder(w) == IF heard = Silence THEN w \in {Silence, 0} ELSE w = heard

Hear(w) ==
    /\ garbled' = (garbled \/ ~InOrder(w))
    /\ heard' = IF w = Silence THEN heard ELSE (w + 1) % Names

-----------------------------------------------------------------------------
(* The SLC engine *)

DmaWord ==
    /\ dmaIdx < I2SDMABUFLEN - 1
    /\ dmaIdx' = dmaIdx + 1
    /\ Hear(i2sBuf[dmaPos][dmaIdx])
    /\ UNCHANGED <<dmaPos, intr, eofDes, missed, i2sBuf, dmaQueue, underrunCnt, cpu,
                   fresh, late>>

(* The last word of a buffer: the descriptor is published, the interrupt   *)
(* is raised and the engine goes on with the next buffer.  A descriptor    *)
(* whose interrupt was not taken yet is overwritten.                       *)
DmaEof ==
    /\ dmaIdx = I2SDMABUFLEN - 1
    /\ missed' = IF intr THEN missed + 1 ELSE missed
    /\ missed' <= MaxMissed
    /\ dmaIdx' = 0 /\ dmaPos' = next_link(dmaPos)
    /\ intr' = TRUE /\ eofDes' = dmaPos
    /\ fresh' = [fresh EXCEPT ![dmaPos] = FALSE]
    /\ late' = (late \/ ~fresh[next_link(dmaPos)])
    /\ Hear(i2sBuf[dmaPos][dmaIdx])
    /\ UNCHANGED <<i2sBuf, dmaQueue, underrunCnt, cpu>>

-----------------------------------------------------------------------------
(* Mutant: the queue is one shorter still. *)
QueueFull_Short == Len(dmaQueue) >= I2SDMABUFCNT - 2

QueueFull == Len(dmaQueue) = I2SDMABUFCNT - 1

(* Mutant: the buffer after the one that was sent is queued. *)
slc_isr_NextDes ==
    /\ intr
    /\ intr' = FALSE
    /\ dmaQueue' = Append(IF QueueFull THEN Tail(dmaQueue) ELSE dmaQueue,
                          next_link(eofDes))
    /\ UNCHANGED <<underrunCnt, dmaPos, dmaIdx, eofDes, missed, i2sBuf, cpu, fresh, late, ear>>

(* The interrupt: the buffer that was sent goes on the queue of empty ones.*)
(* A queue that is full loses its oldest buffer, and an underrun counts.   *)
(* Clearing the status (82) and reading which buffer it was (85) are one   *)
(* step here: they are a few instructions apart, and the engine is at work *)
(* on a buffer for more than a millisecond.  An interrupt that comes too   *)
(* late for its buffer is in DmaEof.                                       *)
slc_isr ==
    /\ intr
    /\ intr' = FALSE
    /\ IF QueueFull
       THEN /\ underrunCnt' = IF underrunCnt < MaxUnderrun THEN underrunCnt + 1
                                                            ELSE underrunCnt
            /\ dmaQueue' = Append(Tail(dmaQueue), eofDes)
       ELSE /\ dmaQueue' = Append(dmaQueue, eofDes)
            /\ UNCHANGED underrunCnt
    /\ UNCHANGED <<dmaPos, dmaIdx, eofDes, missed, i2sBuf, cpu, fresh, late, ear>>

-----------------------------------------------------------------------------
(* i2sPushSample *)

PushSample ==
    /\ pc = "idle"
    /\ pc' = "push"
    /\ UNCHANGED <<dma, i2sBuf, dmaQueue, underrunCnt, currDMABuff, currDMABuffPos, next,
                   fresh, late, ear>>

NeedBuffer == currDMABuffPos = I2SDMABUFLEN \/ currDMABuff = NULL

(* Mutant: the buffer sent last is taken first. *)
PushReceive_Newest ==
    /\ pc = "push" /\ NeedBuffer
    /\ dmaQueue # <<>>
    /\ currDMABuff' = dmaQueue[Len(dmaQueue)]
    /\ dmaQueue' = SubSeq(dmaQueue, 1, Len(dmaQueue) - 1)
    /\ currDMABuffPos' = 0
    /\ UNCHANGED <<dma, i2sBuf, underrunCnt, pc, next, fresh, late, ear>>

(* Mutant: the position in the new buffer is not reset. *)
PushReceive_NoReset ==
    /\ pc = "push" /\ NeedBuffer
    /\ dmaQueue # <<>>
    /\ currDMABuff' = Head(dmaQueue) /\ dmaQueue' = Tail(dmaQueue)
    /\ UNCHANGED <<dma, i2sBuf, underrunCnt, pc, currDMABuffPos, next, fresh, late, ear>>

(* xQueueReceive blocks while no buffer is empty. *)
PushReceive ==
    /\ pc = "push" /\ NeedBuffer
    /\ dmaQueue # <<>>
    /\ currDMABuff' = Head(dmaQueue) /\ dmaQueue' = Tail(dmaQueue)
    /\ currDMABuffPos' = 0
    /\ UNCHANGED <<dma, i2sBuf, underrunCnt, pc, next, fresh, late, ear>>

PushStore ==
    /\ pc = "push" /\ ~NeedBuffer
    /\ pc' = "idle"
    /\ i2sBuf' = [i2sBuf EXCEPT ![currDMABuff][currDMABuffPos] = next]
    /\ next' = (next + 1) % Names
    /\ currDMABuffPos' = currDMABuffPos + 1
    /\ fresh' = [fresh EXCEPT ![currDMABuff] =
                    currDMABuffPos + 1 = I2SDMABUFLEN \/ @]
    /\ UNCHANGED <<dma, dmaQueue, underrunCnt, currDMABuff, late, ear>>

-----------------------------------------------------------------------------
Next ==
    \/ DmaWord \/ DmaEof
    \/ slc_isr
    \/ PushSample \/ PushReceive \/ PushStore

Spec == Init /\ [][Next]_vars

(* The engine never stops, the interrupt is taken, tskmad runs on. *)
FairSpec ==
    /\ Spec
    /\ WF_vars(DmaWord \/ DmaEof) /\ WF_vars(slc_isr)
    /\ WF_vars(PushReceive \/ PushStore)
-----------------------------------------------------------------------------
(* Correctness *)

TypeOK ==
    /\ dmaPos \in Buffer /\ dmaIdx \in Word /\ intr \in BOOLEAN /\ eofDes \in Buffer
    /\ missed \in 0 .. MaxMissed
    /\ i2sBuf \in [Buffer -> [Word -> Sample \cup {Silence}]]
    /\ dmaQueue \in Seq(Buffer) /\ Len(dmaQueue) < I2SDMABUFCNT
    /\ underrunCnt \in 0 .. MaxUnderrun
    /\ pc \in {"idle", "push"}
    /\ currDMABuff \in Buffer \cup {NULL} /\ currDMABuffPos \in 0 .. I2SDMABUFLEN
    /\ next \in Sample
    /\ fresh \in [Buffer -> BOOLEAN] /\ late \in BOOLEAN
    /\ heard \in Sample \cup {Silence} /\ garbled \in BOOLEAN

(* The first buffer that is not on the queue of empty ones, or on its way  *)
(* there: the one the engine sends, or has just sent.                      *)
Edge == IF intr THEN eofDes ELSE dmaPos

(* As long as every interrupt was taken in time, the queue is the trail of *)
(* the engine: the buffers just behind it, in the order they were sent,    *)
(* none twice.                                                             *)
QueueIsTrail == missed = 0 =>
    \A i \in 1 .. Len(dmaQueue) : dmaQueue[i] = Behind(Edge, Len(dmaQueue) + 1 - i)

(* Samples are heard in the order they were pushed, none lost and none     *)
(* twice, as long as the decoder had rewritten every buffer the engine     *)
(* came to; interrupts that come too late make it late, but garble nothing *)
(* before.                                                                 *)
HeardInOrder == garbled => late

(* An underrun is counted only when the decoder really was late. *)
NoFalseAlarm == underrunCnt > 0 => late

(* Decoder and engine are in the same buffer only when the decoder is late.*)
SharedOnlyIfLate ==
    (currDMABuff = dmaPos /\ currDMABuffPos < I2SDMABUFLEN) => late

(* The buffer that slc_isr throws out of a full queue is the one the       *)
(* engine has just begun to send, if every interrupt was taken in time:    *)
(* "it's invalid now anyway".                                              *)
DroppedIsPlaying ==
    [][(missed = 0 /\ slc_isr /\ QueueFull) => Head(dmaQueue) = dmaPos]_vars

(* "There's always a buffer that is being used by the DMA subsystem right  *)
(* now and we don't want to be able to write to that simultaneously."      *)
CannotWritePlaying ==
    (pc = "push" /\ ~NeedBuffer) => currDMABuff # dmaPos

(* A push waits for the engine, but not for ever. *)
PushReturns == pc = "push" ~> pc = "idle"
=============================================================================
