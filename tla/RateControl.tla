----------------------------- MODULE RateControl -----------------------------
(***************************************************************************)
(* mp3/user/user_main.c, recalcAddDelSamp and render_sample_block: the     *)
(* clock of the server and the one of the DAC differ.  When the FIFO fills *)
(* up, samples are left out now and then; when it runs low, some are sent  *)
(* twice.                                                                  *)
(*                                                                         *)
(* sampAddDel is what every block of samples adds to the account sampErr;  *)
(* each whole One on the account is a sample to leave out (or, below zero, *)
(* to repeat).                                                             *)
(***************************************************************************)
EXTENDS Integers

CONSTANTS Lens,                          \* possible values of spiRamFifoLen()
          SmallLen,                      \* 10*1024: shorter FIFOs are small
          Target,                        \* 1600, lowest fill of a small FIFO
          NoMinimum,                     \* 9999
          ADD_DEL_BUFFPERSAMP,           \* 1000
          ADD_DEL_BUFFPERSAMP_NOSPIRAM,  \* 1500
          Period,                        \* 1500 blocks
          NoSamples,                     \* samples in a block, 32 or 16
          One,                           \* 1<<24, one sample
          MaxAddDel                      \* bound of sampAddDel, small FIFOs

(* The last part: what the fill of the FIFO can ask for is no more than    *)
(* the samples of a block (128 KiB: 131 072 000; 16 samples: 268 435 456). *)
ASSUME RateAssumption ==
    /\ Lens \subseteq Nat /\ SmallLen \in Nat /\ Target \in Nat /\ NoMinimum \in Nat
    /\ ADD_DEL_BUFFPERSAMP \in Nat /\ ADD_DEL_BUFFPERSAMP_NOSPIRAM \in Nat
    /\ Period \in Nat \ {0} /\ NoSamples \in Nat \ {0} /\ One \in Nat \ {0}
    /\ MaxAddDel \in Nat
    /\ \A len \in Lens : len * ADD_DEL_BUFFPERSAMP <= NoSamples * One

VARIABLES len,                     \* spiRamFifoLen()
          cnt, minFifoFill,        \* of recalcAddDelSamp
          sampAddDel, sampErr,     \* of render_sample_block
          i,                       \* its loop; NoSamples between the blocks
          sent,                    \* how often the last sample was sent
          measured                 \* the fill RecalcLarge used (history)

recalcVars == <<cnt, minFifoFill, sampAddDel, measured>>
vars == <<len, cnt, minFifoFill, sampAddDel, sampErr, i, sent, measured>>

Large == len >= SmallLen

Init ==
    /\ len \in Lens
    /\ cnt = 0 /\ minFifoFill = 0
    /\ sampAddDel = 0 /\ sampErr = 0
    /\ i = NoSamples /\ sent = 1
    /\ measured = len \div 2

-----------------------------------------------------------------------------
Smaller(a, b) == IF a < b THEN a ELSE b

(* Mutant: the fill is taken from the target. *)
FillError_Swapped(fill) == len \div 2 - fill

(* How far the FIFO is above half of its length. *)
FillError(fill) == fill - len \div 2

(* Not the last call of a period: the old value stands. *)
Keep(fill) ==
    /\ cnt + 1 < Period
    /\ cnt' = cnt + 1
    /\ minFifoFill' = Smaller(fill, minFifoFill)
    /\ UNCHANGED <<sampAddDel, measured>>

(* A small FIFO: the lowest fill of the period is compared with a target,  *)
(* and the old value corrected.  The counter of underruns, for which the   *)
(* code takes -1 instead, stays 0: input() asks the FIFO for no more than  *)
(* it holds.  The bound on sampAddDel is not in the code.                  *)
RecalcSmall(fill) ==
    /\ cnt + 1 >= Period /\ ~Large
    /\ cnt' = 0 /\ minFifoFill' = NoMinimum
    /\ sampAddDel' = sampAddDel +
           (Smaller(fill, minFifoFill) - Target) * ADD_DEL_BUFFPERSAMP_NOSPIRAM
    /\ sampAddDel' \in -MaxAddDel .. MaxAddDel
    /\ UNCHANGED measured

(* A large one: proportional to the fill, which is asked for again. *)
RecalcLarge(fill, again) ==
    /\ cnt + 1 >= Period /\ Large
    /\ cnt' = 0 /\ minFifoFill' = Smaller(fill, minFifoFill)
    /\ sampAddDel' = FillError(again) * ADD_DEL_BUFFPERSAMP
    /\ measured' = again

recalcAddDelSamp ==
    \E fill, again \in 0 .. len :
        Keep(fill) \/ RecalcSmall(fill) \/ RecalcLarge(fill, again)

(* Mutant: every block starts a new account. *)
BeginBlock_Forgets ==
    /\ i = NoSamples
    /\ recalcAddDelSamp
    /\ sampErr' = sampAddDel'
    /\ i' = 0
    /\ UNCHANGED <<len, sent>>

BeginBlock ==
    /\ i = NoSamples
    /\ recalcAddDelSamp
    /\ sampErr' = sampErr + sampAddDel'
    /\ i' = 0
    /\ UNCHANGED <<len, sent>>

(* The next sample of the block is sent n times. *)
Sample(n) ==
    /\ i < NoSamples /\ i' = i + 1 /\ sent' = n
    /\ UNCHANGED <<len, recalcVars>>

(* Mutant: a sample is left out without being taken off the account. *)
LeaveOut_NotCounted ==
    /\ sampErr > One /\ Sample(0)
    /\ UNCHANGED sampErr

LeaveOut ==
    /\ sampErr > One /\ Sample(0)
    /\ sampErr' = sampErr - One

SendTwice ==
    /\ sampErr < -One /\ Sample(2)
    /\ sampErr' = sampErr + One

SendOnce ==
    /\ sampErr \in -One .. One /\ Sample(1)
    /\ UNCHANGED sampErr

render_sample_block == BeginBlock \/ LeaveOut \/ SendTwice \/ SendOnce

Next == render_sample_block

Spec == Init /\ [][Next]_vars
-----------------------------------------------------------------------------
(* Correctness *)

(* Where the FIFO was at the last measurement. *)
AboveHalf == measured > len \div 2
BelowHalf == measured < len \div 2

(* The ranges of the statics of recalcAddDelSamp and render_sample_block.  *)
TypeOK ==
    /\ len \in Lens
    /\ cnt \in 0 .. Period - 1
    /\ minFifoFill \in 0 .. NoMinimum
    /\ sampAddDel \in Int /\ sampErr \in Int
    /\ i \in 0 .. NoSamples /\ sent \in 0 .. 2
    /\ measured \in 0 .. len

(* Between two calls of render_sample_block the account of a player with a *)
(* large FIFO never holds more than one sample: no correction piles up     *)
(* that would still be played when the FIFO has long recovered.            *)
AccountIsSettled == Large /\ i = NoSamples => sampErr \in -One .. One

(* "If our buffers are filling up too fast we will increase our playout    *)
(* speed; if our buffers empty too quickly, we will decrease it"           *)
(* (playerconfig.h): a sample is left out only when the FIFO was above     *)
(* half at the last measurement, and repeated only when it was below,      *)
(* whatever was on the account before.                                     *)
OpposesFill ==
    [][Large /\ i' = i + 1 => /\ sent' = 0 => AboveHalf
                              /\ sent' = 2 => BelowHalf]_vars

(* No deviation is too small for render_sample_block: while the FIFO stays *)
(* above half, samples are left out again and again, and while it stays    *)
(* below, repeated.                                                        *)
EveryDeviationCounts ==
    /\ <>[]AboveHalf => []<>(sent = 0)
    /\ <>[]BelowHalf => []<>(sent = 2)
=============================================================================
