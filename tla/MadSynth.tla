------------------------------ MODULE MadSynth ------------------------------
(***************************************************************************)
(* mp3/mad/synth.c: the polyphase synthesis filterbank.  A block of 32     *)
(* subband samples becomes a vector (dct32); the sound of a block is a sum *)
(* over the vectors of the last sixteen blocks, each weighed by the part   *)
(* of the window D for its age.  The vectors are never moved.  They stay   *)
(* in eight slots of two parities, and synth->phase turns instead.         *)
(*                                                                         *)
(* A vector is abstracted to the number of the block it came from: 0 is    *)
(* silence.                                                                *)
(***************************************************************************)
EXTENDS Integers

VARIABLES phase,     \* synth->phase, and the local copy of synth_full
          filter,    \* synth->filter: [channel][phase & 1][phase >> 1]
          blocks,    \* blocks since mad_synth_init
          since      \* the block from which on each channel was in all blocks

synthVars == <<phase, filter, blocks, since>>

Channel == 0 .. 1
Phase == 0 .. 15
Parity == 0 .. 1
Slot == 0 .. 7

(* mad_synth_mute *)
Muted == [ch \in Channel |-> [parity \in Parity |-> [v \in Slot |-> 0]]]

SynthInit ==
    /\ phase = 0 /\ filter = Muted
    /\ blocks = 0 /\ since = [ch \in Channel |-> 1]

-----------------------------------------------------------------------------
(* The window *)

pe(p) == 2 * (p \div 2)

(* Mutant: the phase of the other parity is not turned back. *)
po_Same(p) == 2 * (p \div 2) + 1

(* ((phase - 1) & 0xf) | 1 *)
po(p) == 2 * (((p + 15) % 16) \div 2) + 1

Turn(p, parity) == IF parity = p % 2 THEN pe(p) ELSE po(p)

(* Where a row of D is read for slot v, in the first 16 samples of a block *)
(* and in the mirrored ones.                                               *)
Tap(p, parity, v) == Turn(p, parity) + ((16 - 2 * v) % 16)
Mirror(p, parity, v) == 31 - 16 + 2 * v - Turn(p, parity)

-----------------------------------------------------------------------------
(* One turn of the loop over the blocks of a frame: dct32 for each of the  *)
(* nch channels, and the window.                                           *)
Dct32(nch) ==
    filter' = [ch \in Channel |->
                  IF ch < nch
                  THEN [filter[ch] EXCEPT ![phase % 2][phase \div 2] = blocks + 1]
                  ELSE filter[ch]]

(* Mutant: the phase is counted in slots. *)
SynthBlock_Slots(nch) ==
    /\ Dct32(nch)
    /\ phase' = (phase + 1) % 8
    /\ blocks' = blocks + 1
    /\ since' = [ch \in Channel |-> IF ch < nch THEN since[ch] ELSE blocks + 2]

SynthBlock(nch) ==
    /\ Dct32(nch)
    /\ phase' = (phase + 1) % 16
    /\ blocks' = blocks + 1
    /\ since' = [ch \in Channel |-> IF ch < nch THEN since[ch] ELSE blocks + 2]

mad_synth_init ==
    /\ phase' = 0 /\ filter' = Muted
    /\ blocks' = 0 /\ since' = [ch \in Channel |-> 1]

SynthNext == mad_synth_init \/ \E nch \in 1 .. 2 : SynthBlock(nch)

SynthSpec == SynthInit /\ [][SynthNext]_synthVars

-----------------------------------------------------------------------------
(* The vector of block b that is weighed with entry i of a row of D has    *)
(* the age the entry is for.  A row has 32 entries, the second sixteen     *)
(* repeat the first.                                                       *)
HasAge(b, i) == i \in 0 .. 31 /\ b = blocks + 1 - (i % 16)

(* Every vector of the sum in block blocks + 1 of channel ch is weighed    *)
(* by its age, or is silence from before the first block, or is older than *)
(* the last block the channel was not in.                                  *)
MeetsAge(ch, p) ==
    \A parity \in Parity : \A v \in Slot :
        LET b == filter'[ch][parity][v] IN
        /\ Tap(p, parity, v) \in 0 .. 31 /\ Mirror(p, parity, v) \in 0 .. 31
        /\ blocks + 1 - (Tap(p, parity, v) % 16) >= since[ch] =>
               /\ HasAge(b, Tap(p, parity, v))
               /\ HasAge(b, 31 - Mirror(p, parity, v))
        /\ since[ch] = 1 /\ blocks + 1 - (Tap(p, parity, v) % 16) < 1 => b = 0

EachBlockMeetsAge ==
    \A nch \in 1 .. 2 : SynthBlock(nch) =>
        \A ch \in Channel : ch < nch => MeetsAge(ch, phase)

(* What the filterbank promises of each block it renders: no vector is     *)
(* lost, moved or weighed for an age it has not, in either channel,        *)
(* whichever channels the frames have.                                     *)
WindowMeetsAge == [][EachBlockMeetsAge]_synthVars
=============================================================================
