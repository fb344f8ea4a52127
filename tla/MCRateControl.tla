---------------------------- MODULE MCRateControl ----------------------------
(***************************************************************************)
(* The rate control and the clock it corrects: between two blocks of       *)
(* samples a frame of another rate may begin.                              *)
(***************************************************************************)
EXTENDS RateControl, I2sRate

MCInit == Init /\ DacInit

Render == render_sample_block /\ UNCHANGED dacVars

MCNext ==
    \/ Render
    \/ \E rate \in SampleRate :
           i = NoSamples /\ set_dac_sample_rate(rate) /\ UNCHANGED vars

(* tskmad goes on decoding. *)
MCSpec == MCInit /\ [][MCNext]_<<vars, dacVars>> /\ WF_vars(Render)
=============================================================================
