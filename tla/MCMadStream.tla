----------------------------- MODULE MCMadStream -----------------------------
(***************************************************************************)
(* The servers of the runs of MadStream, and the lengths that real headers *)
(* give their frames.                                                      *)
(***************************************************************************)
EXTENDS MadStream, MadFrameLength

(* Sync words of every sort in the junk and inside frames. *)
Noisy == [frames |-> {3, 4}, noise |-> {NoSync, BadHeader, OtherLayer, LongLayer, 3}]

(* Frames without a bit rate, and headers like theirs everywhere. *)
Free == [frames |-> {FreeFormat}, noise |-> {NoSync, FreeFormat}]

(* Sync words in the headers only. *)
Clean == [frames |-> {1, 3, 4}, noise |-> {NoSync}]

AllServers == {Noisy, Free, Clean}

(* "2106 bytes should be enough for up to 48KHz mp3s": every frame of      *)
(* layer III with a bit rate fits in readBuf, and so does all that looks   *)
(* like a frame of another layer, but for the highest rates of layer II at *)
(* 8 kHz.  Frames with a bit rate never overrun main_data.  Of a server    *)
(* that sends free format the length of the frames is found exactly.       *)
LengthsHold ==
    /\ server.frames # {FreeFormat} =>
           /\ \A h \in TooLong : h.layer = 2 /\ h.lsf /\ h.samplerate = 8000
           /\ OverMainData = {}
    /\ FreeFormat \in server.frames => Inexact = {}
=============================================================================
