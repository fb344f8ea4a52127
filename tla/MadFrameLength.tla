--------------------------- MODULE MadFrameLength ---------------------------
(***************************************************************************)
(* mp3/mad/frame.c: what decode_header makes of the bits of a header, how  *)
(* long the frame is, and how free_bitrate finds the bit rate of a header  *)
(* that has none from the distance to the next one.  MadStream knows only  *)
(* the lengths.                                                            *)
(***************************************************************************)
EXTENDS Integers

(* In kbit/s. *)
bitrate_table == <<
    <<0, 32, 64, 96, 128, 160, 192, 224, 256, 288, 320, 352, 384, 416, 448>>,
    <<0, 32, 48, 56, 64, 80, 96, 112, 128, 160, 192, 224, 256, 320, 384>>,
    <<0, 32, 40, 48, 56, 64, 80, 96, 112, 128, 160, 192, 224, 256, 320>>,
    <<0, 32, 48, 56, 64, 80, 96, 112, 128, 144, 160, 176, 192, 224, 256>>,
    <<0, 8, 16, 24, 32, 40, 48, 56, 64, 80, 96, 112, 128, 144, 160>>>>

samplerate_table == <<44100, 48000, 32000>>

(* The bits of a header that decide, after the eleven of the sync word. *)
Word == [mpeg25 : 0 .. 1, id : 0 .. 1, layer : 0 .. 3, index : 0 .. 15,
         sfreq : 0 .. 3, padding : 0 .. 1]

(* The four `return -1' of decode_header. *)
Reserved(w) ==
    \/ w.id = 1 /\ w.mpeg25 = 0
    \/ w.layer = 0
    \/ w.index = 15
    \/ w.sfreq = 3

decode_header(w) ==
    LET layer == 4 - w.layer
        row == IF w.id = 0 THEN 4 + layer \div 2 ELSE layer
    IN  [layer |-> layer, lsf |-> w.id = 0, pad_slot |-> w.padding,
         bitrate |-> 1000 * bitrate_table[row][w.index + 1],
         samplerate |-> samplerate_table[w.sfreq + 1] \div
                            (IF w.id = 1 THEN 1 ELSE IF w.mpeg25 = 1 THEN 2 ELSE 4)]

Headers == {decode_header(w) : w \in {v \in Word : ~Reserved(v)}}

slots_per_frame(h) == IF h.layer = 3 /\ h.lsf THEN 72 ELSE 144

(* N of mad_header_decode. *)
FrameLength(h, bitrate) ==
    IF h.layer = 1
    THEN (((12 * bitrate) \div h.samplerate) + h.pad_slot) * 4
    ELSE ((slots_per_frame(h) * bitrate) \div h.samplerate) + h.pad_slot

(* Mutant: the fraction that the encoder cut off the length is forgotten. *)
free_bitrate_Floor(h, n) ==
    IF h.layer = 1
    THEN ((h.samplerate * (n - 4 * h.pad_slot)) \div 48) \div 1000
    ELSE ((h.samplerate * (n - h.pad_slot)) \div slots_per_frame(h)) \div 1000

(* The rate, in kbit/s, when the next header is n bytes away. *)
free_bitrate(h, n) ==
    IF h.layer = 1
    THEN ((h.samplerate * (n - 4 * h.pad_slot + 4)) \div 48) \div 1000
    ELSE ((h.samplerate * (n - h.pad_slot + 1)) \div slots_per_frame(h)) \div 1000

-----------------------------------------------------------------------------
(* Correctness *)

BufferSize == 2106       \* READBUFSZ of user_main.c
Guard == 8               \* MAD_BUFFER_GUARD
MainDataSize == 2567     \* MAD_BUFFER_MDLEN
MostCarried == 511       \* the largest main_data_begin

(* Headers with a bit rate whose frame is longer than a buffer can be. *)
TooLong ==
    {h \in Headers : h.bitrate > 0 /\ FrameLength(h, h.bitrate) + Guard > BufferSize}

(* Headers of layer III with a bit rate whose frame might not fit in       *)
(* main_data behind what the frames before it left there: none, so that    *)
(* they are all among the frames of which JoinFits of MadReservoir speaks. *)
OverMainData ==
    {h \in Headers : /\ h.layer = 3 /\ h.bitrate > 0
                     /\ MostCarried + FrameLength(h, h.bitrate) > MainDataSize}

(* Headers of layer III without a bit rate, with padding or not, whose     *)
(* length in a stream of some kbit/s does not give this rate again.        *)
Inexact ==
    {h \in Headers :
        /\ h.layer = 3 /\ h.bitrate = 0
        /\ \E k \in 8 .. 640 : free_bitrate(h, FrameLength(h, 1000 * k)) # k}
=============================================================================
