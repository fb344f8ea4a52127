------------------------------- MODULE MadBands -------------------------------
(***************************************************************************)
(* mp3/mad/layer3.c: the scale factor bands.  The 576 lines of a channel   *)
(* are divided into bands, differently for each sample rate and for long,  *)
(* short and mixed blocks.  III_exponents, III_huffdecode, III_reorder and *)
(* III_stereo each walk along the widths of the bands, without looking     *)
(* for the end of the table: that the lines end with it is a matter of the *)
(* numbers in it.                                                          *)
(*                                                                         *)
(* Bands and lines count from 1 here, windows from 0.                      *)
(***************************************************************************)
EXTENDS Integers, Sequences

sfb_48000_long ==
    <<4, 4, 4, 4, 4, 4, 6, 6, 6, 8, 10, 12, 16, 18, 22, 28, 34, 40, 46,
      54, 54, 192>>
sfb_44100_long ==
    <<4, 4, 4, 4, 4, 4, 6, 6, 8, 8, 10, 12, 16, 20, 24, 28, 34, 42, 50,
      54, 76, 158>>
sfb_32000_long ==
    <<4, 4, 4, 4, 4, 4, 6, 6, 8, 10, 12, 16, 20, 24, 30, 38, 46, 56, 68,
      84, 102, 26>>
sfb_48000_short ==
    <<4, 4, 4, 4, 4, 4, 4, 4, 4, 4, 4, 4, 6, 6, 6, 6, 6, 6, 10, 10, 10,
      12, 12, 12, 14, 14, 14, 16, 16, 16, 20, 20, 20, 26, 26, 26, 66, 66,
      66>>
sfb_44100_short ==
    <<4, 4, 4, 4, 4, 4, 4, 4, 4, 4, 4, 4, 6, 6, 6, 8, 8, 8, 10, 10, 10,
      12, 12, 12, 14, 14, 14, 18, 18, 18, 22, 22, 22, 30, 30, 30, 56, 56,
      56>>
sfb_32000_short ==
    <<4, 4, 4, 4, 4, 4, 4, 4, 4, 4, 4, 4, 6, 6, 6, 8, 8, 8, 12, 12, 12,
      16, 16, 16, 20, 20, 20, 26, 26, 26, 34, 34, 34, 42, 42, 42, 12, 12,
      12>>
sfb_48000_mixed ==
    <<4, 4, 4, 4, 4, 4, 6, 6, 4, 4, 4, 6, 6, 6, 6, 6, 6, 10, 10, 10, 12,
      12, 12, 14, 14, 14, 16, 16, 16, 20, 20, 20, 26, 26, 26, 66, 66, 66>>
sfb_44100_mixed ==
    <<4, 4, 4, 4, 4, 4, 6, 6, 4, 4, 4, 6, 6, 6, 8, 8, 8, 10, 10, 10, 12,
      12, 12, 14, 14, 14, 18, 18, 18, 22, 22, 22, 30, 30, 30, 56, 56, 56>>
sfb_32000_mixed ==
    <<4, 4, 4, 4, 4, 4, 6, 6, 4, 4, 4, 6, 6, 6, 8, 8, 8, 12, 12, 12, 16,
      16, 16, 20, 20, 20, 26, 26, 26, 34, 34, 34, 42, 42, 42, 12, 12, 12>>
sfb_24000_long ==
    <<6, 6, 6, 6, 6, 6, 8, 10, 12, 14, 16, 18, 22, 26, 32, 38, 46, 54, 62,
      70, 76, 36>>
sfb_22050_long ==
    <<6, 6, 6, 6, 6, 6, 8, 10, 12, 14, 16, 20, 24, 28, 32, 38, 46, 52, 60,
      68, 58, 54>>
sfb_24000_short ==
    <<4, 4, 4, 4, 4, 4, 4, 4, 4, 6, 6, 6, 8, 8, 8, 10, 10, 10, 12, 12, 12,
      14, 14, 14, 18, 18, 18, 24, 24, 24, 32, 32, 32, 44, 44, 44, 12, 12,
      12>>
sfb_22050_short ==
    <<4, 4, 4, 4, 4, 4, 4, 4, 4, 6, 6, 6, 6, 6, 6, 8, 8, 8, 10, 10, 10,
      14, 14, 14, 18, 18, 18, 26, 26, 26, 32, 32, 32, 42, 42, 42, 18, 18,
      18>>
sfb_16000_short ==
    <<4, 4, 4, 4, 4, 4, 4, 4, 4, 6, 6, 6, 8, 8, 8, 10, 10, 10, 12, 12, 12,
      14, 14, 14, 18, 18, 18, 24, 24, 24, 30, 30, 30, 40, 40, 40, 18, 18,
      18>>
sfb_24000_mixed ==
    <<6, 6, 6, 6, 6, 6, 6, 6, 6, 8, 8, 8, 10, 10, 10, 12, 12, 12, 14, 14,
      14, 18, 18, 18, 24, 24, 24, 32, 32, 32, 44, 44, 44, 12, 12, 12>>
sfb_22050_mixed ==
    <<6, 6, 6, 6, 6, 6, 6, 6, 6, 6, 6, 6, 8, 8, 8, 10, 10, 10, 14, 14, 14,
      18, 18, 18, 26, 26, 26, 32, 32, 32, 42, 42, 42, 18, 18, 18>>
sfb_16000_mixed ==
    <<6, 6, 6, 6, 6, 6, 6, 6, 6, 8, 8, 8, 10, 10, 10, 12, 12, 12, 14, 14,
      14, 18, 18, 18, 24, 24, 24, 30, 30, 30, 40, 40, 40, 18, 18, 18>>
sfb_8000_long ==
    <<12, 12, 12, 12, 12, 12, 16, 20, 24, 28, 32, 40, 48, 56, 64, 76, 90,
      2, 2, 2, 2, 2>>
sfb_8000_short ==
    <<8, 8, 8, 8, 8, 8, 8, 8, 8, 12, 12, 12, 16, 16, 16, 20, 20, 20, 24,
      24, 24, 28, 28, 28, 36, 36, 36, 2, 2, 2, 2, 2, 2, 2, 2, 2, 26, 26,
      26>>
sfb_8000_mixed ==
    <<12, 12, 12, 4, 4, 4, 8, 8, 8, 12, 12, 12, 16, 16, 16, 20, 20, 20,
      24, 24, 24, 28, 28, 28, 36, 36, 36, 2, 2, 2, 2, 2, 2, 2, 2, 2, 26, 26,
      26>>

(* The aliases are #defines. *)
sfbwidth_table == <<
    [l |-> sfb_48000_long, s |-> sfb_48000_short, m |-> sfb_48000_mixed],
    [l |-> sfb_44100_long, s |-> sfb_44100_short, m |-> sfb_44100_mixed],
    [l |-> sfb_32000_long, s |-> sfb_32000_short, m |-> sfb_32000_mixed],
    [l |-> sfb_24000_long, s |-> sfb_24000_short, m |-> sfb_24000_mixed],
    [l |-> sfb_22050_long, s |-> sfb_22050_short, m |-> sfb_22050_mixed],
    [l |-> sfb_22050_long, s |-> sfb_16000_short, m |-> sfb_16000_mixed],
    [l |-> sfb_22050_long, s |-> sfb_16000_short, m |-> sfb_16000_mixed],
    [l |-> sfb_22050_long, s |-> sfb_16000_short, m |-> sfb_16000_mixed],
    [l |-> sfb_8000_long, s |-> sfb_8000_short, m |-> sfb_8000_mixed] >>

(* Row of the table, for the rates of MPEG-1, 2 and 2.5. *)
sfreqi(rate, mpeg25) ==
    LET sfreq == IF mpeg25 THEN 2 * rate ELSE rate
    IN  ((sfreq \div 128) % 16) + ((sfreq \div 32768) % 2) - 8
        + (IF mpeg25 THEN 3 ELSE 0)

BlockKinds == {"l", "s", "m"}

-----------------------------------------------------------------------------
(* The walks *)

(* Lines of the first n bands. *)
LinesOf(width, n) ==
    LET sum[b \in 0 .. n] == IF b = 0 THEN 0 ELSE sum[b - 1] + width[b]
    IN  sum[n]

Lowest(S) == CHOOSE b \in S : \A c \in S : b <= c

(* The first band a walk `while (l < lines)' does not enter, less one. *)
BandsUpTo(width, lines) ==
    Lowest({b \in 0 .. Len(width) : LinesOf(width, b) >= lines \/ b = Len(width)})

(* Mutant: mixed blocks begin with eight long bands at every rate. *)
LowBands_Eight(kind, width) ==
    IF kind = "l" THEN Len(width) ELSE IF kind = "s" THEN 0 ELSE 8

(* Long bands at the bottom of a block. *)
LowBands(kind, width) ==
    IF kind = "l" THEN Len(width) ELSE IF kind = "s" THEN 0 ELSE BandsUpTo(width, 36)

(* Short bands come by threes, one for each window. *)
WindowOf(low, b) == (b - low - 1) % 3

(* Mutant: the counter of a window starts anew with every band. *)
sw_Reset(width, low, b) == 0

(* Lines of the same window in the bands before. *)
sw(width, low, b) ==
    LET sum[k \in low - 2 .. b] == IF k <= low THEN 0 ELSE sum[k - 3] + width[k]
    IN  sum[b - 3]

(* Exponents that III_exponents computes, and the line it is at then.      *)
(* Short bands are taken by threes, and the width of the first of them     *)
(* counts for all.                                                         *)
III_exponents(kind, width) ==
    LET low == LowBands(kind, width)
        line(b) == LinesOf(width, low) + 3 * sw(width, low, b + 1)
        end == Lowest({b \in low .. Len(width) + 2 :
                          (b - low) % 3 = 0 /\ (line(b) >= 576 \/ b >= Len(width))})
    IN  IF kind = "l" THEN <<22, 576>> ELSE <<end, line(end)>>

(* Scale factors that III_scalefactors stores, or III_scalefactors_lsf. *)
ScaleFactors(kind, lsf) ==
    IF lsf THEN 39 ELSE IF kind = "l" THEN 21 + 1
    ELSE (IF kind = "m" THEN 8 + 3 * 3 ELSE 6 * 3) + 6 * 3 + 1 * 3

(* III_sideinfo, for a channel with window_switching_flag. *)
region0_count(kind) == IF kind = "s" THEN 8 ELSE 7
region1_count == 36

(* The region of a band in III_huffdecode, which selects the table. *)
RegionOf(b, count0, count1) ==
    IF b <= count0 + 1 THEN 0 ELSE IF b <= count0 + 1 + count1 + 1 THEN 1 ELSE 2

-----------------------------------------------------------------------------
(* III_reorder *)

(* Where line k of a short band goes: subband, window and place. *)
III_reorder(kind, width, low, b, k) ==
    LET n == sw(width, low, b) + k
    IN  <<(IF kind = "m" THEN 2 ELSE 0) + n \div 6, WindowOf(low, b), n % 6>>

(* III_decode: subbands that are not all zero, when the highest line that  *)
(* is not zero is line i (or i is 36).                                     *)
sblimit(i) == 32 - (576 - i) \div 18
-----------------------------------------------------------------------------
(* III_stereo: which bands intensity stereo processes, when the bands in N *)
(* of the right channel have lines that are not zero.                      *)

Highest(S) == IF S = {} THEN 0 ELSE CHOOSE b \in S : \A c \in S : c <= b

(* Mutant: a window ends where the highest of the three does. *)
NotIntensity_OneBound(start, N) ==
    LET short == {b \in N : b > start}
    IN  IF short = {} THEN 1 .. Highest(N) ELSE 1 .. Highest(short)

(* Bands below lower, or below the bound of their window. *)
NotIntensity(start, N) ==
    LET short == {b \in N : b > start}
        max == Highest(short)
        bound(w) == Highest({b \in short : WindowOf(start, b) = w})
        lower == IF max > 0 THEN start ELSE Highest(N)
    IN  (1 .. lower) \cup {b \in start + 1 .. max : b <= bound(WindowOf(start, b))}
-----------------------------------------------------------------------------
(* What must be *)

(* Rates of MPEG-1, 2 and 2.5, in the order of the table. *)
SampleRates == <<48000, 44100, 32000, 24000, 22050, 16000, 12000, 11025, 8000>>

(* The bands take up the 576 lines, none of them cutting a pair in two.    *)
(* Short bands come by threes of the same width, after long ones of just   *)
(* two subbands.                                                           *)
Divides(kind, width) ==
    LET low == LowBands(kind, width)
    IN  /\ Len(width) <= 39 /\ LinesOf(width, Len(width)) = 576
        /\ \A b \in DOMAIN width : width[b] > 0 /\ width[b] % 2 = 0
        /\ kind # "l" => LinesOf(width, low) \in {0, 36}
        /\ \A b \in low + 1 .. Len(width) :
               /\ (Len(width) - low) % 3 = 0
               /\ width[b] = width[b - WindowOf(low, b)]

(* The walks of the decoder over a table end with it. *)
WalksEnd(kind, width, lsf) ==
    /\ III_exponents(kind, width) = <<Len(width), 576>>
    /\ ScaleFactors(kind, lsf) >= Len(width)
    /\ \A b \in DOMAIN width : RegionOf(b, region0_count(kind), region1_count) < 2

(* Short blocks: the lines of a window follow each other in the order of   *)
(* the table's bands, three windows next to each other in each subband,    *)
(* and no two lines go to one place.  This is agreement with the table;    *)
(* whether the table is right is another question, and layer3.c doubts it  *)
(* for the short bands of mixed blocks at 8000 Hz (294, 846, 1290).        *)
Sorts(kind, width) ==
    LET low == LowBands(kind, width)
        base == LinesOf(width, low)
    IN  \A b \in low + 1 .. Len(width) :
            LET w == WindowOf(low, b)
                below == (LinesOf(width, b - w - 1) - base) \div 3
            IN  \A k \in 0 .. width[b] - 1 :
                    III_reorder(kind, width, low, b, k)
                      = <<base \div 18 + (below + k) \div 6, w, (below + k) % 6>>
=============================================================================
