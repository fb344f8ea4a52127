---------------------------- MODULE MCMadMainData ----------------------------
(***************************************************************************)
(* A mono frame of MPEG-1 and a stereo frame of MPEG-2, and the tables the *)
(* main data is read with.                                                 *)
(***************************************************************************)
EXTENDS MadMainData, MadHuffman, MadBands

MCFrames == {[nch |-> 1, lsf |-> FALSE, i_stereo |-> FALSE],
             [nch |-> 2, lsf |-> TRUE, i_stereo |-> TRUE]}

UndecidedPairs ==
    {select \in DOMAIN PairCode :
        \/ ~IsCode(PairCode[select])
        \/ ~AreAllPairs(ValuesOf(PairCode[select]), PairLinbits(select) > 0)}
UndecidedQuads ==
    {select \in 0 .. 1 : ~IsCode(QuadCode[select]) \/ ~AreAllQuads(ValuesOf(QuadCode[select]))}
PairLengths == {w[2] : w \in UNION {PairCode[select] : select \in DOMAIN PairCode}}
QuadLengths == {w[2] : w \in QuadCode[0] \cup QuadCode[1]}

(* The bits of part 3 decide the values of the lines: each Huffman table   *)
(* is a complete code, with one word for each value, escaped at 15 only;   *)
(* and where a word is looked up, the cache holds the longest of any table.*)
HuffmanDecides ==
    /\ UndecidedPairs = {} /\ UndecidedQuads = {}
    /\ pc = "hcod" => \A len \in PairLengths : len <= cachesz
    /\ pc = "qcod" => \A len \in QuadLengths : len <= cachesz

(* Rows of sfbwidth_table for a frame: those of MPEG-1, or the others.     *)
Rows(lsf) == {i \in DOMAIN SampleRates : lsf <=> i > 3}

Covered(i, kind, lsf) ==
    LET width == sfbwidth_table[i][kind]
    IN  sfreqi(SampleRates[i], i > 6) = i - 1 /\ Divides(kind, width) /\ WalksEnd(kind, width, lsf)
Uncovered ==
    [lsf \in BOOLEAN |-> {at \in Rows(lsf) \X BlockKinds : ~Covered(at[1], at[2], lsf)}]
Misplaced ==
    [lsf \in BOOLEAN |->
        {at \in Rows(lsf) \X {"s", "m"} : ~Sorts(at[2], sfbwidth_table[at[1]][at[2]])}]
CutOff == {i \in 36 .. 576 : ~(sblimit(i) \in 2 .. 32 /\ 18 * sblimit(i) >= i)}

(* Each walk along the scale factor bands takes the 576 lines apart in the *)
(* same way and ends with the table of its sample rate: none runs past the *)
(* widths, needs an exponent or a scale factor that was not stored, or     *)
(* comes to the third Huffman table of a block that has only two.          *)
(* III_reorder puts each line of a short block where the table has its     *)
(* band and window, so that none is lost or overwritten; and the subbands  *)
(* III_decode takes for zero have no line that is not.  That the bands in  *)
(* the table are those of the standard is not claimed: of the mixed blocks *)
(* at 8000 Hz the code itself says "this is probably wrong".               *)
BandsCover ==
    Uncovered[header.lsf] = {} /\ Misplaced[header.lsf] = {} /\ CutOff = {}

IntensityStarts(start, last) ==
    LET bands == 1 .. last
        Above(b, c) == c >= b /\ (b <= start \/ WindowOf(start, c) = WindowOf(start, b))
    IN  \A N \in {{}} \cup {{a, b} : a, b \in bands} :
            NotIntensity(start, N) = {b \in bands : \E c \in N : Above(b, c)}
Wrong ==
    [lsf \in BOOLEAN |->
        {shape \in {<<LowBands(at[2], sfbwidth_table[at[1]][at[2]]), Len(sfbwidth_table[at[1]][at[2]])>> :
                        at \in Rows(lsf) \X BlockKinds} :
            ~IntensityStarts(shape[1], shape[2])}]

(* III_stereo takes for intensity stereo the bands above the right         *)
(* channel's spectrum, in each window of a short block by itself, and the  *)
(* long bands of a mixed block only when all short ones are zero; whatever *)
(* two bands are the ones that are not zero.                               *)
IntensityAbove == Wrong[header.lsf] = {}
=============================================================================
