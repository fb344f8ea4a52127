------------------------------ MODULE MadMainData ------------------------------
(***************************************************************************)
(* mp3/mad/layer3.c, III_decode: how the main data of a frame is taken     *)
(* apart.  For each granule and channel come the scale factors (part 2)    *)
(* and the Huffman code words (part 3), together part2_3_length bits.      *)
(* III_huffdecode reads ahead into a cache of 32 bits; since the number of *)
(* code words is not known before they are decoded, it may read past part  *)
(* 3, and MAD_BUFFER_GUARD bytes are kept behind the data for that.        *)
(*                                                                         *)
(* Of a code word only its length is kept, and which of its values are     *)
(* zero, carry a sign, or are escaped with linbits more bits.              *)
(***************************************************************************)
EXTENDS MadBit

CONSTANTS Frames,           \* kinds of frames, see Header
          Lines,            \* 576
          Compress,         \* tried values of scalefac_compress,
          CompressLsf,      \*   the same for MPEG-2 and 2.5,
          Lengths,          \*   of part2_3_length
          BigValues,        \*   and of big_values
          Hcods,            \* lengths of the code words of a pair
          Linbits           \* linbits of the pair tables

(* lsf: MPEG-2 or 2.5, with one granule and other scale factors.           *)
Header == [nch : {1, 2}, lsf : BOOLEAN, i_stereo : BOOLEAN]

ASSUME MainDataAssumption ==
    /\ Frames \subseteq Header
    /\ Lines \in Nat /\ Lines >= 4 /\ Lines % 2 = 0
    /\ Compress \subseteq 0 .. 15 /\ CompressLsf \subseteq 0 .. 511
    /\ Lengths \subseteq Nat /\ BigValues \subseteq Nat
    /\ Hcods \subseteq 0 .. 19 /\ Linbits \subseteq 0 .. 13

MaxHcod == 19               \* the longest code word of a pair (table 13),
MaxQuad == 6                \*   of a quadruple (table A)
MAD_BUFFER_GUARD == 8

Kinds == {"long", "short", "mixed"}   \* block types 0, 1, 3; 2; 2 and mixed
Groups == 1 .. 4                      \* the bits of scfsi

(* Side information of a channel. *)
Channel(lsf) == [kind : Kinds,
                 scalefac_compress : IF lsf THEN CompressLsf ELSE Compress,
                 part2_3_length : Lengths, big_values : BigValues]

VARIABLES pc,                  \* where the decoder is
          header,              \* of the frame
          gr, ch,              \* the loops of III_decode
          ptr,                 \* next bit of main data
          scfsi,               \* groups granule 1 shares, per channel
          kinds,               \* kinds of the channels, per granule
          cachesz, bits_left,  \* of III_huffdecode; bits in the cache, and
                               \*   of part 3 behind it
          pairs, xr,           \* code words to come, lines done
          linbits, x, y,       \* of the code word being decoded
          total                \* part2_3_length so far (history)

huff == <<cachesz, bits_left, pairs, xr, linbits, x, y>>
place == <<header, gr, ch, ptr, scfsi, kinds, total>>
vars == <<pc, huff, place>>

(* Tables with linbits hold escapes, the others only values. *)
Values == {"zero", "value", "escape"}

Init ==
    /\ pc = "channel" /\ gr = 0 /\ ch = 0 /\ ptr = mad_bit_init(0)
    /\ header \in Frames
    /\ scfsi \in [0 .. 1 -> SUBSET Groups]
    /\ header.lsf => scfsi[0] = {}
    /\ header.lsf \/ header.nch = 1 => scfsi[1] = {}
    /\ kinds = [g \in 0 .. 1 |-> [c \in 0 .. 1 |-> "long"]]
    /\ cachesz = 0 /\ bits_left = 0 /\ pairs = 0 /\ xr = 0
    /\ linbits = 0 /\ x = "zero" /\ y = "zero" /\ total = 0

-----------------------------------------------------------------------------
(* Part 2 *)

(* What III_sideinfo lets pass: not too many code words, and no sharing of *)
(* scale factors with or by short blocks.                                  *)
SideInfoOK(c) ==
    /\ 2 * c.big_values <= Lines
    /\ c.kind # "long" => scfsi[ch] = {}

slen1 == <<0, 0, 0, 0, 3, 1, 1, 1, 2, 2, 2, 3, 3, 3, 4, 4>>
slen2 == <<0, 1, 2, 3, 0, 1, 2, 3, 1, 2, 3, 1, 2, 3, 2, 3>>

(* Groups granule 1 takes from granule 0. *)
Shared == IF gr = 0 THEN {} ELSE scfsi[ch]

(* Bits of a group of n scale factors of len bits. *)
Group(g, n, len) == IF g \in Shared THEN 0 ELSE n * len

(* Bits that III_scalefactors reads.  They are read one scale factor at a  *)
(* time, which takes the pointer to the same bit as reading them at once.  *)
III_scalefactors(c) ==
    LET s1 == slen1[c.scalefac_compress + 1]
        s2 == slen2[c.scalefac_compress + 1]
    IN  IF c.kind = "mixed" THEN (8 + 3 * 3) * s1 + 6 * 3 * s2
        ELSE IF c.kind = "short" THEN 6 * 3 * s1 + 6 * 3 * s2
        ELSE Group(1, 6, s1) + Group(2, 5, s1) + Group(3, 5, s2) + Group(4, 5, s2)

(* nsfb_table: scale factors of the four parts. *)
nsfb_table == [
    long  |-> << <<6, 5, 5, 5>>, <<6, 5, 7, 3>>, <<11, 10, 0, 0>>,
                 <<7, 7, 7, 0>>, <<6, 6, 6, 3>>, <<8, 8, 5, 0>> >>,
    short |-> << <<9, 9, 9, 9>>, <<9, 9, 12, 6>>, <<18, 18, 0, 0>>,
                 <<12, 12, 12, 0>>, <<12, 9, 9, 6>>, <<15, 12, 9, 0>> >>,
    mixed |-> << <<6, 9, 9, 9>>, <<6, 9, 12, 6>>, <<15, 18, 0, 0>>,
                 <<6, 15, 12, 0>>, <<6, 12, 9, 6>>, <<6, 18, 9, 0>> >>]

(* Row of nsfb_table and bits of a scale factor in the four parts. *)
lsf_slen(sc) ==
    IF sc < 400 THEN [row |-> 1, slen |-> <<(sc \div 16) \div 5, (sc \div 16) % 5,
                                           (sc % 16) \div 4, sc % 4>>]
    ELSE IF sc < 500 THEN [row |-> 2, slen |-> <<((sc - 400) \div 4) \div 5,
                                    ((sc - 400) \div 4) % 5, (sc - 400) % 4, 0>>]
    ELSE [row |-> 3, slen |-> <<(sc - 500) \div 3, (sc - 500) % 3, 0, 0>>]

(* The same for the right channel of intensity stereo. *)
lsf_slen_right(sc) ==
    IF sc < 180 THEN [row |-> 4, slen |-> <<sc \div 36, (sc % 36) \div 6,
                                           (sc % 36) % 6, 0>>]
    ELSE IF sc < 244 THEN [row |-> 5, slen |-> <<((sc - 180) % 64) \div 16,
                                    ((sc - 180) % 16) \div 4, (sc - 180) % 4, 0>>]
    ELSE [row |-> 6, slen |-> <<(sc - 244) \div 3, (sc - 244) % 3, 0, 0>>]

(* Bits that III_scalefactors_lsf reads. *)
III_scalefactors_lsf(c) ==
    LET right == header.i_stereo /\ ch = 1
        parts == IF right THEN lsf_slen_right(c.scalefac_compress \div 2)
                 ELSE lsf_slen(c.scalefac_compress)
        nsfb == nsfb_table[c.kind][parts.row]
    IN  nsfb[1] * parts.slen[1] + nsfb[2] * parts.slen[2]
        + nsfb[3] * parts.slen[3] + nsfb[4] * parts.slen[4]

Part2(c) == IF header.lsf THEN III_scalefactors_lsf(c) ELSE III_scalefactors(c)
-----------------------------------------------------------------------------
(* Part 3 *)

(* Bits with which a cache of sz bits is filled, up to whole bytes. *)
Refill(sz) == 8 * ((31 - sz) \div 8)

Fail == pc' = "error"

(* III_scalefactors and the head of III_huffdecode.  ptr goes to the end   *)
(* of part 3 at once; the code words are read with a pointer of their own, *)
(* first up to a byte boundary.                                            *)
Part2And3(c) ==
    LET behind == mad_bit_read(ptr, Part2(c))
        part2_length == mad_bit_length(ptr, behind)
        part3 == c.part2_3_length - part2_length
    IN  /\ pc = "channel" /\ SideInfoOK(c)
        /\ kinds' = [kinds EXCEPT ![gr][ch] = c.kind]
        /\ pairs' = c.big_values /\ xr' = 0
        /\ \/ /\ part3 < 0 /\ Fail
              /\ ptr' = behind
              /\ UNCHANGED <<cachesz, bits_left, total>>
           \/ /\ part3 >= 0
              /\ pc' = "pair"
              /\ ptr' = mad_bit_skip(behind, part3)
              /\ cachesz' = behind.left + Refill(behind.left)
              /\ bits_left' = part3 - cachesz'
              /\ total' = total + c.part2_3_length
        /\ UNCHANGED <<header, gr, ch, scfsi, linbits, x, y>>

(* A table that does not exist, at the start or at a region boundary. *)
NoTable ==
    /\ pc = "pair" /\ Fail
    /\ xr = 0 \/ (pairs > 0 /\ cachesz + bits_left > 0)
    /\ UNCHANGED <<huff, place>>

(* Mutant: all pairs are decoded, whatever is left of part 3. *)
Pair_Unchecked ==
    /\ pc = "pair" /\ pairs > 0
    /\ linbits' \in Linbits
    /\ LET bits == IF cachesz < 21 THEN Refill(cachesz) ELSE 0
       IN  cachesz' = cachesz + bits /\ bits_left' = bits_left - bits
    /\ pairs' = pairs - 1
    /\ pc' = "hcod"
    /\ UNCHANGED <<xr, x, y, place>>

(* A pair of lines.  A new region may bring another table. *)
Pair ==
    /\ pc = "pair" /\ pairs > 0 /\ cachesz + bits_left > 0
    /\ linbits' \in Linbits
    /\ LET bits == IF cachesz < 21 THEN Refill(cachesz) ELSE 0
       IN  cachesz' = cachesz + bits /\ bits_left' = bits_left - bits
    /\ pairs' = pairs - 1
    /\ pc' = "hcod"
    /\ UNCHANGED <<xr, x, y, place>>

(* Escapes are in the tables with linbits only. *)
Hcod(n) ==
    /\ pc = "hcod" /\ pc' = "x"
    /\ cachesz' = cachesz - n
    /\ x' \in Values /\ y' \in Values
    /\ linbits = 0 => x' # "escape" /\ y' # "escape"
    /\ UNCHANGED <<bits_left, pairs, xr, linbits, place>>

(* A value of the pair: no bits, a sign, or linbits and a sign.  margin:   *)
(* the cache is filled when it has not that many bits besides linbits.     *)
Value(v, margin) ==
    LET bits == IF v = "escape" /\ cachesz < linbits + margin THEN 16 ELSE 0
        used == IF v = "zero" THEN 0 ELSE IF v = "value" THEN 1 ELSE linbits + 1
    IN  cachesz' = cachesz + bits - used /\ bits_left' = bits_left - bits

(* Mutant: no bit is kept for the sign of y. *)
ValueX_Short ==
    /\ pc = "x" /\ pc' = "y"
    /\ Value(x, 1)
    /\ UNCHANGED <<pairs, xr, linbits, x, y, place>>

ValueX ==
    /\ pc = "x" /\ pc' = "y"
    /\ Value(x, 2)
    /\ UNCHANGED <<pairs, xr, linbits, x, y, place>>

ValueY ==
    /\ pc = "y" /\ pc' = "pair"
    /\ Value(y, 1)
    /\ xr' = xr + 2
    /\ UNCHANGED <<pairs, linbits, x, y, place>>

(* The pairs end with part 3, or all are decoded.  Those that ran over its *)
(* end are an error.                                                       *)
PairsEnd ==
    /\ pc = "pair" /\ (pairs = 0 \/ cachesz + bits_left <= 0)
    /\ pc' = IF cachesz + bits_left < 0 THEN "error" ELSE "quad"
    /\ UNCHANGED <<huff, place>>

(* Four lines. *)
Quad ==
    /\ pc = "quad" /\ cachesz + bits_left > 0 /\ xr + 4 <= Lines
    /\ LET bits == IF cachesz < 10 THEN 16 ELSE 0
       IN  cachesz' = cachesz + bits /\ bits_left' = bits_left - bits
    /\ pc' = "qcod"
    /\ UNCHANGED <<pairs, xr, linbits, x, y, place>>

(* A code word of n bits, and a sign for each of the values not zero. *)
Qcod(n, signs) ==
    /\ pc = "qcod" /\ pc' = "quad"
    /\ cachesz' = cachesz - n - signs
    /\ xr' = xr + 4
    /\ UNCHANGED <<bits_left, pairs, linbits, x, y, place>>

(* The quadruples end; one that ran over the end is dropped, the lines     *)
(* that are left are zero.                                                 *)
QuadsEnd ==
    /\ pc = "quad" /\ ~(cachesz + bits_left > 0 /\ xr + 4 <= Lines)
    /\ xr' = IF cachesz + bits_left < 0 THEN xr - 4 ELSE xr
    /\ pc' = "next"
    /\ UNCHANGED <<cachesz, bits_left, pairs, linbits, x, y, place>>

(* The next channel, the next granule, or the end of the frame. *)
NextChannel ==
    /\ pc = "next"
    /\ \/ /\ ch + 1 < header.nch
          /\ pc' = "channel" /\ ch' = ch + 1 /\ gr' = gr
       \/ /\ ch + 1 = header.nch /\ ~header.lsf /\ gr = 0
          /\ pc' = "channel" /\ ch' = 0 /\ gr' = 1
       \/ /\ ch + 1 = header.nch /\ (header.lsf \/ gr = 1)
          /\ pc' = "done" /\ UNCHANGED <<gr, ch>>
    /\ UNCHANGED <<huff, header, ptr, scfsi, kinds, total>>

(* III_stereo: the channels of a granule have different block types, which *)
(* the three types of long blocks may also be.                             *)
BadStereo ==
    /\ pc = "next" /\ header.nch = 2 /\ ch = 1 /\ Fail
    /\ kinds[gr][0] # kinds[gr][1] \/ kinds[gr][0] = "long"
    /\ UNCHANGED <<huff, place>>

Next ==
    \/ \E c \in Channel(header.lsf) : Part2And3(c)
    \/ NoTable \/ Pair \/ ValueX \/ ValueY \/ PairsEnd
    \/ \E n \in Hcods : Hcod(n)
    \/ Quad \/ QuadsEnd
    \/ \E n \in 1 .. MaxQuad, signs \in 0 .. 4 : Qcod(n, signs)
    \/ NextChannel \/ BadStereo

Spec == Init /\ [][Next]_vars
-----------------------------------------------------------------------------
(* Correctness *)

TypeOK ==
    /\ pc \in {"channel", "pair", "hcod", "x", "y", "quad", "qcod", "next",
               "done", "error"}
    /\ header \in Frames
    /\ gr \in 0 .. 1 /\ ch \in 0 .. header.nch - 1 /\ ptr \in Bitptr
    /\ scfsi \in [0 .. 1 -> SUBSET Groups]
    /\ kinds \in [0 .. 1 -> [0 .. 1 -> Kinds]]
    /\ cachesz \in Int /\ bits_left \in Int
    /\ pairs \in Nat /\ xr \in 0 .. Lines
    /\ linbits \in Linbits \cup {0} /\ x \in Values /\ y \in Values
    /\ total \in Nat

(* III_huffdecode never takes a bit from the cache that is not there, nor  *)
(* fills it beyond its 32 bits: the refills are far enough apart, and not  *)
(* too far, for the longest code word, two escapes and their signs.        *)
CacheSuffices ==
    /\ cachesz \in 0 .. 31
    /\ pc = "hcod" => cachesz >= MaxHcod
    /\ pc = "qcod" => cachesz >= MaxQuad

(* The assertion at the end of III_huffdecode, compiled out by NDEBUG:     *)
(* however the data is damaged, no more is read behind part 3 than the     *)
(* guard bytes.                                                            *)
GuardSuffices == -bits_left <= MAD_BUFFER_GUARD * CHAR_BIT

(* Each channel begins where the side information says: after the bits of  *)
(* the channels before it, however many of them were code words.           *)
ChannelsFollow == pc # "error" => BitPos(ptr) = total

(* Scale factors are shared only by two long blocks.                       *)
SharedAreLong ==
    pc \notin {"channel", "error"} /\ gr = 1 /\ scfsi[ch] # {}
        => kinds[0][ch] = "long" /\ kinds[1][ch] = "long"
=============================================================================
