--------------------------- MODULE MadMainDataProofs ---------------------------
(***************************************************************************)
(* III_huffdecode keeps to its cache and to the guard bytes whatever the   *)
(* data, every channel begins where the side information says, and         *)
(* III_decode comes to an end.                                             *)
(***************************************************************************)
EXTENDS MCMadMainData, WellFoundedInduction, TLAPS

(* What is in the cache and how far it was read ahead, at each place.  A   *)
(* code word starts with at least one bit of part 3 left, so the refill    *)
(* before it ends at most 30 bits behind; two escapes read 32 more.        *)
Cached ==
    /\ cachesz \in 0 .. 31 /\ bits_left \in Int /\ -bits_left <= 62
    /\ pc = "hcod" => cachesz >= 21 /\ -bits_left <= 30
    /\ pc = "x" => cachesz >= 2 /\ -bits_left <= 30
    /\ pc = "y" => cachesz >= 1 /\ -bits_left <= 46
    /\ pc = "qcod" => cachesz >= 10 /\ -bits_left <= 30

(* Lines and code words that are to come. *)
Counted ==
    /\ xr \in 0 .. Lines /\ pairs \in Nat
    /\ pc = "pair" => xr + 2 * pairs <= Lines
    /\ pc \in {"hcod", "x", "y"} => xr + 2 + 2 * pairs <= Lines
    /\ pc = "quad" /\ cachesz + bits_left < 0 => xr >= 4
    /\ pc = "qcod" => xr + 4 <= Lines

(* Where the next channel begins. *)
Placed ==
    /\ ptr \in Bitptr /\ total \in Nat
    /\ pc # "error" => BitPos(ptr) = total

(* The rest of the type invariant. *)
Forms ==
    /\ pc \in {"channel", "pair", "hcod", "x", "y", "quad", "qcod", "next",
               "done", "error"}
    /\ header \in Frames /\ gr \in 0 .. 1 /\ ch \in 0 .. header.nch - 1
    /\ scfsi \in [0 .. 1 -> SUBSET Groups]
    /\ kinds \in [0 .. 1 -> [0 .. 1 -> Kinds]]
    /\ linbits \in Linbits \cup {0} /\ x \in Values /\ y \in Values

IInv == Cached /\ Counted /\ Placed /\ Forms
-----------------------------------------------------------------------------
(* Bit pointers *)

(* Division by 8. *)
LEMMA Division ==
    ASSUME NEW n \in Nat
    PROVE  n \div 8 \in Nat /\ n % 8 \in 0 .. 7 /\ n = 8 * (n \div 8) + (n % 8)
<1>1. n % 8 \in 0 .. 7
  OBVIOUS
<1>2. n = 8 * (n \div 8) + (n % 8)
  OBVIOUS
<1>3. n \div 8 \in Nat
  OBVIOUS
<1> QED BY <1>1, <1>2, <1>3

(* mad_bit_read moves on by what it reads. *)
LEMMA ReadMoves ==
    ASSUME NEW bp \in Bitptr, NEW n \in Nat
    PROVE  /\ mad_bit_read(bp, n) \in Bitptr
           /\ BitPos(mad_bit_read(bp, n)) = BitPos(bp) + n
<1>1. bp.byte \in Nat /\ bp.left \in 0 .. 8 /\ bp = [byte |-> bp.byte, left |-> bp.left]
  BY DEF Bitptr, CHAR_BIT
<1>2. CASE n < bp.left
  <2>1. mad_bit_read(bp, n) = [byte |-> bp.byte, left |-> bp.left - n]
    BY <1>1, <1>2 DEF mad_bit_read
  <2> QED BY <1>1, <1>2, <2>1 DEF BitPos, Bitptr, CHAR_BIT
<1>3. CASE ~(n < bp.left)
  <2> DEFINE rest == n - bp.left
  <2>1. mad_bit_read(bp, n) = [byte |-> bp.byte + 1 + rest \div 8,
                               left |-> 8 - (rest % 8)]
    BY <1>3 DEF mad_bit_read, CHAR_BIT
  <2>2. rest \in Nat /\ n = rest + bp.left
    BY <1>1, <1>3
  <2> HIDE DEF rest
  <2>3. rest \div 8 \in Nat /\ rest % 8 \in 0 .. 7 /\ rest = 8 * (rest \div 8) + (rest % 8)
    BY <2>2, Division
  <2> QED BY <1>1, <2>1, <2>2, <2>3 DEF BitPos, Bitptr, CHAR_BIT
<1> QED BY <1>2, <1>3

(* So does mad_bit_skip, with the borrow it makes. *)
LEMMA SkipMoves ==
    ASSUME NEW bp \in Bitptr, NEW n \in Nat
    PROVE  /\ mad_bit_skip(bp, n) \in Bitptr
           /\ BitPos(mad_bit_skip(bp, n)) = BitPos(bp) + n
<1>1. bp.byte \in Nat /\ bp.left \in 0 .. 8
  BY DEF Bitptr, CHAR_BIT
<1>2. n \div 8 \in Nat /\ n % 8 \in 0 .. 7 /\ n = 8 * (n \div 8) + (n % 8)
  BY Division
<1>3. CASE bp.left - (n % 8) < 0
  <2>1. mad_bit_skip(bp, n) = [byte |-> bp.byte + n \div 8 + 1,
                               left |-> bp.left - (n % 8) + 8]
    BY <1>3 DEF mad_bit_skip, CHAR_BIT
  <2> QED BY <1>1, <1>2, <1>3, <2>1 DEF BitPos, Bitptr, CHAR_BIT
<1>4. CASE ~(bp.left - (n % 8) < 0)
  <2>1. mad_bit_skip(bp, n) = [byte |-> bp.byte + n \div 8,
                               left |-> bp.left - (n % 8)]
    BY <1>4 DEF mad_bit_skip, CHAR_BIT
  <2> QED BY <1>1, <1>2, <1>4, <2>1 DEF BitPos, Bitptr, CHAR_BIT
<1> QED BY <1>3, <1>4

(* mad_bit_length is the distance. *)
LEMMA LengthIsDistance ==
    ASSUME NEW begin \in Bitptr, NEW end \in Bitptr
    PROVE  mad_bit_length(begin, end) = BitPos(end) - BitPos(begin)
BY DEF mad_bit_length, BitPos, Bitptr, CHAR_BIT

(* A refill makes three bytes of the cache, or four less a bit. *)
LEMMA RefillFits ==
    ASSUME NEW sz \in 0 .. 31
    PROVE  Refill(sz) \in Nat /\ sz + Refill(sz) \in 24 .. 31
BY DEF Refill
-----------------------------------------------------------------------------
(* Scale factors take a number of bits. *)
LEMMA Part2IsNat ==
    ASSUME Forms, NEW c \in Channel(header.lsf)
    PROVE  Part2(c) \in Nat
<1> DEFINE sc == c.scalefac_compress
<1>1. c.kind \in Kinds
  BY DEF Channel
<1>2. CASE header.lsf = FALSE
  <2> DEFINE s1 == slen1[sc + 1]
             s2 == slen2[sc + 1]
  <2>1. sc \in 0 .. 15
    <3>1. sc \in IF header.lsf THEN CompressLsf ELSE Compress
      BY DEF Channel
    <3>2. Compress \subseteq 0 .. 15
      BY MainDataAssumption, Zenon
    <3> HIDE DEF sc
    <3>3. sc \in Compress
      BY <1>2, <3>1, Zenon
    <3> QED BY <3>2, <3>3, Zenon
  <2>2. s1 \in Nat /\ s2 \in Nat
    BY <2>1 DEF slen1, slen2
  <2>3. \A g \in Nat, n \in Nat : Group(g, n, s1) \in Nat /\ Group(g, n, s2) \in Nat
    <3> HIDE DEF s1, s2
    <3> QED BY <2>2 DEF Group
  <2>4. Part2(c) = IF c.kind = "mixed" THEN (8 + 3 * 3) * s1 + 6 * 3 * s2
                   ELSE IF c.kind = "short" THEN 6 * 3 * s1 + 6 * 3 * s2
                   ELSE Group(1, 6, s1) + Group(2, 5, s1) + Group(3, 5, s2) + Group(4, 5, s2)
    BY <1>2, Zenon DEF Part2, III_scalefactors
  <2>5. Group(1, 6, s1) \in Nat /\ Group(2, 5, s1) \in Nat
        /\ Group(3, 5, s2) \in Nat /\ Group(4, 5, s2) \in Nat
    BY <2>3
  <2> HIDE DEF s1, s2
  <2> QED BY <2>2, <2>4, <2>5
<1>3. CASE header.lsf = TRUE
  <2>0. sc \in IF header.lsf THEN CompressLsf ELSE Compress
    BY DEF Channel
  <2>a. sc \in CompressLsf
    BY <1>3, <2>0, Zenon
  <2>b. CompressLsf \subseteq 0 .. 511
    BY MainDataAssumption, Zenon
  <2>1. sc \in 0 .. 511
    BY <2>a, <2>b, Zenon
  <2> HIDE DEF sc
  <2>2. /\ lsf_slen(sc).row \in 1 .. 3
        /\ \A k \in 1 .. 4 : lsf_slen(sc).slen[k] \in Nat
    BY <2>1 DEF lsf_slen
  <2>3. /\ lsf_slen_right(sc \div 2).row \in 4 .. 6
        /\ \A k \in 1 .. 4 : lsf_slen_right(sc \div 2).slen[k] \in Nat
    BY <2>1 DEF lsf_slen_right
  <2>4. \A r \in 1 .. 6, k \in 1 .. 4 : nsfb_table[c.kind][r][k] \in Nat
    BY <1>1 DEF nsfb_table, Kinds
  <2> DEFINE right == header.i_stereo /\ ch = 1
             parts == IF right THEN lsf_slen_right(sc \div 2) ELSE lsf_slen(sc)
             nsfb == nsfb_table[c.kind][parts.row]
  <2>5. Part2(c) = nsfb[1] * parts.slen[1] + nsfb[2] * parts.slen[2]
                   + nsfb[3] * parts.slen[3] + nsfb[4] * parts.slen[4]
    BY <1>3, Zenon DEF Part2, III_scalefactors_lsf, sc
  <2>6. parts.row \in 1 .. 6 /\ \A k \in 1 .. 4 : parts.slen[k] \in Nat
    <3>1. CASE right
      <4>1. parts = lsf_slen_right(sc \div 2)
        BY <3>1
      <4> HIDE DEF parts
      <4> QED BY <2>3, <4>1
    <3>2. CASE ~right
      <4>1. parts = lsf_slen(sc)
        BY <3>2
      <4> HIDE DEF parts
      <4> QED BY <2>2, <4>1
    <3> QED BY <3>1, <3>2
  <2> HIDE DEF parts
  <2>7. \A k \in 1 .. 4 : nsfb[k] \in Nat
    BY <2>4, <2>6
  <2> HIDE DEF nsfb
  <2>8. /\ nsfb[1] \in Nat /\ nsfb[2] \in Nat /\ nsfb[3] \in Nat /\ nsfb[4] \in Nat
        /\ parts.slen[1] \in Nat /\ parts.slen[2] \in Nat
        /\ parts.slen[3] \in Nat /\ parts.slen[4] \in Nat
    BY <2>6, <2>7
  <2> QED BY <2>5, <2>8
<1> QED BY <1>2, <1>3, MainDataAssumption DEF Forms, Header
-----------------------------------------------------------------------------
(* The invariant *)

LEMMA InitIInv == Init => IInv
<1> SUFFICES ASSUME Init PROVE IInv
  OBVIOUS
<1>1. Cached /\ Counted
  BY MainDataAssumption DEF Init, Cached, Counted
<1>2. Placed
  BY DEF Init, Placed, mad_bit_init, Bitptr, BitPos, CHAR_BIT
<1>3. header \in Header
  BY MainDataAssumption DEF Init
<1>4. 0 \in 0 .. header.nch - 1
  BY <1>3 DEF Header
<1>5. kinds \in [0 .. 1 -> [0 .. 1 -> Kinds]]
  BY DEF Init, Kinds
<1> QED BY <1>1, <1>2, <1>4, <1>5 DEF Init, IInv, Forms, Values

(* Nothing but the caches is touched between the heads of two channels. *)
LEMMA PlaceStays ==
    ASSUME IInv, pc # "error", UNCHANGED place
    PROVE  /\ Placed'
           /\ header' \in Frames /\ gr' \in 0 .. 1 /\ ch' \in 0 .. header'.nch - 1
           /\ scfsi' \in [0 .. 1 -> SUBSET Groups]
           /\ kinds' \in [0 .. 1 -> [0 .. 1 -> Kinds]]
<1>1. /\ header' = header /\ gr' = gr /\ ch' = ch /\ ptr' = ptr
      /\ scfsi' = scfsi /\ kinds' = kinds /\ total' = total
  BY DEF place
<1> QED BY <1>1 DEF IInv, Placed, Forms, BitPos

LEMMA PairKeeps == IInv /\ Pair => IInv'
<1> SUFFICES ASSUME IInv, Pair PROVE IInv'
  OBVIOUS
<1> DEFINE bits == IF cachesz < 21 THEN Refill(cachesz) ELSE 0
<1>1. /\ pc = "pair" /\ pc' = "hcod" /\ pairs > 0 /\ cachesz + bits_left > 0
      /\ cachesz' = cachesz + bits /\ bits_left' = bits_left - bits
      /\ pairs' = pairs - 1 /\ xr' = xr /\ UNCHANGED place
      /\ linbits' \in Linbits /\ x' = x /\ y' = y
  BY DEF Pair
<1>2. Cached'
  <2>1. cachesz \in 0 .. 31 /\ bits_left \in Int
    BY DEF IInv, Cached
  <2>2. bits \in Nat /\ cachesz + bits \in 21 .. 31
    BY <2>1, RefillFits
  <2> HIDE DEF bits
  <2> QED BY <1>1, <2>1, <2>2 DEF Cached
<1>3. Counted'
  BY <1>1, MainDataAssumption DEF IInv, Counted
<1> QED BY <1>1, <1>2, <1>3, PlaceStays DEF IInv, Forms

LEMMA HcodKeeps == ASSUME NEW n \in Hcods PROVE IInv /\ Hcod(n) => IInv'
<1> SUFFICES ASSUME IInv, Hcod(n) PROVE IInv'
  OBVIOUS
<1>1. /\ pc = "hcod" /\ pc' = "x" /\ cachesz' = cachesz - n
      /\ bits_left' = bits_left /\ pairs' = pairs /\ xr' = xr /\ UNCHANGED place
      /\ linbits' = linbits /\ x' \in Values /\ y' \in Values
  BY DEF Hcod
<1>2. Cached'
  BY <1>1, MainDataAssumption DEF IInv, Cached
<1>3. Counted'
  BY <1>1, MainDataAssumption DEF IInv, Counted
<1> QED BY <1>1, <1>2, <1>3, PlaceStays DEF IInv, Forms

(* A value leaves at least margin - 1 bits in the cache, and reads at most *)
(* 16 bits.                                                                *)
LEMMA ValueFits ==
    ASSUME cachesz \in Int, bits_left \in Int, linbits \in 0 .. 13,
           NEW v \in Values, NEW margin \in 1 .. 2, Value(v, margin),
           cachesz \in margin .. 31
    PROVE  /\ cachesz' \in (margin - 1) .. 31
           /\ bits_left' \in (bits_left - 16) .. bits_left
<1>1. CASE v = "escape"
  <2>1. CASE cachesz < linbits + margin
    <3>1. cachesz' = cachesz + 16 - (linbits + 1) /\ bits_left' = bits_left - 16
      BY <1>1, <2>1 DEF Value
    <3> QED BY <2>1, <3>1
  <2>2. CASE ~(cachesz < linbits + margin)
    <3>1. cachesz' = cachesz + 0 - (linbits + 1) /\ bits_left' = bits_left - 0
      BY <1>1, <2>2 DEF Value
    <3> QED BY <2>2, <3>1
  <2> QED BY <2>1, <2>2
<1>2. CASE v = "value"
  <2>1. cachesz' = cachesz + 0 - 1 /\ bits_left' = bits_left - 0
    BY <1>2 DEF Value
  <2> QED BY <2>1
<1>3. CASE v = "zero"
  <2>1. cachesz' = cachesz + 0 - 0 /\ bits_left' = bits_left - 0
    BY <1>3 DEF Value
  <2> QED BY <2>1
<1> QED BY <1>1, <1>2, <1>3 DEF Values

LEMMA LinbitsBounded == IInv => linbits \in 0 .. 13
BY MainDataAssumption DEF IInv, Forms

LEMMA ValueXKeeps == IInv /\ ValueX => IInv'
<1> SUFFICES ASSUME IInv, ValueX PROVE IInv'
  OBVIOUS
<1>1. /\ pc = "x" /\ pc' = "y" /\ Value(x, 2) /\ UNCHANGED place
      /\ pairs' = pairs /\ xr' = xr /\ linbits' = linbits /\ x' = x /\ y' = y
  BY DEF ValueX
<1>2. cachesz \in 2 .. 31 /\ bits_left \in Int /\ -bits_left <= 30 /\ x \in Values
  BY <1>1 DEF IInv, Cached, Forms
<1>3. cachesz' \in 1 .. 31 /\ bits_left' \in (bits_left - 16) .. bits_left
  BY <1>1, <1>2, LinbitsBounded, ValueFits
<1>4. Cached'
  <2> DEFINE b == bits_left'
  <2>1. b \in (bits_left - 16) .. bits_left
    BY <1>3
  <2> HIDE DEF b
  <2>2. b \in Int /\ -b <= 46 /\ -b <= 62
    BY <1>2, <2>1
  <2>3. bits_left' \in Int /\ -bits_left' <= 46
    BY <2>2 DEF b
  <2>4. cachesz' \in 0 .. 31 /\ cachesz' >= 1
    BY <1>3
  <2>5. -bits_left' <= 62
    BY <2>2 DEF b
  <2>6. pc' = "y"
    BY <1>1
  <2> QED BY <2>3, <2>4, <2>5, <2>6 DEF Cached
<1>5. Counted'
  BY <1>1 DEF IInv, Counted
<1> QED BY <1>1, <1>4, <1>5, PlaceStays DEF IInv, Forms

LEMMA ValueYKeeps == IInv /\ ValueY => IInv'
<1> SUFFICES ASSUME IInv, ValueY PROVE IInv'
  OBVIOUS
<1>1. /\ pc = "y" /\ pc' = "pair" /\ Value(y, 1) /\ UNCHANGED place
      /\ pairs' = pairs /\ xr' = xr + 2 /\ linbits' = linbits /\ x' = x /\ y' = y
  BY DEF ValueY
<1>2. cachesz \in 1 .. 31 /\ bits_left \in Int /\ -bits_left <= 46 /\ y \in Values
  BY <1>1 DEF IInv, Cached, Forms
<1>3. cachesz' \in 0 .. 31 /\ bits_left' \in (bits_left - 16) .. bits_left
  BY <1>1, <1>2, LinbitsBounded, ValueFits
<1>4. Cached'
  <2> DEFINE b == bits_left'
  <2>1. b \in (bits_left - 16) .. bits_left
    BY <1>3
  <2> HIDE DEF b
  <2>2. b \in Int /\ -b <= 62
    BY <1>2, <2>1
  <2>3. bits_left' \in Int /\ -bits_left' <= 62
    BY <2>2 DEF b
  <2>4. cachesz' \in 0 .. 31
    BY <1>3
  <2> QED BY <1>1, <2>3, <2>4 DEF Cached
<1>5. Counted'
  BY <1>1, MainDataAssumption DEF IInv, Counted
<1> QED BY <1>1, <1>4, <1>5, PlaceStays DEF IInv, Forms

LEMMA PairsEndKeeps == IInv /\ PairsEnd => IInv'
<1> SUFFICES ASSUME IInv, PairsEnd PROVE IInv'
  OBVIOUS
<1>1. /\ pc = "pair" /\ pc' \in {"error", "quad"} /\ UNCHANGED place
      /\ pc' = "quad" => cachesz + bits_left >= 0
      /\ cachesz' = cachesz /\ bits_left' = bits_left /\ pairs' = pairs
      /\ xr' = xr /\ linbits' = linbits /\ x' = x /\ y' = y
  BY DEF PairsEnd, huff, IInv, Cached
<1>2. Cached'
  BY <1>1 DEF IInv, Cached
<1>3. Counted'
  BY <1>1 DEF IInv, Counted, Cached
<1> QED BY <1>1, <1>2, <1>3, PlaceStays DEF IInv, Forms

LEMMA QuadKeeps == IInv /\ Quad => IInv'
<1> SUFFICES ASSUME IInv, Quad PROVE IInv'
  OBVIOUS
<1> DEFINE bits == IF cachesz < 10 THEN 16 ELSE 0
<1>1. /\ pc = "quad" /\ pc' = "qcod" /\ cachesz + bits_left > 0 /\ xr + 4 <= Lines
      /\ cachesz' = cachesz + bits /\ bits_left' = bits_left - bits
      /\ pairs' = pairs /\ xr' = xr /\ UNCHANGED place
      /\ linbits' = linbits /\ x' = x /\ y' = y
  BY DEF Quad
<1>2. Cached'
  <2>1. cachesz \in 0 .. 31 /\ bits_left \in Int
    BY DEF IInv, Cached
  <2>2. bits \in Nat /\ cachesz + bits \in 10 .. 31
    BY <2>1
  <2> HIDE DEF bits
  <2> QED BY <1>1, <2>1, <2>2 DEF Cached
<1>3. Counted'
  BY <1>1, MainDataAssumption DEF IInv, Counted
<1> QED BY <1>1, <1>2, <1>3, PlaceStays DEF IInv, Forms

LEMMA QcodKeeps ==
    ASSUME NEW n \in 1 .. MaxQuad, NEW signs \in 0 .. 4
    PROVE  IInv /\ Qcod(n, signs) => IInv'
<1> SUFFICES ASSUME IInv, Qcod(n, signs) PROVE IInv'
  OBVIOUS
<1>1. /\ pc = "qcod" /\ pc' = "quad" /\ cachesz' = cachesz - n - signs
      /\ bits_left' = bits_left /\ pairs' = pairs /\ xr' = xr + 4
      /\ UNCHANGED place /\ linbits' = linbits /\ x' = x /\ y' = y
  BY DEF Qcod
<1>2. Cached'
  BY <1>1 DEF IInv, Cached, MaxQuad
<1>3. Counted'
  BY <1>1, MainDataAssumption DEF IInv, Counted
<1> QED BY <1>1, <1>2, <1>3, PlaceStays DEF IInv, Forms

LEMMA QuadsEndKeeps == IInv /\ QuadsEnd => IInv'
<1> SUFFICES ASSUME IInv, QuadsEnd PROVE IInv'
  OBVIOUS
<1>1. /\ pc = "quad" /\ pc' = "next" /\ UNCHANGED place
      /\ xr' = IF cachesz + bits_left < 0 THEN xr - 4 ELSE xr
      /\ cachesz' = cachesz /\ bits_left' = bits_left /\ pairs' = pairs
      /\ linbits' = linbits /\ x' = x /\ y' = y
  BY DEF QuadsEnd
<1>2. Cached'
  BY <1>1 DEF IInv, Cached
<1>3. Counted'
  BY <1>1, MainDataAssumption DEF IInv, Counted
<1> QED BY <1>1, <1>2, <1>3, PlaceStays DEF IInv, Forms

(* The steps that give the frame up. *)
LEMMA FailKeeps ==
    ASSUME IInv, pc # "error", pc' = "error", UNCHANGED <<huff, place>>
    PROVE  IInv'
<1>1. /\ cachesz' = cachesz /\ bits_left' = bits_left /\ pairs' = pairs
      /\ xr' = xr /\ linbits' = linbits /\ x' = x /\ y' = y /\ UNCHANGED place
  BY DEF huff
<1>2. Cached' /\ Counted'
  BY <1>1 DEF IInv, Cached, Counted
<1> QED BY <1>1, <1>2, PlaceStays DEF IInv, Forms

LEMMA NextChannelKeeps == IInv /\ NextChannel => IInv'
<1> SUFFICES ASSUME IInv, NextChannel PROVE IInv'
  OBVIOUS
<1>1. /\ pc = "next" /\ pc' \in {"channel", "done"}
      /\ header' = header /\ ptr' = ptr /\ scfsi' = scfsi /\ kinds' = kinds
      /\ total' = total /\ UNCHANGED huff
  BY DEF NextChannel
<1>2. /\ cachesz' = cachesz /\ bits_left' = bits_left /\ pairs' = pairs
      /\ xr' = xr /\ linbits' = linbits /\ x' = x /\ y' = y
  BY <1>1 DEF huff
<1>3. Cached' /\ Counted'
  BY <1>1, <1>2 DEF IInv, Cached, Counted
<1>4. Placed'
  BY <1>1 DEF IInv, Placed, BitPos
<1>5. gr' \in 0 .. 1 /\ ch' \in 0 .. header.nch - 1
  <2>1. header.nch \in {1, 2} /\ gr \in 0 .. 1 /\ ch \in 0 .. header.nch - 1
    BY MainDataAssumption DEF IInv, Forms, Header
  <2> QED BY <2>1 DEF NextChannel
<1> QED BY <1>1, <1>2, <1>3, <1>4, <1>5 DEF IInv, Forms

(* ptr comes to the end of part 3 whatever part 2 takes of it. *)
LEMMA PartsFollow ==
    ASSUME IInv, NEW c \in Channel(header.lsf), Part2And3(c)
    PROVE  /\ Placed'
           /\ mad_bit_read(ptr, Part2(c)) \in Bitptr
<1> DEFINE n == Part2(c)
           behind == mad_bit_read(ptr, n)
           part3 == c.part2_3_length - mad_bit_length(ptr, behind)
<1>1. ptr \in Bitptr /\ total \in Nat /\ n \in Nat /\ BitPos(ptr) = total
  BY Part2IsNat DEF IInv, Placed, Part2And3
<1>2. c.part2_3_length \in Nat
  BY MainDataAssumption DEF Channel
<1>3. behind \in Bitptr /\ BitPos(behind) = BitPos(ptr) + n
  <2> HIDE DEF n
  <2> QED BY <1>1, ReadMoves
<1>4. part3 = c.part2_3_length - n
  <2>1. mad_bit_length(ptr, behind) = BitPos(behind) - BitPos(ptr)
    <3> HIDE DEF behind
    <3> QED BY <1>1, <1>3, LengthIsDistance
  <2> HIDE DEF n, behind
  <2> QED BY <1>1, <1>2, <1>3, <2>1
<1>5. \/ pc' = "error" /\ ptr' = behind /\ total' = total
      \/ /\ part3 >= 0
         /\ ptr' = mad_bit_skip(behind, part3)
         /\ total' = total + c.part2_3_length
  BY DEF Part2And3, Fail
<1> HIDE DEF n, behind, part3
<1>6. CASE pc' = "error" /\ ptr' = behind /\ total' = total
  BY <1>1, <1>3, <1>6 DEF Placed, n, behind
<1>7. CASE /\ part3 >= 0
           /\ ptr' = mad_bit_skip(behind, part3)
           /\ total' = total + c.part2_3_length
  <2>1. part3 \in Nat
    BY <1>1, <1>2, <1>4, <1>7
  <2>2. ptr' \in Bitptr /\ BitPos(ptr') = BitPos(behind) + part3
    BY <1>3, <1>7, <2>1, SkipMoves
  <2>3. BitPos(ptr') = total' /\ total' \in Nat
    BY <1>1, <1>2, <1>3, <1>4, <1>7, <2>2
  <2>4. BitPos(ptr)' = BitPos(ptr')
    BY DEF BitPos
  <2> QED BY <1>3, <2>2, <2>3, <2>4 DEF Placed, n, behind
<1> QED BY <1>5, <1>6, <1>7

LEMMA Part2And3Keeps ==
    ASSUME NEW c \in Channel(header.lsf)
    PROVE  IInv /\ Part2And3(c) => IInv'
<1> SUFFICES ASSUME IInv, Part2And3(c) PROVE IInv'
  OBVIOUS
<1> DEFINE behind == mad_bit_read(ptr, Part2(c))
           part3 == c.part2_3_length - mad_bit_length(ptr, behind)
           sz == behind.left + Refill(behind.left)
<1>1. /\ pc = "channel" /\ pc' \in {"error", "pair"}
      /\ pairs' = c.big_values /\ xr' = 0 /\ 2 * c.big_values <= Lines
      /\ kinds' = [kinds EXCEPT ![gr][ch] = c.kind]
      /\ header' = header /\ gr' = gr /\ ch' = ch /\ scfsi' = scfsi
      /\ linbits' = linbits /\ x' = x /\ y' = y
  BY DEF Part2And3, SideInfoOK, Fail
<1>2. c.big_values \in Nat /\ c.part2_3_length \in Nat /\ c.kind \in Kinds
  BY MainDataAssumption DEF Channel
<1>3. behind \in Bitptr /\ ptr \in Bitptr
  BY PartsFollow DEF IInv, Placed
<1>4. part3 \in Int
  <2> HIDE DEF behind
  <2> QED BY <1>2, <1>3 DEF mad_bit_length, Bitptr, CHAR_BIT
<1>5. sz \in 24 .. 31
  <2>1. behind.left \in 0 .. 31
    BY <1>3 DEF Bitptr, CHAR_BIT
  <2> HIDE DEF behind
  <2> QED BY <2>1, RefillFits
<1>6. \/ pc' = "error" /\ cachesz' = cachesz /\ bits_left' = bits_left
      \/ pc' = "pair" /\ part3 >= 0 /\ cachesz' = sz /\ bits_left' = part3 - sz
  BY DEF Part2And3, Fail
<1> HIDE DEF part3, sz, behind
<1>7. Cached'
  BY <1>4, <1>5, <1>6 DEF IInv, Cached
<1>8. Counted'
  BY <1>1, <1>2, <1>6, MainDataAssumption DEF Counted
<1>9. kinds' \in [0 .. 1 -> [0 .. 1 -> Kinds]]
  <2>1. header.nch \in {1, 2} /\ gr \in 0 .. 1 /\ ch \in 0 .. 1
    BY MainDataAssumption DEF IInv, Forms, Header
  <2> QED BY <1>1, <1>2, <2>1 DEF IInv, Forms
<1> QED BY <1>1, <1>7, <1>8, <1>9, PartsFollow DEF IInv, Forms

LEMMA Inductive == IInv /\ [Next]_vars => IInv'
<1> SUFFICES ASSUME IInv, [Next]_vars PROVE IInv'
  OBVIOUS
<1>1. CASE \E c \in Channel(header.lsf) : Part2And3(c)
  BY <1>1, Part2And3Keeps
<1>2. CASE NoTable
  BY <1>2, FailKeeps DEF NoTable, Fail
<1>3. CASE Pair
  BY <1>3, PairKeeps
<1>4. CASE ValueX
  BY <1>4, ValueXKeeps
<1>5. CASE ValueY
  BY <1>5, ValueYKeeps
<1>6. CASE PairsEnd
  BY <1>6, PairsEndKeeps
<1>7. CASE \E n \in Hcods : Hcod(n)
  BY <1>7, HcodKeeps
<1>8. CASE Quad
  BY <1>8, QuadKeeps
<1>9. CASE QuadsEnd
  BY <1>9, QuadsEndKeeps
<1>10. CASE \E n \in 1 .. MaxQuad, signs \in 0 .. 4 : Qcod(n, signs)
  BY <1>10, QcodKeeps
<1>11. CASE NextChannel
  BY <1>11, NextChannelKeeps
<1>12. CASE BadStereo
  BY <1>12, FailKeeps DEF BadStereo, Fail
<1>13. CASE UNCHANGED vars
  BY <1>13 DEF vars, huff, place, IInv, Cached, Counted, Placed, Forms, BitPos
<1> QED
  BY <1>1, <1>2, <1>3, <1>4, <1>5, <1>6, <1>7, <1>8, <1>9, <1>10, <1>11,
     <1>12, <1>13 DEF Next

LEMMA Invariant == Spec => []IInv
BY InitIInv, Inductive, PTL DEF Spec
-----------------------------------------------------------------------------
(* The variables keep their types: no more lines are written than there    *)
(* are, whatever big_values and the data say.                              *)
THEOREM TypeCorrect == Spec => []TypeOK
<1>1. IInv => TypeOK
  BY DEF IInv, Cached, Counted, Placed, Forms, TypeOK
<1> QED BY Invariant, <1>1, PTL

(* III_huffdecode takes no bit from its cache that is not there and never  *)
(* fills it beyond 32 bits.                                                *)
THEOREM CacheIsEnough == Spec => []CacheSuffices
<1>1. IInv => CacheSuffices
  BY DEF IInv, Cached, CacheSuffices, MaxHcod, MaxQuad
<1> QED BY Invariant, <1>1, PTL

(* III_huffdecode reads at most 62 bits behind part 3, within the 64 of    *)
(* MAD_BUFFER_GUARD: its assertion holds for every data.                   *)
THEOREM GuardIsEnough == Spec => []GuardSuffices
<1>1. IInv => GuardSuffices
  BY DEF IInv, Cached, GuardSuffices, MAD_BUFFER_GUARD, CHAR_BIT
<1> QED BY Invariant, <1>1, PTL

(* Each channel is decoded from where the side information says it begins, *)
(* whatever III_huffdecode made of the ones before it.                     *)
THEOREM ChannelsAreInPlace == Spec => []ChannelsFollow
<1>1. IInv => ChannelsFollow
  BY DEF IInv, Placed, ChannelsFollow
<1> QED BY Invariant, <1>1, PTL
-----------------------------------------------------------------------------
(* Decoding ends *)

(* Channels of the frame to decode, the one under way included. *)
ToCome == IF header.lsf \/ gr = 1 THEN header.nch - ch ELSE 2 * header.nch - ch

(* Steps that are left of this channel at most: four for each pair, two    *)
(* for each quadruple that the lines have room for.                        *)
Rest ==
    IF pc = "channel" THEN 3 * Lines + 5
    ELSE IF pc = "hcod" THEN 4 * pairs + Lines + 7
    ELSE IF pc = "x" THEN 4 * pairs + Lines + 6
    ELSE IF pc = "y" THEN 4 * pairs + Lines + 5
    ELSE IF pc = "pair" THEN 4 * pairs + Lines + 4
    ELSE IF pc = "quad" THEN (Lines - xr) + 3
    ELSE IF pc = "qcod" THEN (Lines - xr) + 2
    ELSE 1

(* The most steps III_decode can take for a channel. *)
PerChannel == 3 * Lines + 6

Ended == pc \in {"done", "error"}

(* A bound of the steps III_decode still takes. *)
StepsLeft == IF Ended THEN 0 ELSE (ToCome - 1) * PerChannel + Rest

(* Each step of III_decode, whatever bits it finds, leaves fewer to take.  *)
ComesNearerTheEnd == StepsLeft' < StepsLeft

LEMMA ToComeBounded ==
    ASSUME IInv
    PROVE  ToCome \in 1 .. 4 /\ Lines \in Nat /\ Lines >= 4 /\ PerChannel \in Nat
<1>1. header.nch \in {1, 2} /\ gr \in 0 .. 1 /\ ch \in 0 .. header.nch - 1
  BY MainDataAssumption DEF IInv, Forms, Header
<1>2. ToCome \in 1 .. 4
  BY <1>1 DEF ToCome
<1> QED BY <1>2, MainDataAssumption DEF PerChannel

(* The rest of a channel is less than a whole one. *)
LEMMA RestBounded == IInv => Rest \in Nat /\ 1 <= Rest /\ Rest < PerChannel
<1> SUFFICES ASSUME IInv  PROVE Rest \in Nat /\ 1 <= Rest /\ Rest < PerChannel
  OBVIOUS
<1>1. /\ xr \in 0 .. Lines /\ pairs \in Nat
      /\ pc = "pair" => xr + 2 * pairs <= Lines
      /\ pc \in {"hcod", "x", "y"} => xr + 2 + 2 * pairs <= Lines
  BY DEF IInv, Counted
<1>2. Lines \in Nat /\ Lines >= 4
  BY MainDataAssumption
<1> QED BY <1>1, <1>2 DEF Rest, PerChannel

LEMMA RestStaysBounded == IInv' => Rest' \in Nat /\ 1 <= Rest' /\ Rest' < PerChannel
<1>1. IInv' => (Rest \in Nat /\ 1 <= Rest /\ Rest < PerChannel)'
  BY RestBounded, PTL
<1> QED BY <1>1 DEF PerChannel

(* Bounds for every frame: four channels at most. *)
LEMMA StepsLeftBounded ==
    ASSUME IInv
    PROVE  StepsLeft \in Nat /\ StepsLeft <= 4 * PerChannel
<1>1. ToCome \in 1 .. 4 /\ PerChannel \in Nat
  BY ToComeBounded
<1>2. Rest \in Nat /\ Rest < PerChannel
  BY RestBounded
<1> DEFINE before == (ToCome - 1) * PerChannel
<1>3. before \in Nat /\ before <= 3 * PerChannel
  BY <1>1
<1> HIDE DEF before
<1>4. StepsLeft = IF Ended THEN 0 ELSE before + Rest
  BY DEF StepsLeft, before
<1> QED BY <1>1, <1>2, <1>3, <1>4

LEMMA SumIsLess ==
    ASSUME NEW a \in Int, NEW b \in Nat, NEW c \in Nat, b < c
    PROVE  a + b < a + c /\ (a - c) + b < a + 1
OBVIOUS

(* Steps within a channel, and steps to the end. *)
LEMMA WithinChannel ==
    ASSUME IInv, IInv', ~Ended, UNCHANGED <<header, gr, ch>>, ~Ended' => Rest' < Rest
    PROVE  ComesNearerTheEnd
<1> DEFINE before == (ToCome - 1) * PerChannel
<1>1. ToCome' = ToCome /\ PerChannel' = PerChannel
  BY DEF ToCome, PerChannel
<1>2. before \in Nat
  BY ToComeBounded
<1>3. Rest \in Nat /\ 1 <= Rest
  BY RestBounded
<1>4. Rest' \in Nat
  BY RestStaysBounded
<1>5. StepsLeft = before + Rest
  BY DEF StepsLeft
<1>6. StepsLeft' = IF Ended' THEN 0 ELSE before + Rest'
  BY <1>1 DEF StepsLeft
<1> HIDE DEF before
<1>7. StepsLeft' < StepsLeft
  <2>1. CASE Ended'
    BY <1>2, <1>3, <1>5, <1>6, <2>1
  <2>2. CASE ~Ended'
    <3>1. StepsLeft' = before + Rest' /\ Rest' < Rest
      BY <1>6, <2>2
    <3>2. before \in Int
      BY <1>2
    <3>3. before + Rest' < before + Rest
      BY <1>3, <1>4, <3>1, <3>2, SumIsLess
    <3> QED BY <1>5, <3>1, <3>3
  <2> QED BY <2>1, <2>2
<1> QED BY <1>7 DEF ComesNearerTheEnd

LEMMA ChannelsComeToAnEnd ==
    ASSUME IInv, IInv', NextChannel
    PROVE  ComesNearerTheEnd
<1>1. header.nch \in {1, 2} /\ gr \in 0 .. 1 /\ ch \in 0 .. header.nch - 1 /\ header' = header
  BY MainDataAssumption DEF IInv, Forms, Header, NextChannel
<1>2. pc = "next" /\ Rest = 1 /\ ~Ended
  BY DEF NextChannel, Rest, Ended
<1>3. ToCome \in 1 .. 4 /\ PerChannel \in Nat
  BY ToComeBounded
<1>4. StepsLeft = (ToCome - 1) * PerChannel + 1
  BY <1>2 DEF StepsLeft
<1>5. CASE pc' = "done"
  <2>1. StepsLeft' = 0
    BY <1>5 DEF StepsLeft, Ended
  <2> DEFINE before == (ToCome - 1) * PerChannel
  <2>2. before \in Nat
    BY <1>3
  <2> HIDE DEF before
  <2>3. StepsLeft = before + 1
    BY <1>4 DEF before
  <2> QED BY <2>1, <2>2, <2>3 DEF ComesNearerTheEnd
<1>6. CASE pc' = "channel"
  <2>1. ToCome' = ToCome - 1 /\ ToCome >= 2
    BY <1>1, <1>6 DEF ToCome, NextChannel
  <2>2. Rest' < PerChannel /\ Rest' \in Nat
    BY RestStaysBounded
  <2>3. StepsLeft' = ((ToCome - 1) - 1) * PerChannel + Rest'
    BY <1>6, <2>1 DEF StepsLeft, Ended, PerChannel
  <2>4. ((ToCome - 1) - 1) * PerChannel = (ToCome - 1) * PerChannel - PerChannel
    BY <1>3
  <2> DEFINE before == (ToCome - 1) * PerChannel
  <2>5. before \in Nat
    BY <1>3
  <2> HIDE DEF before
  <2>6. StepsLeft = before + 1 /\ StepsLeft' = (before - PerChannel) + Rest'
    BY <1>4, <2>3, <2>4 DEF before
  <2>7. before \in Int
    BY <2>5
  <2>8. (before - PerChannel) + Rest' < before + 1
    BY <1>3, <2>2, <2>7, SumIsLess
  <2>9. StepsLeft' < StepsLeft
    BY <2>6, <2>8
  <2> QED BY <2>9 DEF ComesNearerTheEnd
<1> QED BY <1>5, <1>6 DEF NextChannel

LEMMA StepComesNearer == IInv /\ [Next]_vars => [ComesNearerTheEnd]_vars
<1> SUFFICES ASSUME IInv, Next  PROVE ComesNearerTheEnd
  OBVIOUS
<1>1. IInv'
  BY Inductive
<1>2. /\ xr \in 0 .. Lines /\ pairs \in Nat /\ Lines \in Nat
      /\ pc = "pair" => xr + 2 * pairs <= Lines
  BY MainDataAssumption DEF IInv, Counted
<1>3. CASE \E c \in Channel(header.lsf) : Part2And3(c)
  <2> PICK c \in Channel(header.lsf) : Part2And3(c)
    BY <1>3
  <2>1. /\ pc = "channel" /\ pc' \in {"error", "pair"} /\ UNCHANGED <<header, gr, ch>>
        /\ pairs' = c.big_values /\ 2 * c.big_values <= Lines
    BY DEF Part2And3, SideInfoOK, Fail
  <2>2. c.big_values \in Nat
    BY MainDataAssumption DEF Channel
  <2>3. pc' = "pair" => Rest' < Rest
    BY <1>2, <2>1, <2>2 DEF Rest
  <2> QED BY <1>1, <2>1, <2>3, WithinChannel DEF Ended
<1>4. CASE NoTable \/ BadStereo
  BY <1>1, <1>4, WithinChannel DEF NoTable, BadStereo, Fail, Ended, place
<1>5. CASE Pair
  <2>1. /\ pc = "pair" /\ pc' = "hcod" /\ pairs' = pairs - 1
        /\ UNCHANGED <<header, gr, ch>>
    BY <1>5 DEF Pair, place
  <2>2. Rest' < Rest
    BY <1>2, <2>1 DEF Rest
  <2> QED BY <1>1, <2>1, <2>2, WithinChannel DEF Ended
<1>6. CASE ValueX \/ ValueY \/ \E n \in Hcods : Hcod(n)
  <2>1. /\ <<pc, pc'>> \in {<<"hcod", "x">>, <<"x", "y">>, <<"y", "pair">>}
        /\ pairs' = pairs /\ UNCHANGED <<header, gr, ch>>
    BY <1>6 DEF ValueX, ValueY, Hcod, place
  <2>2. Rest' < Rest
    BY <1>2, <2>1 DEF Rest
  <2> QED BY <1>1, <2>1, <2>2, WithinChannel DEF Ended
<1>7. CASE PairsEnd
  <2>1. /\ pc = "pair" /\ pc' \in {"error", "quad"} /\ xr' = xr
        /\ UNCHANGED <<header, gr, ch>>
    BY <1>7 DEF PairsEnd, huff, place
  <2>2. pc' = "quad" => Rest' < Rest
    BY <1>2, <2>1 DEF Rest
  <2> QED BY <1>1, <2>1, <2>2, WithinChannel DEF Ended
<1>8. CASE Quad
  <2>1. pc = "quad" /\ pc' = "qcod" /\ xr' = xr /\ UNCHANGED <<header, gr, ch>>
    BY <1>8 DEF Quad, place
  <2>2. Rest' < Rest
    BY <1>2, <2>1 DEF Rest
  <2> QED BY <1>1, <2>1, <2>2, WithinChannel DEF Ended
<1>9. CASE \E n \in 1 .. MaxQuad, signs \in 0 .. 4 : Qcod(n, signs)
  <2>1. pc = "qcod" /\ pc' = "quad" /\ xr' = xr + 4 /\ UNCHANGED <<header, gr, ch>>
    BY <1>9 DEF Qcod, place
  <2>2. Rest' < Rest
    BY <1>2, <2>1 DEF Rest
  <2> QED BY <1>1, <2>1, <2>2, WithinChannel DEF Ended
<1>10. CASE QuadsEnd
  <2>1. pc = "quad" /\ pc' = "next" /\ UNCHANGED <<header, gr, ch>>
    BY <1>10 DEF QuadsEnd, place
  <2>2. Rest' < Rest
    BY <1>2, <2>1 DEF Rest
  <2> QED BY <1>1, <2>1, <2>2, WithinChannel DEF Ended
<1>11. CASE NextChannel
  BY <1>1, <1>11, ChannelsComeToAnEnd
<1> QED BY <1>3, <1>4, <1>5, <1>6, <1>7, <1>8, <1>9, <1>10, <1>11 DEF Next

(* III_decode ends for every stream of bits, damaged or not: it takes at   *)
(* most 4 * (3 * 576 + 6) of these steps, whatever the side information    *)
(* and the code words say, since each leaves fewer to take.                *)
THEOREM DecodingIsBounded ==
    Spec => /\ [](StepsLeft \in 0 .. 4 * PerChannel)
            /\ [][ComesNearerTheEnd]_vars
<1>1. IInv => StepsLeft \in 0 .. 4 * PerChannel
  <2> SUFFICES ASSUME IInv  PROVE StepsLeft \in 0 .. 4 * PerChannel
    OBVIOUS
  <2>1. PerChannel \in Nat /\ StepsLeft \in Nat /\ StepsLeft <= 4 * PerChannel
    BY ToComeBounded, StepsLeftBounded
  <2> QED BY <2>1
<1> QED BY <1>1, StepComesNearer, Invariant, PTL DEF Spec
-----------------------------------------------------------------------------
(* Every block of a channel that shares is long. *)
AllLong == \A g \in 0 .. 1, k \in 0 .. 1 : scfsi[k] # {} => kinds[g][k] = "long"

LEMMA AllLongInductive == IInv /\ AllLong /\ [Next]_vars => AllLong'
<1> SUFFICES ASSUME IInv, AllLong, [Next]_vars PROVE AllLong'
  OBVIOUS
<1>1. CASE \E c \in Channel(header.lsf) : Part2And3(c)
  <2> PICK c \in Channel(header.lsf) : Part2And3(c)
    BY <1>1
  <2>1. /\ kinds' = [kinds EXCEPT ![gr][ch] = c.kind] /\ scfsi' = scfsi
        /\ c.kind # "long" => scfsi[ch] = {}
    BY DEF Part2And3, SideInfoOK
  <2>2. gr \in 0 .. 1 /\ kinds \in [0 .. 1 -> [0 .. 1 -> Kinds]]
    BY DEF IInv, Forms
  <2>3. ASSUME NEW g \in 0 .. 1, NEW k \in 0 .. 1, scfsi[k] # {}
        PROVE  kinds'[g][k] = "long"
    <3>1. kinds[g][k] = "long"
      BY <2>3 DEF AllLong
    <3>2. CASE g = gr /\ k = ch
      BY <2>1, <2>2, <2>3, <3>2
    <3>3. CASE ~(g = gr /\ k = ch)
      BY <2>1, <2>2, <3>1, <3>3
    <3> QED BY <3>2, <3>3
  <2> QED BY <2>1, <2>3 DEF AllLong
<1>2. CASE UNCHANGED <<scfsi, kinds>>
  BY <1>2 DEF AllLong
<1> QED
  BY <1>1, <1>2 DEF Next, NoTable, Pair, ValueX, ValueY, PairsEnd, Hcod, Quad,
     QuadsEnd, Qcod, NextChannel, BadStereo, place, vars

(* Scale factors are shared only between two long blocks of a channel. *)
THEOREM SharingIsSafe == Spec => []SharedAreLong
<1>1. Init => AllLong
  BY DEF Init, AllLong
<1>2. IInv /\ AllLong => SharedAreLong
  <2> SUFFICES ASSUME IInv, AllLong, gr = 1, scfsi[ch] # {}
               PROVE  kinds[0][ch] = "long" /\ kinds[1][ch] = "long"
    BY DEF SharedAreLong
  <2>1. header.nch \in {1, 2} /\ ch \in 0 .. header.nch - 1
    BY MainDataAssumption DEF IInv, Forms, Header
  <2>2. ch \in 0 .. 1
    BY <2>1
  <2> QED BY <2>2 DEF AllLong
<1>3. Spec => []AllLong
  BY <1>1, Invariant, AllLongInductive, PTL DEF Spec
<1> QED BY Invariant, <1>2, <1>3, PTL
-----------------------------------------------------------------------------
(* Numbers of bands *)

(* A set of naturals has a least element, and a greatest if it is bounded. *)
Less == {pair \in Nat \X Nat : pair[1] < pair[2]}

LEMMA LeastOf ==
    ASSUME NEW T \in SUBSET Nat, T # {}
    PROVE  \E m \in T : \A k \in T : m <= k
<1>1. IsWellFoundedOn(Less, Nat)
  BY NatLessThanWellFounded, Zenon DEF OpToRel, Less
<1>2. PICK m \in T : \A k \in T : <<k, m>> \notin Less
  BY <1>1, WFMin, Zenon
<1>3. \A k \in T : ~(k < m)
  BY <1>2 DEF Less
<1> QED BY <1>3

LEMMA GreatestOf ==
    ASSUME NEW n \in Nat, NEW S \in SUBSET (0 .. n), S # {}
    PROVE  \E b \in S : \A c \in S : c <= b
<1> DEFINE T == {n - b : b \in S}
<1>1. T \in SUBSET Nat /\ T # {}
  <2>1. \A b \in S : n - b \in Nat
    OBVIOUS
  <2> QED BY <2>1
<1>2. PICK m \in T : \A k \in T : m <= k
  BY <1>1, LeastOf, Zenon
<1>3. PICK b \in S : m = n - b
  BY <1>2
<1>4. \A c \in S : m <= n - c
  BY <1>2
<1> QED BY <1>3, <1>4

(* Lowest is the least. *)
LEMMA LowestIs ==
    ASSUME NEW S \in SUBSET Nat, S # {}
    PROVE  Lowest(S) \in S /\ \A c \in S : Lowest(S) <= c
<1>1. \E b \in S : \A c \in S : b <= c
  BY LeastOf, Zenon
<1> QED BY <1>1, Zenon DEF Lowest

(* A walk along the widths stops at one of them, or behind the last.       *)
LEMMA WalkStops ==
    ASSUME NEW width, NEW n \in Nat, Len(width) = n, NEW lines
    PROVE  /\ BandsUpTo(width, lines) \in 0 .. n
           /\ LinesOf(width, BandsUpTo(width, lines)) >= lines \/ BandsUpTo(width, lines) = n
           /\ \A b \in 0 .. BandsUpTo(width, lines) - 1 : ~(LinesOf(width, b) >= lines)
<1> DEFINE S == {b \in 0 .. n : LinesOf(width, b) >= lines \/ b = n}
           end == Lowest(S)
<1>1. BandsUpTo(width, lines) = end
  BY Zenon DEF BandsUpTo
<1>2. S \in SUBSET Nat /\ n \in S
  OBVIOUS
<1>3. end \in S /\ \A c \in S : end <= c
  <2> HIDE DEF S
  <2> QED BY <1>2, LowestIs, Zenon
<1> HIDE DEF end
<1>4. end \in 0 .. n /\ (LinesOf(width, end) >= lines \/ end = n)
  BY <1>3
<1>5. ASSUME NEW b \in 0 .. end - 1
      PROVE  ~(LinesOf(width, b) >= lines)
  <2>1. b \in 0 .. n /\ ~(end <= b)
    BY <1>4
  <2> QED BY <1>3, <2>1
<1> QED BY <1>1, <1>4, <1>5, Zenon

-----------------------------------------------------------------------------
(* Sums along the widths *)

(* A function that grows with the widths is what LinesOf adds up.          *)
LEMMA LinesAre ==
    ASSUME NEW width, NEW n \in Nat, NEW E,
           E[0] = 0, \A b \in 1 .. n : E[b] = E[b - 1] + width[b]
    PROVE  LinesOf(width, n) = E[n]
<1> DEFINE IsSum(f) == f = [b \in 0 .. n |-> IF b = 0 THEN 0 ELSE f[b - 1] + width[b]]
           sum == CHOOSE f : IsSum(f)
           g == [b \in 0 .. n |-> E[b]]
<1>1. LinesOf(width, n) = sum[n]
  BY Zenon DEF LinesOf
<1>2. IsSum(g)
  <2>1. ASSUME NEW b \in 0 .. n
        PROVE  g[b] = IF b = 0 THEN 0 ELSE g[b - 1] + width[b]
    <3>1. CASE b = 0
      BY <3>1
    <3>2. CASE b # 0
      BY <3>2
    <3> QED BY <3>1, <3>2
  <2> QED BY <2>1
<1>3. IsSum(sum)
  BY <1>2, Zenon
<1> HIDE DEF sum
<1>4. \A b \in 0 .. n : sum[b] = IF b = 0 THEN 0 ELSE sum[b - 1] + width[b]
  BY <1>3
<1> DEFINE Bad == {b \in 0 .. n : sum[b] # E[b]}
<1>5. Bad = {}
  <2> SUFFICES ASSUME Bad # {} PROVE FALSE
    OBVIOUS
  <2>1. PICK b \in Bad : \A c \in Bad : b <= c
    <3>1. Bad \in SUBSET Nat
      OBVIOUS
    <3> QED BY <3>1, LeastOf, Zenon
  <2>2. b # 0
    BY <1>4, <2>1
  <2>3. b - 1 \in 0 .. n /\ b - 1 \notin Bad
    BY <2>1, <2>2
  <2>4. sum[b] = sum[b - 1] + width[b] /\ E[b] = E[b - 1] + width[b]
    BY <1>4, <2>1, <2>2
  <2> QED BY <2>1, <2>3, <2>4
<1> QED BY <1>1, <1>5

(* So is what sw adds up, for each window of the short bands.              *)
LEMMA WindowLinesAre ==
    ASSUME NEW width, NEW low \in Nat, NEW b \in Nat, b > low, NEW E,
           \A k \in low - 2 .. low : E[k] = 0,
           \A k \in low + 1 .. b - 3 : E[k] = E[k - 3] + width[k]
    PROVE  sw(width, low, b) = E[b - 3]
<1> DEFINE IsSum(f) ==
               f = [k \in low - 2 .. b |-> IF k <= low THEN 0 ELSE f[k - 3] + width[k]]
           sum == CHOOSE f : IsSum(f)
           g == [k \in low - 2 .. b |->
                    IF k <= low THEN 0 ELSE IF k <= b - 3 THEN E[k] ELSE E[k - 3] + width[k]]
<1>1. sw(width, low, b) = sum[b - 3]
  BY Zenon DEF sw
<1>2. IsSum(g)
  <2>1. ASSUME NEW k \in low - 2 .. b
        PROVE  g[k] = IF k <= low THEN 0 ELSE g[k - 3] + width[k]
    <3>1. CASE k <= low
      BY <3>1
    <3>2. CASE ~(k <= low)
      <4>1. k - 3 \in low - 2 .. b - 3
        BY <3>2
      <4>2. g[k - 3] = E[k - 3]
        BY <4>1
      <4> QED BY <3>2, <4>2
    <3> QED BY <3>1, <3>2
  <2> QED BY <2>1
<1>3. IsSum(sum)
  BY <1>2, Zenon
<1> HIDE DEF sum
<1>4. \A k \in low - 2 .. b : sum[k] = IF k <= low THEN 0 ELSE sum[k - 3] + width[k]
  BY <1>3
<1> DEFINE Bad == {k \in low - 2 .. b - 3 : sum[k] # E[k]}
<1>5. Bad = {}
  <2> SUFFICES ASSUME Bad # {} PROVE FALSE
    OBVIOUS
  <2>1. PICK k \in Bad : \A c \in Bad : k <= c
    <3> DEFINE T == {c + 2 : c \in Bad}
    <3>1. T \in SUBSET Nat /\ T # {}
      <4>1. \A c \in Bad : c + 2 \in Nat
        OBVIOUS
      <4> QED BY <4>1
    <3>2. PICK m \in T : \A c \in T : m <= c
      BY <3>1, LeastOf, Zenon
    <3>3. PICK k \in Bad : m = k + 2
      BY <3>2
    <3>4. \A c \in Bad : k + 2 <= c + 2
      BY <3>2, <3>3
    <3>5. \A c \in Bad : k <= c
      BY <3>4
    <3> QED BY <3>5
  <2>2. ~(k <= low)
    BY <1>4, <2>1
  <2>3. k - 3 \in low - 2 .. b - 3 /\ k - 3 \notin Bad
    BY <2>1, <2>2
  <2>4. sum[k] = sum[k - 3] + width[k] /\ E[k] = E[k - 3] + width[k]
    BY <1>4, <2>1, <2>2
  <2> QED BY <2>1, <2>3, <2>4
<1>6. b - 3 \in low - 2 .. b - 3
  OBVIOUS
<1> QED BY <1>1, <1>5, <1>6

(* The lines of a channel. *)
Spectrum == 576

(* The n bands of a table end before the lines of the edges p.             *)
Edged(width, n, p) ==
    /\ n \in 1 .. 39 /\ Len(width) = n /\ DOMAIN width = 1 .. n
    /\ p[1] = 0 /\ p[n + 1] = Spectrum
    /\ \A b \in 1 .. n : /\ width[b] \in Nat /\ width[b] > 0 /\ width[b] % 2 = 0
                         /\ p[b] \in Nat /\ p[b] < Spectrum /\ p[b + 1] = p[b] + width[b]

(* Those above low come by threes. *)
Threes(width, n, low, p) ==
    /\ low \in 0 .. n /\ (n - low) % 3 = 0
    /\ \A b \in 1 .. low : p[b] < p[low + 1]
    /\ \A b \in low + 1 .. n : width[b] = width[b - WindowOf(low, b)]
    /\ \A b \in low .. n : (b - low) % 3 = 0 => (p[b + 1] - p[low + 1]) % 3 = 0

Short(width, n, low, p) == Edged(width, n, p) /\ Threes(width, n, low, p)

(* The first b bands end where the next begins. *)
LEMMA LinesAreEdges ==
    ASSUME NEW width, NEW n, NEW p, Edged(width, n, p)
    PROVE  \A b \in 0 .. n : LinesOf(width, b) = p[b + 1] /\ p[b + 1] \in Nat
<1> TAKE b \in 0 .. n
<1> DEFINE E == [c \in 0 .. n |-> p[c + 1]]
<1>1. /\ n \in Nat /\ p[1] = 0 /\ p[n + 1] = Spectrum /\ Spectrum \in Nat
      /\ \A c \in 1 .. n : p[c] \in Nat /\ p[c + 1] = p[c] + width[c]
  BY DEF Edged, Spectrum
<1>2. E[0] = 0 /\ E[b] = p[b + 1]
  BY <1>1
<1>3. \A c \in 1 .. b : E[c] = E[c - 1] + width[c]
  <2> TAKE c \in 1 .. b
  <2>1. c \in 0 .. n /\ c - 1 \in 0 .. n /\ (c - 1) + 1 = c
    BY <1>1
  <2>2. E[c] = p[c + 1] /\ E[c - 1] = p[c]
    BY <2>1
  <2>3. p[c + 1] = p[c] + width[c]
    BY <1>1
  <2> QED BY <2>2, <2>3
<1>4. LinesOf(width, b) = E[b]
  <2> HIDE DEF E
  <2>1. b \in Nat
    BY <1>1
  <2> QED BY <1>2, <1>3, <2>1, LinesAre
<1>5. p[b + 1] \in Nat
  <2>1. CASE b = n
    BY <1>1, <2>1
  <2>2. CASE b # n
    BY <1>1, <2>2
  <2> QED BY <2>1, <2>2
<1> QED BY <1>2, <1>4, <1>5

(* Short bands are counted by threes above low. *)
LEMMA WindowIs ==
    ASSUME NEW low \in Nat, NEW t \in Nat, NEW w \in 0 .. 2
    PROVE  WindowOf(low, low + 1 + 3 * t + w) = w
BY DEF WindowOf

LEMMA BandIs ==
    ASSUME NEW low \in Nat, NEW b \in Nat, b > low
    PROVE  \E t \in Nat, w \in 0 .. 2 : b = low + 1 + 3 * t + w
<1> DEFINE t == (b - low - 1) \div 3
           w == (b - low - 1) % 3
<1>1. t \in Nat /\ w \in 0 .. 2 /\ b = low + 1 + 3 * t + w
  OBVIOUS
<1> QED BY <1>1

(* Three equal widths add one of them to a third of the lines.            *)
LEMMA ThirdOf ==
    ASSUME NEW a \in Int, NEW b \in Int
    PROVE  (a + 3 * b) \div 3 = a \div 3 + b
OBVIOUS

(* What sw counts is a third of the lines between low and the three.       *)
LEMMA ThreesAre ==
    ASSUME NEW width, NEW n, NEW low, NEW p, Short(width, n, low, p),
           NEW b \in low + 1 .. n + 1
    PROVE  sw(width, low, b) = (p[b - WindowOf(low, b)] - p[low + 1]) \div 3
<1> DEFINE E == [k \in low - 2 .. n |->
                    IF k <= low THEN 0 ELSE (p[k - WindowOf(low, k) + 3] - p[low + 1]) \div 3]
<1>1. /\ n \in Nat /\ low \in Nat /\ low <= n /\ (n - low) % 3 = 0 /\ b \in Nat
      /\ \A k \in 1 .. n : width[k] \in Nat /\ p[k] \in Nat /\ p[k + 1] = p[k] + width[k]
      /\ \A k \in low + 1 .. n : width[k] = width[k - WindowOf(low, k)]
      /\ p[n + 1] \in Nat
  BY DEF Short, Edged, Threes, Spectrum
<1>2. ASSUME NEW k \in low + 1 .. b - 3
      PROVE  E[k] = E[k - 3] + width[k]
  <2>1. PICK t \in Nat, w \in 0 .. 2 : k = low + 1 + 3 * t + w
    <3>1. k \in Nat /\ k > low /\ low \in Nat
      BY <1>1
    <3> QED BY <3>1, BandIs, Zenon
  <2> DEFINE j == low + 1 + 3 * t
  <2>2. WindowOf(low, j) = 0 /\ WindowOf(low, j + 1) = 1 /\ WindowOf(low, j + 2) = 2
        /\ WindowOf(low, k) = w
    <3>1. WindowOf(low, j + 0) = 0 /\ WindowOf(low, j + 1) = 1 /\ WindowOf(low, j + 2) = 2
      <4>1. low \in Nat /\ 0 \in 0 .. 2 /\ 1 \in 0 .. 2 /\ 2 \in 0 .. 2
        BY <1>1
      <4> QED BY <4>1, WindowIs, Zenon
    <3>2. j + 0 = j
      BY <1>1
    <3>3. WindowOf(low, k) = w
      BY <1>1, <2>1, WindowIs
    <3> QED BY <3>1, <3>2, <3>3
  <2>3. j \in Nat /\ k = j + w /\ j > low /\ j + 2 <= n
    BY <1>1, <2>1
  <2> HIDE DEF j
  <2>4. width[j + 1] = width[j] /\ width[j + 2] = width[j]
    <3>1. j + 1 \in low + 1 .. n /\ j + 2 \in low + 1 .. n /\ (j + 1) - 1 = j /\ (j + 2) - 2 = j
      BY <1>1, <2>3
    <3> QED BY <1>1, <2>2, <3>1
  <2>5. width[k] = width[j]
    BY <2>3, <2>4
  <2>6. p[j + 3] = p[j] + 3 * width[j] /\ p[j] \in Nat /\ width[j] \in Nat
    <3>1. j \in 1 .. n /\ j + 1 \in 1 .. n /\ j + 2 \in 1 .. n
      BY <1>1, <2>3
    <3>2. p[j + 1] = p[j] + width[j] /\ p[j] \in Nat /\ width[j] \in Nat
      BY <1>1, <3>1
    <3>3. p[(j + 1) + 1] = p[j + 1] + width[j]
      BY <1>1, <2>4, <3>1
    <3>4. p[(j + 2) + 1] = p[j + 2] + width[j]
      BY <1>1, <2>4, <3>1
    <3>5. (j + 1) + 1 = j + 2 /\ (j + 2) + 1 = j + 3
      BY <2>3
    <3> QED BY <3>2, <3>3, <3>4, <3>5
  <2>7. p[low + 1] \in Nat
    BY <1>1, <2>3
  <2>8. E[k] = (p[j + 3] - p[low + 1]) \div 3
    <3>1. k \in low - 2 .. n /\ ~(k <= low) /\ k - w + 3 = j + 3
      BY <1>1, <2>3
    <3> QED BY <2>2, <3>1
  <2>9. E[k - 3] = (p[j] - p[low + 1]) \div 3
    <3>1. k - 3 \in low - 2 .. n
      BY <1>1, <2>3
    <3>2. CASE t = 0
      <4>1. k - 3 <= low /\ j = low + 1
        BY <1>1, <2>1, <3>2 DEF j
      <4>2. (p[j] - p[low + 1]) \div 3 = 0
        BY <2>6, <4>1
      <4> QED BY <3>1, <4>1, <4>2
    <3>3. CASE t # 0
      <4>1. ~(k - 3 <= low)
        BY <1>1, <2>1, <3>3
      <4>2. WindowOf(low, k - 3) = w
        <5>1. PICK u \in Nat : k - 3 = low + 1 + 3 * u + w
          <6>1. t - 1 \in Nat /\ k - 3 = low + 1 + 3 * (t - 1) + w
            BY <1>1, <2>1, <3>3
          <6> QED BY <6>1
        <5>2. WindowOf(low, low + 1 + 3 * u + w) = w
          <6>1. low \in Nat
            BY <1>1
          <6> QED BY <6>1, WindowIs, Zenon
        <5> QED BY <5>1, <5>2, Zenon
      <4>3. (k - 3) - w + 3 = j
        BY <2>3
      <4> QED BY <3>1, <4>1, <4>2, <4>3
    <3> QED BY <3>2, <3>3
  <2>10. ((p[j] + 3 * width[j]) - p[low + 1]) \div 3 = (p[j] - p[low + 1]) \div 3 + width[j]
    <3>1. p[j] - p[low + 1] \in Int /\ width[j] \in Int
          /\ (p[j] + 3 * width[j]) - p[low + 1] = (p[j] - p[low + 1]) + 3 * width[j]
      BY <2>6, <2>7
    <3> QED BY <3>1, ThirdOf
  <2>11. E[k] = ((p[j] + 3 * width[j]) - p[low + 1]) \div 3
    BY <2>6, <2>8
  <2> HIDE DEF E
  <2>12. E[k] = (p[j] - p[low + 1]) \div 3 + width[j]
    BY <2>10, <2>11, Zenon
  <2> QED BY <2>5, <2>9, <2>12, Zenon
<1>3. \A k \in low - 2 .. low : E[k] = 0
  BY <1>1
<1>4. sw(width, low, b) = E[b - 3]
  <2> HIDE DEF E
  <2>1. b > low
    BY <1>1
  <2> QED BY <1>1, <1>2, <1>3, <2>1, WindowLinesAre
<1>5. E[b - 3] = (p[b - WindowOf(low, b)] - p[low + 1]) \div 3
  <2>1. PICK t \in Nat, w \in 0 .. 2 : b = low + 1 + 3 * t + w
    <3>1. b > low /\ low \in Nat /\ b \in Nat
      BY <1>1
    <3> QED BY <3>1, BandIs, Zenon
  <2>2. WindowOf(low, b) = w
    BY <1>1, <2>1, WindowIs
  <2>3. b - 3 \in low - 2 .. n
    BY <1>1
  <2>4. CASE t = 0
    <3>1. b - 3 <= low /\ b - w = low + 1
      BY <1>1, <2>1, <2>4
    <3>2. p[low + 1] \in Nat
      BY <1>1
    <3> QED BY <2>2, <2>3, <3>1, <3>2
  <2>5. CASE t # 0
    <3>1. ~(b - 3 <= low)
      BY <1>1, <2>1, <2>5
    <3>2. WindowOf(low, b - 3) = w
      <4>1. PICK u \in Nat : b - 3 = low + 1 + 3 * u + w
        <5>1. t - 1 \in Nat /\ b - 3 = low + 1 + 3 * (t - 1) + w
          BY <1>1, <2>1, <2>5
        <5> QED BY <5>1
      <4>2. WindowOf(low, low + 1 + 3 * u + w) = w
        <5>1. low \in Nat
          BY <1>1
        <5> QED BY <5>1, WindowIs, Zenon
      <4> QED BY <4>1, <4>2, Zenon
    <3>3. (b - 3) - w + 3 = b - w
      BY <1>1
    <3> QED BY <2>2, <2>3, <3>1, <3>2, <3>3
  <2> QED BY <2>4, <2>5
<1> QED BY <1>4, <1>5

(* III_exponents ends with the table: at each three it is at the line where *)
(* the three begins.                                                       *)
LEMMA ExponentsEnd ==
    ASSUME NEW width, NEW n, NEW low, NEW p, Short(width, n, low, p),
           NEW kind \in {"s", "m"}, LowBands(kind, width) = low
    PROVE  III_exponents(kind, width) = <<n, 576>>
<1> DEFINE line(b) == LinesOf(width, low) + 3 * sw(width, low, b + 1)
           S == {b \in low .. Len(width) + 2 :
                    (b - low) % 3 = 0 /\ (line(b) >= 576 \/ b >= Len(width))}
           end == Lowest(S)
<1>1. /\ n \in Nat /\ low \in Nat /\ low <= n /\ (n - low) % 3 = 0 /\ Len(width) = n
      /\ \A b \in 1 .. n : p[b] \in Nat /\ p[b] < Spectrum
      /\ p[n + 1] = Spectrum
      /\ \A b \in low .. n : (b - low) % 3 = 0 => (p[b + 1] - p[low + 1]) % 3 = 0
  <2>1. Edged(width, n, p) /\ Threes(width, n, low, p)
    BY Zenon DEF Short
  <2>2. n \in Nat /\ Len(width) = n /\ p[n + 1] = Spectrum
    BY <2>1 DEF Edged
  <2>3. \A b \in 1 .. n : p[b] \in Nat /\ p[b] < Spectrum
    BY <2>1, Zenon DEF Edged
  <2>4. low \in 0 .. n /\ (n - low) % 3 = 0
    BY <2>1, Zenon DEF Threes
  <2>5. \A b \in low .. n : (b - low) % 3 = 0 => (p[b + 1] - p[low + 1]) % 3 = 0
    BY <2>1, Zenon DEF Threes
  <2>6. low \in Nat /\ low <= n
    BY <2>2, <2>4
  <2> QED BY <2>2, <2>3, <2>4, <2>5, <2>6, Zenon
<1>2. III_exponents(kind, width) = <<end, line(end)>>
  BY ZenonT(60) DEF III_exponents
<1>3. LinesOf(width, low) = p[low + 1] /\ p[low + 1] \in Nat
  <2>1. Edged(width, n, p) /\ low \in 0 .. n
    BY <1>1 DEF Short
  <2> QED BY <2>1, LinesAreEdges, Zenon
<1>4. ASSUME NEW b \in low .. n, (b - low) % 3 = 0
      PROVE  line(b) = p[b + 1]
  <2>1. WindowOf(low, b + 1) = 0
    BY <1>1, <1>4 DEF WindowOf
  <2>2. sw(width, low, b + 1) = (p[(b + 1) - WindowOf(low, b + 1)] - p[low + 1]) \div 3
    <3>1. b + 1 \in low + 1 .. n + 1
      BY <1>1
    <3> QED BY <3>1, ThreesAre, Zenon
  <2>3. (b + 1) - WindowOf(low, b + 1) = b + 1
    BY <1>1, <2>1
  <2>4. p[b + 1] \in Nat
    <3>1. CASE b = n
      BY <1>1, <3>1 DEF Spectrum
    <3>2. CASE b # n
      <4>1. b + 1 \in 1 .. n
        BY <1>1, <3>2
      <4> QED BY <1>1, <4>1
    <3> QED BY <3>1, <3>2
  <2>5. (p[b + 1] - p[low + 1]) % 3 = 0
    BY <1>1, <1>4
  <2>6. 3 * ((p[b + 1] - p[low + 1]) \div 3) = p[b + 1] - p[low + 1]
    BY <1>3, <2>4, <2>5
  <2>7. sw(width, low, b + 1) = (p[b + 1] - p[low + 1]) \div 3
    BY <2>2, <2>3
  <2> QED BY <1>3, <2>4, <2>6, <2>7
<1> HIDE DEF line
<1>5. n \in S /\ S \in SUBSET Nat
  BY <1>1
<1>6. end \in S /\ end <= n
  <2> HIDE DEF S
  <2> QED BY <1>5, LowestIs, Zenon
<1>7. ~(end < n)
  <2> SUFFICES ASSUME end < n PROVE FALSE
    OBVIOUS
  <2> HIDE DEF end
  <2>1. end \in low .. n /\ (end - low) % 3 = 0 /\ line(end) >= 576
    BY <1>1, <1>6
  <2>2. end + 1 \in 1 .. n
    BY <1>1, <2>1
  <2>3. line(end) = p[end + 1]
    BY <1>4, <2>1
  <2> QED BY <1>1, <2>1, <2>2, <2>3 DEF Spectrum
<1>8. end = n
  <2> HIDE DEF end
  <2> QED BY <1>1, <1>6, <1>7
<1>9. line(n) = 576
  BY <1>1, <1>4 DEF Spectrum
<1> QED BY <1>2, <1>8, <1>9

(* The walk to line 36 in front of a mixed block ends with the long bands. *)
LEMMA LowBandsAre ==
    ASSUME NEW width, NEW n, NEW low, NEW p, Short(width, n, low, p),
           NEW kind \in {"s", "m"}, kind = "s" => low = 0,
           p[low + 1] = IF kind = "m" THEN 36 ELSE 0
    PROVE  LowBands(kind, width) = low
<1>1. CASE kind = "s"
  BY <1>1 DEF LowBands
<1>2. CASE kind = "m"
  <2> DEFINE end == BandsUpTo(width, 36)
  <2>1. n \in Nat /\ Len(width) = n /\ low \in 0 .. n /\ p[low + 1] = 36
        /\ \A b \in 1 .. low : p[b] < 36
    BY <1>2 DEF Short, Edged, Threes
  <2>2. /\ end \in 0 .. n
        /\ LinesOf(width, end) >= 36 \/ end = n
        /\ \A b \in 0 .. end - 1 : ~(LinesOf(width, b) >= 36)
    BY <2>1, WalkStops, SMT
  <2> HIDE DEF end
  <2>3. \A b \in 0 .. n : LinesOf(width, b) = p[b + 1] /\ p[b + 1] \in Nat
    <3>1. Edged(width, n, p)
      BY Zenon DEF Short
    <3> QED BY <3>1, LinesAreEdges, Zenon
  <2>4. ~(low < end)
    <3>1. LinesOf(width, low) = 36
      BY <2>1, <2>3
    <3> QED BY <2>1, <2>2, <3>1
  <2>5. ~(end < low)
    <3> SUFFICES ASSUME end < low PROVE FALSE
      OBVIOUS
    <3>1. end + 1 \in 1 .. low /\ end # n
      BY <2>1, <2>2
    <3>2. LinesOf(width, end) = p[end + 1] /\ p[end + 1] < 36
      BY <2>1, <2>2, <2>3, <3>1
    <3>3. LinesOf(width, end) \in Nat
      BY <2>2, <2>3
    <3> QED BY <2>2, <3>1, <3>2, <3>3
  <2>6. end = low
    BY <2>1, <2>2, <2>4, <2>5
  <2> QED BY <1>2, <2>6 DEF LowBands, end
<1> QED BY <1>1, <1>2

(* A block with short bands is divided as it must be, and III_reorder puts *)
(* its lines where their frequencies are.                                  *)
LEMMA ShortDivides ==
    ASSUME NEW width, NEW n, NEW low, NEW p, Short(width, n, low, p),
           NEW kind \in {"s", "m"}, LowBands(kind, width) = low,
           p[low + 1] = IF kind = "m" THEN 36 ELSE 0
    PROVE  Divides(kind, width) /\ Sorts(kind, width)
<1>1. /\ n \in 1 .. 39 /\ low \in 0 .. n /\ (n - low) % 3 = 0
      /\ Len(width) = n /\ DOMAIN width = 1 .. n /\ p[n + 1] = Spectrum
      /\ \A b \in 1 .. n : width[b] \in Nat /\ width[b] > 0 /\ width[b] % 2 = 0
      /\ \A b \in low + 1 .. n : width[b] = width[b - WindowOf(low, b)]
  <2>1. Edged(width, n, p) /\ Threes(width, n, low, p)
    BY Zenon DEF Short
  <2>2. n \in 1 .. 39 /\ Len(width) = n /\ DOMAIN width = 1 .. n /\ p[n + 1] = Spectrum
    BY <2>1, Zenon DEF Edged
  <2>3. \A b \in 1 .. n : width[b] \in Nat /\ width[b] > 0 /\ width[b] % 2 = 0
    BY <2>1, Zenon DEF Edged
  <2>4. low \in 0 .. n /\ (n - low) % 3 = 0
    BY <2>1, Zenon DEF Threes
  <2>5. \A b \in low + 1 .. n : width[b] = width[b - WindowOf(low, b)]
    BY <2>1, Zenon DEF Threes
  <2> QED BY <2>2, <2>3, <2>4, <2>5, Zenon
<1>2. \A b \in 0 .. n : LinesOf(width, b) = p[b + 1]
  <2>1. Edged(width, n, p)
    BY Zenon DEF Short
  <2> QED BY <2>1, LinesAreEdges
<1>3. LinesOf(width, n) = 576 /\ LinesOf(width, low) = p[low + 1]
  BY <1>1, <1>2 DEF Spectrum
<1>4. Divides(kind, width)
  BY <1>1, <1>3 DEF Divides
<1>5. ASSUME NEW b \in low + 1 .. n
      PROVE  LET w == WindowOf(low, b)
                 below == (LinesOf(width, b - w - 1) - LinesOf(width, low)) \div 3
             IN  \A k \in 0 .. width[b] - 1 :
                     III_reorder(kind, width, low, b, k)
                       = <<LinesOf(width, low) \div 18 + (below + k) \div 6, w, (below + k) % 6>>
  <2> DEFINE w == WindowOf(low, b)
             below == (LinesOf(width, b - w - 1) - LinesOf(width, low)) \div 3
  <2>1. LinesOf(width, b - w - 1) = p[b - w]
    <3>1. PICK t \in Nat, v \in 0 .. 2 : b = low + 1 + 3 * t + v
      <4>1. low \in Nat /\ b \in Nat /\ b > low
        BY <1>1
      <4> QED BY <4>1, BandIs, Zenon
    <3>2. w = v
      <4>1. low \in Nat
        BY <1>1
      <4> QED BY <3>1, <4>1, WindowIs
    <3> HIDE DEF w
    <3>3. b - w - 1 \in 0 .. n /\ (b - w - 1) + 1 = b - w
      BY <1>1, <3>1, <3>2
    <3> QED BY <1>2, <3>3
  <2>2. sw(width, low, b) = (p[b - w] - p[low + 1]) \div 3
    <3>1. b \in low + 1 .. n + 1
      BY <1>1
    <3> QED BY <3>1, ThreesAre, Zenon
  <2>3. below = sw(width, low, b)
    BY <1>3, <2>1, <2>2, Zenon
  <2>4. LinesOf(width, low) \div 18 = IF kind = "m" THEN 2 ELSE 0
    BY <1>3
  <2> QED BY <2>3, <2>4, Zenon DEF III_reorder
<1>6. Sorts(kind, width)
  BY <1>1, <1>5, Zenon DEF Sorts
<1> QED BY <1>4, <1>6

(* What a table has to be for the walks along it to end where it does. *)
Fits(kind, lsf, width) ==
    \E n, low, p :
        /\ n <= ScaleFactors(kind, lsf)
        /\ kind = "l" => n = 22 /\ Edged(width, n, p)
        /\ kind # "l" => /\ Short(width, n, low, p)
                         /\ kind = "s" => low = 0
                         /\ p[low + 1] = IF kind = "m" THEN 36 ELSE 0

(* The tables for long blocks, with the lines their bands begin at.       *)
LEMMA LongTables ==
    /\ Fits("l", FALSE, sfb_48000_long)
    /\ Fits("l", FALSE, sfb_44100_long)
    /\ Fits("l", FALSE, sfb_32000_long)
    /\ Fits("l", TRUE, sfb_24000_long)
    /\ Fits("l", TRUE, sfb_22050_long)
    /\ Fits("l", TRUE, sfb_8000_long)
<1>1. Fits("l", FALSE, sfb_48000_long)
  <2> DEFINE p ==
             <<0, 4, 8, 12, 16, 20, 24, 30, 36, 42, 50, 60, 72, 88, 106,
               128, 156, 190, 230, 276, 330, 384, 576>>
  <2>1. Edged(sfb_48000_long, 22, p)
    BY DEF Edged, Spectrum, sfb_48000_long
  <2> HIDE DEF p
  <2> QED BY <2>1 DEF Fits, ScaleFactors
<1>2. Fits("l", FALSE, sfb_44100_long)
  <2> DEFINE p ==
             <<0, 4, 8, 12, 16, 20, 24, 30, 36, 44, 52, 62, 74, 90, 110,
               134, 162, 196, 238, 288, 342, 418, 576>>
  <2>1. Edged(sfb_44100_long, 22, p)
    BY DEF Edged, Spectrum, sfb_44100_long
  <2> HIDE DEF p
  <2> QED BY <2>1 DEF Fits, ScaleFactors
<1>3. Fits("l", FALSE, sfb_32000_long)
  <2> DEFINE p ==
             <<0, 4, 8, 12, 16, 20, 24, 30, 36, 44, 54, 66, 82, 102, 126,
               156, 194, 240, 296, 364, 448, 550, 576>>
  <2>1. Edged(sfb_32000_long, 22, p)
    BY DEF Edged, Spectrum, sfb_32000_long
  <2> HIDE DEF p
  <2> QED BY <2>1 DEF Fits, ScaleFactors
<1>4. Fits("l", TRUE, sfb_24000_long)
  <2> DEFINE p ==
             <<0, 6, 12, 18, 24, 30, 36, 44, 54, 66, 80, 96, 114, 136,
               162, 194, 232, 278, 332, 394, 464, 540, 576>>
  <2>1. Edged(sfb_24000_long, 22, p)
    BY DEF Edged, Spectrum, sfb_24000_long
  <2> HIDE DEF p
  <2> QED BY <2>1 DEF Fits, ScaleFactors
<1>5. Fits("l", TRUE, sfb_22050_long)
  <2> DEFINE p ==
             <<0, 6, 12, 18, 24, 30, 36, 44, 54, 66, 80, 96, 116, 140,
               168, 200, 238, 284, 336, 396, 464, 522, 576>>
  <2>1. Edged(sfb_22050_long, 22, p)
    BY DEF Edged, Spectrum, sfb_22050_long
  <2> HIDE DEF p
  <2> QED BY <2>1 DEF Fits, ScaleFactors
<1>6. Fits("l", TRUE, sfb_8000_long)
  <2> DEFINE p ==
             <<0, 12, 24, 36, 48, 60, 72, 88, 108, 132, 160, 192, 232,
               280, 336, 400, 476, 566, 568, 570, 572, 574, 576>>
  <2>1. Edged(sfb_8000_long, 22, p)
    BY DEF Edged, Spectrum, sfb_8000_long
  <2> HIDE DEF p
  <2> QED BY <2>1 DEF Fits, ScaleFactors
<1> QED BY <1>1, <1>2, <1>3, <1>4, <1>5, <1>6

(* The tables for short blocks, with the lines their bands begin at.      *)
LEMMA ShortTables ==
    /\ Fits("s", FALSE, sfb_48000_short)
    /\ Fits("s", FALSE, sfb_44100_short)
    /\ Fits("s", FALSE, sfb_32000_short)
    /\ Fits("s", TRUE, sfb_24000_short)
    /\ Fits("s", TRUE, sfb_22050_short)
    /\ Fits("s", TRUE, sfb_16000_short)
    /\ Fits("s", TRUE, sfb_8000_short)
<1>1. Fits("s", FALSE, sfb_48000_short)
  <2> DEFINE p ==
             <<0, 4, 8, 12, 16, 20, 24, 28, 32, 36, 40, 44, 48, 54, 60,
               66, 72, 78, 84, 94, 104, 114, 126, 138, 150, 164, 178, 192,
               208, 224, 240, 260, 280, 300, 326, 352, 378, 444, 510,
               576>>
  <2>1. Edged(sfb_48000_short, 39, p)
    BY DEF Edged, Spectrum, sfb_48000_short
  <2>2. Threes(sfb_48000_short, 39, 0, p)
    BY DEF Threes, WindowOf, sfb_48000_short
  <2>3. p[1] = 0
    OBVIOUS
  <2> HIDE DEF p
  <2> QED BY <2>1, <2>2, <2>3 DEF Fits, Short, ScaleFactors
<1>2. Fits("s", FALSE, sfb_44100_short)
  <2> DEFINE p ==
             <<0, 4, 8, 12, 16, 20, 24, 28, 32, 36, 40, 44, 48, 54, 60,
               66, 74, 82, 90, 100, 110, 120, 132, 144, 156, 170, 184,
               198, 216, 234, 252, 274, 296, 318, 348, 378, 408, 464, 520,
               576>>
  <2>1. Edged(sfb_44100_short, 39, p)
    BY DEF Edged, Spectrum, sfb_44100_short
  <2>2. Threes(sfb_44100_short, 39, 0, p)
    BY DEF Threes, WindowOf, sfb_44100_short
  <2>3. p[1] = 0
    OBVIOUS
  <2> HIDE DEF p
  <2> QED BY <2>1, <2>2, <2>3 DEF Fits, Short, ScaleFactors
<1>3. Fits("s", FALSE, sfb_32000_short)
  <2> DEFINE p ==
             <<0, 4, 8, 12, 16, 20, 24, 28, 32, 36, 40, 44, 48, 54, 60,
               66, 74, 82, 90, 102, 114, 126, 142, 158, 174, 194, 214,
               234, 260, 286, 312, 346, 380, 414, 456, 498, 540, 552, 564,
               576>>
  <2>1. Edged(sfb_32000_short, 39, p)
    BY DEF Edged, Spectrum, sfb_32000_short
  <2>2. Threes(sfb_32000_short, 39, 0, p)
    BY DEF Threes, WindowOf, sfb_32000_short
  <2>3. p[1] = 0
    OBVIOUS
  <2> HIDE DEF p
  <2> QED BY <2>1, <2>2, <2>3 DEF Fits, Short, ScaleFactors
<1>4. Fits("s", TRUE, sfb_24000_short)
  <2> DEFINE p ==
             <<0, 4, 8, 12, 16, 20, 24, 28, 32, 36, 42, 48, 54, 62, 70,
               78, 88, 98, 108, 120, 132, 144, 158, 172, 186, 204, 222,
               240, 264, 288, 312, 344, 376, 408, 452, 496, 540, 552, 564,
               576>>
  <2>1. Edged(sfb_24000_short, 39, p)
    BY DEF Edged, Spectrum, sfb_24000_short
  <2>2. Threes(sfb_24000_short, 39, 0, p)
    BY DEF Threes, WindowOf, sfb_24000_short
  <2>3. p[1] = 0
    OBVIOUS
  <2> HIDE DEF p
  <2> QED BY <2>1, <2>2, <2>3 DEF Fits, Short, ScaleFactors
<1>5. Fits("s", TRUE, sfb_22050_short)
  <2> DEFINE p ==
             <<0, 4, 8, 12, 16, 20, 24, 28, 32, 36, 42, 48, 54, 60, 66,
               72, 80, 88, 96, 106, 116, 126, 140, 154, 168, 186, 204,
               222, 248, 274, 300, 332, 364, 396, 438, 480, 522, 540, 558,
               576>>
  <2>1. Edged(sfb_22050_short, 39, p)
    BY DEF Edged, Spectrum, sfb_22050_short
  <2>2. Threes(sfb_22050_short, 39, 0, p)
    BY DEF Threes, WindowOf, sfb_22050_short
  <2>3. p[1] = 0
    OBVIOUS
  <2> HIDE DEF p
  <2> QED BY <2>1, <2>2, <2>3 DEF Fits, Short, ScaleFactors
<1>6. Fits("s", TRUE, sfb_16000_short)
  <2> DEFINE p ==
             <<0, 4, 8, 12, 16, 20, 24, 28, 32, 36, 42, 48, 54, 62, 70,
               78, 88, 98, 108, 120, 132, 144, 158, 172, 186, 204, 222,
               240, 264, 288, 312, 342, 372, 402, 442, 482, 522, 540, 558,
               576>>
  <2>1. Edged(sfb_16000_short, 39, p)
    BY DEF Edged, Spectrum, sfb_16000_short
  <2>2. Threes(sfb_16000_short, 39, 0, p)
    BY DEF Threes, WindowOf, sfb_16000_short
  <2>3. p[1] = 0
    OBVIOUS
  <2> HIDE DEF p
  <2> QED BY <2>1, <2>2, <2>3 DEF Fits, Short, ScaleFactors
<1>7. Fits("s", TRUE, sfb_8000_short)
  <2> DEFINE p ==
             <<0, 8, 16, 24, 32, 40, 48, 56, 64, 72, 84, 96, 108, 124,
               140, 156, 176, 196, 216, 240, 264, 288, 316, 344, 372, 408,
               444, 480, 482, 484, 486, 488, 490, 492, 494, 496, 498, 524,
               550, 576>>
  <2>1. Edged(sfb_8000_short, 39, p)
    BY DEF Edged, Spectrum, sfb_8000_short
  <2>2. Threes(sfb_8000_short, 39, 0, p)
    BY DEF Threes, WindowOf, sfb_8000_short
  <2>3. p[1] = 0
    OBVIOUS
  <2> HIDE DEF p
  <2> QED BY <2>1, <2>2, <2>3 DEF Fits, Short, ScaleFactors
<1> QED BY <1>1, <1>2, <1>3, <1>4, <1>5, <1>6, <1>7

(* The tables for mixed blocks, with the lines their bands begin at.      *)
LEMMA MixedTables ==
    /\ Fits("m", FALSE, sfb_48000_mixed)
    /\ Fits("m", FALSE, sfb_44100_mixed)
    /\ Fits("m", FALSE, sfb_32000_mixed)
    /\ Fits("m", TRUE, sfb_24000_mixed)
    /\ Fits("m", TRUE, sfb_22050_mixed)
    /\ Fits("m", TRUE, sfb_16000_mixed)
    /\ Fits("m", TRUE, sfb_8000_mixed)
<1>1. Fits("m", FALSE, sfb_48000_mixed)
  <2> DEFINE p ==
             <<0, 4, 8, 12, 16, 20, 24, 30, 36, 40, 44, 48, 54, 60, 66,
               72, 78, 84, 94, 104, 114, 126, 138, 150, 164, 178, 192,
               208, 224, 240, 260, 280, 300, 326, 352, 378, 444, 510,
               576>>
  <2>1. Edged(sfb_48000_mixed, 38, p)
    BY DEF Edged, Spectrum, sfb_48000_mixed
  <2>2. Threes(sfb_48000_mixed, 38, 8, p)
    BY DEF Threes, WindowOf, sfb_48000_mixed
  <2>3. p[9] = 36
    OBVIOUS
  <2> HIDE DEF p
  <2> QED BY <2>1, <2>2, <2>3 DEF Fits, Short, ScaleFactors
<1>2. Fits("m", FALSE, sfb_44100_mixed)
  <2> DEFINE p ==
             <<0, 4, 8, 12, 16, 20, 24, 30, 36, 40, 44, 48, 54, 60, 66,
               74, 82, 90, 100, 110, 120, 132, 144, 156, 170, 184, 198,
               216, 234, 252, 274, 296, 318, 348, 378, 408, 464, 520,
               576>>
  <2>1. Edged(sfb_44100_mixed, 38, p)
    BY DEF Edged, Spectrum, sfb_44100_mixed
  <2>2. Threes(sfb_44100_mixed, 38, 8, p)
    BY DEF Threes, WindowOf, sfb_44100_mixed
  <2>3. p[9] = 36
    OBVIOUS
  <2> HIDE DEF p
  <2> QED BY <2>1, <2>2, <2>3 DEF Fits, Short, ScaleFactors
<1>3. Fits("m", FALSE, sfb_32000_mixed)
  <2> DEFINE p ==
             <<0, 4, 8, 12, 16, 20, 24, 30, 36, 40, 44, 48, 54, 60, 66,
               74, 82, 90, 102, 114, 126, 142, 158, 174, 194, 214, 234,
               260, 286, 312, 346, 380, 414, 456, 498, 540, 552, 564,
               576>>
  <2>1. Edged(sfb_32000_mixed, 38, p)
    BY DEF Edged, Spectrum, sfb_32000_mixed
  <2>2. Threes(sfb_32000_mixed, 38, 8, p)
    BY DEF Threes, WindowOf, sfb_32000_mixed
  <2>3. p[9] = 36
    OBVIOUS
  <2> HIDE DEF p
  <2> QED BY <2>1, <2>2, <2>3 DEF Fits, Short, ScaleFactors
<1>4. Fits("m", TRUE, sfb_24000_mixed)
  <2> DEFINE p ==
             <<0, 6, 12, 18, 24, 30, 36, 42, 48, 54, 62, 70, 78, 88, 98,
               108, 120, 132, 144, 158, 172, 186, 204, 222, 240, 264, 288,
               312, 344, 376, 408, 452, 496, 540, 552, 564, 576>>
  <2>1. Edged(sfb_24000_mixed, 36, p)
    BY DEF Edged, Spectrum, sfb_24000_mixed
  <2>2. Threes(sfb_24000_mixed, 36, 6, p)
    BY DEF Threes, WindowOf, sfb_24000_mixed
  <2>3. p[7] = 36
    OBVIOUS
  <2> HIDE DEF p
  <2> QED BY <2>1, <2>2, <2>3 DEF Fits, Short, ScaleFactors
<1>5. Fits("m", TRUE, sfb_22050_mixed)
  <2> DEFINE p ==
             <<0, 6, 12, 18, 24, 30, 36, 42, 48, 54, 60, 66, 72, 80, 88,
               96, 106, 116, 126, 140, 154, 168, 186, 204, 222, 248, 274,
               300, 332, 364, 396, 438, 480, 522, 540, 558, 576>>
  <2>1. Edged(sfb_22050_mixed, 36, p)
    BY DEF Edged, Spectrum, sfb_22050_mixed
  <2>2. Threes(sfb_22050_mixed, 36, 6, p)
    BY DEF Threes, WindowOf, sfb_22050_mixed
  <2>3. p[7] = 36
    OBVIOUS
  <2> HIDE DEF p
  <2> QED BY <2>1, <2>2, <2>3 DEF Fits, Short, ScaleFactors
<1>6. Fits("m", TRUE, sfb_16000_mixed)
  <2> DEFINE p ==
             <<0, 6, 12, 18, 24, 30, 36, 42, 48, 54, 62, 70, 78, 88, 98,
               108, 120, 132, 144, 158, 172, 186, 204, 222, 240, 264, 288,
               312, 342, 372, 402, 442, 482, 522, 540, 558, 576>>
  <2>1. Edged(sfb_16000_mixed, 36, p)
    BY DEF Edged, Spectrum, sfb_16000_mixed
  <2>2. Threes(sfb_16000_mixed, 36, 6, p)
    BY DEF Threes, WindowOf, sfb_16000_mixed
  <2>3. p[7] = 36
    OBVIOUS
  <2> HIDE DEF p
  <2> QED BY <2>1, <2>2, <2>3 DEF Fits, Short, ScaleFactors
<1>7. Fits("m", TRUE, sfb_8000_mixed)
  <2> DEFINE p ==
             <<0, 12, 24, 36, 40, 44, 48, 56, 64, 72, 84, 96, 108, 124,
               140, 156, 176, 196, 216, 240, 264, 288, 316, 344, 372, 408,
               444, 480, 482, 484, 486, 488, 490, 492, 494, 496, 498, 524,
               550, 576>>
  <2>1. Edged(sfb_8000_mixed, 39, p)
    BY DEF Edged, Spectrum, sfb_8000_mixed
  <2>2. Threes(sfb_8000_mixed, 39, 3, p)
    BY DEF Threes, WindowOf, sfb_8000_mixed
  <2>3. p[4] = 36
    OBVIOUS
  <2> HIDE DEF p
  <2> QED BY <2>1, <2>2, <2>3 DEF Fits, Short, ScaleFactors
<1> QED BY <1>1, <1>2, <1>3, <1>4, <1>5, <1>6, <1>7

LEMMA RowsOfTable ==
    ASSUME NEW lsf \in BOOLEAN
    PROVE  Rows(lsf) \subseteq 1 .. 9
<1>1. DOMAIN SampleRates = 1 .. 9
  BY SMT DEF SampleRates
<1> QED BY <1>1, Zenon DEF Rows

(* All walks end, in long blocks and in those with short bands. *)
LEMMA LongWalks ==
    ASSUME NEW width, NEW p, Edged(width, 22, p), NEW lsf \in BOOLEAN
    PROVE  Divides("l", width) /\ WalksEnd("l", width, lsf)
<1>1. /\ Len(width) = 22 /\ DOMAIN width = 1 .. 22 /\ p[23] = 576
      /\ \A b \in 1 .. 22 : width[b] \in Nat /\ width[b] > 0 /\ width[b] % 2 = 0
  BY DEF Edged, Spectrum
<1>2. LinesOf(width, 22) = 576
  <2>1. LinesOf(width, 22) = p[22 + 1]
    BY LinesAreEdges
  <2> QED BY <1>1, <2>1
<1>3. Divides("l", width)
  BY <1>1, <1>2 DEF Divides, LowBands
<1>4. III_exponents("l", width) = <<22, 576>>
  BY SMT DEF III_exponents
<1> QED BY <1>1, <1>3, <1>4 DEF WalksEnd, ScaleFactors, RegionOf, region0_count, region1_count

LEMMA ShortWalks ==
    ASSUME NEW width, NEW n, NEW low, NEW p, Short(width, n, low, p),
           NEW kind \in {"s", "m"}, kind = "s" => low = 0,
           p[low + 1] = IF kind = "m" THEN 36 ELSE 0,
           NEW lsf \in BOOLEAN, n <= ScaleFactors(kind, lsf)
    PROVE  Divides(kind, width) /\ WalksEnd(kind, width, lsf) /\ Sorts(kind, width)
<1>1. LowBands(kind, width) = low
  BY LowBandsAre, SMT
<1>2. Divides(kind, width) /\ Sorts(kind, width)
  BY <1>1, ShortDivides, SMT
<1>3. III_exponents(kind, width) = <<n, 576>>
  BY <1>1, ExponentsEnd, SMT
<1>4. n \in 1 .. 39 /\ Len(width) = n /\ DOMAIN width = 1 .. n
  BY DEF Short, Edged
<1>5. ScaleFactors(kind, lsf) >= n
  BY <1>4 DEF ScaleFactors
<1>6. \A b \in DOMAIN width : RegionOf(b, region0_count(kind), region1_count) < 2
  <2> TAKE b \in DOMAIN width
  <2>1. b \in Nat /\ b <= 39
    BY <1>4
  <2>2. region0_count(kind) \in {7, 8}
    BY DEF region0_count
  <2> QED BY <2>1, <2>2, SMT DEF RegionOf, region1_count
<1> QED BY <1>2, <1>3, <1>4, <1>5, <1>6 DEF WalksEnd

LEMMA FitsCovers ==
    ASSUME NEW kind \in BlockKinds, NEW lsf \in BOOLEAN, NEW width, Fits(kind, lsf, width)
    PROVE  /\ Divides(kind, width) /\ WalksEnd(kind, width, lsf)
           /\ kind # "l" => Sorts(kind, width)
<1>1. PICK n, low, p :
          /\ n <= ScaleFactors(kind, lsf)
          /\ kind = "l" => n = 22 /\ Edged(width, n, p)
          /\ kind # "l" => /\ Short(width, n, low, p)
                           /\ kind = "s" => low = 0
                           /\ p[low + 1] = IF kind = "m" THEN 36 ELSE 0
  BY SMT DEF Fits
<1>2. CASE kind = "l"
  BY <1>1, <1>2, LongWalks
<1>3. CASE kind # "l"
  <2>1. kind \in {"s", "m"}
    BY <1>3 DEF BlockKinds
  <2> QED BY <1>1, <1>3, <2>1, ShortWalks
<1> QED BY <1>2, <1>3

(* The rows for a frame are of tables that fit. *)
LEMMA RowsFit ==
    ASSUME NEW lsf \in BOOLEAN, NEW i \in Rows(lsf), NEW kind \in BlockKinds
    PROVE  Fits(kind, lsf, sfbwidth_table[i][kind])
<1> DEFINE Row(row) == Fits("l", lsf, row.l) /\ Fits("s", lsf, row.s) /\ Fits("m", lsf, row.m)
<1>1. i \in 1 .. 9 /\ (lsf <=> i > 3)
  BY RowsOfTable, SMT DEF Rows
<1>2. CASE lsf = FALSE
  <2>1. Row(sfbwidth_table[1]) /\ Row(sfbwidth_table[2]) /\ Row(sfbwidth_table[3])
    BY <1>2, LongTables, ShortTables, MixedTables DEF sfbwidth_table
  <2>2. i \in 1 .. 3
    BY <1>1, <1>2
  <2>3. Row(sfbwidth_table[i])
    <3> HIDE DEF Row
    <3> QED BY <2>1, <2>2
  <2> QED BY <2>3, Zenon DEF BlockKinds
<1>3. CASE lsf = TRUE
  <2>1. Row(sfbwidth_table[4]) /\ Row(sfbwidth_table[5]) /\ Row(sfbwidth_table[6])
    BY <1>3, LongTables, ShortTables, MixedTables DEF sfbwidth_table
  <2>2. Row(sfbwidth_table[7]) /\ Row(sfbwidth_table[8]) /\ Row(sfbwidth_table[9])
    BY <1>3, LongTables, ShortTables, MixedTables DEF sfbwidth_table
  <2>3. i \in 4 .. 9
    BY <1>1, <1>3
  <2>4. Row(sfbwidth_table[i])
    <3> HIDE DEF Row
    <3> QED BY <2>1, <2>2, <2>3
  <2> QED BY <2>4, Zenon DEF BlockKinds
<1> QED BY <1>2, <1>3

(* The row of each sample rate is the one sfreqi finds. *)
LEMMA RowsAreFound ==
    ASSUME NEW i \in 1 .. 9
    PROVE  sfreqi(SampleRates[i], i > 6) = i - 1
<1>1. CASE i \in 1 .. 3
  BY <1>1, SMT DEF sfreqi, SampleRates
<1>2. CASE i \in 4 .. 6
  BY <1>2, SMT DEF sfreqi, SampleRates
<1>3. CASE i \in 7 .. 9
  BY <1>3, SMT DEF sfreqi, SampleRates
<1> QED BY <1>1, <1>2, <1>3

LEMMA NoneIsUncovered ==
    ASSUME NEW lsf \in BOOLEAN
    PROVE  Uncovered[lsf] = {} /\ Misplaced[lsf] = {}
<1>1. ASSUME NEW at \in Rows(lsf) \X BlockKinds
      PROVE  Covered(at[1], at[2], lsf)
  <2>1. at[1] \in Rows(lsf) /\ at[2] \in BlockKinds
    OBVIOUS
  <2>2. sfreqi(SampleRates[at[1]], at[1] > 6) = at[1] - 1
    BY <2>1, RowsOfTable, RowsAreFound
  <2>3. Fits(at[2], lsf, sfbwidth_table[at[1]][at[2]])
    BY <2>1, RowsFit, Zenon
  <2> QED BY <2>1, <2>2, <2>3, FitsCovers, Zenon DEF Covered
<1>2. ASSUME NEW at \in Rows(lsf) \X {"s", "m"}
      PROVE  Sorts(at[2], sfbwidth_table[at[1]][at[2]])
  <2>1. at[1] \in Rows(lsf) /\ at[2] \in BlockKinds /\ at[2] # "l"
    BY DEF BlockKinds
  <2>2. Fits(at[2], lsf, sfbwidth_table[at[1]][at[2]])
    BY <2>1, RowsFit, Zenon
  <2> QED BY <2>1, <2>2, FitsCovers, Zenon
<1>3. Uncovered[lsf] = {}
  BY <1>1, Zenon DEF Uncovered
<1>4. Misplaced[lsf] = {}
  BY <1>2, Zenon DEF Misplaced
<1> QED BY <1>3, <1>4

LEMMA NoneIsCutOff == CutOff = {}
BY SMT DEF CutOff, sblimit

-----------------------------------------------------------------------------
(* The bands for intensity stereo *)

(* Highest is the greatest band of a set, or 0. *)
LEMMA HighestIs ==
    ASSUME NEW n \in Nat, NEW S \in SUBSET (1 .. n)
    PROVE  /\ S = {} => Highest(S) = 0
           /\ S # {} => Highest(S) \in S /\ \A c \in S : c <= Highest(S)
           /\ Highest(S) \in 0 .. n
<1>1. CASE S = {}
  BY <1>1 DEF Highest
<1>2. CASE S # {}
  <2>1. S \in SUBSET (0 .. n)
    OBVIOUS
  <2>2. \E b \in S : \A c \in S : c <= b
    BY <1>2, <2>1, GreatestOf, Zenon
  <2>3. Highest(S) = CHOOSE b \in S : \A c \in S : c <= b
    BY <1>2, Zenon DEF Highest
  <2>4. Highest(S) \in S /\ \A c \in S : c <= Highest(S)
    BY <2>2, <2>3, Zenon
  <2>5. Highest(S) \in 0 .. n
    <3> DEFINE h == Highest(S)
    <3>1. h \in S
      BY <2>4
    <3> HIDE DEF h
    <3>2. h \in 0 .. n
      BY <3>1
    <3> QED BY <3>2 DEF h
  <2> QED BY <1>2, <2>4, <2>5, Zenon
<1> QED BY <1>1, <1>2

(* III_stereo, for every spectrum of the right channel: a band is left     *)
(* alone exactly if, there or above, the right channel is not zero, in the *)
(* same window if the band is short.                                       *)
LEMMA StereoBands ==
    ASSUME NEW start \in Nat, NEW last \in Nat, NEW N \in SUBSET (1 .. last)
    PROVE  NotIntensity(start, N) =
               {b \in 1 .. last : \E c \in N :
                   c >= b /\ (b <= start \/ WindowOf(start, c) = WindowOf(start, b))}
<1> DEFINE short == {b \in N : b > start}
           max == Highest(short)
           InWindow(w) == {b \in short : WindowOf(start, b) = w}
           bound(w) == Highest(InWindow(w))
           lower == IF max > 0 THEN start ELSE Highest(N)
           left == (1 .. lower) \cup {b \in start + 1 .. max : b <= bound(WindowOf(start, b))}
           Above(b, c) == c >= b /\ (b <= start \/ WindowOf(start, c) = WindowOf(start, b))
<1>1. NotIntensity(start, N) = left
  BY Zenon DEF NotIntensity
<1>2. /\ short = {} => max = 0
      /\ short # {} => max \in short /\ \A c \in short : c <= max
      /\ max \in 0 .. last
  <2>1. short \in SUBSET (1 .. last)
    OBVIOUS
  <2> HIDE DEF short
  <2> QED BY <2>1, HighestIs, Zenon
<1>3. /\ N = {} => Highest(N) = 0
      /\ N # {} => Highest(N) \in N /\ \A c \in N : c <= Highest(N)
      /\ Highest(N) \in 0 .. last
  BY HighestIs, Zenon
<1>4. \A w : /\ InWindow(w) = {} => bound(w) = 0
             /\ InWindow(w) # {} => bound(w) \in InWindow(w) /\ \A c \in InWindow(w) : c <= bound(w)
             /\ bound(w) \in 0 .. last
  <2> TAKE w
  <2> DEFINE S == InWindow(w)
  <2>1. S \in SUBSET (1 .. last)
    OBVIOUS
  <2> HIDE DEF S
  <2>2. /\ S = {} => Highest(S) = 0
        /\ S # {} => Highest(S) \in S /\ \A c \in S : c <= Highest(S)
        /\ Highest(S) \in 0 .. last
    BY <2>1, HighestIs, Zenon
  <2> QED BY <2>2, Zenon DEF S
<1> HIDE DEF max, bound
<1>5. CASE short = {}
  <2>1. max = 0 /\ lower = Highest(N)
    BY <1>2, <1>5
  <2>2. left = 1 .. Highest(N)
    BY <2>1
  <2>3. \A c \in N : c \in 1 .. last /\ c <= start
    BY <1>5
  <2>4. ASSUME NEW b \in 1 .. last
        PROVE  b <= Highest(N) <=> \E c \in N : Above(b, c)
    <3>1. CASE b <= Highest(N)
      BY <1>3, <2>3, <3>1
    <3>2. ASSUME NEW c \in N, Above(b, c)
          PROVE  b <= Highest(N)
      BY <1>3, <2>3, <3>2
    <3> QED BY <3>1, <3>2
  <2> QED BY <1>1, <1>3, <2>2, <2>4
<1>6. CASE short # {}
  <2>1. max \in short /\ max \in N /\ max > start /\ max \in 1 .. last /\ lower = start
    BY <1>2, <1>6
  <2>2. ASSUME NEW b \in 1 .. last, b <= start
        PROVE  b \in left /\ \E c \in N : Above(b, c)
    BY <2>1, <2>2
  <2>3. ASSUME NEW b \in 1 .. last, b > start
        PROVE  b \in left <=> \E c \in N : Above(b, c)
    <3> DEFINE w == WindowOf(start, b)
    <3>1. b \in left <=> b <= max /\ b <= bound(w)
      BY <2>1, <2>3
    <3>2. ASSUME b <= bound(w)
          PROVE  \E c \in N : Above(b, c)
      <4>1. InWindow(w) # {}
        BY <1>4, <3>2
      <4>2. bound(w) \in InWindow(w)
        BY <1>4, <4>1, Zenon
      <4> QED BY <3>2, <4>2
    <3>3. ASSUME NEW c \in N, Above(b, c)
          PROVE  b <= max /\ b <= bound(w)
      <4>1. c \in InWindow(w) /\ c \in short /\ c \in 1 .. last
        BY <2>3, <3>3
      <4>2. c <= bound(w) /\ bound(w) \in 0 .. last
        BY <1>4, <4>1, Zenon
      <4>3. c <= max
        BY <1>2, <4>1, Zenon
      <4> QED BY <1>2, <3>3, <4>1, <4>2, <4>3
    <3> QED BY <3>1, <3>2, <3>3
  <2>4. left \subseteq 1 .. last
    BY <2>1
  <2> QED BY <1>1, <2>2, <2>3, <2>4
<1> QED BY <1>5, <1>6

LEMMA NoneIsWrong ==
    ASSUME NEW lsf \in BOOLEAN
    PROVE  Wrong[lsf] = {}
<1> DEFINE Shape(at) == <<LowBands(at[2], sfbwidth_table[at[1]][at[2]]),
                          Len(sfbwidth_table[at[1]][at[2]])>>
<1>1. Wrong[lsf] = {shape \in {Shape(at) : at \in Rows(lsf) \X BlockKinds} :
                        ~IntensityStarts(shape[1], shape[2])}
  BY Zenon DEF Wrong
<1>2. ASSUME NEW at \in Rows(lsf) \X BlockKinds
      PROVE  IntensityStarts(Shape(at)[1], Shape(at)[2])
  <2> DEFINE i == at[1]
             kind == at[2]
             width == sfbwidth_table[i][kind]
             last == Len(width)
             start == LowBands(kind, width)
  <2>1. i \in 1 .. 9 /\ kind \in BlockKinds
    BY RowsOfTable
  <2>2. last \in Nat
    BY RowsFit DEF Fits, Edged, Short
  <2>3. BandsUpTo(width, 36) \in 0 .. last
    BY <2>2, WalkStops, Zenon
  <2>4. start \in Nat
    BY <2>2, <2>3 DEF LowBands
  <2>5. Shape(at)[1] = start /\ Shape(at)[2] = last
    OBVIOUS
  <2> HIDE DEF start, last
  <2>6. ASSUME NEW N \in {{}} \cup {{a, b} : a, b \in 1 .. last}
        PROVE  NotIntensity(start, N) =
                   {b \in 1 .. last : \E c \in N :
                       c >= b /\ (b <= start \/ WindowOf(start, c) = WindowOf(start, b))}
    <3>1. N \in SUBSET (1 .. last)
      OBVIOUS
    <3> QED BY <2>2, <2>4, <3>1, StereoBands
  <2>7. IntensityStarts(start, last)
    BY <2>6 DEF IntensityStarts
  <2> QED BY <2>5, <2>7, Zenon
<1> QED BY <1>1, <1>2, Zenon


-----------------------------------------------------------------------------
(* BandsCover: for the frames of either standard, every walk of layer3.c   *)
(* along the bands of any sample rate ends with the table at line 576, and *)
(* III_reorder puts each line of a short block where that table says, each *)
(* in a place of its own.  Which table is right is not a question of this. *)
THEOREM BandsAreCovered == Spec => []BandsCover
<1>1. TypeOK => BandsCover
  <2>1. TypeOK => header.lsf \in BOOLEAN
    BY MainDataAssumption DEF TypeOK, Header
  <2> QED BY <2>1, NoneIsUncovered, NoneIsCutOff, Zenon DEF BandsCover
<1> QED BY <1>1, TypeCorrect, PTL

(* IntensityAbove: III_stereo takes for intensity stereo just the bands    *)
(* above the right channel's spectrum, for any two bands that are not      *)
(* zero in it; by StereoBands for any number of them.                      *)
THEOREM IntensityIsAbove == Spec => []IntensityAbove
<1>1. TypeOK => IntensityAbove
  <2>1. TypeOK => header.lsf \in BOOLEAN
    BY MainDataAssumption DEF TypeOK, Header
  <2> QED BY <2>1, NoneIsWrong, Zenon DEF IntensityAbove
<1> QED BY <1>1, TypeCorrect, PTL
=============================================================================
