------------------------- MODULE MadReservoirProofs -------------------------
(***************************************************************************)
(* Proofs about MadReservoir, for every reservoir and area size.           *)
(***************************************************************************)
EXTENDS MadReservoir, TLAPS

(* The inductive invariant: the tail is the stream and is long enough, and *)
(* the last frame was decoded from its own data or rightly refused.        *)
IInv == /\ TypeOK /\ CarriesOver /\ TailIsStream /\ TailIsEnough
        /\ DecodesItsData /\ NoFalseBadPointer

(* Before the first frame nothing is kept and nothing is missing. *)
LEMMA InitInv == Init => IInv
<1> SUFFICES ASSUME Init PROVE IInv
  OBVIOUS
<1>1. /\ md_len = 0 /\ pos = 0 /\ gap = 0 /\ from = 0 /\ gotLen = 0
      /\ begin \in 0 .. MaxBegin /\ result = "none" /\ since = 0
  BY DEF Init
<1>2. main_data \in [Slot -> Int] /\ got \in [Slot -> Int]
  BY DEF Init, NoByte
<1>3. TypeOK
  BY <1>1, <1>2, ReservoirAssumption DEF TypeOK
<1>4. CarriesOver /\ TailIsStream /\ TailIsEnough
  BY <1>1, ReservoirAssumption DEF CarriesOver, TailIsStream, TailIsEnough
<1>5. DecodesItsData /\ NoFalseBadPointer
  BY <1>1 DEF DecodesItsData, NoFalseBadPointer
<1> QED BY <1>3, <1>4, <1>5 DEF IInv

(* The numbers of a reachable state. *)
LEMMA Ranges ==
  ASSUME IInv
  PROVE  /\ MaxBegin \in Nat /\ MaxSpace \in Nat /\ MDLEN \in Nat
         /\ StreamLen \in Nat /\ MDLEN >= MaxBegin /\ MDLEN >= MaxSpace
         /\ md_len \in Nat /\ md_len <= MaxBegin
         /\ begin \in Nat /\ begin <= MaxBegin
         /\ pos \in Nat /\ pos <= StreamLen /\ gap \in Nat /\ gap <= pos
         /\ main_data \in [Slot -> Int]
<1>1. TypeOK /\ CarriesOver
  BY DEF IInv
<1>2. /\ main_data \in [Slot -> Int] /\ md_len \in 0 .. MDLEN /\ pos \in Nat
      /\ pos <= StreamLen /\ begin \in 0 .. MaxBegin /\ gap \in 0 .. pos
      /\ md_len <= MaxBegin
  BY <1>1 DEF TypeOK, CarriesOver
<1>3. md_len \in Nat /\ begin \in Nat /\ begin <= MaxBegin
  BY <1>2, ReservoirAssumption
<1>4. gap \in Nat /\ gap <= pos
  BY <1>2
<1> QED BY <1>2, <1>3, <1>4, ReservoirAssumption

(* How the areas of a frame are split: all that is left over of it is what *)
(* the next frame needs, unless the next one needs more than this frame.   *)
LEMMA Split ==
  ASSUME IInv, NEW s \in 0 .. MaxSpace, NEW nb \in 0 .. MaxBegin,
         NEW next, next = next_md_begin(s, nb),
         NEW len, len = frame_md_len(s, next)
  PROVE  /\ next \in 0 .. MaxBegin /\ (next = nb \/ next = 0)
         /\ len \in 0 .. MaxBegin + MaxSpace
         /\ frame_used(len) \in 0 .. s
         /\ s - frame_used(len) < next
               => /\ frame_used(len) = 0 /\ len < begin /\ begin # 0
                  /\ begin - len = next - s
         /\ begin # 0 /\ frame_used(len) > 0
               => /\ Reaches /\ frame_used(len) = len - begin
                  /\ s - frame_used(len) = next
<1>1. /\ next \in 0 .. MaxBegin /\ (next = nb \/ next = 0) /\ next <= begin + s
  BY Ranges DEF next_md_begin
<1>2. len = begin + s - next /\ len \in 0 .. MaxBegin + MaxSpace
  BY <1>1, Ranges DEF frame_md_len
<1>3. CASE begin = 0
  BY <1>1, <1>2, <1>3, Ranges DEF frame_used
<1>4. CASE begin # 0 /\ Reaches /\ len > begin
  BY <1>1, <1>2, <1>4, Ranges DEF frame_used
<1>5. CASE begin # 0 /\ ~(Reaches /\ len > begin)
  <2>1. frame_used(len) = 0
    BY <1>5 DEF frame_used
  <2> QED BY <1>1, <1>2, <1>5, <2>1, Ranges
<1> QED BY <1>3, <1>4, <1>5

(* What Kept keeps, in that case, is the end of the tail: all of it, or as *)
(* much as the next frame needs.                                           *)
LEMMA KeptTail ==
  ASSUME IInv, NEW s \in 0 .. MaxSpace, NEW nb \in 0 .. MaxBegin,
         NEW next, next = next_md_begin(s, nb),
         NEW len, len = frame_md_len(s, next),
         s - frame_used(len) < next
  PROVE  /\ Kept(s - frame_used(len), len, next)
               = IF next - s < md_len THEN next - s ELSE md_len
         /\ next - s > 0 /\ frame_used(len) = 0
<1>1. /\ frame_used(len) = 0 /\ len < begin /\ begin # 0
      /\ begin - len = next - s /\ next \in 0 .. MaxBegin
      /\ len \in 0 .. MaxBegin + MaxSpace
  BY Split
<1>2. s \in Int /\ next \in Int /\ len \in Int /\ begin \in Int /\ md_len \in Int
  BY <1>1, Ranges
<1>3. s - frame_used(len) = s
  BY <1>1, <1>2
<1> QED
  BY <1>1, <1>2, <1>3 DEF Kept

-----------------------------------------------------------------------------
(* A decoded frame whose data is all there was given that data. *)
LEMMA FrameDecodes ==
  ASSUME IInv, NEW s \in 0 .. MaxSpace, NEW nb \in 0 .. MaxBegin,
         NEW sound \in BOOLEAN, Frame(s, nb, sound)
  PROVE  DecodesItsData' /\ NoFalseBadPointer' /\ got' \in [Slot -> Int]
         /\ gotLen' \in 0 .. MDLEN
<1> DEFINE next == next_md_begin(s, nb)
           len == frame_md_len(s, next)
           used == frame_used(len)
<1>1. /\ len \in 0 .. MaxBegin + MaxSpace /\ used \in 0 .. s
      /\ begin # 0 /\ used > 0 => Reaches /\ used = len - begin
  BY Split
<1>2. /\ result' = IF ~sound THEN "damaged"
                   ELSE IF begin # 0 /\ ~Reaches THEN "bad pointer" ELSE "decoded"
      /\ from' = pos - begin /\ since' = gap
      /\ gotLen' = IF result' = "decoded" THEN len ELSE 0
      /\ got' = IF result' = "decoded" THEN Delivered(used)
                ELSE [i \in Slot |-> NoByte]
  BY DEF Frame
<1>3. /\ pos \in Nat /\ begin \in 0 .. MaxBegin /\ gap \in 0 .. pos
      /\ md_len \in 0 .. MDLEN /\ md_len <= MaxBegin
      /\ main_data \in [Slot -> Int]
  BY Ranges
<1>b. len = begin + s - next /\ next \in 0 .. MaxBegin
  BY Split DEF frame_md_len
<1> HIDE DEF next, len, used
<1>a. /\ result' = "decoded" => /\ begin = 0 \/ Reaches
                                /\ gotLen' = len /\ got' = Delivered(used)
      /\ result' # "decoded" => gotLen' = 0 /\ got' = [i \in Slot |-> NoByte]
      /\ result' = "bad pointer" => begin # 0 /\ ~Reaches
  BY <1>2
<1>d. from' = pos - begin /\ since' = gap
  BY <1>2
<1>e. begin # 0 /\ Reaches /\ len > begin => md_len + (len - begin) <= MDLEN
  <2>1. ~Overruns(s, nb)
    BY DEF Frame
  <2>2. ~(begin # 0 /\ Reaches /\ len > begin /\ md_len + (len - begin) > MDLEN)
    BY <2>1 DEF Overruns, len, next
  <2> QED BY <1>1, <1>3, <2>2, ReservoirAssumption
<1>f. result' = "decoded" => len <= MDLEN
  <2>1. MaxBegin \in Nat /\ MaxSpace \in Nat /\ MDLEN \in Nat
        /\ MDLEN >= MaxBegin /\ MDLEN >= MaxSpace /\ s \in Nat /\ s <= MaxSpace
    BY ReservoirAssumption
  <2>2. CASE begin = 0
    BY <1>1, <1>b, <2>1, <2>2
  <2>3. CASE begin # 0 /\ len <= begin
    BY <1>1, <1>3, <2>1, <2>3
  <2>4. CASE begin # 0 /\ Reaches /\ len > begin
    <3>1. md_len + (len - begin) <= MDLEN /\ begin <= md_len
      BY <1>e, <2>4 DEF Reaches
    <3> QED BY <1>1, <1>3, <2>1, <3>1
  <2>5. CASE begin # 0 /\ ~Reaches
    BY <1>a, <2>5
  <2> QED BY <1>1, <1>3, <2>1, <2>2, <2>3, <2>4, <2>5
<1>4. gotLen' \in 0 .. MDLEN
  <2>1. gotLen' = 0 \/ (gotLen' = len /\ len <= MDLEN)
    BY <1>a, <1>f
  <2>2. len \in Int /\ len >= 0 /\ MDLEN \in Nat
    BY <1>1, ReservoirAssumption
  <2> QED BY <2>1, <2>2
<1>5. Joined(used) \in [Slot -> Int]
  BY <1>1, <1>3, ReservoirAssumption DEF Joined, Slot
<1>6. got' \in [Slot -> Int]
  <2>1. Delivered(used) \in [Slot -> Int]
    <3>1. \A i \in Slot : pos + i \in Int /\ NoByte \in Int
      BY <1>3, ReservoirAssumption DEF Slot, NoByte
    <3> QED BY <3>1, <1>5 DEF Delivered
  <2>2. [i \in Slot |-> NoByte] \in [Slot -> Int]
    BY DEF NoByte
  <2> QED BY <2>1, <2>2, <1>a
<1>7. NoFalseBadPointer'
  <2>1. md_len >= begin \/ md_len >= pos - gap
    BY DEF IInv, TailIsEnough
  <2>2. begin > md_len => pos - begin < gap
    BY <2>1, <1>3
  <2>3. SUFFICES ASSUME result' = "bad pointer" PROVE from' < since'
    BY DEF NoFalseBadPointer
  <2>4. ~(begin <= md_len)
    BY <2>3, <1>a DEF Reaches
  <2>5. from' = pos - begin /\ since' = gap
    BY <1>2
  <2> QED BY <2>2, <2>4, <2>5, <1>3
<1>8. ASSUME result' = "decoded", from' >= since', NEW i \in 0 .. gotLen' - 1
      PROVE  got'[i] = from' + i
  <2>1. /\ i \in Slot /\ i \in 0 .. len - 1 /\ got' = Delivered(used)
    BY <1>1, <1>a, <1>f, <1>8, ReservoirAssumption DEF Slot
  <2>2. CASE begin = 0
    BY <2>1, <2>2, <1>2, <1>3 DEF Delivered
  <2>3. CASE begin # 0
    <3>0. i \in Int
      BY <2>1, ReservoirAssumption DEF Slot
    <3>1. Reaches /\ pos - begin >= gap /\ begin <= md_len
      BY <1>2, <1>a, <1>8, <2>3 DEF Reaches
    <3>2. used = IF len > begin THEN len - begin ELSE 0
      BY <2>3, <3>1 DEF frame_used, used
    <3>3. md_len - begin + i \in Slot
      <4>1. i <= len - 1 /\ len <= begin + s
        BY <1>3, <2>1, <1>b
      <4>2. len > begin => md_len - begin + i < MDLEN
        <5>1. SUFFICES ASSUME len > begin PROVE md_len - begin + i < MDLEN
          OBVIOUS
        <5>2. md_len + (len - begin) <= MDLEN
          BY <1>e, <2>3, <3>1, <5>1
        <5> QED BY <1>1, <1>3, <2>1, <3>0, <5>2, ReservoirAssumption
      <4>3. len <= begin => md_len - begin + i < MDLEN
        BY <1>1, <1>3, <2>1, <3>1, <4>1, ReservoirAssumption
      <4> QED BY <1>1, <1>3, <2>1, <3>1, <4>2, <4>3, ReservoirAssumption DEF Slot
    <3>4. got'[i] = Joined(used)[md_len - begin + i]
      BY <2>1, <2>3, <3>3 DEF Delivered
    <3>5. CASE i < begin
      <4>1. md_len - begin + i \in 0 .. md_len - 1
        BY <1>3, <2>1, <3>1, <3>5 DEF Slot
      <4>2. main_data[md_len - begin + i] = pos - begin + i
        BY <1>3, <2>1, <3>1, <4>1 DEF IInv, TailIsStream
      <4>3. Joined(used)[md_len - begin + i] = main_data[md_len - begin + i]
        BY <1>3, <2>1, <3>3, <3>5 DEF Joined
      <4> QED BY <1>d, <1>3, <3>0, <3>4, <4>2, <4>3
    <3>6. CASE i >= begin
      <4>1. (md_len - begin + i) - md_len = i - begin /\ i - begin \in 0 .. used - 1
        BY <1>1, <1>3, <2>1, <3>2, <3>6, ReservoirAssumption
      <4>2. Joined(used)[md_len - begin + i] = pos + (i - begin)
        BY <3>3, <4>1 DEF Joined
      <4> QED BY <1>d, <1>3, <3>0, <3>4, <4>2
    <3> QED BY <3>5, <3>6, <3>0, <1>3
  <2> QED BY <2>2, <2>3
<1> QED BY <1>4, <1>6, <1>7, <1>8 DEF DecodesItsData

(* The tail that a frame leaves behind for the next one. *)
LEMMA FrameKeepsTail ==
  ASSUME IInv, NEW s \in 0 .. MaxSpace, NEW nb \in 0 .. MaxBegin,
         NEW sound \in BOOLEAN, Frame(s, nb, sound)
  PROVE  /\ md_len' \in 0 .. MDLEN /\ main_data' \in [Slot -> Int]
         /\ CarriesOver' /\ TailIsStream' /\ TailIsEnough'
         /\ pos' \in Nat /\ pos' <= StreamLen /\ begin' = nb /\ gap' \in 0 .. pos'
<1> DEFINE next == next_md_begin(s, nb)
           len == frame_md_len(s, next)
           used == frame_used(len)
           free == s - used
           kept == IF free >= next THEN 0 ELSE Kept(free, len, next)
           more == IF free >= next THEN next ELSE free
<1>1. /\ next \in 0 .. MaxBegin /\ (next = nb \/ next = 0)
      /\ len \in 0 .. MaxBegin + MaxSpace /\ used \in 0 .. s
  BY Split
<1>2. /\ MaxBegin \in Nat /\ MaxSpace \in Nat /\ MDLEN \in Nat /\ StreamLen \in Nat
      /\ MDLEN >= MaxBegin /\ MDLEN >= MaxSpace
      /\ md_len \in Nat /\ md_len <= MaxBegin /\ begin \in Nat /\ begin <= MaxBegin
      /\ pos \in Nat /\ gap \in Nat /\ gap <= pos /\ main_data \in [Slot -> Int]
      /\ s \in Nat /\ nb \in Nat /\ nb <= MaxBegin
  BY Ranges
<1>3. /\ pos + s <= StreamLen /\ pos' = pos + s /\ begin' = nb
      /\ gap' = IF next = nb THEN gap ELSE pos'
  BY DEF Frame
<1>4. /\ md_len' = kept + more
      /\ main_data' = [i \in Slot |->
             IF i < kept THEN main_data[md_len - kept + i]
             ELSE IF i < kept + more THEN pos + s - more + (i - kept)
             ELSE IF begin = 0 THEN main_data[i] ELSE Joined(used)[i]]
  BY DEF Frame, Preload
(* Either the tail is the end of this frame, or the end of the old tail    *)
(* with this whole frame behind it.                                        *)
<1>5. \/ kept = 0 /\ more = next /\ next <= s
      \/ /\ more = s /\ next > s
         /\ kept = IF next - s < md_len THEN next - s ELSE md_len
  <2>1. CASE free >= next
    BY <1>1, <1>2, <2>1
  <2>2. CASE free < next
    <3>1. /\ Kept(free, len, next) = IF next - s < md_len THEN next - s ELSE md_len
          /\ next - s > 0 /\ used = 0
      BY <2>2, KeptTail
    <3> QED BY <1>1, <1>2, <2>2, <3>1
  <2> QED BY <1>1, <1>2, <2>1, <2>2
<1> HIDE DEF next, len, used, free, kept, more
<1>6. /\ kept \in Nat /\ kept <= md_len /\ more \in Nat /\ more <= s
      /\ kept + more <= next /\ kept + more <= MaxBegin
  BY <1>1, <1>2, <1>5
<1>7. md_len' \in 0 .. MDLEN /\ CarriesOver'
  BY <1>2, <1>4, <1>6 DEF CarriesOver
<1>8. main_data' \in [Slot -> Int]
  <2>1. Joined(used) \in [Slot -> Int]
    BY <1>1, <1>2 DEF Joined, Slot
  <2>2. ASSUME NEW i \in Slot, i < kept PROVE main_data[md_len - kept + i] \in Int
    BY <1>2, <1>6, <2>2 DEF Slot
  <2>3. ASSUME NEW i \in Slot PROVE pos + s - more + (i - kept) \in Int
    BY <1>2, <1>6 DEF Slot
  <2>4. ASSUME NEW i \in Slot PROVE main_data[i] \in Int /\ Joined(used)[i] \in Int
    BY <1>2, <2>1
  <2> QED BY <1>4, <2>2, <2>3, <2>4
<1>9. gap' \in 0 .. pos' /\ pos' \in Nat /\ gap' >= gap
  BY <1>2, <1>3
<1>10. TailIsStream'
  <2>1. SUFFICES ASSUME NEW i \in 0 .. md_len' - 1, pos' - md_len' + i >= gap'
                 PROVE  main_data'[i] = pos' - md_len' + i
    BY DEF TailIsStream
  <2>2. i \in Slot /\ i \in Nat /\ i < kept + more
    BY <1>2, <1>4, <1>6, <2>1 DEF Slot
  <2>3. CASE i < kept
    <3>1. more = s /\ kept # 0
      BY <1>5, <1>6, <2>2, <2>3
    <3>2. main_data'[i] = main_data[md_len - kept + i]
      BY <1>4, <2>2, <2>3
    <3>3. /\ md_len - kept + i \in 0 .. md_len - 1
          /\ pos - md_len + (md_len - kept + i) >= gap
      BY <1>2, <1>3, <1>4, <1>6, <1>9, <2>1, <2>2, <2>3, <3>1
    <3>4. main_data[md_len - kept + i] = pos - md_len + (md_len - kept + i)
      BY <3>3 DEF IInv, TailIsStream
    <3> QED BY <1>2, <1>3, <1>4, <1>6, <2>2, <3>1, <3>2, <3>4
  <2>4. CASE ~(i < kept)
    <3>1. main_data'[i] = pos + s - more + (i - kept)
      BY <1>4, <2>2, <2>4
    <3> QED BY <1>2, <1>3, <1>4, <1>6, <2>2, <3>1
  <2> QED BY <2>3, <2>4
<1>11. TailIsEnough'
  <2>1. md_len >= begin \/ md_len >= pos - gap
    BY DEF IInv, TailIsEnough
  <2>2. CASE next # nb
    BY <1>2, <1>3, <1>4, <1>6, <2>2 DEF TailIsEnough
  <2>3. CASE next = nb
    <3>1. nb <= begin + s
      BY <1>2, <2>3 DEF next, next_md_begin
    <3>2. md_len' >= nb \/ md_len' = md_len + s
      BY <1>1, <1>2, <1>4, <1>5, <2>3
    <3>3. md_len' >= nb \/ md_len' >= pos + s - gap
      BY <1>1, <1>2, <1>4, <1>6, <2>1, <3>1, <3>2
    <3>4. gap' = gap /\ pos' = pos + s /\ begin' = nb
      BY <1>3, <2>3
    <3> QED BY <1>2, <1>7, <3>3, <3>4 DEF TailIsEnough
  <2> QED BY <2>2, <2>3
<1> QED BY <1>3, <1>7, <1>8, <1>9, <1>10, <1>11

-----------------------------------------------------------------------------
(* Every step preserves the invariant. *)
LEMMA StepInv == IInv /\ [Next]_vars => IInv'
<1> SUFFICES ASSUME IInv, [Next]_vars PROVE IInv'
  OBVIOUS
<1>0. TypeOK
  BY DEF IInv
<1>1. ASSUME NEW nb \in 0 .. MaxBegin, NEW s \in 0 .. MaxSpace,
             NEW sound \in BOOLEAN, Frame(s, nb, sound)
      PROVE  IInv'
  <2>1. /\ md_len' \in 0 .. MDLEN /\ main_data' \in [Slot -> Int]
        /\ CarriesOver' /\ TailIsStream' /\ TailIsEnough'
        /\ pos' \in Nat /\ pos' <= StreamLen /\ begin' = nb /\ gap' \in 0 .. pos'
    BY <1>1, FrameKeepsTail
  <2>2. /\ DecodesItsData' /\ NoFalseBadPointer' /\ got' \in [Slot -> Int]
        /\ gotLen' \in 0 .. MDLEN
    BY <1>1, FrameDecodes
  <2>3. result' \in {"decoded", "damaged", "bad pointer"}
    BY <1>1 DEF Frame
  <2>a. from' = pos - begin /\ since' = gap
    BY <1>1 DEF Frame
  <2>4. from' \in Int /\ since' \in Nat
    BY <2>a, Ranges
  <2>5. TypeOK'
    BY <2>1, <2>2, <2>3, <2>4 DEF TypeOK
  <2> QED BY <2>1, <2>2, <2>5 DEF IInv
<1>2. ASSUME NEW nb \in 0 .. MaxBegin, ShortFrame(nb)
      PROVE  IInv'
  <2>1. /\ md_len' = 0 /\ result' = "short" /\ begin' = nb /\ gap' = pos
        /\ pos' = pos /\ main_data' = main_data
        /\ from' = from /\ since' = since /\ got' = got /\ gotLen' = gotLen
    BY <1>2 DEF ShortFrame
  <2>a. md_len' \in 0 .. MDLEN /\ gap' \in 0 .. pos' /\ pos' \in Nat /\ pos' <= StreamLen
    BY <2>1, Ranges
  <2>2. TypeOK'
    BY <1>0, <2>1, <2>a DEF TypeOK
  <2>3. CarriesOver' /\ TailIsStream' /\ TailIsEnough'
    BY <2>1, Ranges DEF CarriesOver, TailIsStream, TailIsEnough
  <2>4. DecodesItsData' /\ NoFalseBadPointer'
    BY <2>1 DEF DecodesItsData, NoFalseBadPointer
  <2> QED BY <2>2, <2>3, <2>4 DEF IInv
<1>3. ASSUME NEW nb \in 0 .. MaxBegin, NEW n \in 0 .. MaxSpace, LostSync(n, nb)
      PROVE  IInv'
  <2>1. /\ pos + n <= StreamLen /\ pos' = pos + n /\ gap' = pos + n
        /\ begin' = nb /\ result' = "lost"
        /\ md_len' = md_len /\ main_data' = main_data
        /\ from' = from /\ since' = since /\ got' = got /\ gotLen' = gotLen
    BY <1>3 DEF LostSync, reservoir
  <2>a. gap' \in 0 .. pos' /\ pos' \in Nat /\ pos' <= StreamLen
    BY <2>1, Ranges
  <2>2. TypeOK'
    BY <1>0, <2>1, <2>a DEF TypeOK
  <2>3. CarriesOver' /\ TailIsEnough'
    BY <2>1, Ranges DEF CarriesOver, TailIsEnough
  <2>4. TailIsStream'
    BY <2>1, Ranges DEF TailIsStream
  <2>5. DecodesItsData' /\ NoFalseBadPointer'
    BY <2>1 DEF DecodesItsData, NoFalseBadPointer
  <2> QED BY <2>2, <2>3, <2>4, <2>5 DEF IInv
<1>4. ASSUME NEW nb \in 0 .. MaxBegin, NEW s \in 0 .. MaxSpace, Overflow(s, nb)
      PROVE  IInv'
  <2>1. /\ result' = "overflow"
        /\ UNCHANGED <<reservoir, pos, begin, gap, from, since, got, gotLen>>
    BY <1>4 DEF Overflow
  <2> QED
    BY <2>1 DEF reservoir, IInv, TypeOK, CarriesOver,
                TailIsStream, TailIsEnough, DecodesItsData, NoFalseBadPointer
<1>5. CASE UNCHANGED vars
  BY <1>5 DEF vars, reservoir, lastFrame, IInv, TypeOK, CarriesOver,
              TailIsStream, TailIsEnough, DecodesItsData, NoFalseBadPointer
<1> QED BY <1>1, <1>2, <1>3, <1>4, <1>5 DEF Next

(* The invariant holds always. *)
THEOREM InvHolds == Spec => []IInv
  BY InitInv, StepInv, PTL DEF Spec

(* Every variable keeps its range; the tail never outgrows main_data. *)
THEOREM TypeCorrect == Spec => []TypeOK
<1>1. IInv => TypeOK
  BY DEF IInv
<1> QED BY <1>1, InvHolds, PTL

(* What is preloaded is at most as long as a frame can point back.  So the *)
(* assertion of mad_layer_III holds for every frame whose area leaves room *)
(* for that in main_data, whatever was lost or damaged before.  It does    *)
(* not hold for every frame that readBuf can hold.                         *)
THEOREM ReservoirIsBounded == Spec => [](CarriesOver /\ JoinFits)
<1>1. IInv => CarriesOver /\ JoinFits
  <2> SUFFICES ASSUME IInv PROVE CarriesOver /\ JoinFits
    OBVIOUS
  <2>1. ASSUME NEW s \in 0 .. MaxSpace, NEW nb \in 0 .. MaxBegin,
               s + MaxBegin <= MDLEN
        PROVE  ~Overruns(s, nb)
    <3> DEFINE next == next_md_begin(s, nb)
               len == frame_md_len(s, next)
    <3>1. next \in Nat
      BY Ranges DEF next_md_begin
    <3>2. len - begin = s - next
      BY <3>1, Ranges DEF frame_md_len
    <3>3. ~(md_len + (len - begin) > MDLEN)
      <4> HIDE DEF next, len
      <4> QED BY <2>1, <3>1, <3>2, Ranges
    <3> QED BY <3>3 DEF Overruns
  <2>2. JoinFits
    BY <2>1 DEF JoinFits
  <2> QED BY <2>2 DEF IInv
<1> QED BY <1>1, InvHolds, PTL

(* A frame received without a gap is decoded from just its own data. *)
THEOREM FramesGetTheirData == Spec => []DecodesItsData
<1>1. IInv => DecodesItsData
  BY DEF IInv
<1> QED BY <1>1, InvHolds, PTL

(* Such a frame is never refused for its main_data_begin. *)
THEOREM RecoveryIsPrompt == Spec => []NoFalseBadPointer
<1>1. IInv => NoFalseBadPointer
  BY DEF IInv
<1> QED BY <1>1, InvHolds, PTL

(* What the reservoir holds from after the last gap is the stream. *)
THEOREM TailFollowsStream == Spec => [](TailIsStream /\ TailIsEnough)
<1>1. IInv => TailIsStream /\ TailIsEnough
  BY DEF IInv
<1> QED BY <1>1, InvHolds, PTL
=============================================================================
