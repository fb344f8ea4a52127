-------------------------- MODULE MadDecoderProofs --------------------------
(***************************************************************************)
(* Theorems about MadSynth, whose filterbank never moves a vector, and     *)
(* about MadDecoder, which drives it.                                      *)
(***************************************************************************)
EXTENDS MadDecoder, TLAPS

(* How many blocks before the last one the vector of phase q was stored,   *)
(* when p is the phase of the block to come.                               *)
Age(p, q) == (p + 15 - q) % 16

(* What the filter holds between two blocks.                               *)
Stored(ch, q) ==
    /\ blocks - Age(phase, q) >= since[ch] =>
           filter[ch][q % 2][q \div 2] = blocks - Age(phase, q)
    /\ since[ch] = 1 /\ blocks - Age(phase, q) < 1 => filter[ch][q % 2][q \div 2] = 0

SynthType ==
    /\ phase \in Phase /\ blocks \in Nat
    /\ since \in [Channel -> Nat \ {0}]
    /\ filter \in [Channel -> [Parity -> [Slot -> Nat]]]

SynthInv ==
    /\ SynthType
    /\ \A ch \in Channel, q \in Phase : Stored(ch, q)

-----------------------------------------------------------------------------
(* Phases and cells of the filter are the same thing.                      *)
LEMMA PhaseIsCell ==
    ASSUME NEW p \in Phase, NEW q \in Phase
    PROVE  /\ q % 2 \in Parity /\ q \div 2 \in Slot
           /\ p % 2 = q % 2 /\ p \div 2 = q \div 2 => p = q
  BY DEF Phase, Parity, Slot

LEMMA CellIsPhase ==
    ASSUME NEW parity \in Parity, NEW v \in Slot
    PROVE  /\ 2 * v + parity \in Phase
           /\ (2 * v + parity) % 2 = parity /\ (2 * v + parity) \div 2 = v
  BY DEF Phase, Parity, Slot

(* A block makes every vector older by one, but for the one it stores.     *)
LEMMA Aging ==
    ASSUME NEW p \in Phase, NEW q \in Phase
    PROVE  /\ Age(p, q) \in 0 .. 15
           /\ (p + 1) % 16 \in Phase
           /\ Age((p + 1) % 16, p) = 0
           /\ p # q => Age((p + 1) % 16, q) = Age(p, q) + 1
  BY DEF Phase, Age

(* The window reads its rows inside the table, at the age of the vector.   *)
LEMMA TapIsAge ==
    ASSUME NEW p \in Phase, NEW parity \in Parity, NEW v \in Slot
    PROVE  /\ Tap(p, parity, v) \in 0 .. 31 /\ Mirror(p, parity, v) \in 0 .. 31
           /\ 31 - Mirror(p, parity, v) \in 0 .. 31
           /\ Tap(p, parity, v) % 16 = Age((p + 1) % 16, 2 * v + parity)
           /\ (31 - Mirror(p, parity, v)) % 16 = Age((p + 1) % 16, 2 * v + parity)
  <1>1. CASE parity = p % 2
    BY <1>1 DEF Tap, Mirror, Turn, pe, Age, Phase, Parity, Slot
  <1>2. CASE parity # p % 2
    BY <1>2 DEF Tap, Mirror, Turn, po, Age, Phase, Parity, Slot
  <1>. QED BY <1>1, <1>2

-----------------------------------------------------------------------------
(* A block of nch channels.                                                *)
LEMMA BlockStores ==
    ASSUME SynthInv, NEW n \in 1 .. 2, SynthBlock(n)
    PROVE  SynthInv'
  <1>1. /\ phase \in Phase /\ blocks \in Nat /\ since \in [Channel -> Nat \ {0}]
        /\ filter \in [Channel -> [Parity -> [Slot -> Nat]]]
    BY DEF SynthInv, SynthType
  <1>2. /\ phase' = (phase + 1) % 16 /\ blocks' = blocks + 1
        /\ since' = [ch \in Channel |-> IF ch < n THEN since[ch] ELSE blocks + 2]
        /\ filter' = [ch \in Channel |->
              IF ch < n
              THEN [filter[ch] EXCEPT ![phase % 2][phase \div 2] = blocks + 1]
              ELSE filter[ch]]
    BY DEF SynthBlock, Dct32
  <1>3. /\ phase % 2 \in Parity /\ phase \div 2 \in Slot
    BY <1>1, PhaseIsCell
  <1>4. SynthType'
    <2>1. phase' \in Phase
      BY <1>1, <1>2, Aging
    <2>2. blocks' \in Nat /\ since' \in [Channel -> Nat \ {0}]
      BY <1>1, <1>2
    <2>3. filter' \in [Channel -> [Parity -> [Slot -> Nat]]]
      BY <1>1, <1>2, <1>3
    <2>. QED BY <2>1, <2>2, <2>3 DEF SynthType
  <1>5. ASSUME NEW ch \in Channel, NEW q \in Phase
        PROVE  Stored(ch, q)'
    <2>1. /\ q % 2 \in Parity /\ q \div 2 \in Slot
          /\ phase % 2 = q % 2 /\ phase \div 2 = q \div 2 => phase = q
      BY <1>1, PhaseIsCell
    <2>2. Stored(ch, q)
      BY DEF SynthInv
    <2>3. Age(phase', q) \in 0 .. 15
      BY <1>1, <1>2, Aging
    <2>4. CASE ch < n /\ q = phase
      <3>1. filter'[ch][q % 2][q \div 2] = blocks + 1
        BY <1>1, <1>2, <1>3, <2>4
      <3>2. Age(phase', q) = 0
        BY <1>1, <1>2, <2>4, Aging
      <3>3. since'[ch] = since[ch] /\ since[ch] \in Nat \ {0}
        BY <1>1, <1>2, <2>4
      <3>. QED BY <3>1, <3>2, <3>3, <1>1, <1>2 DEF Stored
    <2>5. CASE ch < n /\ q # phase
      <3>1. filter'[ch][q % 2][q \div 2] = filter[ch][q % 2][q \div 2]
        <4>1. filter'[ch] = [filter[ch] EXCEPT ![phase % 2][phase \div 2] = blocks + 1]
          BY <1>2, <2>5
        <4>2. filter[ch] \in [Parity -> [Slot -> Nat]]
          BY <1>1
        <4>. QED BY <4>1, <4>2, <2>1, <2>5, <1>3
      <3>2. Age(phase', q) = Age(phase, q) + 1 /\ Age(phase, q) \in 0 .. 15
        BY <1>1, <1>2, <2>5, Aging
      <3>3. since'[ch] = since[ch] /\ since[ch] \in Nat \ {0}
        BY <1>1, <1>2, <2>5
      <3>4. blocks' - Age(phase', q) = blocks - Age(phase, q)
        <4>1. \A a \in 0 .. 15, b \in Nat : (b + 1) - (a + 1) = b - a
          OBVIOUS
        <4>. QED BY <4>1, <3>2, <1>1, <1>2, Zenon
      <3>. QED BY <3>1, <3>3, <3>4, <2>2 DEF Stored
    <2>6. CASE ~(ch < n)
      <3>1. since'[ch] = blocks + 2
        BY <1>2, <2>6
      <3>. QED BY <3>1, <2>3, <1>1, <1>2 DEF Stored
    <2>. QED BY <2>4, <2>5, <2>6
  <1>. QED BY <1>4, <1>5 DEF SynthInv

(* A filter of silence.                                                    *)
LEMMA SilenceIsStored ==
    /\ SynthInit => SynthInv
    /\ SynthInv /\ mad_synth_init => SynthInv'
  <1>1. \A p, q \in Phase : /\ q % 2 \in Parity /\ q \div 2 \in Slot
                            /\ Age(p, q) \in 0 .. 15
    BY PhaseIsCell, Aging
  <1>2. 0 \in Phase
    BY DEF Phase
  <1>3. \A ch \in Channel, q \in Phase : Muted[ch][q % 2][q \div 2] = 0
    BY <1>1, <1>2 DEF Muted
  <1>4. Muted \in [Channel -> [Parity -> [Slot -> Nat]]]
    BY DEF Muted
  <1>5. ASSUME SynthInit PROVE SynthInv
    <2>1. SynthType
      BY <1>5, <1>2, <1>4 DEF SynthInit, SynthType
    <2>2. ASSUME NEW ch \in Channel, NEW q \in Phase PROVE Stored(ch, q)
      BY <1>5, <1>1, <1>2, <1>3 DEF SynthInit, Stored
    <2>. QED BY <2>1, <2>2 DEF SynthInv
  <1>6. ASSUME mad_synth_init PROVE SynthInv'
    <2>1. SynthType'
      BY <1>6, <1>2, <1>4 DEF mad_synth_init, SynthType
    <2>2. ASSUME NEW ch \in Channel, NEW q \in Phase PROVE Stored(ch, q)'
      BY <1>6, <1>1, <1>2, <1>3 DEF mad_synth_init, Stored
    <2>. QED BY <2>1, <2>2 DEF SynthInv
  <1>. QED BY <1>5, <1>6

(* The vectors of a block meet the entries of the window for their age.    *)
LEMMA BlockMeetsAge ==
    ASSUME SynthInv, NEW n \in 1 .. 2, SynthBlock(n), NEW ch \in Channel, ch < n
    PROVE  MeetsAge(ch, phase)
  <1>1. SynthInv'
    BY BlockStores
  <1>2. /\ phase \in Phase /\ blocks \in Nat /\ since[ch] \in Nat \ {0}
        /\ phase' = (phase + 1) % 16 /\ blocks' = blocks + 1 /\ since'[ch] = since[ch]
    BY DEF SynthInv, SynthType, SynthBlock
  <1>. SUFFICES ASSUME NEW parity \in Parity, NEW v \in Slot
                PROVE LET b == filter'[ch][parity][v] IN
                      /\ Tap(phase, parity, v) \in 0 .. 31
                      /\ Mirror(phase, parity, v) \in 0 .. 31
                      /\ blocks + 1 - (Tap(phase, parity, v) % 16) >= since[ch] =>
                             /\ HasAge(b, Tap(phase, parity, v))
                             /\ HasAge(b, 31 - Mirror(phase, parity, v))
                      /\ since[ch] = 1 /\ blocks + 1 - (Tap(phase, parity, v) % 16) < 1
                             => b = 0
    BY Zenon DEF MeetsAge
  <1>. DEFINE q == 2 * v + parity
              t == Tap(phase, parity, v)
              m == 31 - Mirror(phase, parity, v)
  <1>3. q \in Phase /\ q % 2 = parity /\ q \div 2 = v
    BY CellIsPhase
  <1>4. /\ t \in 0 .. 31 /\ Mirror(phase, parity, v) \in 0 .. 31 /\ m \in 0 .. 31
        /\ t % 16 = Age(phase', q) /\ m % 16 = Age(phase', q)
    BY <1>2, TapIsAge
  <1>. HIDE DEF q, t, m
  <1>5. /\ blocks + 1 - Age(phase', q) >= since[ch] =>
               filter'[ch][parity][v] = blocks + 1 - Age(phase', q)
        /\ since[ch] = 1 /\ blocks + 1 - Age(phase', q) < 1 => filter'[ch][parity][v] = 0
    <2>1. Stored(ch, q)'
      BY <1>1, <1>3 DEF SynthInv
    <2>2. /\ blocks' - Age(phase', q) >= since'[ch] =>
                 filter'[ch][q % 2][q \div 2] = blocks' - Age(phase', q)
          /\ since'[ch] = 1 /\ blocks' - Age(phase', q) < 1 =>
                 filter'[ch][q % 2][q \div 2] = 0
      BY <2>1 DEF Stored
    <2>3. filter'[ch][q % 2][q \div 2] = filter'[ch][parity][v]
      BY <1>3
    <2>4. Age(phase', q) \in 0 .. 15
      BY <1>2, <1>3, Aging
    <2>. QED BY <2>2, <2>3, <2>4, <1>2
  <1>6. HasAge(filter'[ch][parity][v], t) <=>
            filter'[ch][parity][v] = blocks + 1 - Age(phase', q)
    BY <1>4 DEF HasAge
  <1>7. HasAge(filter'[ch][parity][v], m) <=>
            filter'[ch][parity][v] = blocks + 1 - Age(phase', q)
    BY <1>4 DEF HasAge
  <1>. QED BY <1>4, <1>5, <1>6, <1>7 DEF t, m

-----------------------------------------------------------------------------
(* The filterbank alone: for every sequence of blocks, of one channel or   *)
(* two, and of new starts.                                                 *)
THEOREM FilterbankMeetsAge == SynthSpec => WindowMeetsAge
  <1>1. SynthInit => SynthInv
    BY SilenceIsStored
  <1>2. SynthInv /\ [SynthNext]_synthVars => SynthInv'
    <2>1. ASSUME SynthInv, UNCHANGED synthVars PROVE SynthInv'
      BY <2>1 DEF SynthInv, SynthType, Stored, synthVars
    <2>. QED BY <2>1, BlockStores, SilenceIsStored DEF SynthNext
  <1>3. SynthInv => EachBlockMeetsAge
    BY BlockMeetsAge DEF EachBlockMeetsAge
  <1>. QED BY <1>1, <1>2, <1>3, PTL DEF SynthSpec, WindowMeetsAge

-----------------------------------------------------------------------------
HeaderOK == header \in Formats

(* The decoder loop: the header is always one of the formats, and a step   *)
(* renders a block, starts the filterbank anew, or leaves it alone.        *)
LEMMA StepSynthesises ==
    ASSUME header \in Formats, [Next]_vars
    PROVE  header' \in Formats /\ [SynthNext]_synthVars
  <1>1. nch \in 1 .. 2
    BY DecoderAssumption DEF nch
  <1>2. CASE UNCHANGED vars
    BY <1>2 DEF vars, frame, synthVars
  <1>3. CASE mad_decoder_run \/ tskmad
    BY <1>3 DEF mad_decoder_run, tskmad, Start, SynthNext
  <1>4. CASE SynthFrame
    <2>1. header' \in Formats
      BY <1>4 DEF SynthFrame
    <2>2. SynthBlock(nch)
      BY <1>4 DEF SynthFrame
    <2>. QED BY <2>1, <2>2, <1>1 DEF SynthNext
  <1>5. ASSUME NEW f \in Flow,
               \/ \E gives \in BOOLEAN : Input(f, gives)
               \/ HeaderFunc(f) \/ ErrorFunc(f) \/ Filter(f) \/ Output(f)
        PROVE  header' \in Formats /\ [SynthNext]_synthVars
    BY <1>5 DEF Input, HeaderFunc, ErrorFunc, Filter, Output, frame, synthVars
  <1>6. CASE HeaderRead
    BY <1>6 DEF HeaderRead, synthVars
  <1>7. ASSUME NEW e, HeaderFailed(e) \/ DecodeHeaderFailed(e)
        PROVE  header' \in Formats /\ [SynthNext]_synthVars
    BY <1>7 DEF HeaderFailed, DecodeHeaderFailed, HeaderError, synthVars
  <1>8. ASSUME NEW e, LayerFailed(e)
        PROVE  header' \in Formats /\ [SynthNext]_synthVars
    BY <1>8 DEF LayerFailed, HasHeader, synthVars
  <1>9. CASE NoDecoder
    BY <1>9 DEF NoDecoder, HasHeader, synthVars
  <1>10. CASE LayerFailedLate
    BY <1>10 DEF LayerFailedLate, HasHeader, synthVars
  <1>11. CASE FrameDecoded
    BY <1>11 DEF FrameDecoded, HasHeader, synthVars
  <1>12. CASE error_default
    BY <1>12 DEF error_default, synthVars
  <1>. QED
    BY <1>2, <1>3, <1>4, <1>5, <1>6, <1>7, <1>8, <1>9, <1>10, <1>11, <1>12 DEF Next

(* The decoder implements the filterbank.                                  *)
THEOREM DecoderSynthesises == Spec => SynthSpec
  <1>1. Init => HeaderOK /\ SynthInit
    BY DEF Init, HeaderOK
  <1>2. HeaderOK /\ [Next]_vars => HeaderOK'
    BY StepSynthesises DEF HeaderOK
  <1>3. HeaderOK /\ [Next]_vars => [SynthNext]_synthVars
    BY StepSynthesises DEF HeaderOK
  <1>. QED BY <1>1, <1>2, <1>3, PTL DEF Spec, SynthSpec

(* Every block the decoder renders is put together rightly, whatever the   *)
(* callbacks return and whatever errors and formats the stream has.        *)
THEOREM DecoderMeetsAge == Spec => WindowMeetsAge
  BY DecoderSynthesises, FilterbankMeetsAge

-----------------------------------------------------------------------------
(* What waits in the overlap buffer, and how often each granule was heard. *)
Sample == [main : Nat, over : Nat, plays : Nat]

TypeOK ==
    /\ header \in Formats /\ shape \in Formats \cup {NoFormat}
    /\ s \in Nat /\ runs \in Nat /\ granules \in Nat
    /\ sbsample \in [Channel -> [Granule -> Sample]]
    /\ ovlbuf \in [Channel -> Nat] /\ last \in [Channel -> Nat]

(* Where the loop can be with what.                                        *)
Places ==
    /\ runs = 0 => pc = "idle" /\ ovlbuf = NoOverlap
    /\ error = "badcrc" => attached
    /\ pc = "error" => ~fresh
    /\ pc = "synth" => s <= ns /\ (mixed \/ shape = header)
    /\ pc = "filter" /\ fresh => mixed \/ shape = header

(* In a run of one format there is only silence where its frames have no   *)
(* granule.                                                                *)
Outside ==
    ~mixed => \A ch \in Channel, gr \in Granule :
        sbsample[ch][gr].main # 0 =>
            shape # NoFormat /\ ch < shape.nch /\ gr < shape.ngr

(* The granules of a decoded frame are joined to each other, and the last  *)
(* one to what waits.                                                      *)
Joined ==
    pc \in {"filter", "synth"} /\ fresh =>
        \A ch \in Channel : ch < nch =>
            /\ ovlbuf[ch] = sbsample[ch][header.ngr - 1].main
            /\ header.ngr = 2 => sbsample[ch][1].over = sbsample[ch][0].main

(* A decoded frame that is still to be heard overlaps what was heard.      *)
Follows ==
    /\ pc = "filter" \/ (pc = "synth" /\ s = 0)
    /\ fresh /\ clean /\ ~mixed
    => \A ch \in Channel : ch < nch => sbsample[ch][0].over = last[ch]

HeardLast ==
    pc = "synth" /\ s > 0 =>
        \A ch \in Channel : ch < nch =>
            last[ch] = sbsample[ch][IF s <= Blocks THEN 0 ELSE 1].main

(* What waits is the second half of the last granule of the frame at hand, *)
(* which may be a repeated one or silence ...                              *)
Waits ==
    clean /\ ~mixed =>
        /\ shape = NoFormat => ovlbuf = NoOverlap
        /\ \A ch \in Channel : shape # NoFormat /\ ch < shape.nch =>
               ovlbuf[ch] = sbsample[ch][shape.ngr - 1].main

(* ... and between two frames that of the granule heard last.              *)
Kept ==
    clean /\ ~mixed /\ pc \notin {"filter", "synth"} =>
        \A ch \in Channel : shape = NoFormat \/ ch < shape.nch =>
            ovlbuf[ch] = last[ch]

(* How often a granule may have been heard: once more after a bad frame,   *)
(* and once more when its blocks were reached.                             *)
Reached(gr) ==
    \/ pc \notin {"filter", "synth"}
    \/ pc = "synth" /\ s > (IF gr = 0 THEN 0 ELSE Blocks)

Times(gr) == (IF badLast THEN 1 ELSE 0) + (IF Reached(gr) THEN 1 ELSE 0)

Plays ==
    "error" \notin supplied /\ ~mixed =>
        \A ch \in Channel, gr \in Granule :
            sbsample[ch][gr].main # 0 => sbsample[ch][gr].plays <= Times(gr)

IInv == /\ TypeOK /\ Places /\ Outside /\ Joined /\ Follows /\ HeardLast
        /\ Waits /\ Kept /\ Plays

-----------------------------------------------------------------------------
LEMMA FormatFacts ==
    ASSUME NEW h \in Formats
    PROVE  h.nch \in 1 .. 2 /\ h.ngr \in 1 .. 2 /\ h # NoFormat
  BY DecoderAssumption

LEMMA BlocksIsNat == Blocks \in Nat /\ Blocks >= 1
  BY DecoderAssumption

LEMMA SilenceIsSample ==
    /\ NoSound \in [Channel -> [Granule -> Sample]]
    /\ NoOverlap \in [Channel -> Nat]
    /\ \A ch \in Channel : NoOverlap[ch] = 0
    /\ \A ch \in Channel, gr \in Granule : NoSound[ch][gr].main = 0
  BY DEF NoSound, NoOverlap, Sample

(* What is left of a frame when k granules of c channels were decoded.     *)
LEMMA DecodeLeaves ==
    ASSUME TypeOK, NEW c \in 1 .. 2, NEW k \in 1 .. 2, Decode(c, k)
    PROVE  /\ sbsample' \in [Channel -> [Granule -> Sample]]
           /\ ovlbuf' \in [Channel -> Nat]
           /\ \A ch \in Channel : ~(ch < c) => sbsample'[ch] = sbsample[ch]
           /\ \A ch \in Channel : ch < c =>
                 /\ sbsample'[ch][0] = [main |-> granules + 1, over |-> ovlbuf[ch], plays |-> 0]
                 /\ k = 1 => sbsample'[ch][1] = sbsample[ch][1]
                 /\ k = 2 => sbsample'[ch][1] =
                        [main |-> granules + 2, over |-> granules + 1, plays |-> 0]
                 /\ ovlbuf'[ch] = granules + k
  <1>1. /\ granules \in Nat /\ ovlbuf \in [Channel -> Nat]
        /\ sbsample \in [Channel -> [Granule -> Sample]]
    BY DEF TypeOK
  <1>. DEFINE one == DecodeGranule(sbsample, ovlbuf, c, 0, granules + 1)
              kept == KeepOverlap(ovlbuf, c, granules + 1)
              two == DecodeGranule(one, kept, c, 1, granules + 2)
  <1>2. /\ 0 \in Granule /\ 1 \in Granule
        /\ \A gr \in Granule : gr = 0 \/ gr = 1
    BY DEF Granule
  <1>3. \A ch \in Channel : /\ sbsample[ch] \in [Granule -> Sample]
                            /\ ovlbuf[ch] \in Nat
    BY <1>1
  <1>4. /\ \A m, o \in Nat : [main |-> m, over |-> o, plays |-> 0] \in Sample
    BY DEF Sample
  <1>5. /\ one \in [Channel -> [Granule -> Sample]]
        /\ \A ch \in Channel :
              IF ch < c
              THEN /\ one[ch][0] = [main |-> granules + 1, over |-> ovlbuf[ch], plays |-> 0]
                   /\ one[ch][1] = sbsample[ch][1]
              ELSE one[ch] = sbsample[ch]
    <2>1. ASSUME NEW ch \in Channel
          PROVE  /\ one[ch] \in [Granule -> Sample]
                 /\ IF ch < c
                    THEN /\ one[ch][0] = [main |-> granules + 1, over |-> ovlbuf[ch], plays |-> 0]
                         /\ one[ch][1] = sbsample[ch][1]
                    ELSE one[ch] = sbsample[ch]
      <3>. DEFINE new == [main |-> granules + 1, over |-> ovlbuf[ch], plays |-> 0]
      <3>1. one[ch] = IF ch < c THEN [sbsample[ch] EXCEPT ![0] = new] ELSE sbsample[ch]
        BY DEF DecodeGranule
      <3>2. new \in Sample
        BY <1>1, <1>3, <1>4
      <3>. HIDE DEF new, one
      <3>3. CASE ch < c
        BY <3>1, <3>2, <3>3, <1>2, <1>3 DEF new
      <3>4. CASE ~(ch < c)
        BY <3>1, <3>4, <1>3
      <3>. QED BY <3>3, <3>4
    <2>2. one = [ch \in Channel |-> one[ch]]
      BY DEF DecodeGranule
    <2>. HIDE DEF one
    <2>3. one \in [Channel -> [Granule -> Sample]]
      BY <2>1, <2>2
    <2>. QED BY <2>1, <2>3
  <1>6. /\ kept \in [Channel -> Nat]
        /\ \A ch \in Channel : ch < c => kept[ch] = granules + 1
    BY <1>1 DEF KeepOverlap
  <1>. HIDE DEF one, kept
  <1>7. /\ two \in [Channel -> [Granule -> Sample]]
        /\ \A ch \in Channel :
              IF ch < c
              THEN /\ two[ch][1] = [main |-> granules + 2, over |-> granules + 1, plays |-> 0]
                   /\ two[ch][0] = one[ch][0]
              ELSE two[ch] = one[ch]
    <2>1. ASSUME NEW ch \in Channel
          PROVE  /\ two[ch] \in [Granule -> Sample]
                 /\ IF ch < c
                    THEN /\ two[ch][1] = [main |-> granules + 2, over |-> granules + 1, plays |-> 0]
                         /\ two[ch][0] = one[ch][0]
                    ELSE two[ch] = one[ch]
      <3>. DEFINE new == [main |-> granules + 2, over |-> kept[ch], plays |-> 0]
      <3>1. two[ch] = IF ch < c THEN [one[ch] EXCEPT ![1] = new] ELSE one[ch]
        BY DEF DecodeGranule
      <3>2. new \in Sample
        BY <1>1, <1>6, <1>4
      <3>3. one[ch] \in [Granule -> Sample]
        BY <1>5
      <3>4. ch < c => new = [main |-> granules + 2, over |-> granules + 1, plays |-> 0]
        BY <1>6
      <3>. HIDE DEF new, two
      <3>5. CASE ch < c
        BY <3>1, <3>2, <3>3, <3>4, <3>5, <1>2
      <3>6. CASE ~(ch < c)
        BY <3>1, <3>3, <3>6
      <3>. QED BY <3>5, <3>6
    <2>2. two = [ch \in Channel |-> two[ch]]
      BY DEF DecodeGranule
    <2>. HIDE DEF two
    <2>3. two \in [Channel -> [Granule -> Sample]]
      BY <2>1, <2>2
    <2>. QED BY <2>1, <2>3
  <1>8. /\ sbsample' = IF k = 1 THEN one ELSE two
        /\ ovlbuf' = KeepOverlap(ovlbuf, c, granules + k)
    BY Zenon DEF Decode, one, two, kept
  <1>. HIDE DEF two
  <1>9. /\ ovlbuf' \in [Channel -> Nat]
        /\ \A ch \in Channel : ch < c => ovlbuf'[ch] = granules + k
    BY <1>1, <1>8 DEF KeepOverlap
  <1>10. CASE k = 1
    <2>1. sbsample' = one /\ k # 2
      BY <1>8, <1>10
    <2>2. \A ch \in Channel :
             /\ ~(ch < c) => one[ch] = sbsample[ch]
             /\ ch < c => /\ one[ch][1] = sbsample[ch][1]
                          /\ one[ch][0] = [main |-> granules + 1, over |-> ovlbuf[ch], plays |-> 0]
      BY <1>5, Zenon
    <2>. QED BY <1>5, <1>9, <2>1, <2>2, Zenon
  <1>11. CASE k = 2
    <2>1. sbsample' = two /\ k # 1
      BY <1>8, <1>11
    <2>2. \A ch \in Channel :
             /\ ~(ch < c) => two[ch] = sbsample[ch]
             /\ ch < c => /\ two[ch][0] = [main |-> granules + 1, over |-> ovlbuf[ch], plays |-> 0]
                          /\ two[ch][1] = [main |-> granules + 2, over |-> granules + 1, plays |-> 0]
      BY <1>5, <1>7, Zenon
    <2>. QED BY <1>7, <1>9, <2>1, <2>2, Zenon
  <1>. QED BY <1>10, <1>11

-----------------------------------------------------------------------------
(* Steps that touch neither samples nor what is heard.                     *)
LEMMA QuietKeeps ==
    ASSUME IInv, header' \in Formats,
           UNCHANGED <<sbsample, ovlbuf, badLast, supplied, s, granules, runs,
                       last, clean, shape, mixed>>,
           pc \notin {"filter", "synth"}, pc' \notin {"filter", "synth"},
           pc # "idle",
           attached => attached',
           error' = "badcrc" => attached',
           pc' = "error" => fresh' = FALSE
    PROVE  IInv'
  <1>1. TypeOK' /\ Places'
    BY DEF IInv, TypeOK, Places
  <1>2. Outside' /\ Waits'
    BY DEF IInv, Outside, Waits
  <1>3. Joined' /\ Follows' /\ HeardLast'
    BY DEF Joined, Follows, HeardLast
  <1>4. Kept'
    BY DEF IInv, Kept
  <1>5. Plays'
    BY DEF IInv, Plays, Times, Reached
  <1>. QED BY <1>1, <1>2, <1>3, <1>4, <1>5 DEF IInv

(* A new run: what waits is of the run before, unless this is the first.   *)
LEMMA StartKeeps ==
    ASSUME IInv, Start, pc \in {"idle", "done"}
    PROVE  IInv'
  <1>1. /\ error' = "none" /\ header' \in Formats
        /\ sbsample' = NoSound /\ ovlbuf' = ovlbuf /\ s' = 0 /\ fresh' = FALSE
        /\ last' = NoOverlap /\ clean' = (runs = 0) /\ shape' = NoFormat /\ mixed' = FALSE
        /\ pc' = "input" /\ runs' = runs + 1 /\ granules' = granules
    BY DEF Start, mad_frame_mute
  <1>2. TypeOK' /\ Places'
    <2>1. runs' \in Nat /\ runs' # 0
      BY <1>1 DEF IInv, TypeOK
    <2>. QED BY <1>1, <2>1, SilenceIsSample DEF IInv, TypeOK, Places
  <1>3. Outside'
    BY <1>1, SilenceIsSample DEF Outside
  <1>4. Joined' /\ Follows' /\ HeardLast'
    BY <1>1 DEF Joined, Follows, HeardLast
  <1>5. clean' => ovlbuf' = NoOverlap
    BY <1>1 DEF IInv, Places
  <1>6. Waits' /\ Kept'
    BY <1>1, <1>5 DEF Waits, Kept
  <1>7. Plays'
    BY <1>1, SilenceIsSample DEF Plays
  <1>. QED BY <1>2, <1>3, <1>4, <1>6, <1>7 DEF IInv

(* The frame at hand is replaced by a new one.                             *)
LEMMA FrameDecodedKeeps ==
    ASSUME IInv, FrameDecoded
    PROVE  IInv'
  <1>. DEFINE h == header'
  <1>1. /\ h \in Formats /\ attached' = TRUE /\ Decode(h.nch, h.ngr)
        /\ granules' = granules + 2 /\ badLast' = FALSE /\ pc' = "filter" /\ fresh' = TRUE
        /\ Uses(h)
        /\ UNCHANGED <<supplied, runs, s, last, clean>>
        /\ pc \in {"decode", "loop"}
    BY DEF FrameDecoded, HasHeader, Decodes, Goto, run, IInv, TypeOK
  <1>2. h.nch \in 1 .. 2 /\ h.ngr \in 1 .. 2 /\ h # NoFormat
    BY <1>1, FormatFacts
  <1>. HIDE DEF h
  <1>3. /\ granules \in Nat /\ runs \in Nat /\ runs # 0
        /\ shape \in Formats \cup {NoFormat}
    BY <1>1 DEF IInv, TypeOK, Places
  <1>4. /\ sbsample' \in [Channel -> [Granule -> Sample]]
        /\ ovlbuf' \in [Channel -> Nat]
        /\ \A ch \in Channel : ~(ch < h.nch) => sbsample'[ch] = sbsample[ch]
        /\ \A ch \in Channel : ch < h.nch =>
              /\ sbsample'[ch][0] = [main |-> granules + 1, over |-> ovlbuf[ch], plays |-> 0]
              /\ h.ngr = 1 => sbsample'[ch][1] = sbsample[ch][1]
              /\ h.ngr = 2 => sbsample'[ch][1] =
                     [main |-> granules + 2, over |-> granules + 1, plays |-> 0]
              /\ ovlbuf'[ch] = granules + h.ngr
    <2>1. TypeOK
      BY DEF IInv
    <2>. QED BY <1>1, <1>2, <2>1, DecodeLeaves
  <1>5. /\ shape' = h \/ mixed'
        /\ ~mixed' => ~mixed /\ shape \in {NoFormat, h} /\ shape' = h
        /\ shape' \in Formats \cup {NoFormat}
    BY <1>1, <1>3 DEF Uses
  <1>6. TypeOK' /\ Places'
    <2>1. TypeOK'
      BY <1>1, <1>3, <1>4, <1>5 DEF IInv, TypeOK, h
    <2>2. Places'
      BY <1>1, <1>3, <1>5 DEF Places, h
    <2>. QED BY <2>1, <2>2
  <1>7. ASSUME NEW ch \in Channel, ch < h.nch
        PROVE  /\ ovlbuf'[ch] = sbsample'[ch][h.ngr - 1].main
               /\ h.ngr = 2 => sbsample'[ch][1].over = sbsample'[ch][0].main
               /\ sbsample'[ch][0].over = ovlbuf[ch]
               /\ \A gr \in Granule : gr < h.ngr => sbsample'[ch][gr].plays = 0
    <2>1. CASE h.ngr = 1
      <3>1. h.ngr - 1 = 0 /\ h.ngr # 2 /\ \A gr \in Granule : gr < h.ngr => gr = 0
        BY <2>1 DEF Granule
      <3>2. /\ sbsample'[ch][0] = [main |-> granules + 1, over |-> ovlbuf[ch], plays |-> 0]
            /\ ovlbuf'[ch] = granules + 1
        BY <1>4, <1>7, <2>1
      <3>. QED BY <3>1, <3>2
    <2>2. CASE h.ngr = 2
      <3>1. h.ngr - 1 = 1 /\ \A gr \in Granule : gr = 0 \/ gr = 1
        BY <2>2 DEF Granule
      <3>2. /\ sbsample'[ch][0] = [main |-> granules + 1, over |-> ovlbuf[ch], plays |-> 0]
            /\ sbsample'[ch][1] =
                   [main |-> granules + 2, over |-> granules + 1, plays |-> 0]
            /\ ovlbuf'[ch] = granules + 2
        BY <1>4, <1>7, <2>2
      <3>. QED BY <3>1, <3>2
    <2>. QED BY <1>2, <2>1, <2>2
  <1>8. Joined'
    BY <1>1, <1>7 DEF Joined, h, nch
  <1>9. Follows'
    <2>1. ASSUME clean', ~mixed', NEW ch \in Channel, ch < h.nch
          PROVE  sbsample'[ch][0].over = last'[ch]
      <3>1. ovlbuf[ch] = last[ch]
        BY <1>1, <1>5, <2>1 DEF IInv, Kept
      <3>. QED BY <1>1, <1>7, <2>1, <3>1
    <2>. QED BY <2>1 DEF Follows, h, nch
  <1>10. HeardLast' /\ Kept'
    BY <1>1 DEF HeardLast, Kept
  <1>11. Waits'
    <2>1. ASSUME ~mixed', NEW ch \in Channel, ch < shape'.nch
          PROVE  ovlbuf'[ch] = sbsample'[ch][shape'.ngr - 1].main
      BY <1>5, <1>7, <2>1
    <2>. QED BY <1>2, <1>5, <2>1 DEF Waits
  <1>12. ASSUME ~mixed', NEW ch \in Channel, NEW gr \in Granule, sbsample'[ch][gr].main # 0
         PROVE  ch < h.nch /\ gr < h.ngr
    <2>1. CASE ~(ch < h.nch)
      <3>1. sbsample[ch][gr].main # 0
        BY <1>4, <1>12, <2>1
      <3>. QED BY <1>5, <1>12, <2>1, <3>1 DEF IInv, Outside
    <2>2. CASE ch < h.nch /\ ~(gr < h.ngr)
      <3>1. gr = 1 /\ h.ngr = 1
        BY <1>2, <2>2 DEF Granule
      <3>2. sbsample'[ch][gr] = sbsample[ch][gr]
        BY <1>4, <2>2, <3>1
      <3>. QED BY <1>5, <1>12, <2>2, <3>2 DEF IInv, Outside
    <2>. QED BY <2>1, <2>2
  <1>13. Outside'
    BY <1>2, <1>5, <1>12 DEF Outside
  <1>14. Plays'
    <2>1. \A gr \in Granule : Times(gr)' \in Nat
      BY <1>1 DEF Times
    <2>2. ASSUME ~mixed', NEW ch \in Channel, NEW gr \in Granule, sbsample'[ch][gr].main # 0
          PROVE  sbsample'[ch][gr].plays <= Times(gr)'
      <3>1. sbsample'[ch][gr].plays = 0
        BY <1>7, <1>12, <2>2
      <3>. QED BY <2>1, <3>1
    <2>. QED BY <2>2 DEF Plays
  <1>. QED BY <1>6, <1>8, <1>9, <1>10, <1>11, <1>13, <1>14 DEF IInv

(* Only its first granule is: the chain is broken, and it will not play.   *)
LEMMA LateKeeps ==
    ASSUME IInv, LayerFailedLate
    PROVE  IInv'
  <1>. DEFINE h == header'
  <1>1. /\ h \in Formats /\ h.ngr = 2 /\ attached' = TRUE /\ Decode(h.nch, 1)
        /\ granules' = granules + 2 /\ pc' = "error" /\ fresh' = FALSE /\ clean' = FALSE
        /\ Uses(h)
        /\ UNCHANGED <<supplied, runs, s, last, badLast>>
        /\ pc \in {"decode", "loop"}
    BY DEF LayerFailedLate, HasHeader, Decodes, Goto, Failed, Recoverable, run, IInv, TypeOK
  <1>2. h.nch \in 1 .. 2 /\ h # NoFormat
    BY <1>1, FormatFacts
  <1>. HIDE DEF h
  <1>3. /\ granules \in Nat /\ runs \in Nat /\ runs # 0
        /\ shape \in Formats \cup {NoFormat}
    BY <1>1 DEF IInv, TypeOK, Places
  <1>4. /\ sbsample' \in [Channel -> [Granule -> Sample]]
        /\ ovlbuf' \in [Channel -> Nat]
        /\ \A ch \in Channel : ~(ch < h.nch) => sbsample'[ch] = sbsample[ch]
        /\ \A ch \in Channel : ch < h.nch =>
              /\ sbsample'[ch][0] = [main |-> granules + 1, over |-> ovlbuf[ch], plays |-> 0]
              /\ sbsample'[ch][1] = sbsample[ch][1]
    <2>1. TypeOK /\ 1 \in 1 .. 2 /\ Decode(h.nch, 1)
      BY <1>1 DEF IInv
    <2>2. /\ sbsample' \in [Channel -> [Granule -> Sample]]
          /\ ovlbuf' \in [Channel -> Nat]
          /\ \A ch \in Channel : ~(ch < h.nch) => sbsample'[ch] = sbsample[ch]
          /\ \A ch \in Channel : ch < h.nch =>
                /\ sbsample'[ch][0] = [main |-> granules + 1, over |-> ovlbuf[ch], plays |-> 0]
                /\ 1 = 1 => sbsample'[ch][1] = sbsample[ch][1]
      BY <1>2, <2>1, DecodeLeaves, Zenon
    <2>. QED BY <2>2, Zenon
  <1>5. /\ ~mixed' => ~mixed /\ shape \in {NoFormat, h} /\ shape' = h
        /\ shape' \in Formats \cup {NoFormat}
    BY <1>1, <1>3 DEF Uses
  <1>6. TypeOK' /\ Places'
    <2>1. TypeOK'
      BY <1>1, <1>3, <1>4, <1>5 DEF IInv, TypeOK, h
    <2>2. Places'
      BY <1>1, <1>3 DEF Places
    <2>. QED BY <2>1, <2>2
  <1>7. Joined' /\ Follows' /\ HeardLast' /\ Waits' /\ Kept'
    BY <1>1 DEF Joined, Follows, HeardLast, Waits, Kept
  <1>8. ASSUME NEW ch \in Channel, NEW gr \in Granule
        PROVE  \/ sbsample'[ch][gr] = sbsample[ch][gr]
               \/ ch < h.nch /\ gr = 0 /\ sbsample'[ch][gr].plays = 0
    <2>1. gr = 0 \/ gr = 1
      BY DEF Granule
    <2>2. CASE ~(ch < h.nch) \/ gr = 1
      BY <1>4, <2>1, <2>2
    <2>3. CASE ch < h.nch /\ gr = 0
      <3>1. sbsample'[ch][0] = [main |-> granules + 1, over |-> ovlbuf[ch], plays |-> 0]
        BY <1>4, <2>3
      <3>. QED BY <2>3, <3>1
    <2>. QED BY <2>1, <2>2, <2>3
  <1>9. Outside'
    <2>1. ASSUME ~mixed', NEW ch \in Channel, NEW gr \in Granule, sbsample'[ch][gr].main # 0
          PROVE  ch < h.nch /\ gr < h.ngr
      <3>1. CASE sbsample'[ch][gr] = sbsample[ch][gr]
        <4>1. sbsample[ch][gr].main # 0 /\ ~mixed
          BY <1>5, <2>1, <3>1
        <4>2. shape # NoFormat /\ ch < shape.nch /\ gr < shape.ngr
          BY <4>1 DEF IInv, Outside
        <4>. QED BY <1>5, <2>1, <4>2
      <3>2. CASE ch < h.nch /\ gr = 0
        BY <1>1, <3>2
      <3>. QED BY <1>8, <3>1, <3>2
    <2>. QED BY <1>2, <1>5, <2>1 DEF Outside
  <1>10. Plays'
    <2>1. \A gr \in Granule : Times(gr)' = Times(gr) /\ Times(gr) \in Nat
      BY <1>1 DEF Times, Reached
    <2>2. ASSUME "error" \notin supplied, ~mixed',
                 NEW ch \in Channel, NEW gr \in Granule, sbsample'[ch][gr].main # 0
          PROVE  sbsample'[ch][gr].plays <= Times(gr)'
      <3>1. CASE sbsample'[ch][gr] = sbsample[ch][gr]
        <4>1. sbsample[ch][gr].main # 0 /\ ~mixed
          BY <1>5, <2>2, <3>1
        <4>2. sbsample[ch][gr].plays <= Times(gr)
          BY <2>2, <4>1 DEF IInv, Plays
        <4>. QED BY <2>1, <3>1, <4>2
      <3>2. CASE sbsample'[ch][gr].plays = 0
        BY <2>1, <3>2
      <3>. QED BY <1>8, <3>1, <3>2
    <2>. QED BY <1>1, <2>2 DEF Plays
  <1>. QED BY <1>6, <1>7, <1>9, <1>10 DEF IInv

(* With error_default a bad frame is the one before it again, or silence.  *)
LEMMA DefaultKeeps ==
    ASSUME IInv, error_default
    PROVE  IInv'
  <1>1. /\ pc \in {"error", "headerError"}
        /\ badLast' = (badLast \/ error = "badcrc")
        /\ pc' = (IF error = "badcrc" /\ pc = "error" THEN "filter" ELSE "loop")
        /\ clean' = (clean /\ pc = "error")
        /\ UNCHANGED <<supplied, error, header, attached, runs, s, granules, fresh, last,
                       shape, mixed>>
    BY DEF error_default, AfterError, Goto, run
  <1>2. \/ error = "badcrc" /\ badLast /\ sbsample' = NoSound /\ ovlbuf' = NoOverlap
        \/ ~(error = "badcrc" /\ badLast) /\ sbsample' = sbsample /\ ovlbuf' = ovlbuf
    BY DEF error_default, mad_frame_mute, IInv, Places
  <1>3. pc = "error" => ~fresh
    BY DEF IInv, Places
  <1>4. runs # 0
    BY <1>1 DEF IInv, Places
  <1>5. TypeOK' /\ Places'
    <2>1. TypeOK'
      BY <1>1, <1>2, SilenceIsSample DEF IInv, TypeOK
    <2>2. Places'
      BY <1>1, <1>3, <1>4 DEF IInv, Places
    <2>. QED BY <2>1, <2>2
  <1>6. Outside'
    BY <1>1, <1>2, SilenceIsSample DEF IInv, Outside
  <1>7. Joined' /\ Follows' /\ HeardLast'
    BY <1>1, <1>3 DEF Joined, Follows, HeardLast
  <1>8. Waits'
    <2>1. shape \in Formats \cup {NoFormat}
      BY DEF IInv, TypeOK
    <2>2. shape # NoFormat => shape.ngr - 1 \in Granule
      BY <2>1, FormatFacts DEF Granule
    <2>. QED BY <1>1, <1>2, <2>2, SilenceIsSample DEF IInv, Waits
  <1>9. Kept'
    <2>1. CASE pc' = "filter"
      BY <2>1 DEF Kept
    <2>2. CASE pc = "headerError"
      BY <1>1, <2>2 DEF Kept
    <2>3. CASE pc = "error" /\ pc' = "loop"
      <3>1. ovlbuf' = ovlbuf
        BY <1>1, <1>2, <2>3
      <3>. QED BY <1>1, <2>3, <3>1 DEF IInv, Kept
    <2>. QED BY <1>1, <2>1, <2>2, <2>3
  <1>10. Plays'
    <2>1. CASE error = "badcrc" /\ badLast
      <3>1. sbsample' = NoSound
        BY <1>2, <2>1
      <3>. QED BY <3>1, SilenceIsSample DEF Plays
    <2>2. CASE ~(error = "badcrc" /\ badLast)
      <3>1. \A gr \in Granule : Times(gr)' >= Times(gr) /\ Times(gr)' \in Nat /\ Times(gr) \in Nat
        <4>. SUFFICES ASSUME NEW gr \in Granule
                      PROVE  Times(gr)' >= Times(gr) /\ Times(gr)' \in Nat /\ Times(gr) \in Nat
          OBVIOUS
        <4>1. Reached(gr) /\ (pc' # "filter" => Reached(gr)')
          BY <1>1 DEF Reached
        <4>2. CASE error = "badcrc"
          <5>1. ~badLast /\ badLast'
            BY <1>1, <2>2, <4>2
          <5>2. Times(gr) = 1
            BY <4>1, <5>1 DEF Times
          <5>3. Times(gr)' = 1 + (IF Reached(gr)' THEN 1 ELSE 0)
            BY <5>1 DEF Times
          <5>. QED BY <5>2, <5>3
        <4>3. CASE error # "badcrc"
          <5>1. Reached(gr)' /\ badLast' = (badLast \/ FALSE)
            BY <1>1, <4>1, <4>3
          <5>2. CASE badLast
            <6>1. badLast'
              BY <5>1, <5>2
            <6>. QED BY <4>1, <5>1, <5>2, <6>1 DEF Times
          <5>3. CASE ~badLast
            <6>1. ~badLast'
              BY <5>1, <5>3
            <6>. QED BY <4>1, <5>1, <5>3, <6>1 DEF Times
          <5>. QED BY <5>2, <5>3
        <4>. QED BY <4>2, <4>3
      <3>2. ASSUME "error" \notin supplied, ~mixed,
                   NEW ch \in Channel, NEW gr \in Granule, sbsample[ch][gr].main # 0
            PROVE  sbsample[ch][gr].plays <= Times(gr)'
        <4>1. sbsample[ch][gr].plays <= Times(gr)
          BY <3>2 DEF IInv, Plays
        <4>2. sbsample[ch][gr].plays \in Nat
          BY DEF IInv, TypeOK, Sample
        <4>. QED BY <3>1, <4>1, <4>2
      <3>3. sbsample' = sbsample
        BY <1>2, <2>2
      <3>. QED BY <1>1, <3>2, <3>3 DEF Plays
    <2>. QED BY <2>1, <2>2
  <1>. QED BY <1>5, <1>6, <1>7, <1>8, <1>9, <1>10 DEF IInv

(* The callback may have a bad frame played as it is.                      *)
LEMMA ErrorFuncKeeps ==
    ASSUME IInv, NEW f \in Flow, ErrorFunc(f)
    PROVE  IInv'
  <1>1. /\ pc \in {"error", "headerError"} /\ "error" \in supplied
        /\ pc' \in {"done", "loop"} \/ (pc' = "filter" /\ pc = "error")
        /\ UNCHANGED <<supplied, error, header, attached, sbsample, ovlbuf, badLast, runs, s,
                       granules, fresh, last, clean, shape, mixed>>
    BY DEF ErrorFunc, AfterError, Goto, Done, Flow, run, frame, heard
  <1>2. runs # 0
    BY <1>1 DEF IInv, Places
  <1>3. pc' = "filter" => ~fresh
    BY <1>1 DEF IInv, Places
  <1>4. TypeOK' /\ Places'
    BY <1>1, <1>2, <1>3 DEF IInv, TypeOK, Places
  <1>5. Outside' /\ Waits'
    BY <1>1 DEF IInv, Outside, Waits
  <1>6. Joined' /\ Follows' /\ HeardLast'
    BY <1>1, <1>3 DEF Joined, Follows, HeardLast
  <1>7. Kept'
    BY <1>1 DEF IInv, Kept
  <1>8. Plays'
    BY <1>1 DEF Plays
  <1>. QED BY <1>4, <1>5, <1>6, <1>7, <1>8 DEF IInv

(* The frame is about to be heard, or it never is.                         *)
LEMMA FilterKeeps ==
    ASSUME IInv, NEW f \in Flow, Filter(f)
    PROVE  IInv'
  <1>1. /\ pc = "filter"
        /\ UNCHANGED <<supplied, error, header, attached, sbsample, ovlbuf, badLast, runs,
                       granules, fresh, last>>
        /\ \/ /\ pc' = "synth" /\ s' = 0 /\ Uses(header) /\ clean' = clean
           \/ /\ pc' \in {"loop", "done"} /\ clean' = FALSE
              /\ s' = s /\ shape' = shape /\ mixed' = mixed
    BY DEF Filter, Goto, Done, Flow, run, frame
  <1>2. runs # 0 /\ header \in Formats /\ shape \in Formats \cup {NoFormat}
        /\ header # NoFormat /\ header.ngr \in 1 .. 2 /\ nch \in 1 .. 2
    BY <1>1, FormatFacts DEF IInv, Places, TypeOK, nch
  <1>3. CASE pc' # "synth"
    <2>1. /\ pc' \in {"loop", "done"} /\ clean' = FALSE
          /\ s' = s /\ shape' = shape /\ mixed' = mixed
      BY <1>1, <1>3
    <2>2. TypeOK' /\ Places'
      BY <1>1, <1>2, <2>1 DEF IInv, TypeOK, Places
    <2>3. Outside' /\ Waits' /\ Kept'
      BY <1>1, <2>1 DEF IInv, Outside, Waits, Kept
    <2>4. Joined' /\ Follows' /\ HeardLast'
      BY <2>1 DEF Joined, Follows, HeardLast
    <2>5. Plays'
      <3>1. \A gr \in Granule : Times(gr)' >= Times(gr) /\ Times(gr)' \in Nat /\ Times(gr) \in Nat
        BY <1>1, <2>1 DEF Times, Reached
      <3>2. ASSUME "error" \notin supplied, ~mixed,
                   NEW ch \in Channel, NEW gr \in Granule, sbsample[ch][gr].main # 0
            PROVE  sbsample[ch][gr].plays <= Times(gr)'
        <4>1. sbsample[ch][gr].plays <= Times(gr)
          BY <3>2 DEF IInv, Plays
        <4>2. sbsample[ch][gr].plays \in Nat
          BY DEF IInv, TypeOK, Sample
        <4>. QED BY <3>1, <4>1, <4>2
      <3>. QED BY <1>1, <2>1, <3>2 DEF Plays
    <2>. QED BY <2>2, <2>3, <2>4, <2>5 DEF IInv
  <1>4. CASE pc' = "synth"
    <2>1. s' = 0 /\ Uses(header) /\ clean' = clean
      BY <1>1, <1>4
    <2>2. /\ shape' = header \/ mixed'
          /\ ~mixed' => ~mixed /\ shape \in {NoFormat, header} /\ shape' = header
          /\ shape' \in Formats \cup {NoFormat}
      BY <1>2, <2>1 DEF Uses
    <2>3. ns' \in Nat
      <3>1. Blocks * header.ngr \in Nat
        BY <1>2, BlocksIsNat
      <3>. QED BY <1>1, <3>1 DEF ns
    <2>4. TypeOK' /\ Places'
      BY <1>1, <1>2, <1>4, <2>1, <2>2, <2>3 DEF IInv, TypeOK, Places
    <2>5. Outside'
      BY <1>1, <1>2, <2>2 DEF IInv, Outside
    <2>6. Joined' /\ HeardLast' /\ Kept'
      BY <1>1, <1>4, <2>1 DEF IInv, Joined, HeardLast, Kept, nch
    <2>7. Follows'
      BY <1>1, <1>4, <2>1, <2>2 DEF IInv, Follows, nch
    <2>8. Waits'
      <3>1. ASSUME clean', ~mixed', NEW ch \in Channel, ch < header.nch
            PROVE  ovlbuf[ch] = sbsample[ch][header.ngr - 1].main
        <4>1. CASE shape = NoFormat
          <5>1. ovlbuf[ch] = 0
            BY <2>1, <2>2, <3>1, <4>1, SilenceIsSample DEF IInv, Waits
          <5>2. header.ngr - 1 \in Granule
            BY <1>2 DEF Granule
          <5>3. sbsample[ch][header.ngr - 1].main = 0
            BY <2>2, <3>1, <4>1, <5>2 DEF IInv, Outside
          <5>. QED BY <5>1, <5>3
        <4>2. CASE shape = header
          BY <1>2, <2>1, <2>2, <3>1, <4>2 DEF IInv, Waits
        <4>. QED BY <2>2, <3>1, <4>1, <4>2
      <3>. QED BY <1>1, <1>2, <2>2, <3>1 DEF Waits
    <2>9. Plays'
      <3>1. \A gr \in Granule : Times(gr)' = Times(gr)
        BY <1>1, <1>4, <2>1, BlocksIsNat DEF Times, Reached
      <3>. QED BY <1>1, <2>2, <3>1 DEF IInv, Plays
    <2>. QED BY <2>4, <2>5, <2>6, <2>7, <2>8, <2>9 DEF IInv
  <1>. QED BY <1>3, <1>4

-----------------------------------------------------------------------------
(* Blocks of the first and of the second granule.                          *)
LEMMA BlockPlace ==
    ASSUME NEW b \in Nat, b >= 1, NEW n \in Nat, n < 2 * b
    PROVE  /\ n < b => n \div b = 0 /\ n % b = n
           /\ n >= b => n \div b = 1 /\ n % b = n - b
  <1>1. CASE n < b
    BY <1>1
  <1>2. CASE n >= b
    <2>1. PICK m \in 0 .. b - 1 : n = b + m
      <3>1. n - b \in 0 .. b - 1 /\ n = b + (n - b)
        BY <1>2
      <3>. QED BY <3>1
    <2>2. n = 1 * b + m
      BY <2>1
    <2>. QED BY <1>2, <2>1, <2>2
  <1>. QED BY <1>1, <1>2

(* A block: the granule is heard from its first block on.                  *)
LEMMA SynthFrameKeeps ==
    ASSUME IInv, SynthFrame
    PROVE  IInv'
  <1>1. /\ pc = "synth" /\ s < ns /\ s' = s + 1
        /\ UNCHANGED <<supplied, pc, error, header, attached, ovlbuf, badLast, runs, granules,
                       fresh, shape, mixed>>
    BY DEF SynthFrame, run
  <1>2. /\ runs # 0 /\ header \in Formats /\ s \in Nat /\ (mixed \/ shape = header)
        /\ header # NoFormat /\ header.ngr \in 1 .. 2 /\ header.nch \in 1 .. 2
        /\ Blocks \in Nat /\ Blocks >= 1 /\ nch = header.nch /\ nch' = header.nch
    BY <1>1, FormatFacts, BlocksIsNat DEF IInv, Places, TypeOK, nch
  <1>3. /\ header.ngr = 1 => ns = Blocks
        /\ header.ngr = 2 => ns = Blocks + Blocks
        /\ ns' = ns
    BY <1>1, <1>2 DEF ns
  <1>4. ns \in Nat /\ s < 2 * Blocks
    BY <1>1, <1>2, <1>3
  <1>. HIDE DEF nch, ns
  <1>5. /\ s < Blocks => s \div Blocks = 0 /\ s % Blocks = s
        /\ s >= Blocks => s \div Blocks = 1 /\ s % Blocks = s - Blocks
    BY <1>2, <1>4, BlockPlace
  <1>6. CASE ~Begins
    <2>1. last' = last /\ clean' = clean /\ sbsample' = sbsample
      BY <1>6 DEF SynthFrame
    <2>2. s # 0 /\ s # Blocks
      BY <1>2, <1>5, <1>6 DEF Begins
    <2>3. TypeOK' /\ Places'
      BY <1>1, <1>2, <1>3, <1>4, <2>1 DEF IInv, TypeOK, Places
    <2>4. Outside' /\ Waits' /\ Kept'
      BY <1>1, <2>1 DEF IInv, Outside, Waits, Kept
    <2>5. Joined' /\ Follows'
      BY <1>1, <1>2, <2>1 DEF IInv, Joined, Follows
    <2>6. HeardLast'
      BY <1>1, <1>2, <2>1, <2>2 DEF IInv, HeardLast
    <2>7. Plays'
      <3>1. \A gr \in Granule : Times(gr)' = Times(gr)
        BY <1>1, <1>2, <2>2 DEF Times, Reached
      <3>. QED BY <1>1, <2>1, <3>1 DEF IInv, Plays
    <2>. QED BY <2>3, <2>4, <2>5, <2>6, <2>7 DEF IInv
  <1>7. CASE Begins
    <2>. DEFINE g == s \div Blocks
    <2>1. /\ g \in Granule /\ g < header.ngr
          /\ \/ s = 0 /\ g = 0
             \/ s = Blocks /\ g = 1 /\ header.ngr = 2
      BY <1>1, <1>2, <1>3, <1>4, <1>5, <1>7 DEF Begins, Granule
    <2>. HIDE DEF g
    <2>2. /\ last' = [ch \in Channel |->
                         IF ch < header.nch THEN sbsample[ch][g].main ELSE last[ch]]
          /\ clean' = (clean \/ fresh)
      BY <1>2, <1>7 DEF SynthFrame, Cell, g
    <2>3. sbsample' = [ch \in Channel |->
              IF ch < header.nch THEN [sbsample[ch] EXCEPT ![g].plays = @ + 1]
                                 ELSE sbsample[ch]]
      BY <1>2, <1>7, Zenon DEF SynthFrame, g
    <2>4. /\ sbsample \in [Channel -> [Granule -> Sample]]
          /\ last \in [Channel -> Nat] /\ ovlbuf \in [Channel -> Nat]
      BY DEF IInv, TypeOK
    <2>5. /\ sbsample' \in [Channel -> [Granule -> Sample]]
          /\ \A ch \in Channel, gr \in Granule :
                /\ sbsample'[ch][gr].main = sbsample[ch][gr].main
                /\ sbsample'[ch][gr].over = sbsample[ch][gr].over
                /\ sbsample'[ch][gr].plays =
                       sbsample[ch][gr].plays
                       + (IF ch < header.nch /\ gr = g THEN 1 ELSE 0)
      <3>1. ASSUME NEW ch \in Channel
            PROVE  /\ sbsample'[ch] \in [Granule -> Sample]
                   /\ \A gr \in Granule :
                        sbsample'[ch][gr] =
                            IF ch < header.nch /\ gr = g
                            THEN [main |-> sbsample[ch][gr].main,
                                  over |-> sbsample[ch][gr].over,
                                  plays |-> sbsample[ch][gr].plays + 1]
                            ELSE sbsample[ch][gr]
        <4>. DEFINE c == sbsample[ch]
                    r == c[g]
        <4>1. c \in [Granule -> Sample] /\ r \in Sample
          BY <2>1, <2>4
        <4>2. [r EXCEPT !.plays = r.plays + 1] =
                  [main |-> r.main, over |-> r.over, plays |-> r.plays + 1]
          BY <4>1 DEF Sample
        <4>3. [main |-> r.main, over |-> r.over, plays |-> r.plays + 1] \in Sample
          BY <4>1 DEF Sample
        <4>4. CASE ch < header.nch
          <5>1. sbsample'[ch] = [c EXCEPT ![g] =
                    [main |-> r.main, over |-> r.over, plays |-> r.plays + 1]]
            BY <2>3, <4>2, <4>4, Zenon
          <5>. HIDE DEF c, r
          <5>2. /\ sbsample'[ch] \in [Granule -> Sample]
                /\ sbsample'[ch][g] =
                       [main |-> r.main, over |-> r.over, plays |-> r.plays + 1]
                /\ \A gr \in Granule : gr # g => sbsample'[ch][gr] = c[gr]
            BY <2>1, <4>1, <4>3, <5>1
          <5>. QED BY <4>4, <5>2, Zenon DEF c, r
        <4>5. CASE ~(ch < header.nch)
          <5>1. sbsample'[ch] = c
            BY <2>3, <4>5, Zenon
          <5>. QED BY <4>1, <4>5, <5>1, Zenon
        <4>. QED BY <4>4, <4>5
      <3>2. sbsample' = [ch \in Channel |-> sbsample'[ch]]
        BY <2>3, Zenon
      <3>3. sbsample' \in [Channel -> [Granule -> Sample]]
        BY <3>1, <3>2
      <3>4. ASSUME NEW ch \in Channel, NEW gr \in Granule
            PROVE  /\ sbsample'[ch][gr].main = sbsample[ch][gr].main
                   /\ sbsample'[ch][gr].over = sbsample[ch][gr].over
                   /\ sbsample'[ch][gr].plays =
                          sbsample[ch][gr].plays
                          + (IF ch < header.nch /\ gr = g THEN 1 ELSE 0)
        <4>1. CASE ch < header.nch /\ gr = g
          <5>1. sbsample'[ch][gr] = [main |-> sbsample[ch][gr].main,
                                     over |-> sbsample[ch][gr].over,
                                     plays |-> sbsample[ch][gr].plays + 1]
            BY <3>1, <4>1
          <5>. QED BY <4>1, <5>1
        <4>2. CASE ~(ch < header.nch /\ gr = g)
          <5>1. sbsample'[ch][gr] = sbsample[ch][gr]
            BY <3>1, <4>2
          <5>2. sbsample[ch][gr].plays \in Nat
            BY <2>4 DEF Sample
          <5>. QED BY <4>2, <5>1, <5>2
        <4>. QED BY <4>1, <4>2
      <3>. QED BY <3>3, <3>4
    <2>. HIDE DEF Begins
    <2>6. /\ last' \in [Channel -> Nat]
          /\ \A ch \in Channel : ch < header.nch => last'[ch] = sbsample[ch][g].main
      <3>1. \A ch \in Channel : sbsample[ch][g].main \in Nat /\ last[ch] \in Nat
        BY <2>1, <2>4 DEF Sample
      <3>. QED BY <2>2, <3>1
    <2>7. header.ngr - 1 \in Granule /\ 0 \in Granule /\ 1 \in Granule
      BY <1>2 DEF Granule
    <2>8. TypeOK' /\ Places'
      <3>1. TypeOK'
        BY <1>1, <1>2, <2>5, <2>6 DEF IInv, TypeOK
      <3>2. Places'
        BY <1>1, <1>2, <1>3, <1>4 DEF IInv, Places
      <3>. QED BY <3>1, <3>2
    <2>9. Outside'
      BY <1>1, <2>5 DEF IInv, Outside
    <2>10. Joined'
      BY <1>1, <1>2, <2>5, <2>7 DEF IInv, Joined
    <2>11. Follows' /\ Kept'
      BY <1>1, <1>2 DEF Follows, Kept
    <2>12. HeardLast'
      <3>1. s' > 0 /\ (IF s' <= Blocks THEN 0 ELSE 1) = g
        BY <1>1, <1>2, <2>1
      <3>2. \A ch \in Channel : ch < header.nch => last'[ch] = sbsample'[ch][g].main
        BY <2>1, <2>5, <2>6
      <3>. QED BY <1>2, <3>1, <3>2 DEF HeardLast
    <2>13. Waits'
      <3>1. ASSUME clean', ~mixed
            PROVE  \A ch \in Channel : ch < header.nch =>
                       ovlbuf[ch] = sbsample[ch][header.ngr - 1].main
        <4>1. CASE fresh
          BY <1>1, <1>2, <4>1 DEF IInv, Joined
        <4>2. CASE clean
          BY <1>1, <1>2, <3>1, <4>2 DEF IInv, Waits
        <4>. QED BY <2>2, <3>1, <4>1, <4>2
      <3>. QED BY <1>1, <1>2, <2>5, <2>7, <3>1 DEF Waits
    <2>14. Plays'
      <3>1. \A gr \in Granule : /\ Times(gr) \in Nat
                                /\ gr = g => Times(gr)' = Times(gr) + 1
                                /\ gr # g => Times(gr)' = Times(gr)
        BY <1>1, <1>2, <2>1 DEF Times, Reached, Granule
      <3>2. ASSUME "error" \notin supplied, ~mixed,
                   NEW ch \in Channel, NEW gr \in Granule, sbsample'[ch][gr].main # 0
            PROVE  sbsample'[ch][gr].plays <= Times(gr)'
        <4>1. sbsample[ch][gr].main # 0
          BY <2>5, <3>2
        <4>2. sbsample[ch][gr].plays <= Times(gr) /\ ch < header.nch
          BY <1>2, <3>2, <4>1 DEF IInv, Plays, Outside
        <4>3. sbsample[ch][gr].plays \in Nat
          BY <2>4 DEF Sample
        <4>. QED BY <2>5, <3>1, <4>2, <4>3
      <3>. QED BY <1>1, <3>2 DEF Plays
    <2>. QED BY <2>8, <2>9, <2>10, <2>11, <2>12, <2>13, <2>14 DEF IInv
  <1>. QED BY <1>6, <1>7

(* The end of a frame: what was heard last is what waits.                  *)
LEMMA OutputKeeps ==
    ASSUME IInv, NEW f \in Flow, Output(f)
    PROVE  IInv'
  <1>1. /\ pc = "synth" /\ s = ns /\ pc' \in {"loop", "done"}
        /\ UNCHANGED <<supplied, error, header, attached, sbsample, ovlbuf, badLast, runs, s,
                       granules, fresh, last, clean, shape, mixed>>
    BY DEF Output, Goto, Done, Flow, run, frame, heard
  <1>2. /\ runs # 0 /\ header \in Formats /\ s \in Nat /\ (mixed \/ shape = header)
        /\ header # NoFormat /\ header.ngr \in 1 .. 2 /\ header.nch \in 1 .. 2
        /\ Blocks \in Nat /\ Blocks >= 1 /\ nch = header.nch
    BY <1>1, FormatFacts, BlocksIsNat DEF IInv, Places, TypeOK, nch
  <1>3. /\ header.ngr = 1 => s = Blocks
        /\ header.ngr = 2 => s = Blocks + Blocks
    BY <1>1, <1>2 DEF ns
  <1>4. TypeOK' /\ Places'
    BY <1>1, <1>2 DEF IInv, TypeOK, Places
  <1>5. Outside' /\ Waits'
    BY <1>1 DEF IInv, Outside, Waits
  <1>6. Joined' /\ Follows' /\ HeardLast'
    BY <1>1 DEF Joined, Follows, HeardLast
  <1>7. Kept'
    <2>1. ASSUME clean, ~mixed, NEW ch \in Channel, ch < header.nch
          PROVE  ovlbuf[ch] = last[ch]
      <3>1. s > 0 /\ (IF s <= Blocks THEN 0 ELSE 1) = header.ngr - 1
        BY <1>2, <1>3
      <3>2. last[ch] = sbsample[ch][header.ngr - 1].main
        BY <1>1, <1>2, <2>1, <3>1 DEF IInv, HeardLast
      <3>3. ovlbuf[ch] = sbsample[ch][header.ngr - 1].main
        BY <1>2, <2>1 DEF IInv, Waits
      <3>. QED BY <3>2, <3>3
    <2>. QED BY <1>1, <1>2, <2>1 DEF Kept
  <1>8. Plays'
    <2>1. \A gr \in Granule : Times(gr)' >= Times(gr) /\ Times(gr)' \in Nat /\ Times(gr) \in Nat
      BY <1>1 DEF Times, Reached
    <2>2. ASSUME "error" \notin supplied, ~mixed,
                 NEW ch \in Channel, NEW gr \in Granule, sbsample[ch][gr].main # 0
          PROVE  sbsample[ch][gr].plays <= Times(gr)'
      <3>1. sbsample[ch][gr].plays <= Times(gr)
        BY <2>2 DEF IInv, Plays
      <3>2. sbsample[ch][gr].plays \in Nat
        BY DEF IInv, TypeOK, Sample
      <3>. QED BY <2>1, <3>1, <3>2
    <2>. QED BY <1>1, <2>2 DEF Plays
  <1>. QED BY <1>4, <1>5, <1>6, <1>7, <1>8 DEF IInv

-----------------------------------------------------------------------------
(* Every step keeps the invariant.                                         *)
LEMMA Inductive ==
    ASSUME IInv, [Next]_vars
    PROVE  IInv'
  <1>1. CASE UNCHANGED vars
    <2>1. UNCHANGED <<pc, supplied, error, header, attached, sbsample, ovlbuf, badLast, runs,
                      s, granules, fresh, last, clean, shape, mixed>>
      BY <1>1 DEF vars, run, frame, heard
    <2>2. TypeOK' /\ Places' /\ Outside'
      BY <2>1 DEF IInv, TypeOK, Places, Outside, ns
    <2>3. Joined' /\ Follows' /\ HeardLast'
      BY <2>1 DEF IInv, Joined, Follows, HeardLast, nch
    <2>4. Waits' /\ Kept' /\ Plays'
      BY <2>1 DEF IInv, Waits, Kept, Plays, Times, Reached
    <2>. QED BY <2>2, <2>3, <2>4 DEF IInv
  <1>2. CASE mad_decoder_run \/ tskmad
    BY <1>2, StartKeeps DEF mad_decoder_run, tskmad
  <1>3. ASSUME NEW f \in Flow, NEW gives \in BOOLEAN, Input(f, gives)
        PROVE  IInv'
    <2>1. /\ pc = "input" /\ pc' \in {"loop", "input", "done"}
          /\ UNCHANGED <<supplied, error, header, attached, sbsample, ovlbuf, badLast, runs,
                         s, granules, fresh, last, clean, shape, mixed>>
      BY <1>3 DEF Input, Break, Goto, Done, Flow, run, frame, heard
    <2>. QED BY <2>1, QuietKeeps DEF IInv, TypeOK, Places
  <1>4. ASSUME NEW f \in Flow, HeaderFunc(f)
        PROVE  IInv'
    <2>1. /\ pc = "headerFunc" /\ pc' \in {"decode", "loop", "done"}
          /\ UNCHANGED <<supplied, error, header, attached, sbsample, ovlbuf, badLast, runs,
                         s, granules, fresh, last, clean, shape, mixed>>
      BY <1>4 DEF HeaderFunc, Goto, Done, Flow, run, frame, heard
    <2>. QED BY <2>1, QuietKeeps DEF IInv, TypeOK, Places
  <1>5. CASE HeaderRead
    <2>1. /\ pc = "loop" /\ pc' \in {"headerError", "input", "done"} /\ header' \in Formats
          /\ UNCHANGED <<supplied, error, attached, sbsample, ovlbuf, badLast, runs,
                         s, granules, fresh, last, clean, shape, mixed>>
      BY <1>5 DEF HeaderRead, Break, Goto, Done, run, heard
    <2>. QED BY <2>1, QuietKeeps DEF IInv, Places
  <1>6. ASSUME NEW e, HeaderFailed(e)
        PROVE  IInv'
    <2>1. /\ pc = "loop" /\ pc' = "headerFunc" /\ header' \in Formats /\ error' # "badcrc"
          /\ UNCHANGED <<supplied, attached, sbsample, ovlbuf, badLast, runs,
                         s, granules, fresh, last, clean, shape, mixed>>
      BY <1>6 DEF HeaderFailed, HeaderError, Goto, run, heard, IInv, TypeOK
    <2>. QED BY <2>1, QuietKeeps
  <1>7. ASSUME NEW e, DecodeHeaderFailed(e)
        PROVE  IInv'
    <2>1. /\ pc \in {"decode", "loop"} /\ pc' \in {"error", "input", "done"}
          /\ header' \in Formats /\ error' # "badcrc" /\ fresh' = FALSE
          /\ UNCHANGED <<supplied, attached, sbsample, ovlbuf, badLast, runs,
                         s, granules, last, clean, shape, mixed>>
      BY <1>7 DEF DecodeHeaderFailed, Decodes, Failed, Break, HeaderError, Goto, Done, run,
                  heard, IInv, TypeOK
    <2>. QED BY <2>1, QuietKeeps
  <1>8. CASE NoDecoder
    <2>1. /\ pc \in {"decode", "loop"} /\ pc' = "crash" /\ header' \in Formats
          /\ UNCHANGED <<supplied, error, attached, sbsample, ovlbuf, badLast, runs,
                         s, granules, fresh, last, clean, shape, mixed>>
      BY <1>8 DEF NoDecoder, HasHeader, Decodes, Goto, run, heard, IInv, TypeOK
    <2>. QED BY <2>1, QuietKeeps DEF IInv, Places
  <1>9. ASSUME NEW e, LayerFailed(e)
        PROVE  IInv'
    <2>1. /\ pc \in {"decode", "loop"} /\ pc' \in {"error", "input", "done"}
          /\ header' \in Formats /\ attached' = TRUE /\ fresh' = FALSE
          /\ UNCHANGED <<supplied, sbsample, ovlbuf, badLast, runs,
                         s, granules, last, clean, shape, mixed>>
      BY <1>9 DEF LayerFailed, HasHeader, Decodes, Failed, Break, Goto, Done, run,
                  heard, IInv, TypeOK
    <2>. QED BY <2>1, QuietKeeps
  <1>10. ASSUME NEW f \in Flow, ErrorFunc(f) \/ Filter(f) \/ Output(f)
         PROVE  IInv'
    BY <1>10, ErrorFuncKeeps, FilterKeeps, OutputKeeps
  <1>11. CASE LayerFailedLate \/ FrameDecoded \/ error_default \/ SynthFrame
    BY <1>11, LateKeeps, FrameDecodedKeeps, DefaultKeeps, SynthFrameKeeps
  <1>. QED
    BY <1>1, <1>2, <1>3, <1>4, <1>5, <1>6, <1>7, <1>8, <1>9, <1>10, <1>11 DEF Next

LEMMA Initial == Init => IInv
  <1>. SUFFICES ASSUME Init PROVE IInv
    OBVIOUS
  <1>1. TypeOK /\ Places
    BY SilenceIsSample DEF Init, TypeOK, Places
  <1>2. Outside /\ Plays
    BY SilenceIsSample DEF Init, Outside, Plays
  <1>3. Joined /\ Follows /\ HeardLast
    BY DEF Init, Joined, Follows, HeardLast
  <1>4. Waits /\ Kept
    BY DEF Init, Waits, Kept
  <1>. QED BY <1>1, <1>2, <1>3, <1>4 DEF IInv

(* What is heard overlaps what was heard before it, for granules of any    *)
(* number of blocks, any formats and any callbacks.                        *)
THEOREM OverlapsWhatWasHeard == Spec => []Continuous
  <1>1. IInv => Continuous
    <2>. SUFFICES ASSUME IInv, pc = "synth", s < ns, Begins, fresh, clean, ~mixed,
                         NEW ch \in Channel, ch < nch
                  PROVE  Cell(ch).over = last[ch]
      BY DEF Continuous
    <2>1. /\ header \in Formats /\ s \in Nat /\ header.ngr \in 1 .. 2
          /\ Blocks \in Nat /\ Blocks >= 1
      BY FormatFacts, BlocksIsNat DEF IInv, TypeOK
    <2>2. /\ header.ngr = 1 => ns = Blocks
          /\ header.ngr = 2 => ns = Blocks + Blocks
      BY <2>1 DEF ns
    <2>. HIDE DEF ns
    <2>3. s < 2 * Blocks
      BY <2>1, <2>2
    <2>4. /\ s < Blocks => s \div Blocks = 0 /\ s % Blocks = s
          /\ s >= Blocks => s \div Blocks = 1 /\ s % Blocks = s - Blocks
      BY <2>1, <2>3, BlockPlace
    <2>5. CASE s < Blocks
      <3>1. s = 0 /\ s \div Blocks = 0
        BY <2>1, <2>4, <2>5 DEF Begins
      <3>. QED BY <3>1 DEF IInv, Follows, Cell
    <2>6. CASE s >= Blocks
      <3>1. s = Blocks /\ s > 0 /\ s \div Blocks = 1 /\ header.ngr = 2
        BY <2>1, <2>2, <2>4, <2>6 DEF Begins
      <3>2. sbsample[ch][1].over = sbsample[ch][0].main
        BY <3>1 DEF IInv, Joined
      <3>3. last[ch] = sbsample[ch][0].main
        BY <3>1, <2>1 DEF IInv, HeardLast
      <3>. QED BY <3>1, <3>2, <3>3 DEF Cell
    <2>. QED BY <2>1, <2>5, <2>6
  <1>. QED BY <1>1, Initial, Inductive, PTL DEF Spec

(* No sound is played more than twice, whatever frames are damaged.        *)
THEOREM NoneRepeatedTwice == Spec => []RepeatedOnce
  <1>1. IInv => RepeatedOnce
    <2>. SUFFICES ASSUME IInv, "error" \notin supplied, ~mixed,
                         NEW ch \in Channel, NEW gr \in Granule, sbsample[ch][gr].main # 0
                  PROVE  sbsample[ch][gr].plays <= 2
      BY DEF RepeatedOnce
    <2>1. sbsample[ch][gr].plays <= Times(gr) /\ sbsample[ch][gr].plays \in Nat
      BY DEF IInv, Plays, TypeOK, Sample
    <2>2. Times(gr) \in Nat /\ Times(gr) <= 2
      BY DEF Times
    <2>. QED BY <2>1, <2>2
  <1>. QED BY <1>1, Initial, Inductive, PTL DEF Spec
=============================================================================
