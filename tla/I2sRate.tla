------------------------------- MODULE I2sRate -------------------------------
(***************************************************************************)
(* The clock of the DAC: set_dac_sample_rate of mp3/user/user_main.c,      *)
(* which mad_synth_frame calls for every frame, and the search for the     *)
(* dividers in i2sSetRate of mp3/driver/i2s_freertos.c.                    *)
(***************************************************************************)
EXTENDS Integers

VARIABLES oldRate,   \* the rate set last, 0 before the first
          vary,      \* ALLOW_VARY_SAMPLE_BITS: the DAC takes more than 16 bits
          i2sconf    \* the divider fields of register I2SCONF

dacVars == <<oldRate, vary, i2sconf>>

BASEFREQ == 160000000
Distance(a, b) == IF a > b THEN a - b ELSE b - a

(* The rates of MPEG-1, 2 and 2.5. *)
SampleRate == {48000, 44100, 32000, 24000, 22050, 16000, 12000, 11025, 8000}

Setting(more) == [bck : 2 .. 63, clkm : 5 .. 63, bits : 16 .. IF more THEN 19 ELSE 16]

(* Mutant: one channel only. *)
tstfreq_Mono(d) == BASEFREQ \div (d.bck * d.clkm * d.bits)

tstfreq(d) == BASEFREQ \div (d.bck * d.clkm * d.bits * 2)

(* The order of the three loops. *)
Before(d, e) ==
    \/ d.bck < e.bck
    \/ d.bck = e.bck /\ d.clkm < e.clkm
    \/ d.bck = e.bck /\ d.clkm = e.clkm /\ d.bits < e.bits

(* The settings closer to the rate than the 0 Hz the search begins with.   *)
Found(rate, more) == {d \in Setting(more) : Distance(rate, tstfreq(d)) < rate}

(* The first of the closest. *)
Best(rate, more) ==
    LET found == Found(rate, more)
        distances == {Distance(rate, tstfreq(d)) : d \in found}
        least == CHOOSE n \in distances : \A m \in distances : n <= m
        closest == {d \in found : Distance(rate, tstfreq(d)) = least}
    IN  CHOOSE d \in closest : \A e \in closest : d = e \/ Before(d, e)

Fields == [bck : 0 .. 63, clkm : 0 .. 63, bits : 0 .. 3]

(* The search, for all rates and both ways to build the player: what it    *)
(* leaves in its variables, which are not initialised.                     *)
Searched ==
    [rate \in SampleRate |->
        [more \in BOOLEAN |->
            IF Found(rate, more) = {} THEN Fields
            ELSE LET d == Best(rate, more)
                 IN  {[bck |-> d.bck, clkm |-> d.clkm, bits |-> d.bits - 16]}]]

DacInit ==
    /\ oldRate = 0 /\ vary \in BOOLEAN
    /\ i2sconf = [bck |-> 16, clkm |-> 7, bits |-> 0]       \* i2sInit

(* Mutant: the old dividers are not cleared, and setting bits adds to them. *)
BitOf(n, k) == (n \div 2 ^ k) % 2
OrOf(m, n) ==
    CHOOSE both \in 0 .. 63 :
        \A k \in 0 .. 5 : BitOf(both, k) = 1 <=> BitOf(m, k) = 1 \/ BitOf(n, k) = 1
i2sSetRate_NoClear(rate) ==
    \E d \in Searched[rate][vary] :
        i2sconf' = [field \in {"bck", "clkm", "bits"} |-> OrOf(i2sconf[field], d[field])]

i2sSetRate(rate) == i2sconf' \in Searched[rate][vary]

set_dac_sample_rate(rate) ==
    /\ rate # oldRate
    /\ oldRate' = rate
    /\ i2sSetRate(rate)
    /\ UNCHANGED vary

(* The word select clock that the port makes of the register. *)
WordSelect == BASEFREQ \div (i2sconf.clkm * i2sconf.bck * 2 * (16 + i2sconf.bits))
-----------------------------------------------------------------------------
(* Samples that a block of 32 must leave out or repeat because the clock   *)
(* is off are asked for when the FIFO is so many bytes from half, at       *)
(* ADD_DEL_BUFFPERSAMP / 2^24 samples for each: this many for a clock that *)
(* is off by its whole rate.                                               *)
BytesPerRate == (32 * 16777216) \div 1000

(* A clock close enough for the FIFO of 128 KiB to settle at half, give or *)
(* take 4 KiB.                                                             *)
Settles(rate, clock) == Distance(rate, clock) <= (rate * 4096) \div BytesPerRate

(* However the rate changes from frame to frame, the clock is so close to  *)
(* it that the rate control settles: render_sample_block works against the *)
(* network, not against the dividers.                                      *)
SettlesNearHalf == oldRate # 0 => Settles(oldRate, WordSelect)
=============================================================================
