------------------------------ MODULE SampleOut ------------------------------
(***************************************************************************)
(* From the numbers of the filterbank to the words of the I2S port: scale  *)
(* and the mixing of the channels in mp3/mad/synth.c, and the three forms  *)
(* of output in mp3/user/user_main.c, of which one is chosen when the      *)
(* player is built: a DAC, faked PWM, or a delta-sigma converter.          *)
(***************************************************************************)
EXTENDS Integers

Short == {n \in Int : -32768 <= n /\ n <= 32767}
MAD_F_ONE == 268435456                         \* 1 in 28 fraction bits

(* What the filterbank may return; a mad_fixed_t that can be rounded up.   *)
Raw == {n \in Int : -2147483647 - 1 <= n /\ n <= 2147479551}

(* Conversion to a signed number of 16 bits. *)
ToShort(n) == ((n + 32768) % 65536) - 32768

Clip(n, low, high) == IF n > high THEN high ELSE IF n < low THEN low ELSE n

(* scale: round, clip, and keep 15 bits. *)
scale(sample) == Clip(sample + 4096, -MAD_F_ONE, MAD_F_ONE - 1) \div 16384

(* What is sent of two channels: the second is added to the first, in a    *)
(* buffer of shorts.                                                       *)
Mixed(left, right) == ToShort(ToShort(scale(left)) + ToShort(scale(right)))

-----------------------------------------------------------------------------
(* sampToI2s: the sample in both halves of a word, here the high and the   *)
(* low one.                                                                *)
sampToI2s(s) == [high |-> s % 65536, low |-> s % 65536]

(* sampToI2sPwm: the bits of fakePwm[n] that the next error is taken from, *)
(* the lowest eleven, for the 32 words of the table.                       *)
fakePwmLow == [n \in 0 .. 31 |->
    IF n = 0 THEN 16
    ELSE IF n <= 9 THEN 1040                   \* 0x410, 0xC10
    ELSE IF n = 10 THEN 1296                   \* 0xD10
    ELSE IF n <= 18 THEN 1328                  \* 0xD30
    ELSE IF n = 19 THEN 1330                   \* 0xD32
    ELSE IF n <= 22 THEN 1331                  \* 0xD33
    ELSE IF n <= 25 THEN 1395                  \* 0xD73
    ELSE IF n <= 28 THEN 1403                  \* 0xD7B
    ELSE IF n = 29 THEN 1531                   \* 0xDFB
    ELSE IF n = 30 THEN 2043                   \* 0xFFB
    ELSE 2047]                                 \* 0xFFF

Err == {n \in Nat : n <= 2047}
Entry == 0 .. 31

(* Number of the word that is sent, and the error kept for the next one.   *)
PwmIndex(s, err) == Clip(s + 32768 - err, 0, 65535) \div 2048
PwmErr(s, err) == fakePwmLow[PwmIndex(s, err)]

(* sampToI2sDeltaSigma: one of the 32 bits made of a sample. *)
Feedback(outReg) == IF outReg > 0 THEN -32767 ELSE 32767

i1v(s, i1, outReg) == s + Feedback(outReg) + i1
i2v(s, i1, i2, outReg) == i1v(s, i1, outReg) + Feedback(outReg) + i2
=============================================================================
