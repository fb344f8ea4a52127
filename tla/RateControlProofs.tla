-------------------------- MODULE RateControlProofs --------------------------
(***************************************************************************)
(* The account of render_sample_block is settled at the end of every block *)
(* and works against the deviation of the FIFO.  The clock of the DAC is   *)
(* close to every rate.  The samples fit the words they are sent in.       *)
(***************************************************************************)
EXTENDS MCRateControl, SampleOut, WellFoundedInduction, TLAPS

(* A large FIFO never asks for more than the samples of a block, and asks  *)
(* in the direction of its last measurement.                               *)
Asked ==
    Large => /\ sampAddDel \in -(NoSamples * One) .. NoSamples * One
             /\ sampAddDel < 0 => BelowHalf
             /\ sampAddDel > 0 => AboveHalf

(* What may still be on the account: one sample, and one for every sample  *)
(* of the block to come.  More than one is there only to oppose the        *)
(* deviation measured last.                                                *)
Limit(k) == One + (NoSamples - k) * One

Account ==
    Large => /\ sampErr \in -Limit(i) .. Limit(i)
             /\ sampErr < -One => BelowHalf
             /\ sampErr > One => AboveHalf

IInv == TypeOK /\ Asked /\ Account
-----------------------------------------------------------------------------
(* Sizes *)

(* Half of a length. *)
LEMMA HalfOf ==
    ASSUME NEW n \in Nat
    PROVE  n \div 2 \in 0 .. n
OBVIOUS

(* A product is no larger than a product of larger factors. *)
LEMMA Scaled ==
    ASSUME NEW d \in Int, NEW n \in Nat, NEW k \in Nat, d \in -n .. n
    PROVE  /\ d * k \in Int
           /\ d * k \in -(n * k) .. n * k
           /\ d * k < 0 => d < 0
           /\ d * k > 0 => d > 0
<1>1. d * k \in Int /\ n * k \in Int /\ -(n * k) \in Int
  OBVIOUS
<1>2. d * k <= n * k
  <2>1. (n - d) * k >= 0
    <3>1. n - d \in Nat
      OBVIOUS
    <3> QED BY <3>1
  <2>2. (n - d) * k = n * k - d * k
    OBVIOUS
  <2> QED BY <2>1, <2>2, <1>1
<1>3. -(n * k) <= d * k
  <2>1. (n + d) * k >= 0
    <3>1. n + d \in Nat
      OBVIOUS
    <3> QED BY <3>1
  <2>2. (n + d) * k = n * k + d * k
    OBVIOUS
  <2> QED BY <2>1, <2>2, <1>1
<1>4. d * k < 0 => d < 0
  <2>1. CASE d >= 0
    <3>1. d * k >= 0 BY <2>1
    <3> QED BY <3>1, <1>1
  <2> QED BY <2>1
<1>5. d * k > 0 => d > 0
  <2>1. CASE d <= 0
    <3>1. (-d) * k >= 0 BY <2>1
    <3>2. (-d) * k = -(d * k) OBVIOUS
    <3> QED BY <3>1, <3>2, <1>1
  <2> QED BY <2>1
<1> QED BY <1>1, <1>2, <1>3, <1>4, <1>5

(* The limit falls by one sample with every sample of the block. *)
LEMMA LimitFalls ==
    ASSUME NEW k \in 0 .. NoSamples
    PROVE  /\ Limit(k) \in Nat /\ Limit(k) >= One
           /\ k < NoSamples => Limit(k + 1) \in Nat /\ Limit(k + 1) = Limit(k) - One
           /\ Limit(0) = One + NoSamples * One
           /\ Limit(NoSamples) = One
<1>1. One \in Nat /\ NoSamples \in Nat
  BY RateAssumption
<1>2. \A m \in 0 .. NoSamples : Limit(m) \in Nat /\ Limit(m) >= One
  <2> TAKE m \in 0 .. NoSamples
  <2>1. NoSamples - m \in Nat
    BY <1>1
  <2>2. (NoSamples - m) * One \in Nat
    BY <1>1, <2>1
  <2> QED BY <1>1, <2>2 DEF Limit
<1>3. (NoSamples - (k + 1)) * One = (NoSamples - k) * One - One
  BY <1>1
<1>4. (NoSamples - 0) * One = NoSamples * One /\ (NoSamples - NoSamples) * One = 0
  BY <1>1
<1>5. (NoSamples - k) * One \in Int /\ NoSamples * One \in Int
  BY <1>1
<1> QED BY <1>1, <1>2, <1>3, <1>4, <1>5 DEF Limit
-----------------------------------------------------------------------------
(* The recalculation *)

(* recalcAddDelSamp keeps its statics in range, and what it returns to a   *)
(* player with a large FIFO is as Asked says.                              *)
LEMMA RecalcKeeps ==
    ASSUME TypeOK, Asked, recalcAddDelSamp, UNCHANGED len
    PROVE  /\ cnt' \in 0 .. Period - 1
           /\ minFifoFill' \in 0 .. NoMinimum
           /\ sampAddDel' \in Int
           /\ measured' \in 0 .. len
           /\ Asked'
<1> USE DEF TypeOK
<1>1. PICK fill \in 0 .. len, again \in 0 .. len :
          Keep(fill) \/ RecalcSmall(fill) \/ RecalcLarge(fill, again)
  BY DEF recalcAddDelSamp
<1>2. /\ len \in Nat /\ Period \in Nat \ {0} /\ NoMinimum \in Nat /\ Target \in Nat
      /\ ADD_DEL_BUFFPERSAMP \in Nat /\ ADD_DEL_BUFFPERSAMP_NOSPIRAM \in Nat
      /\ NoSamples * One \in Nat
      /\ len * ADD_DEL_BUFFPERSAMP <= NoSamples * One
      /\ len * ADD_DEL_BUFFPERSAMP \in Nat
  BY RateAssumption
<1>3. Smaller(fill, minFifoFill) \in 0 .. NoMinimum
  BY <1>2 DEF Smaller
<1>4. CASE Keep(fill)
  <2>1. Asked'
    BY <1>4 DEF Keep, Asked, Large, BelowHalf, AboveHalf
  <2> QED BY <1>4, <1>2, <1>3, <2>1 DEF Keep
<1>5. CASE RecalcSmall(fill)
  <2>1. Asked'
    BY <1>5 DEF RecalcSmall, Asked, Large
  <2>2. sampAddDel' \in Int
    BY <1>5, RateAssumption DEF RecalcSmall
  <2> QED BY <1>5, <1>2, <2>1, <2>2 DEF RecalcSmall
<1>6. CASE RecalcLarge(fill, again)
  <2> DEFINE d == again - len \div 2
  <2>1. len \div 2 \in 0 .. len
    BY <1>2, HalfOf
  <2>2. d \in -len .. len /\ d \in Int
    BY <1>2, <2>1
  <2>3. /\ d * ADD_DEL_BUFFPERSAMP \in Int
        /\ d * ADD_DEL_BUFFPERSAMP \in
               -(len * ADD_DEL_BUFFPERSAMP) .. len * ADD_DEL_BUFFPERSAMP
        /\ d * ADD_DEL_BUFFPERSAMP < 0 => d < 0
        /\ d * ADD_DEL_BUFFPERSAMP > 0 => d > 0
    <3> HIDE DEF d
    <3> QED BY <1>2, <2>2, Scaled
  <2>4. sampAddDel' = d * ADD_DEL_BUFFPERSAMP /\ measured' = again /\ len' = len
    BY <1>6 DEF RecalcLarge, FillError
  <2>5. d < 0 => again < len \div 2
    BY <1>2, <2>1
  <2>6. d > 0 => again > len \div 2
    BY <1>2, <2>1
  <2>7. Asked'
    <3> HIDE DEF d
    <3>1. sampAddDel' \in -(NoSamples * One) .. NoSamples * One
      BY <1>2, <2>3, <2>4
    <3>2. sampAddDel' < 0 => BelowHalf'
      BY <2>3, <2>4, <2>5 DEF BelowHalf
    <3>3. sampAddDel' > 0 => AboveHalf'
      BY <2>3, <2>4, <2>6 DEF AboveHalf
    <3>4. (NoSamples * One)' = NoSamples * One
      OBVIOUS
    <3> QED BY <3>1, <3>2, <3>3 DEF Asked
  <2>8. sampAddDel' \in Int
    <3> HIDE DEF d
    <3> QED BY <2>3, <2>4
  <2> QED BY <1>6, <1>2, <1>3, <2>7, <2>8 DEF RecalcLarge
<1> QED BY <1>1, <1>4, <1>5, <1>6
-----------------------------------------------------------------------------
(* The steps *)

(* A new block: the account was settled, what is asked comes on top.       *)
LEMMA BlockKeeps ==
    ASSUME IInv, BeginBlock
    PROVE  IInv'
<1>1. TypeOK /\ Asked /\ Account /\ UNCHANGED len
  BY DEF IInv, BeginBlock
<1>2. /\ cnt' \in 0 .. Period - 1
      /\ minFifoFill' \in 0 .. NoMinimum
      /\ sampAddDel' \in Int
      /\ measured' \in 0 .. len
      /\ Asked'
  BY <1>1, RecalcKeeps DEF BeginBlock
<1>3. /\ NoSamples \in Nat /\ One \in Nat /\ NoSamples * One \in Nat
      /\ Limit(NoSamples) = One /\ Limit(0) = One + NoSamples * One
  <2>1. NoSamples \in Nat /\ One \in Nat /\ NoSamples * One \in Nat
    BY RateAssumption
  <2> QED BY <2>1, LimitFalls
<1>4. i = NoSamples /\ i' = 0 /\ sampErr' = sampErr + sampAddDel' /\ sampErr \in Int
  BY <1>1 DEF BeginBlock, TypeOK
<1>5. TypeOK'
  BY <1>1, <1>2, <1>3, <1>4 DEF TypeOK, BeginBlock
<1>6. ASSUME Large'
      PROVE  /\ sampErr' \in -Limit(0) .. Limit(0)
             /\ sampErr' < -One => BelowHalf'
             /\ sampErr' > One => AboveHalf'
  <2>1. sampErr \in -One .. One
    BY <1>1, <1>3, <1>4, <1>6 DEF Account, Large
  <2>2. /\ sampAddDel' \in -(NoSamples * One) .. NoSamples * One
        /\ sampAddDel' < 0 => BelowHalf'
        /\ sampAddDel' > 0 => AboveHalf'
    BY <1>2, <1>6 DEF Asked
  <2> DEFINE asked == sampAddDel'
  <2>a. /\ asked \in Int /\ One \in Int /\ sampErr \in Int
        /\ sampErr' = sampErr + asked
    BY <1>2, <1>3, <1>4
  <2>3. sampErr' < -One => sampAddDel' < 0
    <3> HIDE DEF asked
    <3>1. sampErr' < -One => asked < 0
      BY <2>1, <2>a
    <3> QED BY <3>1 DEF asked
  <2>4. sampErr' > One => sampAddDel' > 0
    <3> HIDE DEF asked
    <3>1. sampErr' > One => asked > 0
      BY <2>1, <2>a
    <3> QED BY <3>1 DEF asked
  <2>5. sampErr' \in -Limit(0) .. Limit(0)
    BY <1>3, <1>4, <2>1, <2>2
  <2> QED BY <2>2, <2>3, <2>4, <2>5
<1>7. Account'
  BY <1>4, <1>6 DEF Account, Limit
<1> QED BY <1>2, <1>5, <1>7 DEF IInv

(* A sample of the block: whatever is over one sample is worked off.       *)
LEMMA SampleKeeps ==
    ASSUME IInv, NEW n \in 0 .. 2, Sample(n), NEW e \in -1 .. 1,
           sampErr' = sampErr - e * One,
           e = 1 => sampErr > One,
           e = -1 => sampErr < -One,
           e = 0 => sampErr \in -One .. One
    PROVE  IInv'
<1>1. /\ TypeOK /\ Asked /\ Account
      /\ i < NoSamples /\ i' = i + 1 /\ sent' = n
      /\ UNCHANGED len /\ UNCHANGED recalcVars
  BY DEF IInv, Sample
<1>2. NoSamples \in Nat /\ One \in Nat \ {0} /\ i \in 0 .. NoSamples /\ sampErr \in Int
  BY <1>1, RateAssumption DEF TypeOK
<1>3. /\ Limit(i) \in Nat /\ Limit(i + 1) \in Nat
      /\ Limit(i + 1) = Limit(i) - One /\ Limit(i + 1) >= One
  <2>1. i + 1 \in 0 .. NoSamples
    BY <1>1, <1>2
  <2> QED BY <1>1, <1>2, <2>1, LimitFalls
<1>4. \/ sampErr > One /\ sampErr' = sampErr - One
      \/ sampErr < -One /\ sampErr' = sampErr + One
      \/ sampErr \in -One .. One /\ sampErr' = sampErr
  BY <1>2
<1>5. sampErr' \in Int
  BY <1>2, <1>4
<1>6. TypeOK'
  <2>1. i' \in 0 .. NoSamples
    BY <1>1, <1>2
  <2> QED BY <1>1, <1>5, <2>1 DEF TypeOK, recalcVars
<1>7. Asked'
  BY <1>1 DEF Asked, Large, AboveHalf, BelowHalf, recalcVars
<1>8. ASSUME Large'
      PROVE  /\ sampErr' \in -Limit(i + 1) .. Limit(i + 1)
             /\ sampErr' < -One => BelowHalf'
             /\ sampErr' > One => AboveHalf'
  <2>1. /\ sampErr \in -Limit(i) .. Limit(i)
        /\ sampErr < -One => BelowHalf
        /\ sampErr > One => AboveHalf
    BY <1>1, <1>8 DEF Account, Large
  <2>2. BelowHalf' = BelowHalf /\ AboveHalf' = AboveHalf
    BY <1>1 DEF BelowHalf, AboveHalf, recalcVars
  <2>3. sampErr' \in -Limit(i + 1) .. Limit(i + 1)
    BY <1>2, <1>3, <1>4, <2>1
  <2>4. sampErr' < -One => sampErr < -One
    BY <1>2, <1>4
  <2>5. sampErr' > One => sampErr > One
    BY <1>2, <1>4
  <2> QED BY <2>1, <2>2, <2>3, <2>4, <2>5
<1>9. Account'
  BY <1>1, <1>8 DEF Account, Limit
<1> QED BY <1>6, <1>7, <1>9 DEF IInv
-----------------------------------------------------------------------------
LEMMA InitOK == Init => IInv
<1> SUFFICES ASSUME Init PROVE IInv
  OBVIOUS
<1>1. /\ len \in Nat /\ NoSamples \in Nat \ {0} /\ One \in Nat \ {0}
      /\ Period \in Nat \ {0} /\ NoMinimum \in Nat /\ NoSamples * One \in Nat
  BY RateAssumption DEF Init
<1>2. len \div 2 \in 0 .. len
  BY <1>1, HalfOf
<1>3. TypeOK
  BY <1>1, <1>2 DEF Init, TypeOK
<1>4. Asked
  BY <1>1 DEF Init, Asked
<1>5. Limit(NoSamples) = One
  BY <1>1, LimitFalls
<1>6. Account
  BY <1>1, <1>5 DEF Init, Account
<1> QED BY <1>3, <1>4, <1>6 DEF IInv

LEMMA NextOK == IInv /\ [Next]_vars => IInv'
<1> SUFFICES ASSUME IInv, [Next]_vars PROVE IInv'
  OBVIOUS
<1>0. One \in Nat /\ sampErr \in Int
  BY RateAssumption DEF IInv, TypeOK
<1>1. CASE BeginBlock
  BY <1>1, BlockKeeps
<1>2. CASE LeaveOut
  <2>1. sampErr > One /\ Sample(0) /\ sampErr' = sampErr - 1 * One
    BY <1>0, <1>2 DEF LeaveOut
  <2> QED BY <2>1, SampleKeeps
<1>3. CASE SendTwice
  <2>1. sampErr < -One /\ Sample(2) /\ sampErr' = sampErr - (-1) * One
    BY <1>0, <1>3 DEF SendTwice
  <2> QED BY <2>1, SampleKeeps
<1>4. CASE SendOnce
  <2>1. sampErr \in -One .. One /\ Sample(1) /\ sampErr' = sampErr - 0 * One
    BY <1>0, <1>4 DEF SendOnce
  <2> QED BY <2>1, SampleKeeps
<1>5. CASE UNCHANGED vars
  <2>1. TypeOK'
    BY <1>5 DEF IInv, TypeOK, vars
  <2>2. Asked'
    BY <1>5 DEF IInv, Asked, vars, Large, AboveHalf, BelowHalf
  <2>3. Account'
    BY <1>5 DEF IInv, Account, Limit, vars, Large, AboveHalf, BelowHalf
  <2> QED BY <2>1, <2>2, <2>3 DEF IInv
<1> QED BY <1>1, <1>2, <1>3, <1>4, <1>5 DEF Next, render_sample_block

LEMMA Inductive == Spec => []IInv
BY InitOK, NextOK, PTL DEF Spec

(* The statics keep their ranges, for every length and every constant.     *)
THEOREM TypeCorrect == Spec => []TypeOK
<1>1. IInv => TypeOK
  BY DEF IInv
<1> QED BY <1>1, Inductive, PTL

(* Nothing but a fraction of a sample is carried to the next block of a    *)
(* player with a large FIFO: render_sample_block works off in a block all  *)
(* that recalcAddDelSamp can ask for.                                      *)
THEOREM NothingPilesUp == Spec => []AccountIsSettled
<1>1. IInv => AccountIsSettled
  <2>1. Limit(NoSamples) = One
    <3>1. NoSamples \in Nat
      BY RateAssumption
    <3> QED BY <3>1, LimitFalls
  <2> QED BY <2>1 DEF IInv, Account, AccountIsSettled
<1> QED BY <1>1, Inductive, PTL

(* render_sample_block leaves samples out only while the FIFO was above    *)
(* half at the last measurement, and repeats them only while below.        *)
THEOREM RateOpposesFill == Spec => OpposesFill
<1> DEFINE A == Large /\ i' = i + 1 => /\ sent' = 0 => AboveHalf
                                       /\ sent' = 2 => BelowHalf
<1>1. IInv /\ [Next]_vars => [A]_vars
  <2> SUFFICES ASSUME IInv, Next, Large, i' = i + 1
               PROVE  /\ sent' = 0 => AboveHalf
                      /\ sent' = 2 => BelowHalf
    OBVIOUS
  <2>1. /\ i \in Int /\ i >= 0
        /\ sampErr < -One => BelowHalf
        /\ sampErr > One => AboveHalf
    BY RateAssumption DEF IInv, TypeOK, Account
  <2>2. CASE BeginBlock
    BY <2>1, <2>2 DEF BeginBlock
  <2>3. CASE LeaveOut
    BY <2>1, <2>3 DEF LeaveOut, Sample
  <2>4. CASE SendTwice
    BY <2>1, <2>4 DEF SendTwice, Sample
  <2>5. CASE SendOnce
    BY <2>1, <2>5 DEF SendOnce, Sample
  <2> QED BY <2>2, <2>3, <2>4, <2>5 DEF Next, render_sample_block
<1> QED BY <1>1, Inductive, PTL DEF Spec, OpposesFill
-----------------------------------------------------------------------------
(* No deviation is too small *)

(* What a large FIFO asks for is proportional to how far it was from half  *)
(* when it was measured last.                                              *)
Proportional == Large => sampAddDel = FillError(measured) * ADD_DEL_BUFFPERSAMP

(* A product with a factor that is not zero. *)
LEMMA ProductIsFar ==
    ASSUME NEW d \in Int, NEW k \in Nat
    PROVE  /\ d > 0 => d * k >= k
           /\ d < 0 => d * k <= -k
<1>1. d > 0 => d * k >= k
  <2> SUFFICES ASSUME d > 0  PROVE d * k >= k
    OBVIOUS
  <2>1. d - 1 \in Nat
    OBVIOUS
  <2>2. (d - 1) * k >= 0
    BY <2>1
  <2>3. (d - 1) * k = d * k - k
    OBVIOUS
  <2> QED BY <2>2, <2>3
<1>2. d < 0 => d * k <= -k
  <2> SUFFICES ASSUME d < 0  PROVE d * k <= -k
    OBVIOUS
  <2>1. -d - 1 \in Nat
    OBVIOUS
  <2>2. (-d - 1) * k >= 0
    BY <2>1
  <2>3. (-d - 1) * k = -(d * k) - k
    OBVIOUS
  <2> QED BY <2>2, <2>3
<1> QED BY <1>1, <1>2

LEMMA ProportionalKept == IInv /\ Proportional /\ [Next]_vars => Proportional'
<1> SUFFICES ASSUME IInv, Proportional, [Next]_vars  PROVE Proportional'
  OBVIOUS
<1>1. CASE recalcAddDelSamp /\ len' = len
  <2>1. PICK fill \in 0 .. len, again \in 0 .. len :
            Keep(fill) \/ RecalcSmall(fill) \/ RecalcLarge(fill, again)
    BY <1>1 DEF recalcAddDelSamp
  <2>2. CASE Keep(fill)
    BY <1>1, <2>2 DEF Keep, Proportional, Large, FillError
  <2>3. CASE RecalcSmall(fill)
    BY <1>1, <2>3 DEF RecalcSmall, Proportional, Large
  <2>4. CASE RecalcLarge(fill, again)
    BY <1>1, <2>4 DEF RecalcLarge, Proportional, FillError
  <2> QED BY <2>1, <2>2, <2>3, <2>4
<1>2. CASE UNCHANGED <<len, sampAddDel, measured>>
  BY <1>2 DEF Proportional, Large, FillError
<1>3. CASE BeginBlock
  BY <1>1, <1>3 DEF BeginBlock
<1>4. CASE LeaveOut \/ SendTwice \/ SendOnce \/ UNCHANGED vars
  BY <1>2, <1>4 DEF LeaveOut, SendTwice, SendOnce, Sample, recalcVars, vars
<1> QED BY <1>3, <1>4 DEF Next, render_sample_block

(* While a large FIFO is above half, every block puts at least             *)
(* ADD_DEL_BUFFPERSAMP on the account, and only a sample that is left out  *)
(* takes something off it; below half the same with samples sent twice.    *)
DeviationAddsUp ==
    /\ Large /\ BeginBlock /\ AboveHalf' => sampErr' >= sampErr + ADD_DEL_BUFFPERSAMP
    /\ Large /\ BeginBlock /\ BelowHalf' => sampErr' <= sampErr - ADD_DEL_BUFFPERSAMP
    /\ Large /\ sampErr' < sampErr => sent' = 0 \/ BelowHalf'
    /\ Large /\ sampErr' > sampErr => sent' = 2 \/ AboveHalf'

(* The smallest deviation of the FIFO counts, if slowly: since the account *)
(* holds one sample at most after a block, a sample is left out (or sent   *)
(* twice) at the latest when 2 * One / ADD_DEL_BUFFPERSAMP blocks and one  *)
(* more were played, however little the FIFO is above (or below) half.     *)
THEOREM SmallDeviationsAddUp == Spec => [][DeviationAddsUp]_vars
<1>1. Init => Proportional
  <2> SUFFICES ASSUME Init  PROVE sampAddDel = FillError(measured) * ADD_DEL_BUFFPERSAMP
    BY DEF Proportional
  <2>1. len \in Nat /\ ADD_DEL_BUFFPERSAMP \in Nat /\ len \div 2 \in Int
    BY RateAssumption DEF Init
  <2>2. FillError(measured) = 0
    BY <2>1 DEF Init, FillError
  <2> QED BY <2>1, <2>2 DEF Init
<1>2. IInv /\ Proportional' /\ [Next]_vars => [DeviationAddsUp]_vars
  <2> SUFFICES ASSUME IInv, Proportional', Next, Large  PROVE DeviationAddsUp
    BY DEF DeviationAddsUp
  <2>1. sampErr \in Int /\ One \in Nat /\ One > 0
    BY RateAssumption DEF IInv, TypeOK
  <2>2. CASE BeginBlock
    <3>1. /\ len' = len /\ len \in Nat /\ ADD_DEL_BUFFPERSAMP \in Nat
          /\ sampErr' = sampErr + sampAddDel' /\ len \div 2 \in Int
      BY <2>2, RateAssumption DEF BeginBlock, IInv, TypeOK
    <3>2. measured' \in Int
      <4>1. TypeOK /\ Asked /\ recalcAddDelSamp /\ UNCHANGED len
        BY <2>2 DEF IInv, BeginBlock
      <4>2. measured' \in 0 .. len
        BY <4>1, RecalcKeeps
      <4> QED BY <3>1, <4>2
    <3>3. PICK m \in Int : m = measured'
      BY <3>2
    <3>4. PICK h \in Int : h = len \div 2
      BY <3>1
    <3> DEFINE d == m - h
    <3>5. sampAddDel' = d * ADD_DEL_BUFFPERSAMP
      BY <3>1, <3>3, <3>4 DEF Proportional, Large, FillError
    <3>6. d \in Int /\ (AboveHalf' => d > 0) /\ (BelowHalf' => d < 0)
          /\ (d > 0 => AboveHalf') /\ (d < 0 => BelowHalf')
      <4>1. (AboveHalf' <=> m > h) /\ (BelowHalf' <=> m < h)
        BY <3>1, <3>3, <3>4 DEF AboveHalf, BelowHalf
      <4>2. d \in Int /\ (m > h <=> d > 0) /\ (m < h <=> d < 0)
        OBVIOUS
      <4> HIDE DEF d
      <4> QED BY <4>1, <4>2, Zenon
    <3> HIDE DEF d
    <3>7. /\ d > 0 => d * ADD_DEL_BUFFPERSAMP >= ADD_DEL_BUFFPERSAMP
          /\ d < 0 => d * ADD_DEL_BUFFPERSAMP <= -ADD_DEL_BUFFPERSAMP
          /\ d = 0 => d * ADD_DEL_BUFFPERSAMP = 0
      BY <3>1, <3>6, ProductIsFar
    <3> DEFINE a == d * ADD_DEL_BUFFPERSAMP
    <3>8. a \in Int
      BY <3>1, <3>6
    <3> HIDE DEF a
    <3>9. sampErr' = sampErr + a
      BY <3>1, <3>5 DEF a
    <3>10. /\ d > 0 => a >= ADD_DEL_BUFFPERSAMP
           /\ d < 0 => a <= -ADD_DEL_BUFFPERSAMP
           /\ d = 0 => a = 0
      BY <3>7 DEF a
    <3>11. /\ d > 0 => sampErr' >= sampErr + ADD_DEL_BUFFPERSAMP
           /\ d < 0 => sampErr' <= sampErr - ADD_DEL_BUFFPERSAMP
           /\ sampErr' < sampErr => d < 0
           /\ sampErr' > sampErr => d > 0
      BY <2>1, <3>1, <3>6, <3>8, <3>9, <3>10
    <3> QED BY <3>6, <3>11 DEF DeviationAddsUp
  <2>3. CASE ~BeginBlock
    <3>1. \/ sampErr' = sampErr
          \/ sampErr' = sampErr - One /\ sent' = 0
          \/ sampErr' = sampErr + One /\ sent' = 2
      BY <2>3 DEF Next, render_sample_block, LeaveOut, SendTwice, SendOnce, Sample
    <3>2. /\ sampErr' < sampErr => sent' = 0
          /\ sampErr' > sampErr => sent' = 2
      BY <2>1, <3>1
    <3> QED BY <2>3, <3>2 DEF DeviationAddsUp
  <2> QED BY <2>2, <2>3
<1> QED BY <1>1, <1>2, ProportionalKept, Inductive, PTL DEF Spec
-----------------------------------------------------------------------------
(* The clock *)

(* A set of naturals has a least element. *)
Less == {pair \in Nat \X Nat : pair[1] < pair[2]}

LEMMA LeastOf ==
    ASSUME NEW T \in SUBSET Nat, T # {}
    PROVE  \E m \in T : \A k \in T : m <= k
<1>1. IsWellFoundedOn(Less, Nat)
  BY NatLessThanWellFounded, Zenon DEF OpToRel, Less
<1>2. PICK m \in T : \A k \in T : <<k, m>> \notin Less
  BY <1>1, WFMin, Zenon
<1>3. \A k \in T : ~(k < m)
  BY <1>2 DEF Less
<1> QED BY <1>3

(* The loops come to one of several settings first. *)
LEMMA FirstOf ==
    ASSUME NEW more \in BOOLEAN, NEW D \in SUBSET Setting(more), D # {}
    PROVE  \E d \in D : \A e \in D : d = e \/ Before(d, e)
<1>1. \A d \in D : /\ d.bck \in Nat /\ d.clkm \in Nat /\ d.bits \in Nat
                   /\ d = [bck |-> d.bck, clkm |-> d.clkm, bits |-> d.bits]
  BY DEF Setting
<1>2. PICK a \in D : \A d \in D : a.bck <= d.bck
  <2> DEFINE T == {d.bck : d \in D}
  <2>1. T \in SUBSET Nat /\ T # {}
    BY <1>1
  <2>2. PICK m \in T : \A k \in T : m <= k
    BY <2>1, LeastOf, Zenon
  <2> QED BY <2>2
<1>3. PICK b \in D : b.bck = a.bck /\ \A d \in D : d.bck = a.bck => b.clkm <= d.clkm
  <2> DEFINE T == {d.clkm : d \in {c \in D : c.bck = a.bck}}
  <2>1. T \in SUBSET Nat /\ T # {}
    BY <1>1
  <2>2. PICK m \in T : \A k \in T : m <= k
    BY <2>1, LeastOf, Zenon
  <2> QED BY <2>2
<1>4. PICK c \in D : /\ c.bck = a.bck /\ c.clkm = b.clkm
                     /\ \A d \in D : d.bck = a.bck /\ d.clkm = b.clkm => c.bits <= d.bits
  <2> DEFINE T == {d.bits : d \in {e \in D : e.bck = a.bck /\ e.clkm = b.clkm}}
  <2>1. T \in SUBSET Nat /\ T # {}
    BY <1>1, <1>3
  <2>2. PICK m \in T : \A k \in T : m <= k
    BY <2>1, LeastOf, Zenon
  <2> QED BY <2>2
<1>5. ASSUME NEW e \in D, ~Before(c, e)
      PROVE  c = e
  <2>1. e.bck = c.bck
    BY <1>1, <1>2, <1>4, <1>5 DEF Before
  <2>2. e.clkm = c.clkm
    BY <2>1, <1>1, <1>3, <1>4, <1>5 DEF Before
  <2>3. e.bits = c.bits
    BY <2>1, <2>2, <1>1, <1>4, <1>5 DEF Before
  <2> QED BY <2>1, <2>2, <2>3, <1>1, Zenon
<1> QED BY <1>5

(* What a setting divides the clock by. *)
LEMMA DividerIsNat ==
    ASSUME NEW more \in BOOLEAN, NEW d \in Setting(more)
    PROVE  /\ d.bck \in Nat /\ d.clkm \in Nat /\ d.bits \in Nat
           /\ d.bck * d.clkm * d.bits * 2 \in Nat \ {0}
<1>1. /\ d.bck \in Nat /\ d.bck > 0 /\ d.clkm \in Nat /\ d.clkm > 0
      /\ d.bits \in Nat /\ d.bits > 0
  BY DEF Setting
<1>2. \A m, n \in Nat : m > 0 /\ n > 0 => m * n \in Nat /\ m * n > 0
  OBVIOUS
<1>3. d.bck * d.clkm \in Nat /\ d.bck * d.clkm > 0
  BY <1>1, <1>2
<1>4. d.bck * d.clkm * d.bits \in Nat /\ d.bck * d.clkm * d.bits > 0
  BY <1>1, <1>2, <1>3
<1> QED BY <1>1, <1>4

LEMMA ClockIsNat ==
    ASSUME NEW more \in BOOLEAN, NEW d \in Setting(more)
    PROVE  tstfreq(d) \in Nat
<1> DEFINE n == d.bck * d.clkm * d.bits * 2
<1>1. n \in Nat \ {0}
  BY DividerIsNat
<1>2. BASEFREQ \div n \in Nat
  <2> HIDE DEF n
  <2> QED BY <1>1, SMT DEF BASEFREQ
<1> QED BY <1>2, SMT DEF tstfreq

(* No setting the search looks at is closer than the one it keeps. *)
LEMMA BestIsClosest ==
    ASSUME NEW rate \in SampleRate, NEW more \in BOOLEAN, NEW w \in Found(rate, more)
    PROVE  /\ Best(rate, more) \in Setting(more)
           /\ Distance(rate, tstfreq(Best(rate, more))) <= Distance(rate, tstfreq(w))
<1> DEFINE distances == {Distance(rate, tstfreq(d)) : d \in Found(rate, more)}
           least == CHOOSE n \in distances : \A m \in distances : n <= m
           closest == {d \in Found(rate, more) : Distance(rate, tstfreq(d)) = least}
<1>1. rate \in Nat
  BY SMT DEF SampleRate
<1>2. Found(rate, more) \subseteq Setting(more)
  BY DEF Found
<1>3. \A d \in Found(rate, more) : Distance(rate, tstfreq(d)) \in Nat
  BY <1>1, <1>2, ClockIsNat DEF Distance
<1>4. distances \in SUBSET Nat /\ distances # {}
  BY <1>3
<1>5. least \in distances /\ \A m \in distances : least <= m
  <2> HIDE DEF distances
  <2>1. \E n \in distances : \A m \in distances : n <= m
    BY <1>4, LeastOf, Zenon
  <2> QED BY <2>1, Zenon
<1>6. closest \in SUBSET Setting(more) /\ closest # {}
  <2> HIDE DEF least
  <2> QED BY <1>2, <1>5
<1>7. Best(rate, more) \in closest
  <2> HIDE DEF closest
  <2>1. \E d \in closest : \A e \in closest : d = e \/ Before(d, e)
    BY <1>6, FirstOf, Zenon
  <2>2. Best(rate, more) = CHOOSE d \in closest : \A e \in closest : d = e \/ Before(d, e)
    BY Zenon DEF Best, closest
  <2> QED BY <2>1, <2>2, Zenon
<1>8. Distance(rate, tstfreq(Best(rate, more))) = least
  <2> HIDE DEF least
  <2> QED BY <1>7
<1>9. Distance(rate, tstfreq(w)) \in distances
  BY Zenon
<1> HIDE DEF closest, least, distances
<1> QED BY <1>5, <1>6, <1>7, <1>8, <1>9, Zenon

(* The clock with samples of 16 bits. *)
Clock(bck, clkm) == BASEFREQ \div (bck * clkm * 16 * 2)

LEMMA DividersFound ==
    ASSUME NEW rate \in SampleRate, NEW more \in BOOLEAN,
           NEW bck \in 2 .. 63, NEW clkm \in 5 .. 63,
           Distance(rate, Clock(bck, clkm)) < rate, Settles(rate, Clock(bck, clkm))
    PROVE  \E w \in Found(rate, more) : Settles(rate, tstfreq(w))
<1> DEFINE w == [bck |-> bck, clkm |-> clkm, bits |-> 16]
<1>1. w \in Setting(more)
  BY DEF Setting
<1>2. tstfreq(w) = Clock(bck, clkm)
  BY DEF tstfreq, Clock
<1>3. w \in Found(rate, more)
  BY <1>1, <1>2, Zenon DEF Found
<1> QED BY <1>2, <1>3, Zenon

(* For each rate there are dividers of 16 bits that are close. *)
LEMMA SomeAreClose ==
    ASSUME NEW rate \in SampleRate, NEW more \in BOOLEAN
    PROVE  \E w \in Found(rate, more) : Settles(rate, tstfreq(w))
<1>1. CASE rate = 48000
  <2>1. Clock(2, 52) = 48076
    BY SMT DEF Clock, BASEFREQ
  <2>2. Distance(rate, Clock(2, 52)) < rate /\ Settles(rate, Clock(2, 52))
    BY <1>1, <2>1, SMT DEF Distance, Settles, BytesPerRate
  <2>3. 2 \in 2 .. 63 /\ 52 \in 5 .. 63
    OBVIOUS
  <2> QED BY <2>2, <2>3, DividersFound, Zenon
<1>2. CASE rate = 44100
  <2>1. Clock(2, 57) = 43859
    BY SMT DEF Clock, BASEFREQ
  <2>2. Distance(rate, Clock(2, 57)) < rate /\ Settles(rate, Clock(2, 57))
    BY <1>2, <2>1, SMT DEF Distance, Settles, BytesPerRate
  <2>3. 2 \in 2 .. 63 /\ 57 \in 5 .. 63
    OBVIOUS
  <2> QED BY <2>2, <2>3, DividersFound, Zenon
<1>3. CASE rate = 32000
  <2>1. Clock(3, 52) = 32051
    BY SMT DEF Clock, BASEFREQ
  <2>2. Distance(rate, Clock(3, 52)) < rate /\ Settles(rate, Clock(3, 52))
    BY <1>3, <2>1, SMT DEF Distance, Settles, BytesPerRate
  <2>3. 3 \in 2 .. 63 /\ 52 \in 5 .. 63
    OBVIOUS
  <2> QED BY <2>2, <2>3, DividersFound, Zenon
<1>4. CASE rate = 24000
  <2>1. Clock(4, 52) = 24038
    BY SMT DEF Clock, BASEFREQ
  <2>2. Distance(rate, Clock(4, 52)) < rate /\ Settles(rate, Clock(4, 52))
    BY <1>4, <2>1, SMT DEF Distance, Settles, BytesPerRate
  <2>3. 4 \in 2 .. 63 /\ 52 \in 5 .. 63
    OBVIOUS
  <2> QED BY <2>2, <2>3, DividersFound, Zenon
<1>5. CASE rate = 22050
  <2>1. Clock(4, 57) = 21929
    BY SMT DEF Clock, BASEFREQ
  <2>2. Distance(rate, Clock(4, 57)) < rate /\ Settles(rate, Clock(4, 57))
    BY <1>5, <2>1, SMT DEF Distance, Settles, BytesPerRate
  <2>3. 4 \in 2 .. 63 /\ 57 \in 5 .. 63
    OBVIOUS
  <2> QED BY <2>2, <2>3, DividersFound, Zenon
<1>6. CASE rate = 16000
  <2>1. Clock(6, 52) = 16025
    BY SMT DEF Clock, BASEFREQ
  <2>2. Distance(rate, Clock(6, 52)) < rate /\ Settles(rate, Clock(6, 52))
    BY <1>6, <2>1, SMT DEF Distance, Settles, BytesPerRate
  <2>3. 6 \in 2 .. 63 /\ 52 \in 5 .. 63
    OBVIOUS
  <2> QED BY <2>2, <2>3, DividersFound, Zenon
<1>7. CASE rate = 12000
  <2>1. Clock(8, 52) = 12019
    BY SMT DEF Clock, BASEFREQ
  <2>2. Distance(rate, Clock(8, 52)) < rate /\ Settles(rate, Clock(8, 52))
    BY <1>7, <2>1, SMT DEF Distance, Settles, BytesPerRate
  <2>3. 8 \in 2 .. 63 /\ 52 \in 5 .. 63
    OBVIOUS
  <2> QED BY <2>2, <2>3, DividersFound, Zenon
<1>8. CASE rate = 11025
  <2>1. Clock(13, 35) = 10989
    BY SMT DEF Clock, BASEFREQ
  <2>2. Distance(rate, Clock(13, 35)) < rate /\ Settles(rate, Clock(13, 35))
    BY <1>8, <2>1, SMT DEF Distance, Settles, BytesPerRate
  <2>3. 13 \in 2 .. 63 /\ 35 \in 5 .. 63
    OBVIOUS
  <2> QED BY <2>2, <2>3, DividersFound, Zenon
<1>9. CASE rate = 8000
  <2>1. Clock(25, 25) = 8000
    BY SMT DEF Clock, BASEFREQ
  <2>2. Distance(rate, Clock(25, 25)) < rate /\ Settles(rate, Clock(25, 25))
    BY <1>9, <2>1, SMT DEF Distance, Settles, BytesPerRate
  <2>3. 25 \in 2 .. 63 /\ 25 \in 5 .. 63
    OBVIOUS
  <2> QED BY <2>2, <2>3, DividersFound, Zenon
<1> QED BY <1>1, <1>2, <1>3, <1>4, <1>5, <1>6, <1>7, <1>8, <1>9, SMT DEF SampleRate

(* The register holds the best setting for the rate set last. *)
Clocked ==
    /\ vary \in BOOLEAN
    /\ oldRate \in SampleRate \cup {0}
    /\ oldRate # 0 => LET d == Best(oldRate, vary)
                      IN  i2sconf = [bck |-> d.bck, clkm |-> d.clkm, bits |-> d.bits - 16]

LEMMA ClockedIsKept == Clocked /\ [MCNext]_<<vars, dacVars>> => Clocked'
<1> SUFFICES ASSUME Clocked, [MCNext]_<<vars, dacVars>>
             PROVE  Clocked'
  OBVIOUS
<1>1. CASE UNCHANGED dacVars
  BY <1>1, Zenon DEF Clocked, dacVars
<1>2. ASSUME NEW rate \in SampleRate, set_dac_sample_rate(rate)
      PROVE  Clocked'
  <2> DEFINE d == Best(rate, vary)
  <2>1. vary \in BOOLEAN /\ vary' = vary /\ oldRate' = rate
    BY <1>2, Zenon DEF Clocked, set_dac_sample_rate
  <2>2. Found(rate, vary) # {}
    BY <2>1, SomeAreClose, Zenon
  <2>3. Searched[rate][vary] = {[bck |-> d.bck, clkm |-> d.clkm, bits |-> d.bits - 16]}
    BY <2>1, <2>2 DEF Searched
  <2>4. i2sconf' = [bck |-> d.bck, clkm |-> d.clkm, bits |-> d.bits - 16]
    BY <1>2, <2>3, Zenon DEF set_dac_sample_rate, i2sSetRate
  <2> QED BY <2>1, <2>4, Zenon DEF Clocked
<1> QED BY <1>1, <1>2, Zenon DEF MCNext, Render, dacVars

(* SettlesNearHalf: whatever the rates of the frames, the word clock that  *)
(* i2sSetRate leaves in the register is within what the rate control of    *)
(* render_sample_block can make up for with the FIFO near half.            *)
THEOREM ClockIsClose == MCSpec => []SettlesNearHalf
<1>1. MCInit => Clocked
  BY Zenon DEF MCInit, DacInit, Clocked
<1>2. Clocked => SettlesNearHalf
  <2> SUFFICES ASSUME Clocked, oldRate # 0
               PROVE  Settles(oldRate, WordSelect)
    BY Zenon DEF SettlesNearHalf
  <2> DEFINE d == Best(oldRate, vary)
  <2>1. oldRate \in SampleRate /\ oldRate \in Nat /\ vary \in BOOLEAN
    <3>1. oldRate \in SampleRate /\ vary \in BOOLEAN
      BY Zenon DEF Clocked
    <3> QED BY <3>1, SMT DEF SampleRate
  <2>2. PICK w \in Found(oldRate, vary) : Settles(oldRate, tstfreq(w))
    BY <2>1, SomeAreClose, Zenon
  <2>3. w \in Setting(vary)
    BY <2>2, Zenon DEF Found
  <2>4. d \in Setting(vary) /\ Distance(oldRate, tstfreq(d)) <= Distance(oldRate, tstfreq(w))
    BY <2>1, <2>2, BestIsClosest, Zenon
  <2>5. tstfreq(d) \in Nat /\ tstfreq(w) \in Nat
    BY <2>1, <2>3, <2>4, ClockIsNat, Zenon
  <2>6. WordSelect = tstfreq(d)
    <3>1. i2sconf.bck = d.bck /\ i2sconf.clkm = d.clkm /\ i2sconf.bits = d.bits - 16
      <4>1. i2sconf = [bck |-> d.bck, clkm |-> d.clkm, bits |-> d.bits - 16]
        BY Zenon DEF Clocked
      <4> QED BY <4>1
    <3>2. d.bck \in Nat /\ d.clkm \in Nat /\ d.bits \in Nat
      BY <2>1, <2>4, DividerIsNat, Zenon
    <3>3. d.clkm * d.bck * 2 * (16 + (d.bits - 16)) = d.bck * d.clkm * d.bits * 2
      <4>1. \A k, m, n \in Nat : m * k * 2 * (16 + (n - 16)) = k * m * n * 2
        OBVIOUS
      <4> QED BY <3>2, <4>1, Zenon
    <3> QED BY <3>1, <3>3, Zenon DEF WordSelect, tstfreq
  <2> HIDE DEF d
  <2> QED BY <2>1, <2>2, <2>4, <2>5, <2>6, SMT DEF Settles, Distance, BytesPerRate
<1> QED BY <1>1, <1>2, ClockedIsKept, PTL DEF MCSpec

(* Between the blocks a frame may change the clock, and nothing else of    *)
(* the rate control: the composition of the two implements                 *)
(* render_sample_block alone, so that the theorems above hold in it too.   *)
THEOREM ClockIsApart == MCSpec => Spec
<1>1. MCInit => Init
  BY Zenon DEF MCInit
<1>2. [MCNext]_<<vars, dacVars>> => [Next]_vars
  BY Zenon DEF MCNext, Next, Render
<1> QED BY <1>1, <1>2, PTL DEF MCSpec, Spec
-----------------------------------------------------------------------------
(* The samples themselves: scaling, mixing and the three forms of output. *)

(* A number that fits a short is kept. *)
LEMMA ShortIsKept ==
    ASSUME NEW n \in Int, n >= -32768, n <= 32767
    PROVE  ToShort(n) = n
BY SMT DEF ToShort

(* The remainder of a negative sample is its unsigned form. *)
LEMMA UnsignedForm ==
    ASSUME NEW n \in Int, n >= -32768, n <= 32767
    PROVE  ToShort(n % 65536) = n
<1>1. n >= 0 => n % 65536 = n
    BY SMT
<1>2. n < 0 => n % 65536 = n + 65536
    BY SMT
<1>3. n < 0 => (n + 98304) % 65536 = n + 32768
    BY SMT
<1>4. n >= 0 => (n + 32768) % 65536 = n + 32768
    BY SMT
<1>5. CASE n >= 0
    BY <1>1, <1>4, <1>5, SMT DEF ToShort
<1>6. CASE n < 0
    BY <1>2, <1>3, <1>6, SMT DEF ToShort
<1>. QED  BY <1>5, <1>6, SMT

LEMMA ScaleRange ==
    ASSUME NEW a \in Raw
    PROVE  scale(a) \in Int /\ scale(a) >= -16384 /\ scale(a) <= 16383
<1>. DEFINE c == Clip(a + 4096, -MAD_F_ONE, MAD_F_ONE - 1)
<1>1. a \in Int
    BY SMT DEF Raw
<1>2. c \in Int /\ -268435456 <= c /\ c <= 268435455
    BY <1>1, SMT DEF Clip, MAD_F_ONE
<1>3. scale(a) = c \div 16384
    BY SMT DEF scale
<1>. HIDE DEF c
<1>. QED  BY <1>2, <1>3, SMT

(* Two channels added up always fit the short they are stored in, at any   *)
(* volume: this is why `scale' shifts by one bit more than NXP's code,     *)
(* which "somehow clipped and distorted on loud sounds".                   *)
THEOREM MixFits ==
    ASSUME NEW left \in Raw, NEW right \in Raw
    PROVE  Mixed(left, right) = scale(left) + scale(right)
<1>1. scale(left) \in Int /\ scale(left) >= -16384 /\ scale(left) <= 16383
    BY ScaleRange
<1>2. scale(right) \in Int /\ scale(right) >= -16384 /\ scale(right) <= 16383
    BY ScaleRange
<1>3. ToShort(scale(left)) = scale(left)
    BY <1>1, ShortIsKept, SMT
<1>4. ToShort(scale(right)) = scale(right)
    BY <1>2, ShortIsKept, SMT
<1>5. ToShort(scale(left) + scale(right)) = scale(left) + scale(right)
    BY <1>1, <1>2, ShortIsKept, SMT
<1>. QED  BY <1>3, <1>4, <1>5, SMT DEF Mixed

(* Rounding and clipping never turn a louder sample into a softer one. *)
THEOREM ScaleIsMonotone ==
    ASSUME NEW a \in Raw, NEW b \in Raw, a <= b
    PROVE  scale(a) <= scale(b)
<1>. DEFINE c(n) == Clip(n + 4096, -MAD_F_ONE, MAD_F_ONE - 1)
<1>1. a \in Int /\ b \in Int
    BY SMT DEF Raw
<1>2. c(a) \in Int /\ c(b) \in Int /\ c(a) <= c(b)
    BY <1>1, SMT DEF Clip, MAD_F_ONE
<1>3. scale(a) = c(a) \div 16384 /\ scale(b) = c(b) \div 16384
    BY SMT DEF scale
<1>. HIDE DEF c
<1>. QED  BY <1>2, <1>3, SMT

(* The two halves of the word for the DAC are the sample. *)
THEOREM BothHalves ==
    ASSUME NEW s \in Short
    PROVE  ToShort(sampToI2s(s).high) = s /\ ToShort(sampToI2s(s).low) = s
<1>1. s \in Int /\ s >= -32768 /\ s <= 32767
    BY SMT DEF Short
<1>2. ToShort(s % 65536) = s
    BY <1>1, UnsignedForm, SMT
<1>. QED  BY <1>2, SMT DEF sampToI2s

LEMMA PwmIndexRange ==
    ASSUME NEW s \in Short, NEW err \in Err
    PROVE  PwmIndex(s, err) \in Int /\ PwmIndex(s, err) >= 0 /\ PwmIndex(s, err) <= 31
<1>. DEFINE c == Clip(s + 32768 - err, 0, 65535)
<1>1. s \in Int /\ err \in Int
    BY SMT DEF Short, Err
<1>2. c \in Int /\ c >= 0 /\ c <= 65535
    BY <1>1, SMT DEF Clip
<1>3. PwmIndex(s, err) = c \div 2048
    BY SMT DEF PwmIndex
<1>. HIDE DEF c
<1>. QED  BY <1>2, <1>3, SMT

(* The table of PWM words is never indexed outside, whatever error was     *)
(* kept, and the next error is again one of eleven bits.                   *)
THEOREM PwmStaysInTable ==
    ASSUME NEW s \in Short, NEW err \in Err
    PROVE  PwmIndex(s, err) \in Entry /\ PwmErr(s, err) \in Err
<1>1. PwmIndex(s, err) \in Entry
    BY PwmIndexRange DEF Entry
<1>2. \A n \in Entry : /\ fakePwmLow[n] \in Int
                       /\ fakePwmLow[n] >= 0 /\ fakePwmLow[n] <= 2047
    BY SMT DEF fakePwmLow, Entry
<1>3. /\ PwmErr(s, err) \in Int
      /\ PwmErr(s, err) >= 0 /\ PwmErr(s, err) <= 2047
    BY <1>1, <1>2 DEF PwmErr
<1>. QED  BY <1>1, <1>3, SMT DEF Err

(* What the PWM output carries over is no rounding error: samp has been    *)
(* overwritten by the word sent when its low bits are saved.  After every  *)
(* word but the lowest more than half of a step (2048) is taken off the    *)
(* next sample, even when nothing was rounded.                             *)
THEOREM PwmTakesOffHalfStep ==
    ASSUME NEW s \in Short, NEW err \in Err, PwmIndex(s, err) > 0
    PROVE  PwmErr(s, err) > 1024
<1>1. PwmIndex(s, err) \in Entry
    BY PwmStaysInTable
<1>2. \A n \in Entry : n > 0 => fakePwmLow[n] > 1024
    BY SMT DEF fakePwmLow, Entry
<1>. QED  BY <1>1, <1>2 DEF PwmErr

(* The feedback of the delta-sigma converter opposes its output: after a   *)
(* bit that was set the first integrator does not rise, after one that was *)
(* not it does not fall.  This takes a sample other than the lowest: at    *)
(* -32768, which two channels at full scale add up to, the integrator      *)
(* falls with every bit whatever is sent.                                  *)
THEOREM FeedbackOpposes ==
    ASSUME NEW s \in Short, NEW i1 \in Int, NEW outReg \in Int
    PROVE  /\ outReg > 0 => i1v(s, i1, outReg) <= i1
           /\ outReg <= 0 /\ s # -32768 => i1v(s, i1, outReg) >= i1
           /\ s = -32768 => i1v(s, i1, outReg) < i1
<1>1. s \in Int /\ s >= -32768 /\ s <= 32767
    BY SMT DEF Short
<1>. QED  BY <1>1, SMT DEF i1v, Feedback
=============================================================================
