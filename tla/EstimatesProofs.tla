--------------------------- MODULE EstimatesProofs ---------------------------
(***************************************************************************)
(* The variance takes only three values before a measurement, whatever is  *)
(* measured, so the gain takes only three values; with it constant, the     *)
(* update is linear arithmetic and the bounds hold for every measurement    *)
(* that fits 24 bits.  The excesses that are remembered are compared, place by *)
(* place, with those of the rounds that the place stands for.                  *)
(***************************************************************************)
EXTENDS Estimates, WellFoundedInduction, NaturalsInduction, SequenceTheorems, TLAPS

\* The variance starts at 25 and reaches its fixed point 2 by way of 3; the
\* estimate stays as small as the measurements must be.
IInv ==
    /\ p_post \in {25, 3, 2}
    /\ hat_post \in Nat /\ 256 * hat_post < WordMod

\* The gain for each variance, and the variance that follows it.
LEMMA GainValues ==
    /\ Gain(Predict(25)) = 224 /\ Variance(Predict(25), 224) = 3
    /\ Gain(Predict(3)) = 162 /\ Variance(Predict(3), 162) = 2
    /\ Gain(Predict(2)) = 153 /\ Variance(Predict(2), 153) = 2
  BY DEF Gain, Predict, Variance, VarQ, VarR, FieldMod

\* For a constant gain, a weighted mean rounded down lies between its two terms.
LEMMA WeightedMean ==
    ASSUME NEW h \in Nat, NEW m \in Nat, 256 * h < WordMod, 256 * m < WordMod,
           NEW g \in {224, 162, 153}
    PROVE  /\ Update(h, m, g) \in Nat
           /\ \/ h <= Update(h, m, g) /\ Update(h, m, g) <= m
              \/ m <= Update(h, m, g) /\ Update(h, m, g) <= h
  <1> DEFINE x == (256 - g) * h + g * m
  <1>1. x \in Nat /\ x < WordMod
    <2>1. CASE g = 224 BY <2>1, KalmanAssumption
    <2>2. CASE g = 162 BY <2>2, KalmanAssumption
    <2>3. CASE g = 153 BY <2>3, KalmanAssumption
    <2> QED BY <2>1, <2>2, <2>3
  <1>2. \/ 256 * h <= x /\ x <= 256 * m
        \/ 256 * m <= x /\ x <= 256 * h
    <2>1. CASE g = 224 BY <2>1
    <2>2. CASE g = 162 BY <2>2
    <2>3. CASE g = 153 BY <2>3
    <2> QED BY <2>1, <2>2, <2>3
  <1>3. x % WordMod = x
    BY <1>1, KalmanAssumption
  <1>4. Update(h, m, g) = x \div 256
    BY <1>3 DEF Update
  <1> HIDE DEF x
  <1> QED BY <1>1, <1>2, <1>4

\* What is at most a number that fits, fits.
LEMMA SmallerFits ==
    ASSUME NEW a \in Nat, NEW b \in Nat, a <= b, 256 * b < WordMod
    PROVE  256 * a < WordMod
  BY KalmanAssumption

\* The initial variance 25 is one of the three.
LEMMA InitInv == Init => IInv
  BY KalmanAssumption DEF Init, IInv

\* A measurement keeps both, and moves the estimate towards it.
LEMMA NextInv ==
    ASSUME IInv, NEW m \in Samples, Measure(m)
    PROVE  /\ IInv'
           /\ \/ hat_post <= hat_post' /\ hat_post' <= last'
              \/ last' <= hat_post' /\ hat_post' <= hat_post
  <1> DEFINE g == Gain(Predict(p_post))
  <1>1. g \in {224, 162, 153} /\ p_post' \in {3, 2}
    BY GainValues DEF IInv, Measure
  <1>2. m \in Nat /\ 256 * m < WordMod
    BY KalmanAssumption
  <1>3. hat_post' = Update(hat_post, m, g) /\ last' = m
    BY DEF Measure
  <1> HIDE DEF g
  <1>4. /\ hat_post' \in Nat
        /\ \/ hat_post <= hat_post' /\ hat_post' <= m
           \/ m <= hat_post' /\ hat_post' <= hat_post
    BY <1>1, <1>2, <1>3, WeightedMean DEF IInv
  <1>5. 256 * hat_post' < WordMod
    <2>1. WordMod \in Nat /\ hat_post \in Nat /\ 256 * hat_post < WordMod
      BY KalmanAssumption DEF IInv
    <2>2. hat_post' <= m \/ hat_post' <= hat_post
      BY <1>4
    <2> QED BY <1>2, <1>4, <2>1, <2>2, SmallerFits
  <1> QED BY <1>1, <1>3, <1>4, <1>5 DEF IInv

\* The variance and the range of the estimate are invariants.
LEMMA InvariantHolds == Spec => []IInv
  <1>1. IInv /\ [Next]_vars => IInv'
    <2> SUFFICES ASSUME IInv, [Next]_vars PROVE IInv' OBVIOUS
    <2>1. CASE Next BY <2>1, NextInv DEF Next
    <2>2. CASE UNCHANGED vars BY <2>2 DEF vars, IInv
    <2> QED BY <2>1, <2>2
  <1> QED BY InitInv, <1>1, PTL DEF Spec

\* The five bits of p_post always suffice (leocc.c:40-41, 697, 706).
THEOREM VarianceAlwaysFits == Spec => []VarianceFits
  <1>1. IInv => VarianceFits
    BY DEF IInv, VarianceFits, VarQ, FieldMod
  <1> QED BY InvariantHolds, <1>1, PTL

\* No estimate overflows or leaves the interval between the old estimate and the
\* measurement, for every stream of measurements below 2^24 (leocc.c:696-710).
THEOREM EstimateMovesTowardsMeasurement == Spec => MovesTowardsMeasurement
  <1>1. IInv /\ [Next]_vars
          => [\/ hat_post <= hat_post' /\ hat_post' <= last'
              \/ last' <= hat_post' /\ hat_post' <= hat_post]_vars
    BY NextInv DEF Next
  <1> QED BY InvariantHolds, <1>1, PTL DEF Spec, MovesTowardsMeasurement

-----------------------------------------------------------------------------
(* The estimate settles                                                     *)

\* The two are at most d apart.
Near(a, b, d) == a <= b + d /\ b <= a + d

\* A measurement halves the distance to it at least; from two or less nothing is
\* left but the truncation below it.
LEMMA DistanceHalves ==
    ASSUME NEW h \in Nat, NEW m \in Nat, 256 * h < WordMod, 256 * m < WordMod,
           NEW g \in {224, 162, 153}, NEW q \in Nat \ {0},
           Near(h, m, 2 * q)
    PROVE  /\ Near(Update(h, m, g), m, q)
           /\ q = 1 => Update(h, m, g) \in {m - 1, m}
  <1> DEFINE x == (256 - g) * h + g * m
  <1>1. x \in Nat /\ x < WordMod
    <2>1. CASE g = 224 BY <2>1, KalmanAssumption
    <2>2. CASE g = 162 BY <2>2, KalmanAssumption
    <2>3. CASE g = 153 BY <2>3, KalmanAssumption
    <2> QED BY <2>1, <2>2, <2>3
  <1>2. x <= 256 * m + 206 * q /\ 256 * m <= x + 206 * q
    <2>1. CASE g = 224 BY <2>1 DEF Near
    <2>2. CASE g = 162 BY <2>2 DEF Near
    <2>3. CASE g = 153 BY <2>3 DEF Near
    <2> QED BY <2>1, <2>2, <2>3
  <1>3. Update(h, m, g) = x \div 256
    BY <1>1, KalmanAssumption DEF Update
  <1> HIDE DEF x
  <1> QED BY <1>1, <1>2, <1>3 DEF Near

\* After `same` equal measurements the distance is at most the bound of all of them,
\* halved as many times.  pow[n] is 2^n.
Settling(pow) ==
    /\ IInv
    /\ same \in 0 .. Settled /\ last \in Nat /\ hat_post <= pow[Settled]
    /\ same # 0 => Near(hat_post, last, pow[Settled - same])
    /\ same = Settled => hat_post \in {last - 1, last}

\* What is left of n after k of it.
LEMMA Remaining ==
    ASSUME NEW n \in Nat, NEW k \in 1 .. n
    PROVE  n - k \in Nat /\ (k = n => n - k = 0)
  OBVIOUS

LEMMA SettlingNext ==
    ASSUME NEW pow \in [Nat -> Nat \ {0}], pow[0] = 1, \A n \in Nat : pow[n + 1] = 2 * pow[n],
           \A m \in Samples : m <= pow[Settled],
           Settling(pow), NEW m \in Samples, Measure(m)
    PROVE  Settling(pow)'
  <1> DEFINE g == Gain(Predict(p_post))
  <1>1. IInv /\ IInv' /\ (\/ hat_post <= hat_post' /\ hat_post' <= m
                          \/ m <= hat_post' /\ hat_post' <= hat_post)
    BY NextInv DEF Settling, Measure
  <1>2. g \in {224, 162, 153}
    BY <1>1, GainValues DEF IInv
  <1>3. m \in Nat /\ 256 * m < WordMod /\ m <= pow[Settled] /\ Settled \in Nat \ {0}
    BY KalmanAssumption
  <1>4. /\ hat_post' = Update(hat_post, m, g) /\ last' = m
        /\ same' = IF m = last /\ same < Settled THEN same + 1
                   ELSE IF m = last THEN same ELSE 1
    BY DEF Measure
  <1>5. /\ same \in 0 .. Settled /\ last \in Nat /\ hat_post \in Nat /\ hat_post' \in Nat
        /\ hat_post <= pow[Settled] /\ 256 * hat_post < WordMod
        /\ same # 0 => Near(hat_post, last, pow[Settled - same])
        /\ same = Settled => hat_post \in {last - 1, last}
    BY <1>1 DEF Settling, IInv
  <1> HIDE DEF g
  <1>6. same' \in 1 .. Settled /\ last' \in Nat
    BY <1>3, <1>4, <1>5
  <1>7. hat_post' <= pow[Settled]
    <2>1. pow[Settled] \in Nat
      BY <1>3
    <2> QED
      BY <1>1, <1>3, <1>5, <2>1
  <1> DEFINE q == pow[Settled - same']
             d == IF m = last /\ same < Settled THEN pow[Settled - same] ELSE pow[Settled]
  <1>8. q \in Nat \ {0} /\ (same' = Settled => q = 1)
    <2>1. Settled - same' \in Nat /\ (same' = Settled => Settled - same' = 0)
      <3>1. Settled \in Nat
        BY <1>3
      <3> QED
        BY <1>6, <3>1, Remaining
    <2> QED
      BY <2>1
  <1>9. CASE m # last \/ same < Settled
    <2>1. d = 2 * q
      <3>1. CASE m = last /\ same < Settled
        <4>1. Settled - same = (Settled - same') + 1 /\ Settled - same' \in Nat
          BY <1>3, <1>4, <1>5, <3>1
        <4> QED
          BY <3>1, <4>1
      <3>2. CASE m # last
        <4>1. Settled = (Settled - same') + 1 /\ Settled - same' \in Nat
          BY <1>3, <1>4, <3>2
        <4> QED
          BY <3>2, <4>1
      <3> QED
        BY <1>9, <3>1, <3>2
    <2>2. Near(hat_post, m, d)
      <3>1. CASE m = last /\ same < Settled /\ same # 0
        BY <1>5, <3>1
      <3>2. CASE ~(m = last /\ same < Settled)
        <4>1. pow[Settled] \in Nat
          BY <1>3
        <4> QED
          BY <1>3, <1>5, <3>2, <4>1 DEF Near
      <3>3. CASE m = last /\ same < Settled /\ same = 0
        <4>1. d = pow[Settled] /\ pow[Settled] \in Nat
          <5>1. Settled - 0 = Settled
            BY <1>3
          <5> QED
            BY <1>3, <3>3, <5>1
        <4> HIDE DEF d
        <4> QED
          BY <1>3, <1>5, <4>1 DEF Near
      <3> QED
        BY <3>1, <3>2, <3>3
    <2> HIDE DEF d, q
    <2>3. Near(hat_post, m, 2 * q)
      BY <2>1, <2>2
    <2>4. /\ Near(hat_post', m, q)
          /\ q = 1 => hat_post' \in {m - 1, m}
      <3>1. /\ hat_post \in Nat /\ 256 * hat_post < WordMod
            /\ m \in Nat /\ 256 * m < WordMod /\ q \in Nat \ {0}
        BY <1>3, <1>5, <1>8
      <3>2. /\ Near(Update(hat_post, m, g), m, q)
            /\ q = 1 => Update(hat_post, m, g) \in {m - 1, m}
        <4>1. \A k \in {224, 162, 153}, r \in Nat \ {0} : Near(hat_post, m, 2 * r)
                  => /\ Near(Update(hat_post, m, k), m, r)
                     /\ r = 1 => Update(hat_post, m, k) \in {m - 1, m}
          BY <3>1, DistanceHalves
        <4> QED
          BY <1>2, <2>3, <3>1, <4>1
      <3> QED
        BY <1>4, <3>2
    <2> QED
      BY <1>1, <1>4, <1>6, <1>7, <1>8, <2>4 DEF Settling, q
  <1>10. CASE m = last /\ ~(same < Settled)
    <2>1. same = Settled /\ same' = Settled
      BY <1>3, <1>4, <1>5, <1>10
    <2>2. hat_post \in {m - 1, m}
      BY <1>5, <1>10, <2>1
    <2>3. q = 1
      BY <1>8, <2>1
    <2> HIDE DEF q
    <2>4. Near(hat_post, m, 2 * q)
      BY <1>3, <1>5, <2>2, <2>3 DEF Near
    <2>5. /\ Near(hat_post', m, q)
          /\ hat_post' \in {m - 1, m}
      <3>1. /\ hat_post \in Nat /\ 256 * hat_post < WordMod
            /\ m \in Nat /\ 256 * m < WordMod /\ q \in Nat \ {0}
        BY <1>3, <1>5, <1>8
      <3>2. /\ Near(Update(hat_post, m, g), m, q)
            /\ q = 1 => Update(hat_post, m, g) \in {m - 1, m}
        <4>1. \A k \in {224, 162, 153}, r \in Nat \ {0} : Near(hat_post, m, 2 * r)
                  => /\ Near(Update(hat_post, m, k), m, r)
                     /\ r = 1 => Update(hat_post, m, k) \in {m - 1, m}
          BY <3>1, DistanceHalves
        <4> QED
          BY <1>2, <2>4, <3>1, <4>1
      <3> QED
        BY <1>4, <2>3, <3>2
    <2> QED
      BY <1>1, <1>4, <1>6, <1>7, <2>5 DEF Settling, q
  <1> QED
    BY <1>9, <1>10

\* On a steady path the estimate is the measurement or one below it after as many equal
\* measurements as the largest one has bits, wherever it was before: 24 for the 24 bits
\* that the products leave (leocc.c:696-710).
THEOREM EstimateSettles ==
    ASSUME NEW pow \in [Nat -> Nat \ {0}], pow[0] = 1, \A n \in Nat : pow[n + 1] = 2 * pow[n],
           \A m \in Samples : m <= pow[Settled]
    PROVE  Spec => []SettlesOnSteadyMeasurement
  <1>1. Init => Settling(pow)
    BY InitInv, KalmanAssumption DEF Init, Settling
  <1>2. Settling(pow) /\ [Next]_vars => Settling(pow)'
    <2>1. ASSUME Settling(pow), UNCHANGED vars PROVE Settling(pow)'
      BY <2>1 DEF Settling, IInv, vars
    <2> QED
      BY <2>1, SettlingNext DEF Next
  <1>3. Settling(pow) => SettlesOnSteadyMeasurement
    BY DEF Settling, SettlesOnSteadyMeasurement
  <1> QED
    BY <1>1, <1>2, <1>3, PTL DEF Spec

\* Within the three scenes the filter behaves as on its own, so what is proved of it
\* holds of them.
LEMMA FilterInItsScene == AckSpec => Spec
  <1>1. AckInit => Init
    BY DEF AckInit
  <1>2. [AckNext]_ack_vars => [Next]_vars
    BY DEF AckNext, ack_vars
  <1> QED
    BY <1>1, <1>2, PTL DEF AckSpec, Spec

-----------------------------------------------------------------------------
(* Least and largest elements                                               *)

\* The smaller of two numbers, for both scenes.
LEMMA MinOfTwo ==
    ASSUME NEW a \in Int, NEW b \in Int
    PROVE  /\ A!Min({a, b}) = IF a <= b THEN a ELSE b
           /\ P!Min({a, b}) = IF a <= b THEN a ELSE b
  <1> DEFINE m == IF a <= b THEN a ELSE b
  <1>1. m \in {a, b} /\ \A y \in {a, b} : m <= y
    OBVIOUS
  <1>2. \A x \in {a, b} : (\A y \in {a, b} : x <= y) => x = m
    OBVIOUS
  <1> QED
    BY <1>1, <1>2 DEF A!Min, P!Min

\* A member that no other exceeds is the largest.
LEMMA MaxIs ==
    ASSUME NEW S \in SUBSET Int, NEW m \in S, \A y \in S : y <= m
    PROVE  A!Max(S) = m /\ P!Max(S) = m
  <1>1. \A x \in S : (\A y \in S : x >= y) => x = m
    OBVIOUS
  <1>2. m \in S /\ \A y \in S : m >= y
    OBVIOUS
  <1> QED
    BY <1>1, <1>2 DEF A!Max, P!Max

-----------------------------------------------------------------------------
(* The pacing rate                                                          *)

\* What a callback sees is a rate within the limit, and no guess once an RTT is known.
PaceInv ==
    /\ sk_pacing_rate \in Nat /\ sk_max_pacing_rate \in Nat /\ srtt_us \in Nat
    /\ fastest \in Nat /\ first \in Nat
    /\ known \in BOOLEAN /\ has_seen_rtt = known
    /\ ~known => first = 0
    /\ known => sk_pacing_rate <= fastest
    /\ first <= sk_pacing_rate
    /\ sk_pacing_rate <= sk_max_pacing_rate

\* The rate of a bandwidth is a number of bytes, and its limit cuts it.
LEMMA Rates ==
    ASSUME NEW bw \in Nat, NEW gain \in Nat, sk_max_pacing_rate \in Nat
    PROVE  /\ P!leocc_rate_bytes_per_sec(bw, gain) \in Nat
           /\ P!leocc_bw_to_pacing_rate(bw, gain) \in Nat
           /\ P!leocc_bw_to_pacing_rate(bw, gain) <= P!leocc_rate_bytes_per_sec(bw, gain)
           /\ P!leocc_bw_to_pacing_rate(bw, gain) <= sk_max_pacing_rate
  <1>1. \A a, b \in Nat : a * b \in Nat
    BY SMT
  <1>2. \A a \in Nat, b \in Nat \ {0} : a \div b \in Nat
    BY SMT
  <1>3. P!leocc_rate_bytes_per_sec(bw, gain) \in Nat
    <2>1. (bw * MSS * gain) \in Nat
      BY <1>1, EstimatesAssumption
    <2>2. ((bw * MSS * gain) \div LEOCC_UNIT) \in Nat
      BY <1>2, <2>1, EstimatesAssumption
    <2>3. (((bw * MSS * gain) \div LEOCC_UNIT) * UsecRate) \in Nat
      BY <1>1, <2>2, EstimatesAssumption
    <2> QED
      BY <1>2, <2>3, EstimatesAssumption DEF P!leocc_rate_bytes_per_sec
  <1> DEFINE bytes == P!leocc_rate_bytes_per_sec(bw, gain)
  <1>4. P!leocc_bw_to_pacing_rate(bw, gain) = P!Min({bytes, sk_max_pacing_rate})
    BY DEF P!leocc_bw_to_pacing_rate
  <1>5. bytes \in Nat
    BY <1>3
  <1> HIDE DEF bytes
  <1>6. P!Min({bytes, sk_max_pacing_rate})
          = IF bytes <= sk_max_pacing_rate THEN bytes ELSE sk_max_pacing_rate
    BY <1>5, MinOfTwo
  <1>7. /\ P!leocc_bw_to_pacing_rate(bw, gain) \in Nat
        /\ P!leocc_bw_to_pacing_rate(bw, gain) <= bytes
        /\ P!leocc_bw_to_pacing_rate(bw, gain) <= sk_max_pacing_rate
    BY <1>4, <1>5, <1>6
  <1> QED
    BY <1>3, <1>7 DEF bytes

\* So is that of a window and an RTT, or the guess of one.
LEMMA WindowRates ==
    ASSUME NEW cwnd \in Windows, NEW rtt \in Nat \ {0}, sk_max_pacing_rate \in Nat
    PROVE  P!RateOfWindow(cwnd, rtt) \in Nat /\ P!RateOfWindow(cwnd, rtt) <= sk_max_pacing_rate
  <1>1. cwnd * BW_UNIT \in Nat
    <2>1. \A a, b \in Nat : a * b \in Nat
      BY SMT
    <2>2. cwnd \in Nat /\ BW_UNIT \in Nat
      BY EstimatesAssumption
    <2> QED
      BY <2>1, <2>2
  <1>2. (cwnd * BW_UNIT) \div rtt \in Nat
    <2>1. \A a \in Nat, b \in Nat \ {0} : a \div b \in Nat
      BY SMT
    <2> QED
      BY <1>1, <2>1
  <1>3. HighGain \in Nat
    BY EstimatesAssumption
  <1> QED
    BY <1>2, <1>3, Rates DEF P!RateOfWindow

LEMMA PaceInit == P!Init => PaceInv
  <1> SUFFICES ASSUME P!Init PROVE PaceInv
    OBVIOUS
  <1>1. sk_max_pacing_rate \in Nat /\ srtt_us \in Nat
    BY EstimatesAssumption DEF P!Init
  <1>2. P!RttOrGuess \in Nat \ {0}
    BY <1>1, EstimatesAssumption DEF P!RttOrGuess
  <1>3. PICK cwnd \in Windows : sk_pacing_rate = P!RateOfWindow(cwnd, P!RttOrGuess)
    BY DEF P!Init
  <1>4. sk_pacing_rate \in Nat /\ sk_pacing_rate <= sk_max_pacing_rate
    BY <1>1, <1>2, <1>3, WindowRates
  <1> QED
    BY <1>1, <1>4 DEF P!Init, PaceInv, P!SeesRtt

\* A callback that paces anew, whatever bandwidth and gain the mode gives it.
LEMMA SetPacingRate ==
    ASSUME PaceInv, NEW bw \in PacingBandwidths, NEW gain \in Nat, NEW full \in BOOLEAN,
           NEW cwnd \in Windows, P!leocc_set_pacing_rate(bw, gain, full, cwnd),
           UNCHANGED <<sk_max_pacing_rate, srtt_us>>
    PROVE  PaceInv'
  <1> DEFINE rate == P!leocc_bw_to_pacing_rate(bw, gain)
             bytes == P!leocc_rate_bytes_per_sec(bw, gain)
             of_rtt == P!RateOfWindow(cwnd, P!RttOrGuess)
             replaces == ~has_seen_rtt /\ srtt_us # 0
             current == IF replaces THEN of_rtt ELSE sk_pacing_rate
             rates == IF ~known /\ srtt_us # 0 THEN {of_rtt} ELSE {}
  <1>1. /\ has_seen_rtt' = (has_seen_rtt \/ replaces)
        /\ sk_pacing_rate' = IF full \/ rate > current THEN rate ELSE current
        /\ known' = (known \/ rates # {})
        /\ first' = IF full THEN 0 ELSE P!Max({first} \cup rates)
        /\ fastest' = P!Max({fastest, bytes} \cup rates)
    BY DEF P!leocc_set_pacing_rate
  <1>2. P!RttOrGuess \in Nat \ {0}
    BY EstimatesAssumption DEF P!RttOrGuess, PaceInv
  <1>3. /\ rate \in Nat /\ bytes \in Nat /\ rate <= bytes /\ rate <= sk_max_pacing_rate
        /\ of_rtt \in Nat /\ of_rtt <= sk_max_pacing_rate
    BY <1>2, Rates, WindowRates, EstimatesAssumption DEF PaceInv
  <1> HIDE DEF rate, bytes, of_rtt
  <1>4. CASE ~known /\ srtt_us # 0
    <2>1. P!Max({first, of_rtt}) = IF first <= of_rtt THEN of_rtt ELSE first
      <3> DEFINE m == IF first <= of_rtt THEN of_rtt ELSE first
                 S == {first, of_rtt}
      <3>1. S \in SUBSET Int /\ m \in S /\ \A y \in S : y <= m
        BY <1>3 DEF PaceInv
      <3> QED
        BY <3>1, MaxIs
    <2>2. PICK m \in {fastest, bytes, of_rtt} : \A y \in {fastest, bytes, of_rtt} : y <= m
      <3>1. fastest \in Nat /\ bytes \in Nat /\ of_rtt \in Nat
        BY <1>3 DEF PaceInv
      <3> QED
        BY <3>1
    <2>3. P!Max({fastest, bytes, of_rtt}) = m /\ m \in Nat /\ bytes <= m /\ of_rtt <= m
      <3>1. {fastest, bytes, of_rtt} \in SUBSET Int
        BY <1>3 DEF PaceInv
      <3> QED
        BY <1>3, <2>2, <3>1, MaxIs DEF PaceInv
    <2>4. {first} \cup rates = {first, of_rtt} /\ {fastest, bytes} \cup rates = {fastest, bytes, of_rtt}
      BY <1>4
    <2>5. /\ has_seen_rtt' = TRUE /\ known' = TRUE
          /\ sk_pacing_rate' = IF full \/ rate > of_rtt THEN rate ELSE of_rtt
          /\ fastest' = m
          /\ first' = IF full THEN 0 ELSE IF first <= of_rtt THEN of_rtt ELSE first
      BY <1>1, <1>4, <2>1, <2>3, <2>4 DEF PaceInv
    <2> QED
      BY <1>3, <1>4, <2>3, <2>5 DEF PaceInv
  <1>5. CASE ~(~known /\ srtt_us # 0)
    <2>1. P!Max({first}) = first
      <3>1. {first} \in SUBSET Int
        BY DEF PaceInv
      <3> QED
        BY <3>1, MaxIs
    <2>2. PICK m \in {fastest, bytes} : \A y \in {fastest, bytes} : y <= m
      <3>1. fastest \in Nat /\ bytes \in Nat
        BY <1>3 DEF PaceInv
      <3> QED
        BY <3>1
    <2>3. P!Max({fastest, bytes}) = m /\ m \in Nat /\ bytes <= m /\ fastest <= m
      <3>1. {fastest, bytes} \in SUBSET Int
        BY <1>3 DEF PaceInv
      <3> QED
        BY <1>3, <2>2, <3>1, MaxIs DEF PaceInv
    <2>4. rates = {} /\ {first} \cup rates = {first} /\ {fastest, bytes} \cup rates = {fastest, bytes}
      BY <1>5
    <2>5. /\ has_seen_rtt' = has_seen_rtt /\ known' = known
          /\ sk_pacing_rate' = IF full \/ rate > sk_pacing_rate THEN rate ELSE sk_pacing_rate
          /\ fastest' = m
          /\ first' = IF full THEN 0 ELSE first
      BY <1>1, <1>5, <2>1, <2>3, <2>4 DEF PaceInv
    <2> QED
      BY <1>3, <1>5, <2>3, <2>5 DEF PaceInv
  <1> QED
    BY <1>4, <1>5

LEMMA PaceNext == PaceInv /\ P!Next => PaceInv'
  <1> SUFFICES ASSUME PaceInv, P!Next PROVE PaceInv'
    OBVIOUS
  <1>1. HighGain \in Nat /\ LEOCC_UNIT \in Nat /\ Gains \subseteq Nat
    BY EstimatesAssumption
  <1>2. CASE P!leocc_main
    <2>1. PICK bw \in PacingBandwidths, cwnd \in Windows, full \in BOOLEAN :
             \E gain \in (IF full THEN Gains ELSE {HighGain, LEOCC_UNIT}) :
                /\ P!leocc_set_pacing_rate(bw, gain, full, cwnd)
                /\ UNCHANGED <<sk_max_pacing_rate, srtt_us>>
      BY <1>2 DEF P!leocc_main
    <2>2. PICK gain \in Nat : /\ P!leocc_set_pacing_rate(bw, gain, full, cwnd)
                              /\ UNCHANGED <<sk_max_pacing_rate, srtt_us>>
      BY <1>1, <2>1
    <2> QED
      BY <2>2, SetPacingRate
  <1>3. CASE P!leocc_cwnd_event
    <2>1. PICK bw \in PacingBandwidths, cwnd \in Windows :
             P!leocc_set_pacing_rate(bw, LEOCC_UNIT, full_bw_reached, cwnd)
      BY <1>3 DEF P!leocc_cwnd_event
    <2>2. full_bw_reached = TRUE /\ UNCHANGED <<sk_max_pacing_rate, srtt_us>>
      BY <1>3 DEF P!leocc_cwnd_event
    <2> QED
      BY <1>1, <2>1, <2>2, SetPacingRate
  <1>4. CASE P!MeasureRtt
    BY <1>4, EstimatesAssumption DEF P!MeasureRtt, PaceInv
  <1>5. CASE P!SetLimit
    <2>1. sk_max_pacing_rate' \in Nat
      BY <1>5, EstimatesAssumption DEF P!SetLimit
    <2>2. /\ P!Min({sk_pacing_rate, sk_max_pacing_rate'})
             = IF sk_pacing_rate <= sk_max_pacing_rate' THEN sk_pacing_rate ELSE sk_max_pacing_rate'
          /\ P!Min({first, sk_max_pacing_rate'})
             = IF first <= sk_max_pacing_rate' THEN first ELSE sk_max_pacing_rate'
      <3>1. \A r \in Nat : P!Min({r, sk_max_pacing_rate'})
                              = IF r <= sk_max_pacing_rate' THEN r ELSE sk_max_pacing_rate'
        BY <2>1, MinOfTwo
      <3> QED
        BY <3>1 DEF PaceInv
    <2>3. /\ sk_pacing_rate' = IF sk_pacing_rate <= sk_max_pacing_rate' THEN sk_pacing_rate
                               ELSE sk_max_pacing_rate'
          /\ first' = IF first <= sk_max_pacing_rate' THEN first ELSE sk_max_pacing_rate'
          /\ UNCHANGED <<srtt_us, has_seen_rtt, known, fastest>>
      BY <1>5, <2>2 DEF P!SetLimit
    <2> QED
      BY <2>1, <2>3 DEF PaceInv
  <1> QED
    BY <1>2, <1>3, <1>4, <1>5 DEF P!Next

\* Once an RTT is known nothing is left of the guess, until the pipe is full the rate
\* never falls below that of the first RTT, and no rate is above the limit, in whatever
\* order ACKs, RTTs and limits come (leocc.c:156-194).
THEOREM FlowsArePacedAsMeasured == AckSpec => []PacedAsMeasured
  <1>1. AckInit => PaceInv
    BY PaceInit DEF AckInit
  <1>2. PaceInv /\ [AckNext]_ack_vars => PaceInv'
    <2> SUFFICES ASSUME PaceInv, [AckNext]_ack_vars PROVE PaceInv'
      OBVIOUS
    <2>1. CASE scene = "pacing" /\ P!Next
      BY <2>1, PaceNext
    <2>2. CASE UNCHANGED pacing_vars
      BY <2>2 DEF pacing_vars, PaceInv
    <2> QED
      BY <2>1, <2>2 DEF AckNext, ack_vars
  <1>3. PaceInv => PacedAsMeasured
    BY DEF PaceInv, PacedAsMeasured, P!PacedAsMeasured
  <1> QED
    BY <1>1, <1>2, <1>3, PTL DEF AckSpec

-----------------------------------------------------------------------------
(* The aggregation of ACKs                                                  *)

\* A set of numbers below a bound has a largest member.
LEMMA LargestExists ==
    ASSUME NEW n \in Nat, NEW S \in SUBSET (0 .. n), S # {}
    PROVE  \E m \in S : \A y \in S : y <= m
  <1> DEFINE R == OpToRel(<, Nat)
             T == {n - x : x \in S}
  <1>1. T \subseteq Nat /\ T # {}
    <2>1. \A x \in S : n - x \in Nat
      OBVIOUS
    <2> QED
      BY <2>1
  <1>2. IsWellFoundedOn(R, Nat)
    BY NatLessThanWellFounded
  <1>3. PICK k \in T : \A j \in T : ~(<<j, k>> \in R)
    BY <1>1, <1>2, WFMin, Zenon
  <1>4. \A j \in T : ~(j < k)
    BY <1>1, <1>3, Zenon DEF OpToRel
  <1>5. PICK m \in S : k = n - m
    BY <1>3
  <1>6. ASSUME NEW y \in S PROVE y <= m
    <2>1. n - y \in T
      BY <1>6
    <2>2. ~(n - y < n - m)
      BY <1>4, <1>5, <2>1
    <2>3. y \in Nat /\ m \in Nat
      OBVIOUS
    <2> QED
      BY <2>2, <2>3
  <1> QED
    BY <1>6

\* Of this window there are extra_acked_win_rtts + 1 rounds, the latest ones; the other
\* place stands for the WinRtts before them.  A place is at least each excess of its
\* rounds, and at most one of those that are remembered.
AggregationInv ==
    /\ epoch_us \in Nat /\ ack_epoch_acked \in Nat
    /\ extra_acked \in [{0, 1} -> 0 .. ExtraMod - 1]
    /\ extra_acked_win_idx \in {0, 1} /\ extra_acked_win_rtts \in 0 .. WinRtts - 1
    /\ excesses \in Seq(0 .. ExtraMod - 1) /\ Len(excesses) \in 1 .. 2 * WinRtts
    /\ \A i \in 1 .. Len(excesses) :
          /\ i <= extra_acked_win_rtts + 1 => excesses[i] <= extra_acked[extra_acked_win_idx]
          /\ extra_acked_win_rtts + 1 < i /\ i <= extra_acked_win_rtts + 1 + WinRtts
                => excesses[i] <= extra_acked[1 - extra_acked_win_idx]
    /\ \E i \in 1 .. Len(excesses) :
          /\ i <= extra_acked_win_rtts + 1
          /\ extra_acked[extra_acked_win_idx] <= excesses[i]
    /\ \E i \in 1 .. Len(excesses) :
          /\ i <= extra_acked_win_rtts + 1 + WinRtts
          /\ extra_acked[1 - extra_acked_win_idx] <= excesses[i]

LEMMA AggregationInit == A!Init => AggregationInv
  <1> SUFFICES ASSUME A!Init PROVE AggregationInv
    OBVIOUS
  <1>1. WinRtts \in 1 .. 31 /\ ExtraMod \in Nat /\ ExtraMod > 0
    BY EstimatesAssumption
  <1>2. Len(excesses) = 1 /\ excesses[1] = 0 /\ excesses \in Seq(0 .. ExtraMod - 1)
    BY <1>1 DEF A!Init
  <1> QED
    BY <1>1, <1>2 DEF A!Init, AggregationInv

\* An excess is a number of packets, and no more than the window.
LEMMA ExcessFits ==
    ASSUME AggregationInv, NEW acked \in Acks, NEW bw \in AckBandwidths, NEW cwnd \in Windows
    PROVE  /\ A!Excess(acked, bw, cwnd) \in 0 .. ExtraMod - 1
           /\ A!EpochAcked(acked, bw) \in Nat
  <1>1. /\ acked \in Nat /\ bw \in Nat /\ cwnd \in 0 .. ExtraMod - 1 /\ ExtraMod \in Nat
        /\ ResetThresh \in Nat \ {0} /\ BW_UNIT \in Nat \ {0} /\ WordMod \in Nat \ {0}
    BY EstimatesAssumption, KalmanAssumption
  <1>2. A!ExpectedAcked(bw) \in Nat
    <2>1. bw * epoch_us \in Nat
      <3>1. \A a, b \in Nat : a * b \in Nat
        BY SMT
      <3> QED
        BY <1>1, <3>1 DEF AggregationInv
    <2> QED
      BY <1>1, <2>1 DEF A!ExpectedAcked
  <1> DEFINE told == (IF A!EpochOver(acked, bw) THEN 0 ELSE ack_epoch_acked) + acked
             expected == IF A!EpochOver(acked, bw) THEN 0 ELSE A!ExpectedAcked(bw)
             beyond == (A!EpochAcked(acked, bw) - expected) % WordMod
  <1>3. told \in Nat /\ expected \in Nat
    BY <1>1, <1>2 DEF AggregationInv
  <1>4. A!EpochAcked(acked, bw) = A!Min({ResetThresh - 1, told})
    BY DEF A!EpochAcked
  <1>5. A!Excess(acked, bw, cwnd) = A!Min({beyond, cwnd})
    BY DEF A!Excess
  <1> HIDE DEF told, expected
  <1>6. A!EpochAcked(acked, bw) \in Nat
    <2>1. ResetThresh - 1 \in Nat
      BY <1>1
    <2>2. A!Min({ResetThresh - 1, told}) = IF ResetThresh - 1 <= told THEN ResetThresh - 1 ELSE told
      BY <1>3, <2>1, MinOfTwo
    <2> QED
      BY <1>3, <1>4, <2>1, <2>2
  <1>7. beyond \in Nat
    BY <1>1, <1>3, <1>6
  <1> HIDE DEF beyond
  <1>8. A!Min({beyond, cwnd}) = IF beyond <= cwnd THEN beyond ELSE cwnd
    BY <1>1, <1>7, MinOfTwo
  <1> QED
    BY <1>1, <1>5, <1>6, <1>7, <1>8

\* A round that begins shifts the history by one place, and an ACK of the same round
\* raises its first.
LEMMA HistoryShifts ==
    ASSUME NEW E \in Seq(0 .. ExtraMod - 1), Len(E) \in 1 .. 2 * WinRtts,
           NEW x \in 0 .. ExtraMod - 1
    PROVE  LET F == SubSeq(<<x>> \o E, 1, A!Min({Len(E) + 1, 2 * WinRtts}))
           IN  /\ F \in Seq(0 .. ExtraMod - 1) /\ Len(F) \in 1 .. 2 * WinRtts
               /\ Len(F) = IF Len(E) + 1 <= 2 * WinRtts THEN Len(E) + 1 ELSE 2 * WinRtts
               /\ F[1] = x
               /\ \A i \in 2 .. Len(F) : i - 1 \in 1 .. Len(E) /\ F[i] = E[i - 1]
  <1> DEFINE G == <<x>> \o E
             l == IF Len(E) + 1 <= 2 * WinRtts THEN Len(E) + 1 ELSE 2 * WinRtts
  <1>1. WinRtts \in 1 .. 31 /\ Len(E) \in Nat
    BY EstimatesAssumption
  <1>2. A!Min({Len(E) + 1, 2 * WinRtts}) = l /\ l \in 1 .. Len(E) + 1
    BY <1>1, MinOfTwo
  <1>3. /\ G \in Seq(0 .. ExtraMod - 1) /\ Len(G) = Len(E) + 1 /\ G[1] = x
        /\ \A i \in 2 .. Len(G) : i - 1 \in 1 .. Len(E) /\ G[i] = E[i - 1]
    <2>1. <<x>> \in Seq(0 .. ExtraMod - 1) /\ Len(<<x>>) = 1 /\ <<x>>[1] = x
      OBVIOUS
    <2>2. /\ G \in Seq(0 .. ExtraMod - 1) /\ Len(G) = 1 + Len(E)
          /\ \A i \in 1 .. 1 + Len(E) : G[i] = IF i <= 1 THEN <<x>>[i] ELSE E[i - 1]
      BY <2>1, ConcatProperties
    <2> HIDE DEF G
    <2> QED
      BY <1>1, <2>1, <2>2
  <1> HIDE DEF G, l
  <1>4. /\ SubSeq(G, 1, l) \in Seq(0 .. ExtraMod - 1) /\ Len(SubSeq(G, 1, l)) = l
        /\ \A i \in 1 .. l : SubSeq(G, 1, l)[i] = G[i]
    <2>1. l \in Nat /\ 1 <= l /\ l <= Len(G)
      BY <1>1, <1>2, <1>3
    <2>2. \A i \in 1 .. l : G[i] \in 0 .. ExtraMod - 1
      <3>1. \A i \in 1 .. Len(G) : G[i] \in 0 .. ExtraMod - 1
        BY <1>3, ElementOfSeq
      <3>2. \A i \in 1 .. l : i \in 1 .. Len(G)
        BY <1>1, <1>2, <1>3, <2>1
      <3> QED
        BY <3>1, <3>2
    <2>3. /\ SubSeq(G, 1, l) \in Seq(0 .. ExtraMod - 1)
          /\ Len(SubSeq(G, 1, l)) = IF 1 <= l THEN l - 1 + 1 ELSE 0
          /\ \A i \in 1 .. l - 1 + 1 : SubSeq(G, 1, l)[i] = G[1 + i - 1]
      BY <2>1, <2>2, SubSeqProperties
    <2>4. l - 1 + 1 = l /\ \A i \in 1 .. l : 1 + i - 1 = i
      BY <2>1
    <2> QED
      BY <2>1, <2>3, <2>4
  <1> DEFINE F == SubSeq(<<x>> \o E, 1, A!Min({Len(E) + 1, 2 * WinRtts}))
  <1>5. F = SubSeq(G, 1, l)
    BY <1>2 DEF G
  <1> HIDE DEF F
  <1>6. /\ F \in Seq(0 .. ExtraMod - 1) /\ Len(F) = l /\ F[1] = x
        /\ \A i \in 2 .. l : i - 1 \in 1 .. Len(E) /\ F[i] = E[i - 1]
    <2>1. l \in 1 .. Len(E) + 1 /\ l \in Nat
      BY <1>1, <1>2
    <2>2. \A i \in 2 .. l : i \in 2 .. Len(G) /\ i \in 1 .. l
      BY <1>1, <1>3, <2>1
    <2> QED
      BY <1>1, <1>3, <1>4, <1>5, <2>1, <2>2
  <1>7. l \in 1 .. 2 * WinRtts /\ l = IF Len(E) + 1 <= 2 * WinRtts THEN Len(E) + 1 ELSE 2 * WinRtts
    BY <1>1 DEF l
  <1> QED
    BY <1>6, <1>7 DEF F

\* An ACK: the place that is current takes its excess, and at the end of a window the
\* places change their roles.
LEMMA UpdateAggregation ==
    ASSUME AggregationInv, NEW acked \in Acks, NEW round_start \in BOOLEAN,
           NEW bw \in AckBandwidths, NEW cwnd \in Windows,
           A!leocc_update_ack_aggregation(acked, round_start, bw, cwnd)
    PROVE  AggregationInv'
  <1> DEFINE x == A!Excess(acked, bw, cwnd)
             E == excesses
             r == extra_acked_win_rtts
             idx == extra_acked_win_idx
             over == round_start /\ A!WindowOver
             current == IF over THEN 1 - idx ELSE idx
             kept == IF over THEN 0 ELSE extra_acked[idx]
             other == IF over THEN extra_acked[idx] ELSE extra_acked[1 - idx]
             count == IF over THEN 0 ELSE IF round_start THEN r + 1 ELSE r
  <1>1. x \in 0 .. ExtraMod - 1 /\ A!EpochAcked(acked, bw) \in Nat
    BY ExcessFits
  <1>2. /\ WinRtts \in 1 .. 31 /\ ExtraMod \in Nat \ {0}
        /\ extra_acked \in [{0, 1} -> 0 .. ExtraMod - 1]
        /\ idx \in {0, 1} /\ r \in 0 .. WinRtts - 1
        /\ E \in Seq(0 .. ExtraMod - 1) /\ Len(E) \in 1 .. 2 * WinRtts
        /\ \A i \in 1 .. Len(E) : E[i] \in 0 .. ExtraMod - 1
    <2>1. E \in Seq(0 .. ExtraMod - 1)
      BY DEF AggregationInv
    <2>2. \A i \in 1 .. Len(E) : E[i] \in 0 .. ExtraMod - 1
      BY <2>1, ElementOfSeq
    <2> QED
      BY <2>1, <2>2, EstimatesAssumption DEF AggregationInv
  <1>3. A!Min({31, r + 1}) = r + 1 /\ (A!WindowOver <=> r + 1 = WinRtts)
    <2>1. A!Min({31, r + 1}) = IF 31 <= r + 1 THEN 31 ELSE r + 1
      BY <1>2, MinOfTwo
    <2>2. A!Min({31, r + 1}) = r + 1
      BY <1>2, <2>1
    <2> QED
      BY <1>2, <2>2 DEF A!WindowOver
  <1>4. /\ current \in {0, 1} /\ current = (IF over THEN 1 - idx ELSE idx)
        /\ kept \in 0 .. ExtraMod - 1 /\ other \in 0 .. ExtraMod - 1
        /\ count \in 0 .. WinRtts - 1
    BY <1>2, <1>3
  <1>5. /\ extra_acked_win_rtts' = count /\ extra_acked_win_idx' = current
        /\ extra_acked' \in [{0, 1} -> 0 .. ExtraMod - 1]
        /\ extra_acked'[current] = (IF x > kept THEN x ELSE kept)
        /\ extra_acked'[1 - current] = other
    <2> DEFINE window == A!Turn(round_start)
    <2>1. /\ extra_acked_win_rtts' = window.rtts /\ extra_acked_win_idx' = window.idx
          /\ extra_acked' = [window.extra EXCEPT
                ![window.idx] = IF x > @ THEN x % ExtraMod ELSE @]
      BY DEF A!leocc_update_ack_aggregation
    <2>2. /\ window.rtts = count /\ window.idx = current
          /\ window.extra \in [{0, 1} -> 0 .. ExtraMod - 1]
          /\ window.extra[current] = kept /\ window.extra[1 - current] = other
      <3>1. CASE over
        <4>1. window = [rtts |-> 0, idx |-> 1 - idx, extra |-> [extra_acked EXCEPT ![1 - idx] = 0]]
          BY <3>1 DEF A!Turn
        <4> HIDE DEF window
        <4> QED
          BY <1>2, <3>1, <4>1
      <3>2. CASE ~over
        <4>1. window = [rtts |-> IF round_start THEN r + 1 ELSE r, idx |-> idx,
                        extra |-> extra_acked]
          BY <1>3, <3>2 DEF A!Turn
        <4> HIDE DEF window
        <4> QED
          BY <1>2, <3>2, <4>1
      <3> QED
        BY <3>1, <3>2
    <2> HIDE DEF window, x, current, kept, other, count
    <2>3. x % ExtraMod = x
      <3>1. ExtraMod \in Nat \ {0}
        BY EstimatesAssumption
      <3> QED
        BY <1>1, <3>1
    <2>4. extra_acked' = [window.extra EXCEPT ![current] = IF x > kept THEN x ELSE kept]
      BY <2>1, <2>2, <2>3
    <2>5. 1 - current # current /\ 1 - current \in {0, 1}
      BY <1>4
    <2> QED
      BY <1>1, <1>4, <2>1, <2>2, <2>4, <2>5
  <1>6. /\ ack_epoch_acked' \in Nat /\ epoch_us' \in Nat
    BY <1>1 DEF A!leocc_update_ack_aggregation, AggregationInv
  <1>7. /\ \A i \in 1 .. Len(E) :
              /\ i <= r + 1 => E[i] <= extra_acked[idx]
              /\ r + 1 < i /\ i <= r + 1 + WinRtts => E[i] <= extra_acked[1 - idx]
        /\ \E i \in 1 .. Len(E) : i <= r + 1 /\ extra_acked[idx] <= E[i]
        /\ \E i \in 1 .. Len(E) : i <= r + 1 + WinRtts /\ extra_acked[1 - idx] <= E[i]
    BY DEF AggregationInv
  <1> DEFINE F == excesses'
             top == IF x > kept THEN x ELSE kept
  <1>8. /\ F \in Seq(0 .. ExtraMod - 1) /\ Len(F) \in 1 .. 2 * WinRtts
        /\ \A i \in 1 .. Len(F) :
              /\ i <= count + 1 => F[i] <= top
              /\ count + 1 < i /\ i <= count + 1 + WinRtts => F[i] <= other
        /\ \E i \in 1 .. Len(F) : i <= count + 1 /\ top <= F[i]
        /\ \E i \in 1 .. Len(F) : i <= count + 1 + WinRtts /\ other <= F[i]
    <2>1. CASE round_start
      <3>1. F = SubSeq(<<x>> \o E, 1, A!Min({Len(E) + 1, 2 * WinRtts}))
        BY <2>1 DEF A!leocc_update_ack_aggregation
      <3> HIDE DEF x, F, E
      <3>2. /\ F \in Seq(0 .. ExtraMod - 1) /\ Len(F) \in 1 .. 2 * WinRtts
            /\ Len(F) = IF Len(E) + 1 <= 2 * WinRtts THEN Len(E) + 1 ELSE 2 * WinRtts
            /\ F[1] = x
            /\ \A i \in 2 .. Len(F) : i - 1 \in 1 .. Len(E) /\ F[i] = E[i - 1]
        BY <1>1, <1>2, <3>1, HistoryShifts
      <3> DEFINE l == Len(E)
                 n == Len(F)
                 a == extra_acked[idx]
                 b == extra_acked[1 - idx]
                 W == WinRtts
      <3>3. /\ W \in 1 .. 31 /\ r \in 0 .. W - 1 /\ l \in 1 .. 2 * W /\ n \in 1 .. 2 * W
            /\ n = (IF l + 1 <= 2 * W THEN l + 1 ELSE 2 * W) /\ F[1] = x
            /\ a \in Nat /\ b \in Nat /\ x \in Nat
            /\ kept \in Nat /\ other \in Nat /\ count \in Nat
            /\ top = IF x > kept THEN x ELSE kept
        BY <1>1, <1>2, <1>4, <3>2
      <3>4. \A i \in 2 .. n : i - 1 \in 1 .. l /\ F[i] = E[i - 1]
        BY <3>2
      <3>5. \A i \in 1 .. l : /\ E[i] \in Nat
                              /\ i <= r + 1 => E[i] <= a
                              /\ r + 1 < i /\ i <= r + 1 + W => E[i] <= b
        <4>1. \A i \in 1 .. l : E[i] \in Nat
          BY <1>2
        <4> QED
          BY <1>7, <4>1, Zenon
      <3>6. PICK j \in 1 .. l : j <= r + 1 /\ a <= E[j]
        BY <1>7
      <3>7. PICK k \in 1 .. l : k <= r + 1 + W /\ b <= E[k]
        BY <1>7
      <3> HIDE DEF l, n, a, b, W, r, top
      <3>8. ASSUME NEW i \in 1 .. l, i + 1 <= 2 * W
            PROVE  i + 1 \in 2 .. n /\ F[i + 1] = E[i]
        <4>1. i + 1 \in 2 .. n /\ (i + 1) - 1 = i
          BY <3>3, <3>8
        <4> QED
          BY <3>4, <4>1
      <3>9. CASE A!WindowOver
        <4>1. count = 0 /\ kept = 0 /\ other = a /\ r + 1 = W
          BY <1>3, <2>1, <3>9 DEF a, W, r, count, kept, other
        <4>2. ASSUME NEW i \in 1 .. n
              PROVE  /\ i <= count + 1 => F[i] <= top
                     /\ count + 1 < i /\ i <= count + 1 + W => F[i] <= other
          <5>1. CASE i = 1
            BY <3>3, <4>1, <5>1
          <5>2. CASE i \in 2 .. n
            <6>1. i - 1 \in 1 .. l /\ F[i] = E[i - 1]
              BY <3>4, <5>2
            <6>2. i - 1 <= r + 1 => E[i - 1] <= a
              BY <3>5, <6>1
            <6> QED
              BY <3>3, <4>1, <5>2, <6>1, <6>2
          <5> QED
            BY <3>3, <5>1, <5>2
        <4>3. top <= F[1] /\ 1 \in 1 .. n /\ 1 <= count + 1
          BY <3>3, <4>1
        <4>4. j + 1 \in 1 .. n /\ j + 1 <= count + 1 + W /\ other <= F[j + 1]
          <5>1. j + 1 <= 2 * W
            BY <3>3, <3>6, <4>1
          <5> QED
            BY <3>3, <3>6, <3>8, <4>1, <5>1
        <4> QED
          BY <3>2, <4>2, <4>3, <4>4 DEF n, W
      <3>10. CASE ~A!WindowOver
        <4>1. count = r + 1 /\ kept = a /\ other = b /\ r + 1 < W
          BY <1>2, <1>3, <2>1, <3>10 DEF a, b, W, r, count, kept, other
        <4>2. ASSUME NEW i \in 1 .. n
              PROVE  /\ i <= count + 1 => F[i] <= top
                     /\ count + 1 < i /\ i <= count + 1 + W => F[i] <= other
          <5>1. CASE i = 1
            BY <3>3, <4>1, <5>1
          <5>2. CASE i \in 2 .. n
            <6>1. i - 1 \in 1 .. l /\ F[i] = E[i - 1]
              BY <3>4, <5>2
            <6>2. /\ E[i - 1] \in Nat
                  /\ i - 1 <= r + 1 => E[i - 1] <= a
                  /\ r + 1 < i - 1 /\ i - 1 <= r + 1 + W => E[i - 1] <= b
              BY <3>5, <6>1
            <6> QED
              BY <3>3, <4>1, <5>2, <6>1, <6>2
          <5> QED
            BY <3>3, <5>1, <5>2
        <4>3. \E i \in 1 .. n : i <= count + 1 /\ top <= F[i]
          <5>1. CASE x > kept
            <6>1. 1 \in 1 .. n /\ 1 <= count + 1 /\ top <= F[1]
              BY <3>3, <4>1, <5>1
            <6> QED
              BY <6>1
          <5>2. CASE ~(x > kept)
            <6>1. j + 1 <= 2 * W
              BY <3>3, <3>6, <4>1
            <6>2. j + 1 \in 1 .. n /\ j + 1 <= count + 1 /\ top <= F[j + 1]
              BY <3>3, <3>6, <3>8, <4>1, <5>2, <6>1
            <6> QED
              BY <6>2
          <5> QED
            BY <5>1, <5>2
        <4>4. k + 1 \in 1 .. n /\ k + 1 <= count + 1 + W /\ other <= F[k + 1]
          <5>1. k + 1 <= 2 * W
            BY <3>3, <3>7, <4>1
          <5> QED
            BY <3>3, <3>7, <3>8, <4>1, <5>1
        <4> QED
          BY <3>2, <4>2, <4>3, <4>4 DEF n, W
      <3> QED
        BY <3>9, <3>10
    <2>2. CASE ~round_start
      <3>1. F = [E EXCEPT ![1] = A!Max({@, x})]
        BY <2>2 DEF A!leocc_update_ack_aggregation
      <3> DEFINE m == IF x > E[1] THEN x ELSE E[1]
      <3>2. A!Max({E[1], x}) = m /\ m \in 0 .. ExtraMod - 1 /\ m >= x /\ m >= E[1]
        <4>1. E[1] \in 0 .. ExtraMod - 1
          BY <1>2
        <4>2. {E[1], x} \in SUBSET Int /\ m \in {E[1], x} /\ \A y \in {E[1], x} : y <= m
          BY <1>1, <4>1
        <4> QED
          BY <1>1, <4>1, <4>2, MaxIs
      <3>3. F = [E EXCEPT ![1] = m]
        BY <3>1, <3>2
      <3>4. /\ count = r /\ kept = extra_acked[idx] /\ other = extra_acked[1 - idx]
        BY <2>2
      <3> HIDE DEF x, F, E, m, count, kept, other
      <3>5. /\ F \in Seq(0 .. ExtraMod - 1) /\ Len(F) = Len(E)
            /\ F[1] = m /\ \A i \in 2 .. Len(E) : F[i] = E[i]
        <4>1. 1 \in 1 .. Len(E)
          BY <1>2
        <4>2. F \in Seq(0 .. ExtraMod - 1) /\ Len(F) = Len(E)
          BY <1>2, <3>2, <3>3, <4>1, ExceptSeq
        <4> QED
          BY <1>2, <3>3, <4>1, <4>2
      <3>6. \A i \in 1 .. Len(E) : /\ E[i] \in Nat /\ F[i] \in Nat
                                   /\ F[i] = IF i = 1 THEN m ELSE E[i]
        BY <1>2, <3>2, <3>5
      <3>7. /\ r \in Nat /\ WinRtts \in Nat /\ Len(E) \in 1 .. 2 * WinRtts /\ x \in Nat
            /\ kept \in Nat /\ other \in Nat /\ 1 \in 1 .. Len(E)
        BY <1>1, <1>2, <1>4
      <3>8. ASSUME NEW i \in 1 .. Len(E)
            PROVE  /\ i <= count + 1 => F[i] <= top
                   /\ count + 1 < i /\ i <= count + 1 + WinRtts => F[i] <= other
        BY <1>7, <3>2, <3>4, <3>6, <3>7 DEF m, E
      <3>9. \E i \in 1 .. Len(E) : i <= count + 1 /\ top <= F[i]
        <4>1. CASE x > kept
          BY <3>2, <3>4, <3>6, <3>7, <4>1
        <4>2. CASE ~(x > kept)
          <5>1. PICK j \in 1 .. Len(E) : j <= r + 1 /\ extra_acked[idx] <= E[j]
            BY <1>7 DEF E
          <5>2. E[j] <= F[j]
            BY <3>2, <3>6
          <5> QED
            BY <3>4, <3>6, <3>7, <4>2, <5>1, <5>2
        <4> QED
          BY <4>1, <4>2
      <3>10. \E i \in 1 .. Len(E) : i <= count + 1 + WinRtts /\ other <= F[i]
        <4>1. PICK j \in 1 .. Len(E) : j <= r + 1 + WinRtts /\ extra_acked[1 - idx] <= E[j]
          BY <1>7 DEF E
        <4>2. E[j] <= F[j]
          BY <3>2, <3>6
        <4> QED
          BY <3>4, <3>6, <3>7, <4>1, <4>2
      <3> QED
        BY <3>5, <3>7, <3>8, <3>9, <3>10
    <2> QED
      BY <2>1, <2>2
  <1>9. extra_acked'[current] = top
    BY <1>5
  <1> HIDE DEF x, count, kept, other, top, current, F
  <1> QED
    BY <1>2, <1>4, <1>5, <1>6, <1>8, <1>9 DEF AggregationInv, F

LEMMA AggregationNext == AggregationInv /\ A!Next => AggregationInv'
  <1> SUFFICES ASSUME AggregationInv, A!Next PROVE AggregationInv'
    OBVIOUS
  <1>1. CASE \E acked \in Acks, round_start \in BOOLEAN, bw \in AckBandwidths, cwnd \in Windows :
                A!leocc_update_ack_aggregation(acked, round_start, bw, cwnd)
    BY <1>1, UpdateAggregation
  <1>2. CASE A!leocc_cwnd_event
    BY <1>2 DEF A!leocc_cwnd_event, AggregationInv
  <1>3. CASE A!Tick
    BY <1>3 DEF A!Tick, AggregationInv
  <1> QED
    BY <1>1, <1>2, <1>3 DEF A!Next

\* The largest of some excesses is one of them.
LEMMA LargestOf ==
    ASSUME NEW s \in Seq(0 .. ExtraMod - 1), Len(s) >= 1
    PROVE  /\ \E i \in 1 .. Len(s) : A!Largest(s) = s[i]
           /\ \A i \in 1 .. Len(s) : s[i] <= A!Largest(s)
  <1> DEFINE S == A!ToSet(s)
  <1>1. S = {s[i] : i \in 1 .. Len(s)}
    BY DEF A!ToSet
  <1>2. ExtraMod - 1 \in Nat
    BY EstimatesAssumption
  <1>3. \A i \in 1 .. Len(s) : s[i] \in 0 .. ExtraMod - 1
    BY ElementOfSeq
  <1> HIDE DEF S
  <1>4. S \in SUBSET (0 .. ExtraMod - 1) /\ S # {}
    <2>1. 1 \in 1 .. Len(s)
      BY LenProperties
    <2> QED
      BY <1>1, <1>3, <2>1
  <1>5. PICK m \in S : \A y \in S : y <= m
    BY <1>2, <1>4, LargestExists
  <1>6. A!Max(S) = m
    <2>1. S \in SUBSET Int
      BY <1>2, <1>4
    <2> QED
      BY <1>5, <2>1, MaxIs
  <1> QED
    BY <1>1, <1>5, <1>6 DEF A!Largest, S

LEMMA RecentFromInv == AggregationInv => ExtraAckedIsRecent
  <1> SUFFICES ASSUME AggregationInv PROVE ExtraAckedIsRecent
    OBVIOUS
  <1> DEFINE E == excesses
             n == Len(E)
             W == WinRtts
             r == extra_acked_win_rtts
             a == extra_acked[extra_acked_win_idx]
             b == extra_acked[1 - extra_acked_win_idx]
             top == IF a >= b THEN a ELSE b
             l == IF n <= W THEN n ELSE W
             s == SubSeq(E, 1, l)
  <1>1. /\ E \in Seq(0 .. ExtraMod - 1) /\ \A i \in 1 .. n : E[i] \in 0 .. ExtraMod - 1
        /\ n \in 1 .. 2 * W /\ W \in 1 .. 31 /\ r \in 0 .. W - 1 /\ a \in Nat /\ b \in Nat
    <2>1. E \in Seq(0 .. ExtraMod - 1)
      BY DEF AggregationInv
    <2>2. \A i \in 1 .. n : E[i] \in 0 .. ExtraMod - 1
      BY <2>1, ElementOfSeq
    <2>3. a \in 0 .. ExtraMod - 1 /\ b \in 0 .. ExtraMod - 1
      BY DEF AggregationInv
    <2> QED
      BY <2>1, <2>2, <2>3, EstimatesAssumption DEF AggregationInv
  <1>2. A!leocc_extra_acked = top
    <2>1. {extra_acked[0], extra_acked[1]} = {a, b}
      BY DEF AggregationInv
    <2> HIDE DEF a, b
    <2>2. {a, b} \in SUBSET Int /\ top \in {a, b} /\ \A y \in {a, b} : y <= top
      BY <1>1
    <2>3. A!Max({a, b}) = top
      BY <2>2, MaxIs
    <2> QED
      BY <2>1, <2>3 DEF A!leocc_extra_acked
  <1>3. /\ \A i \in 1 .. n : /\ i <= r + 1 => E[i] <= a
                             /\ r + 1 < i /\ i <= r + 1 + W => E[i] <= b
        /\ \E i \in 1 .. n : a <= E[i]
        /\ \E i \in 1 .. n : b <= E[i]
    BY DEF AggregationInv
  <1> HIDE DEF E, n, W, r, a, b
  <1>4. top <= A!Largest(E)
    <2>1. \A i \in 1 .. n : E[i] <= A!Largest(E)
      BY <1>1, LargestOf DEF n
    <2>2. A!Largest(E) \in Int
      <3>1. PICK i \in 1 .. n : A!Largest(E) = E[i]
        BY <1>1, LargestOf DEF n
      <3> QED
        BY <1>1, <3>1
    <2>3. PICK i \in 1 .. n : a <= E[i]
      BY <1>3
    <2>4. PICK j \in 1 .. n : b <= E[j]
      BY <1>3
    <2>5. E[i] \in Nat /\ E[j] \in Nat /\ E[i] <= A!Largest(E) /\ E[j] <= A!Largest(E)
      BY <1>1, <2>1
    <2> QED
      BY <1>1, <2>2, <2>3, <2>4, <2>5
  <1>5. A!Largest(s) <= top
    <2>1. l \in 1 .. n /\ l <= W
      BY <1>1
    <2>2. s \in Seq(0 .. ExtraMod - 1) /\ Len(s) = l /\ \A i \in 1 .. l : s[i] = E[i]
      <3>1. 1 \in Int /\ l \in Int /\ 1 <= l /\ \A i \in 1 .. l : E[i] \in 0 .. ExtraMod - 1
        BY <1>1, <2>1
      <3>2. /\ SubSeq(E, 1, l) \in Seq(0 .. ExtraMod - 1)
            /\ Len(SubSeq(E, 1, l)) = IF 1 <= l THEN l - 1 + 1 ELSE 0
            /\ \A i \in 1 .. l - 1 + 1 : SubSeq(E, 1, l)[i] = E[1 + i - 1]
        BY <3>1, SubSeqProperties
      <3>3. l - 1 + 1 = l /\ \A i \in 1 .. l : 1 + i - 1 = i
        BY <3>1
      <3> QED
        BY <3>1, <3>2, <3>3
    <2> HIDE DEF s, l
    <2>3. Len(s) >= 1
      BY <1>1, <2>1, <2>2
    <2>4. PICK i \in 1 .. l : A!Largest(s) = s[i]
      BY <2>2, <2>3, LargestOf
    <2>5. i \in 1 .. n /\ i <= W /\ A!Largest(s) = E[i]
      BY <1>1, <2>1, <2>2, <2>4
    <2>6. E[i] <= a \/ E[i] <= b
      BY <1>1, <1>3, <2>5
    <2> QED
      BY <1>1, <2>5, <2>6
  <1>6. A!Min({n, W}) = l
    BY <1>1, MinOfTwo
  <1>7. s = SubSeq(excesses, 1, A!Min({Len(excesses), WinRtts}))
    BY <1>6 DEF E, n, W
  <1>8. top \in Int /\ A!Largest(s) \in Int => (top >= A!Largest(s) <=> A!Largest(s) <= top)
    BY SMT
  <1> HIDE DEF s, top
  <1> QED
    BY <1>2, <1>4, <1>5, <1>7 DEF ExtraAckedIsRecent, A!ExtraAckedIsRecent, E

\* What is added to the window is at least the largest excess of the last WinRtts rounds
\* and at most that of twice as many, for every number of rounds that fits its five bits
\* and whatever is acknowledged when (leocc.c:507-547).
THEOREM AggregationIsRecent == AckSpec => []ExtraAckedIsRecent
  <1>1. AckInit => AggregationInv
    BY AggregationInit DEF AckInit
  <1>2. AggregationInv /\ [AckNext]_ack_vars => AggregationInv'
    <2> SUFFICES ASSUME AggregationInv, [AckNext]_ack_vars PROVE AggregationInv'
      OBVIOUS
    <2>1. CASE scene = "aggregation" /\ A!Next
      BY <2>1, AggregationNext
    <2>2. CASE UNCHANGED aggregation_vars
      BY <2>2 DEF aggregation_vars, AggregationInv
    <2> QED
      BY <2>1, <2>2 DEF AckNext, ack_vars
  <1> QED
    BY <1>1, <1>2, RecentFromInv, PTL DEF AckSpec
=============================================================================
