---------------------------- MODULE KalmanFilter ----------------------------
(***************************************************************************)
(* The scalar Kalman filter LeoCC keeps twice per flow: of the RTT (p_post_rtt,*)
(* kalman_gain_rtt, rtt_hat_post) on every ACK with an RTT, and of the       *)
(* bandwidth (p_post_bw, kalman_gain_bw, bw_hat_post) once per round of       *)
(* DYNAMIC_CRUISE.  All of it is integer arithmetic: p_post is a bit field of *)
(* five bits, the rest is u32, and every division truncates.                 *)
(***************************************************************************)
EXTENDS Integers

CONSTANTS
    Samples,      \* the measurements
    WordMod,      \* 2^width of the estimate: 2^32 in the code
    Settled       \* history bound: runs of equal measurements are counted up to it

ASSUME KalmanAssumption ==
    /\ WordMod \in Nat /\ WordMod > 8192
    /\ Samples \subseteq {m \in Nat : 256 * m < WordMod}
    /\ Settled \in Nat \ {0}

VARIABLES
    p_post,      \* variance of the estimate
    hat_post,    \* the estimate
    last,        \* history: the last measurement
    same         \* history: how many measurements in a row had that value

vars == <<p_post, hat_post, last, same>>

VarQ == 4        \* var_Q, var_Q_rtt
VarR == 4        \* var_R, var_R_rtt
FieldMod == 32   \* p_post_bw:5, p_post_rtt:5

TypeOK ==
    /\ p_post \in 0 .. FieldMod - 1
    /\ hat_post \in 0 .. WordMod - 1
    /\ last \in Samples \cup {0}
    /\ same \in 0 .. Settled

Init == p_post = 25 /\ hat_post = 0 /\ last = 0 /\ same = 0

PredictWithoutNoise(p) == p
Predict(p) == (p + VarQ) % FieldMod
GainOverR(p) == (p * 256) \div VarR
Gain(p) == (p * 256) \div (p + VarR)
Update(hat, m, gain) == (((256 - gain) * hat + gain * m) % WordMod) \div 256
VarianceKept(p, gain) == p % FieldMod
Variance(p, gain) == (((256 - gain) * p) \div 256) % FieldMod

\* One measurement: the four assignments of leocc_main.
Measure(m) ==
    LET p == Predict(p_post)
        gain == Gain(p)
    IN  /\ hat_post' = Update(hat_post, m, gain)
        /\ p_post' = Variance(p, gain)
        /\ last' = m
        /\ same' = IF m = last /\ same < Settled THEN same + 1
                   ELSE IF m = last THEN same ELSE 1

Next == \E m \in Samples : Measure(m)

Spec == Init /\ [][Next]_vars

-----------------------------------------------------------------------------

\* The variance fits its five bits: the prediction never carries out of the field,
\* which would make the filter distrust its measurements.
VarianceFits == p_post + VarQ < FieldMod

\* The estimate moves towards the measurement and never past it: no product
\* overflows 32 bits, and truncation does not undershoot the smaller of the two.
MovesTowardsMeasurement ==
    [][\/ hat_post <= hat_post' /\ hat_post' <= last'
       \/ last' <= hat_post' /\ hat_post' <= hat_post]_vars

\* On a steady path the estimate settles: after `Settled` equal measurements it is
\* the measurement or one below it (truncation leaves it there).
SettlesOnSteadyMeasurement ==
    same = Settled => hat_post \in {last - 1, last}
=============================================================================
