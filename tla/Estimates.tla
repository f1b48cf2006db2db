------------------------------ MODULE Estimates ------------------------------
(***************************************************************************)
(* What an ACK teaches a flow, in three scenes: a Kalman filter, the excess of *)
(* acknowledged packets, and the pacing rate.                                  *)
(***************************************************************************)
EXTENDS KalmanFilter

CONSTANTS
    Windows, BW_UNIT,                                             \* of both
    Acks, AckBandwidths, WinRtts, ResetThresh, ExtraMod, MaxEpoch,\* AckAggregation
    PacingBandwidths, Rtts, Limits, Gains,                        \* Pacing
    LEOCC_UNIT, HighGain, MSS, UsecRate, UsecPerMsec

\* A window fits the 16 bits of an excess, and a window of rounds the five bits that
\* count them; no RTT that was measured is 0, which stands for none.
ASSUME EstimatesAssumption ==
    /\ BW_UNIT \in Nat \ {0} /\ LEOCC_UNIT \in Nat \ {0} /\ UsecPerMsec \in Nat \ {0}
    /\ ExtraMod \in Nat \ {0} /\ Windows \subseteq 0 .. ExtraMod - 1
    /\ WinRtts \in 1 .. 31 /\ ResetThresh \in Nat \ {0} /\ MaxEpoch \in Nat
    /\ Acks \subseteq Nat /\ AckBandwidths \subseteq Nat /\ PacingBandwidths \subseteq Nat
    /\ Rtts \subseteq Nat \ {0} /\ Limits \subseteq Nat /\ Gains \subseteq Nat
    /\ HighGain \in Nat /\ MSS \in Nat /\ UsecRate \in Nat

VARIABLES
    scene,
    epoch_us, ack_epoch_acked, extra_acked, extra_acked_win_rtts, extra_acked_win_idx,
    excesses,
    sk_pacing_rate, sk_max_pacing_rate, srtt_us, has_seen_rtt, full_bw_reached, known,
    fastest, first

A == INSTANCE AckAggregation WITH Bandwidths <- AckBandwidths

P == INSTANCE Pacing WITH Bandwidths <- PacingBandwidths

aggregation_vars == <<epoch_us, ack_epoch_acked, extra_acked, extra_acked_win_rtts,
                      extra_acked_win_idx, excesses>>
pacing_vars == <<sk_pacing_rate, sk_max_pacing_rate, srtt_us, has_seen_rtt,
                 full_bw_reached, known, fastest, first>>
ack_vars == <<scene, vars, aggregation_vars, pacing_vars>>

\* Only the scene of the pacing rate begins in more than one way.
AckInit ==
    /\ scene \in {"filter", "aggregation", "pacing"}
    /\ Init /\ A!Init /\ P!Init
    /\ scene # "pacing" =>
          /\ srtt_us = 0
          /\ sk_max_pacing_rate = CHOOSE limit \in Limits : TRUE
          /\ sk_pacing_rate = P!RateOfWindow(CHOOSE cwnd \in Windows : TRUE, UsecPerMsec)

AckNext ==
    \/ scene = "filter" /\ Next /\ UNCHANGED <<scene, aggregation_vars, pacing_vars>>
    \/ scene = "aggregation" /\ A!Next /\ UNCHANGED <<scene, vars, pacing_vars>>
    \/ scene = "pacing" /\ P!Next /\ UNCHANGED <<scene, vars, aggregation_vars>>

AckSpec == AckInit /\ [][AckNext]_ack_vars

\* Of AckAggregation: the excess that is remembered is that of the last rounds.
ExtraAckedIsRecent == A!ExtraAckedIsRecent

\* Of Pacing: a flow is paced by what was measured.
PacedAsMeasured == P!PacedAsMeasured
=============================================================================
