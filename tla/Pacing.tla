------------------------------- MODULE Pacing -------------------------------
(***************************************************************************)
(* The pacing rate of a flow.  leocc_init sets it from the first window, and   *)
(* from 1 ms if no RTT is known; the first RTT replaces that guess; from then   *)
(* on every ACK gives the estimated bandwidth times the gain of the mode, but    *)
(* until the pipe is full the rate is only ever raised.                       *)
(*                                                                         *)
(* The bandwidth, the gain and whether the pipe is full are the mode machine's, *)
(* in module LeoCC; the smoothed RTT and the limit are the socket's.            *)
(***************************************************************************)
EXTENDS Integers, FiniteSetsExt

CONSTANTS
    Bandwidths,       \* estimates: of the max filter, or of the Kalman filter
    Rtts,             \* smoothed RTTs, in us
    Windows,          \* values of tcp_snd_cwnd
    Limits,           \* sk_max_pacing_rate
    Gains,            \* of a mode in which the pipe is full
    HighGain,         \* leocc_high_gain
    LEOCC_UNIT, BW_UNIT,
    MSS,              \* mss_cache
    UsecRate,         \* USEC_PER_SEC / 100 * (100 - leocc_pacing_margin_percent)
    UsecPerMsec       \* USEC_PER_MSEC

VARIABLES
    sk_pacing_rate, sk_max_pacing_rate,
    srtt_us,                \* 0 until an RTT is known
    has_seen_rtt,
    full_bw_reached,
    known,                  \* history: a callback has run with an RTT known
    fastest,                \* history: the fastest rate that a measurement has justified
    first                   \* history: the rate of the first RTT, within later limits,
                            \* until the pipe is full for the first time

vars == <<sk_pacing_rate, sk_max_pacing_rate, srtt_us, has_seen_rtt, full_bw_reached,
          known, fastest, first>>

-----------------------------------------------------------------------------
leocc_rate_bytes_per_sec(bw, gain) ==
    (((bw * MSS * gain) \div LEOCC_UNIT) * UsecRate) \div BW_UNIT

leocc_bw_to_pacing_rate(bw, gain) ==
    Min({leocc_rate_bytes_per_sec(bw, gain), sk_max_pacing_rate})

RateOfWindow(cwnd, rtt_us) == leocc_bw_to_pacing_rate((cwnd * BW_UNIT) \div rtt_us, HighGain)

RttOrGuess == IF srtt_us # 0 THEN srtt_us ELSE UsecPerMsec

\* A mutant: the guess counts as an RTT.
SeesRttAlways == TRUE

SeesRtt == srtt_us # 0

\* leocc_init.
Init ==
    /\ sk_max_pacing_rate \in Limits
    /\ srtt_us \in Rtts \cup {0}
    /\ has_seen_rtt = SeesRtt /\ full_bw_reached = FALSE
    /\ \E cwnd \in Windows : sk_pacing_rate = RateOfWindow(cwnd, RttOrGuess)
    /\ known = (srtt_us # 0)
    /\ first = IF known THEN sk_pacing_rate ELSE 0
    /\ fastest = first

\* The first RTT replaces the guess, whatever the rate was raised to in between.
leocc_set_pacing_rate(bw, gain, full, cwnd) ==
    LET rate == leocc_bw_to_pacing_rate(bw, gain)
        of_rtt == RateOfWindow(cwnd, RttOrGuess)
        replaces == ~has_seen_rtt /\ srtt_us # 0
        current == IF replaces THEN of_rtt ELSE sk_pacing_rate
    IN  /\ has_seen_rtt' = (has_seen_rtt \/ replaces)
        /\ sk_pacing_rate' = IF full \/ rate > current THEN rate ELSE current
        /\ LET rates == IF ~known /\ srtt_us # 0 THEN {of_rtt} ELSE {}
           IN  /\ known' = (known \/ rates # {})
               /\ first' = IF full THEN 0 ELSE Max({first} \cup rates)
               /\ fastest' = Max({fastest, leocc_rate_bytes_per_sec(bw, gain)} \cup rates)

\* An ACK.  A flow in PROBE_RTT paces at its bandwidth, also before its pipe is full.
leocc_main ==
    \E bw \in Bandwidths, cwnd \in Windows, full \in BOOLEAN :
      \E gain \in (IF full THEN Gains ELSE {HighGain, LEOCC_UNIT}) :
         /\ leocc_set_pacing_rate(bw, gain, full, cwnd)
         /\ full_bw_reached' = full
         /\ UNCHANGED <<sk_max_pacing_rate, srtt_us>>

\* An application that sends again after a pause, in CRUISE.
leocc_cwnd_event ==
    /\ full_bw_reached
    /\ \E bw \in Bandwidths, cwnd \in Windows :
          leocc_set_pacing_rate(bw, LEOCC_UNIT, full_bw_reached, cwnd)
    /\ UNCHANGED <<sk_max_pacing_rate, srtt_us, full_bw_reached>>

\* The smoothed RTT follows the samples, and is never 0 again.
MeasureRtt ==
    /\ srtt_us' \in Rtts \ {srtt_us}
    /\ UNCHANGED <<sk_pacing_rate, sk_max_pacing_rate, has_seen_rtt, full_bw_reached,
                   known, fastest, first>>

\* SO_MAX_PACING_RATE: the kernel lowers the rate with the limit.
SetLimit ==
    /\ sk_max_pacing_rate' \in Limits \ {sk_max_pacing_rate}
    /\ sk_pacing_rate' = Min({sk_pacing_rate, sk_max_pacing_rate'})
    /\ first' = Min({first, sk_max_pacing_rate'})
    /\ UNCHANGED <<srtt_us, has_seen_rtt, full_bw_reached, known, fastest>>

Next == leocc_main \/ leocc_cwnd_event \/ MeasureRtt \/ SetLimit

Spec == Init /\ [][Next]_vars

-----------------------------------------------------------------------------
(* Properties                                                               *)

\* Once a flow knows its RTT it is paced by what was measured: never faster than the
\* fastest measurement justifies, so that no guess is left of before; until its pipe
\* is full, never slower than its first RTT justified; and always within the limit.
PacedAsMeasured ==
    /\ known => sk_pacing_rate <= fastest
    /\ first <= sk_pacing_rate
    /\ sk_pacing_rate <= sk_max_pacing_rate
=============================================================================
