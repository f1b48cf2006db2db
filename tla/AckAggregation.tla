--------------------------- MODULE AckAggregation ---------------------------
(***************************************************************************)
(* How much more than expected is acknowledged at once: the largest excess of *)
(* the last rounds, which leocc_set_cwnd adds to the window.  An epoch counts  *)
(* the packets acknowledged since its beginning, and ends with an ACK before   *)
(* which they were no more than the bandwidth explains.  Two places hold the    *)
(* largest excess of the rounds of this window and of those of the one before.  *)
(***************************************************************************)
EXTENDS Integers, Sequences, FiniteSetsExt, SequencesExt

CONSTANTS
    Acks,          \* packets that an ACK can acknowledge: rs->acked_sacked
    Bandwidths,    \* what the max filter can hold, in 1/BW_UNIT packets per tick
    Windows,       \* values of tcp_snd_cwnd
    BW_UNIT,
    WinRtts,       \* leocc_extra_acked_win_rtts
    ResetThresh,   \* leocc_ack_epoch_acked_reset_thresh, 2^width of ack_epoch_acked
    WordMod,       \* 2^width of a u32
    ExtraMod,      \* 2^width of an extra_acked[]: above every window that is in use
    MaxEpoch       \* bound: ticks between the beginning of an epoch and an ACK

VARIABLES
    epoch_us,               \* delivered_mstamp - ack_epoch_mstamp
    ack_epoch_acked,
    extra_acked,
    extra_acked_win_rtts,
    extra_acked_win_idx,
    excesses                \* history: the largest excess of each round, the latest first

vars == <<epoch_us, ack_epoch_acked, extra_acked, extra_acked_win_rtts,
          extra_acked_win_idx, excesses>>

Init ==
    /\ epoch_us = 0 /\ ack_epoch_acked = 0
    /\ extra_acked = [idx \in {0, 1} |-> 0]
    /\ extra_acked_win_rtts = 0 /\ extra_acked_win_idx = 0
    /\ excesses = <<0>>

-----------------------------------------------------------------------------
WindowOver == Min({31, extra_acked_win_rtts + 1}) >= WinRtts

\* A mutant: the place that is cleared is the one of the window that is over.
TurnAndForgetTheLast(round_start) ==
    IF round_start /\ WindowOver
    THEN [rtts |-> 0, idx |-> 1 - extra_acked_win_idx,
          extra |-> [extra_acked EXCEPT ![extra_acked_win_idx] = 0]]
    ELSE [rtts |-> IF round_start THEN Min({31, extra_acked_win_rtts + 1})
                   ELSE extra_acked_win_rtts,
          idx |-> extra_acked_win_idx, extra |-> extra_acked]

\* A window that is over leaves its excess to the next one, which begins with the
\* place of the window before.
Turn(round_start) ==
    IF round_start /\ WindowOver
    THEN [rtts |-> 0, idx |-> 1 - extra_acked_win_idx,
          extra |-> [extra_acked EXCEPT ![1 - extra_acked_win_idx] = 0]]
    ELSE [rtts |-> IF round_start THEN Min({31, extra_acked_win_rtts + 1})
                   ELSE extra_acked_win_rtts,
          idx |-> extra_acked_win_idx, extra |-> extra_acked]

ExpectedAcked(bw) == (bw * epoch_us) \div BW_UNIT

EpochOver(acked, bw) ==
    ack_epoch_acked <= ExpectedAcked(bw) \/ ack_epoch_acked + acked >= ResetThresh

EpochAcked(acked, bw) ==
    Min({ResetThresh - 1, (IF EpochOver(acked, bw) THEN 0 ELSE ack_epoch_acked) + acked})

Excess(acked, bw, cwnd) ==
    LET expected == IF EpochOver(acked, bw) THEN 0 ELSE ExpectedAcked(bw)
    IN  Min({(EpochAcked(acked, bw) - expected) % WordMod, cwnd})

\* An ACK without a valid sample changes nothing; any other acknowledges something.
leocc_update_ack_aggregation(acked, round_start, bw, cwnd) ==
    LET window == Turn(round_start)
        excess == Excess(acked, bw, cwnd)
    IN  /\ extra_acked_win_rtts' = window.rtts
        /\ extra_acked_win_idx' = window.idx
        /\ extra_acked' = [window.extra EXCEPT
              ![window.idx] = IF excess > @ THEN excess % ExtraMod ELSE @]
        /\ ack_epoch_acked' = EpochAcked(acked, bw)
        /\ epoch_us' = IF EpochOver(acked, bw) THEN 0 ELSE epoch_us
        /\ excesses' =
              IF round_start
              THEN SubSeq(<<excess>> \o excesses, 1, Min({Len(excesses) + 1, 2 * WinRtts}))
              ELSE [excesses EXCEPT ![1] = Max({@, excess})]

\* An application that sends again after a pause begins a new epoch.
leocc_cwnd_event ==
    /\ epoch_us' = 0 /\ ack_epoch_acked' = 0
    /\ UNCHANGED <<extra_acked, extra_acked_win_rtts, extra_acked_win_idx, excesses>>

Tick ==
    /\ epoch_us < MaxEpoch
    /\ epoch_us' = epoch_us + 1
    /\ UNCHANGED <<ack_epoch_acked, extra_acked, extra_acked_win_rtts,
                   extra_acked_win_idx, excesses>>

Next ==
    \/ \E acked \in Acks, round_start \in BOOLEAN, bw \in Bandwidths, cwnd \in Windows :
          leocc_update_ack_aggregation(acked, round_start, bw, cwnd)
    \/ leocc_cwnd_event
    \/ Tick

Spec == Init /\ [][Next]_vars

-----------------------------------------------------------------------------
(* What leocc_set_cwnd takes from it                                        *)

leocc_extra_acked == Max({extra_acked[0], extra_acked[1]})

Largest(rounds) == Max(ToSet(rounds))

\* The window grows by the excess of the last WinRtts rounds at least, and no excess
\* of more than twice as many rounds ago is remembered: the two places are a maximum
\* over a sliding window.
ExtraAckedIsRecent ==
    /\ leocc_extra_acked >= Largest(SubSeq(excesses, 1, Min({Len(excesses), WinRtts})))
    /\ leocc_extra_acked <= Largest(excesses)
=============================================================================
