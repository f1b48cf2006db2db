------------------------------- MODULE LeoCC -------------------------------
(***************************************************************************)
(* The LeoCC congestion control module of the kernel (live network): the   *)
(* mode machine of every flow, its bandwidth and minimum-RTT filters, its  *)
(* congestion window, and the callbacks the TCP stack makes into it.        *)
(*                                                                         *)
(* The socket lock serialises the callbacks of one flow; those of different*)
(* flows and the netlink handler interleave.  leocc_main runs its helpers  *)
(* one after the other on the flow's state, so each helper is an operator  *)
(* from flow state to flow state, and an action applies their composition. *)
(*                                                                         *)
(* Packet counts, queueing and the rate arithmetic are the environment's:  *)
(* a rate sample carries the outcome of the comparisons the code makes with *)
(* them.  jiffies are 32 bits wide in the code, JiffyMod wide here.          *)
(***************************************************************************)
EXTENDS Integers, FiniteSets

CONSTANTS
    Flows,            \* the sockets that use LeoCC
    RateSamples,      \* what an ACK can report; see RateSample
    Bandwidths,       \* bandwidth samples, in units of the max filter
    Rtts,             \* RTTs a sample can carry
    Fluctuations,     \* values the netlink handler gives min_rtt_fluctuation
    RttMod,           \* 2^width of an RTT; RttMod - 1 is ~0U, "no RTT yet"
    JiffyMod,         \* 2^width of jiffies
    MinRttWin,        \* leocc_min_rtt_win_sec, in jiffies
    ProbeRttTime,     \* leocc_probe_rtt_mode_ms, in jiffies
    DeltaRtt,         \* module parameter delta_rtt
    DeltaThresh,      \* module parameter delta_thresh
    CycleLen,         \* CYCLE_LEN, a power of two in the code, where a mask wraps
    CwndMinTarget,    \* leocc_cwnd_min_target
    CwndClamp,        \* snd_cwnd_clamp of the socket
    LossyPath         \* FALSE: nothing makes TCP reduce a window

NoRtt == RttMod - 1

Max2(a, b) == IF a >= b THEN a ELSE b
Min2(a, b) == IF a <= b THEN a ELSE b

\* struct rate_sample, and the comparisons with packet counts whose data is
\* left out: the pacing budget (leocc_bdp, leocc_inflight,
\* leocc_packets_in_net_at_edt), ack aggregation and the round accounting.
RateSample ==
    [delivered : {-1, 0, 1},      \* sign of rs->delivered
     has_interval : BOOLEAN,      \* interval_us > 0
     bw : Bandwidths,             \* delivered / interval_us
     round : BOOLEAN,             \* prior_delivered reached next_rtt_delivered
     rtt : Rtts \cup {-1},        \* rtt_us, -1 if the ACK gives none
     app_limited : BOOLEAN,
     ack_delayed : BOOLEAN,
     losses : Nat,
     acked : Nat,                 \* acked_sacked
     inflight : Nat,              \* tcp_packets_in_flight
     drained : BOOLEAN,           \* packets in the network fit the estimated BDP
     phase_over : BOOLEAN,        \* leocc_is_next_cycle_phase
     target : Nat,                \* set_cwnd's target_cwnd
     few_delivered : BOOLEAN,     \* tp->delivered < TCP_INIT_CWND
     probe_cwnd : Nat]            \* leocc_probe_rtt_cwnd

ASSUME LeoCCAssumption ==
    /\ RateSamples \subseteq RateSample
    /\ \A rs \in RateSamples : rs.probe_cwnd >= CwndMinTarget
    /\ Bandwidths \subseteq Nat /\ 0 \in Bandwidths
    /\ Rtts \subseteq 0 .. RttMod - 2
    /\ Fluctuations \subseteq Nat /\ 0 \in Fluctuations
    /\ RttMod \in Nat \ {0, 1} /\ JiffyMod \in Nat \ {0}
    /\ MinRttWin \in Nat \ {0} /\ ProbeRttTime \in Nat \ {0}
    /\ 2 * MinRttWin < JiffyMod /\ 2 * ProbeRttTime < JiffyMod
    /\ DeltaRtt \in Nat /\ DeltaThresh \in Nat
    /\ CycleLen \in Nat \ {0, 1}
    /\ CwndMinTarget \in Nat \ {0}
    /\ CwndClamp \in Nat /\ CwndClamp >= CwndMinTarget
    /\ LossyPath \in BOOLEAN

VARIABLES
    flow,                            \* struct leocc and the socket fields it uses
    now,                             \* tcp_jiffies32
    leocc_pacing_gain_0,             \* leocc_pacing_gain[0]: one table for all flows
    global_reconfiguration_trigger,  \* written by the netlink handler
    min_rtt_fluctuation              \* written by the netlink handler

vars == <<flow, now, leocc_pacing_gain_0, global_reconfiguration_trigger,
          min_rtt_fluctuation>>

Modes == {"STARTUP", "DRAIN", "CRUISE", "PROBE_RTT"}
CaStates == {"Open", "CWR", "Recovery", "Loss"}   \* Disorder acts like Open here
Jiffies == 0 .. JiffyMod - 1

\* LEOCC_UNIT is 256.
HighGain == (256 * 2885) \div 1000 + 1
DrainGain == (256 * 1000) \div 2885
ProbeUp == (256 * 5) \div 4
GentleUp == (256 * 21) \div 20
ProbeDown == (256 * 3) \div 4
Unit == 256
FullBwThresh == (256 * 5) \div 4

FlowState ==
    [mode : Modes,
     ca_state : CaStates,                  \* icsk_ca_state, kept by TCP
     prev_ca_state : CaStates,
     packet_conservation : BOOLEAN,
     round_start : BOOLEAN,
     idle_restart : BOOLEAN,
     probe_rtt_round_done : BOOLEAN,
     local_trigger : BOOLEAN,              \* local_reconfiguration_trigger
     bw : Bandwidths,                      \* the max filter
     latest_bw : Bandwidths,
     reconfiguration_max_bw : Bandwidths,
     full_bw : Bandwidths,
     full_bw_cnt : 0 .. 3,
     full_bw_reached : BOOLEAN,
     cycle_idx : 0 .. CycleLen - 1,
     pacing_gain : {0, HighGain, DrainGain, ProbeUp, GentleUp, ProbeDown, Unit},
     rtt_hat_post : Rtts \cup {0},
     min_rtt_us : 0 .. RttMod - 1,
     min_rtt_stamp : Jiffies,
     probe_rtt_done_stamp : Jiffies,
     prior_cwnd : Nat,
     snd_cwnd : Nat,
     held : 0 .. ProbeRttTime + 1,   \* history: jiffies since the probe's stamp was set
     round_held : BOOLEAN,           \* history: a round has begun since
     measured : SUBSET Bandwidths,   \* history: by the ACK that ended STARTUP or later
     owed : Nat]                     \* history: window to give back after an episode

TypeOK ==
    /\ flow \in [Flows -> FlowState]
    /\ now \in Jiffies
    /\ leocc_pacing_gain_0 \in {ProbeUp, GentleUp}
    /\ global_reconfiguration_trigger \in BOOLEAN
    /\ min_rtt_fluctuation \in Fluctuations

\* include/linux/jiffies.h: after(a, b) is (s32)(b - a) < 0.
After(a, b) == (a - b) % JiffyMod \in 1 .. JiffyMod \div 2

-----------------------------------------------------------------------------
(* Saving and restoring the window                                          *)

InRecovery(ca) == ca \in {"Recovery", "Loss"}

leocc_save_cwnd_last(s) == [s EXCEPT !.prior_cwnd = s.snd_cwnd]

leocc_save_cwnd(s) ==
    IF ~InRecovery(s.prev_ca_state) /\ s.mode # "PROBE_RTT"
    THEN [s EXCEPT !.prior_cwnd = s.snd_cwnd]
    ELSE [s EXCEPT !.prior_cwnd = Max2(s.prior_cwnd, s.snd_cwnd)]

\* A flow is in an episode while PROBE_RTT or a loss recovery holds its window
\* down; `owed` records the window it had when the episode began.  CWR does not hold
\* LeoCC's window down, but ssthresh is called when CWR begins, and not again when a
\* recovery follows: then `owed` is the lesser of the windows at the two moments.
InEpisode(s) ==
    s.mode = "PROBE_RTT" \/ InRecovery(s.prev_ca_state) \/ InRecovery(s.ca_state)
Owes(s) == InEpisode(s) \/ s.ca_state = "CWR"
BeginEpisode(s) ==
    IF InEpisode(s) THEN s
    ELSE [s EXCEPT !.owed = IF s.ca_state = "CWR" THEN Min2(@, s.snd_cwnd) ELSE s.snd_cwnd]
SettleEpisode(s) ==
    [s EXCEPT !.owed = IF Owes(s) THEN @ ELSE 0,
              !.held = IF s.mode = "PROBE_RTT" THEN @ ELSE 0]

-----------------------------------------------------------------------------
(* The steps of leocc_update_model, in the order it runs them               *)

\* The max filter (lib/win_minmax): a sample at least as large takes its place;
\* a smaller one leaves the maximum, or what is left of it as the window slides.
RunningMax(bw, sample) ==
    IF sample >= bw THEN {sample} ELSE {b \in Bandwidths : sample <= b /\ b <= bw}

\* `max` is the filter's choice.
leocc_update_bw(s, rs, max) ==
    LET drop == /\ s.mode = "PROBE_RTT" /\ rs.rtt > 0
                /\ s.rtt_hat_post > rs.rtt + DeltaThresh
    IN  IF rs.delivered < 0 \/ ~rs.has_interval
        THEN [s EXCEPT !.round_start = FALSE]
        ELSE [s EXCEPT
               !.round_start = rs.round,
               !.round_held = @ \/ rs.round,
               !.packet_conservation = @ /\ ~rs.round,
               !.reconfiguration_max_bw = IF drop THEN s.latest_bw ELSE @,
               !.bw = IF ~rs.app_limited \/ rs.bw >= s.bw THEN max ELSE @,
               !.latest_bw = rs.bw,
               !.measured = @ \cup {rs.bw}]

leocc_advance_cycle_phase_unmasked(s) == [s EXCEPT !.cycle_idx = @ + 1]

leocc_advance_cycle_phase(s) ==
    [s EXCEPT !.cycle_idx = (@ + 1) % CycleLen]

leocc_update_cycle_phase(s, rs) ==
    IF s.mode = "CRUISE" /\ rs.phase_over THEN leocc_advance_cycle_phase(s) ELSE s

leocc_check_full_bw_reached(s, rs) ==
    IF s.full_bw_reached \/ ~s.round_start \/ rs.app_limited
    THEN s
    ELSE IF s.bw >= (s.full_bw * FullBwThresh) \div Unit
    THEN [s EXCEPT !.full_bw = s.bw, !.full_bw_cnt = 0]
    ELSE [s EXCEPT !.full_bw_cnt = (@ + 1) % 4,
                   !.full_bw_reached = (s.full_bw_cnt + 1) % 4 >= 3]

leocc_reset_startup_mode_keeps_flag(s) ==
    [s EXCEPT !.full_bw = 0, !.full_bw_cnt = 0, !.mode = "STARTUP"]

leocc_reset_startup_mode(s) ==
    [s EXCEPT !.full_bw_reached = FALSE, !.full_bw = 0, !.full_bw_cnt = 0,
              !.mode = "STARTUP"]

leocc_reset_probe_bw_mode_no_advance(s, r) ==
    [s EXCEPT !.mode = "CRUISE", !.cycle_idx = CycleLen - 1 - r]

\* `r` is get_random_u32_below(leocc_cycle_rand).
leocc_reset_probe_bw_mode(s, r) ==
    leocc_advance_cycle_phase(
        [s EXCEPT !.mode = "CRUISE", !.cycle_idx = CycleLen - 1 - r])
CycleRand == 0 .. CycleLen - 2

leocc_reset_mode_ignores_trigger(s, r) ==
    IF ~s.full_bw_reached THEN leocc_reset_startup_mode(s) ELSE leocc_reset_probe_bw_mode(s, r)

leocc_reset_mode(s, r) ==
    IF ~s.full_bw_reached \/ s.local_trigger
    THEN leocc_reset_startup_mode(s)
    ELSE leocc_reset_probe_bw_mode(s, r)

EnterDrainKeepsBw(s) ==
    IF s.mode = "STARTUP" /\ s.full_bw_reached
    THEN [s EXCEPT !.local_trigger = FALSE, !.mode = "DRAIN", !.measured = {s.latest_bw}]
    ELSE s

EnterDrain(s) ==
    IF s.mode = "STARTUP" /\ s.full_bw_reached
    THEN [s EXCEPT !.reconfiguration_max_bw = 0, !.local_trigger = FALSE,
                   !.mode = "DRAIN", !.measured = {s.latest_bw}]
    ELSE s

leocc_check_drain(s, rs, r) ==
    LET d == EnterDrain(s)
    IN  IF d.mode = "DRAIN" /\ rs.drained THEN leocc_reset_probe_bw_mode(d, r) ELSE d

leocc_check_probe_rtt_done_no_restore(s, r) ==
    IF s.probe_rtt_done_stamp # 0 /\ After(now, s.probe_rtt_done_stamp)
    THEN LET t == leocc_reset_mode(s, r)
         IN  IF t.local_trigger THEN [t EXCEPT !.bw = t.reconfiguration_max_bw] ELSE t
    ELSE s

leocc_check_probe_rtt_done(s, r) ==
    IF s.probe_rtt_done_stamp # 0 /\ After(now, s.probe_rtt_done_stamp)
    THEN LET t == leocc_reset_mode([s EXCEPT !.snd_cwnd = Max2(@, s.prior_cwnd)], r)
         IN  IF t.local_trigger THEN [t EXCEPT !.bw = t.reconfiguration_max_bw] ELSE t
    ELSE s

FilterExpired(s) == After(now, (s.min_rtt_stamp + MinRttWin) % JiffyMod)

TakeMinRtt(s, rs, expired) ==
    IF rs.rtt >= 0 /\ (rs.rtt < s.min_rtt_us \/ (expired /\ ~rs.ack_delayed))
    THEN [s EXCEPT !.min_rtt_us = rs.rtt, !.min_rtt_stamp = now]
    ELSE s

EnterProbeRttKeepsStamp(s, expired) ==
    IF ~s.idle_restart /\ s.mode = "CRUISE" /\ (expired \/ s.local_trigger)
    THEN leocc_save_cwnd([BeginEpisode(s) EXCEPT !.mode = "PROBE_RTT", !.held = 0])
    ELSE s

EnterProbeRtt(s, expired) ==
    IF ~s.idle_restart /\ s.mode = "CRUISE" /\ (expired \/ s.local_trigger)
    THEN leocc_save_cwnd([BeginEpisode(s) EXCEPT !.mode = "PROBE_RTT",
                                                 !.probe_rtt_done_stamp = 0,
                                                 !.held = 0])
    ELSE s

InProbeRttRestamps(s, rs, r) ==
    IF s.mode = "PROBE_RTT" /\ rs.inflight <= rs.probe_cwnd
    THEN [s EXCEPT !.probe_rtt_done_stamp = (now + ProbeRttTime) % JiffyMod,
                   !.probe_rtt_round_done = FALSE, !.held = 0, !.round_held = FALSE]
    ELSE IF s.mode = "PROBE_RTT" THEN leocc_check_probe_rtt_done(s, r) ELSE s

\* The stamp is "unset" as long as it is 0, even when it was just set to 0.
\* rtt_us is u32 -1, i.e. NoRtt, when the last ACK of the probe gave no RTT.
InProbeRtt(s, rs, r) ==
    LET done == s.probe_rtt_round_done \/ s.round_start
        t == [s EXCEPT !.probe_rtt_round_done = done]
    IN  CASE s.mode # "PROBE_RTT" -> s
          [] s.mode = "PROBE_RTT" /\ s.probe_rtt_done_stamp = 0 ->
               IF rs.inflight <= rs.probe_cwnd
               THEN [s EXCEPT !.probe_rtt_done_stamp = (now + ProbeRttTime) % JiffyMod,
                              !.probe_rtt_round_done = FALSE,
                              !.held = 0, !.round_held = FALSE]
               ELSE s
          [] s.mode = "PROBE_RTT" /\ s.probe_rtt_done_stamp # 0 /\ ~done -> s
          [] s.mode = "PROBE_RTT" /\ s.probe_rtt_done_stamp # 0 /\ done ->
               leocc_check_probe_rtt_done(
                   IF After(now, s.probe_rtt_done_stamp)
                   THEN [t EXCEPT !.min_rtt_us = rs.rtt % RttMod, !.min_rtt_stamp = now]
                   ELSE t, r)

leocc_update_min_rtt(s, rs, r) ==
    LET expired == FilterExpired(s)
        t == InProbeRtt(EnterProbeRtt(TakeMinRtt(s, rs, expired), expired), rs, r)
    IN  IF rs.delivered > 0 THEN [t EXCEPT !.idle_restart = FALSE] ELSE t

leocc_update_gains(s) ==
    [s EXCEPT !.pacing_gain =
        CASE s.mode = "STARTUP" -> HighGain
          [] s.mode = "DRAIN" -> DrainGain
          [] s.mode = "PROBE_RTT" -> Unit
          [] s.mode = "CRUISE" /\ s.cycle_idx = 0 -> leocc_pacing_gain_0
          [] s.mode = "CRUISE" /\ s.cycle_idx = 1 -> ProbeDown
          [] s.mode = "CRUISE" /\ s.cycle_idx \notin {0, 1} -> Unit]

leocc_update_model(s, rs, max, r) ==
    LET t == leocc_check_full_bw_reached(
                 leocc_update_cycle_phase(leocc_update_bw(s, rs, max), rs), rs)
    IN  leocc_update_gains(leocc_update_min_rtt(leocc_check_drain(t, rs, r), rs, r))

-----------------------------------------------------------------------------
(* leocc_set_cwnd                                                           *)

leocc_set_cwnd_to_recover_or_restore(s, rs) ==
    LET lost == IF rs.losses > 0 THEN Max2(s.snd_cwnd - rs.losses, 1) ELSE s.snd_cwnd
        t == [s EXCEPT !.prev_ca_state = s.ca_state]
        u == CASE s.ca_state = "Recovery" /\ s.prev_ca_state # "Recovery" ->
                    [t EXCEPT !.packet_conservation = TRUE,
                              !.snd_cwnd = rs.inflight + rs.acked]
               [] InRecovery(s.prev_ca_state) /\ ~InRecovery(s.ca_state) ->
                    [t EXCEPT !.packet_conservation = FALSE,
                              !.snd_cwnd = Max2(lost, s.prior_cwnd)]
               [] OTHER -> [t EXCEPT !.snd_cwnd = lost]
    IN  IF u.packet_conservation
        THEN [u EXCEPT !.snd_cwnd = Max2(@, rs.inflight + rs.acked)]
        ELSE u

GrowToTarget(s, rs) ==
    LET c == CASE s.full_bw_reached -> Min2(s.snd_cwnd + rs.acked, rs.target)
               [] ~s.full_bw_reached /\ (s.snd_cwnd < rs.target \/ rs.few_delivered) ->
                    s.snd_cwnd + rs.acked
               [] OTHER -> s.snd_cwnd
    IN  [s EXCEPT !.snd_cwnd = Max2(c, CwndMinTarget)]

CapCwndUnclamped(s, rs) ==
    [s EXCEPT !.snd_cwnd = IF s.mode = "PROBE_RTT" THEN Min2(@, rs.probe_cwnd) ELSE @]

CapCwnd(s, rs) ==
    LET c == Min2(s.snd_cwnd, CwndClamp)
    IN  [s EXCEPT !.snd_cwnd =
            IF s.mode = "PROBE_RTT" THEN Min2(c, rs.probe_cwnd) ELSE c]

leocc_set_cwnd(s, rs) ==
    LET t == leocc_set_cwnd_to_recover_or_restore(s, rs)
        u == IF t.packet_conservation THEN t ELSE GrowToTarget(t, rs)
    IN  CapCwnd(IF rs.acked = 0 THEN s ELSE u, rs)

-----------------------------------------------------------------------------
(* The callbacks                                                            *)

\* leocc_init, when a socket starts to use LeoCC.  tcp_min_rtt is NoRtt or an RTT
\* of the handshake.
InitialFlow(min_rtt, cwnd) ==
    [mode |-> "STARTUP", ca_state |-> "Open", prev_ca_state |-> "Open",
     packet_conservation |-> FALSE, round_start |-> FALSE, idle_restart |-> FALSE,
     probe_rtt_round_done |-> FALSE, local_trigger |-> FALSE,
     bw |-> 0, latest_bw |-> 0, reconfiguration_max_bw |-> 0,
     full_bw |-> 0, full_bw_cnt |-> 0, full_bw_reached |-> FALSE,
     cycle_idx |-> 0, pacing_gain |-> 0,
     rtt_hat_post |-> 0, min_rtt_us |-> min_rtt, min_rtt_stamp |-> 0,
     probe_rtt_done_stamp |-> 0, prior_cwnd |-> 0, snd_cwnd |-> cwnd,
     held |-> 0, round_held |-> FALSE, measured |-> {0}, owed |-> 0]

Init ==
    /\ flow \in [Flows -> {InitialFlow(m, CwndMinTarget) : m \in Rtts \cup {NoRtt}}]
    /\ now = 0
    /\ leocc_pacing_gain_0 = ProbeUp
    /\ global_reconfiguration_trigger = FALSE
    /\ min_rtt_fluctuation = 0

\* The RTT estimate moves towards the sample (module KalmanFilter).
KalmanRtt(hat, rtt) ==
    IF rtt <= 0 THEN {hat}
    ELSE {h \in Rtts \cup {0} : (hat <= h /\ h <= rtt) \/ (rtt <= h /\ h <= hat)}

\* The flow leaves the max filter for the Kalman estimate, and probes gently,
\* while its RTT exceeds what the path's fluctuation explains.  u32 arithmetic.
Fluctuates(s) ==
    /\ min_rtt_fluctuation > 0
    /\ s.rtt_hat_post >= (DeltaRtt + s.min_rtt_us + min_rtt_fluctuation) % RttMod
    /\ ~s.local_trigger
    /\ s.mode = "CRUISE"

\* leocc_main: cong_control, on every ACK.
leocc_main(f, rs) ==
    LET s == [flow[f] EXCEPT !.local_trigger = @ \/ global_reconfiguration_trigger]
    IN  \E max \in RunningMax(s.bw, rs.bw), r \in CycleRand,
           hat \in KalmanRtt(s.rtt_hat_post, rs.rtt) :
          LET t == leocc_update_model(s, rs, max, r)
              u == [t EXCEPT !.rtt_hat_post = hat]
          IN  /\ leocc_pacing_gain_0' = IF Fluctuates(u) THEN GentleUp ELSE ProbeUp
              /\ flow' = [flow EXCEPT ![f] = SettleEpisode(leocc_set_cwnd(u, rs))]
              /\ UNCHANGED <<now, global_reconfiguration_trigger, min_rtt_fluctuation>>

Ack(f) == \E rs \in RateSamples : leocc_main(f, rs)

OnlyFlow(f, s) ==
    /\ flow' = [flow EXCEPT ![f] = SettleEpisode(s)]
    /\ UNCHANGED <<now, leocc_pacing_gain_0, global_reconfiguration_trigger,
                   min_rtt_fluctuation>>

\* CA_EVENT_TX_START on an application-limited socket: sending resumes.
leocc_cwnd_event(f) ==
    LET s == [flow[f] EXCEPT !.idle_restart = TRUE]
    IN  \E r \in CycleRand :
          OnlyFlow(f, IF s.mode = "PROBE_RTT" THEN leocc_check_probe_rtt_done(s, r) ELSE s)

\* ssthresh: TCP calls it when it is about to reduce the window.
leocc_ssthresh(s) == leocc_save_cwnd(s)

\* set_state(Loss).
leocc_set_state_loss(s) ==
    [s EXCEPT !.prev_ca_state = "Loss", !.full_bw = 0, !.round_start = TRUE]

\* undo_cwnd: the window is returned as it is.
leocc_undo_cwnd(s) == [s EXCEPT !.full_bw = 0, !.full_bw_cnt = 0]

-----------------------------------------------------------------------------
(* The TCP stack around the callbacks (net/ipv4/tcp_input.c)                *)

\* Congestion window reduction (ECN, local congestion): ssthresh, and a state below
\* Recovery, which ends when the data sent before it has been acknowledged.
EnterCwr(f) ==
    /\ LossyPath
    /\ flow[f].ca_state = "Open"
    /\ OnlyFlow(f, [leocc_ssthresh(BeginEpisode(flow[f])) EXCEPT !.ca_state = "CWR"])

LeaveCwr(f) ==
    /\ flow[f].ca_state = "CWR"
    /\ OnlyFlow(f, [flow[f] EXCEPT !.ca_state = "Open"])

\* Fast retransmit: ssthresh, unless CWR has called it, then the new state.  A
\* retransmission that is lost leads here from Loss.
EnterRecovery(f) ==
    /\ LossyPath
    /\ flow[f].ca_state # "Recovery"
    /\ LET b == BeginEpisode(flow[f])
           s == IF flow[f].ca_state = "CWR" THEN b ELSE leocc_ssthresh(b)
       IN  OnlyFlow(f, [s EXCEPT !.ca_state = "Recovery"])

\* Retransmission timeout: ssthresh (not again if a reduction has begun and the data
\* of that episode is still outstanding), window to the packets in flight plus one,
\* no more than had been sent since the head is lost, and set_state(Loss).
EnterLoss(f) ==
    /\ LossyPath
    /\ \E again \in BOOLEAN, c \in 1 .. CwndClamp :
         LET b == BeginEpisode(flow[f])
             s == IF flow[f].ca_state = "Open" \/ again THEN leocc_ssthresh(b) ELSE b
         IN  OnlyFlow(f, leocc_set_state_loss([s EXCEPT !.ca_state = "Loss",
                                                        !.snd_cwnd = c]))

\* The episode is over: everything lost has been acknowledged, or the reduction
\* turned out to be spurious and is undone.
LeaveRecovery(f) ==
    /\ InRecovery(flow[f].ca_state)
    /\ \E undo \in BOOLEAN :
         LET s == IF undo THEN leocc_undo_cwnd(flow[f]) ELSE flow[f]
         IN  OnlyFlow(f, [s EXCEPT !.ca_state = "Open"])

Tick ==
    /\ now' = (now + 1) % JiffyMod
    /\ flow' = [f \in Flows |->
                  [flow[f] EXCEPT !.held = IF flow[f].mode = "PROBE_RTT"
                                           THEN Min2(@ + 1, ProbeRttTime + 1) ELSE 0]]
    /\ UNCHANGED <<leocc_pacing_gain_0, global_reconfiguration_trigger, min_rtt_fluctuation>>

\* What the netlink handler does to the two variables the flows read.
NetlinkHandler ==
    /\ global_reconfiguration_trigger' \in BOOLEAN
    /\ min_rtt_fluctuation' \in Fluctuations
    /\ UNCHANGED <<flow, now, leocc_pacing_gain_0>>

FlowNext(f) ==
    \/ Ack(f)
    \/ leocc_cwnd_event(f)
    \/ EnterCwr(f)
    \/ LeaveCwr(f)
    \/ EnterRecovery(f)
    \/ EnterLoss(f)
    \/ LeaveRecovery(f)

Next == (\E f \in Flows : FlowNext(f)) \/ Tick \/ NetlinkHandler

Spec == Init /\ [][Next]_vars

\* Time passes, and a bulk flow gets, in every jiffy that comes round again and
\* again, ACKs that deliver data and end a round at a moment when its queue has
\* drained: DRAIN paces below the bandwidth, and PROBE_RTT caps the window, until it
\* has.  Such ACKs do not all find the flow just resumed from idle, unless it always
\* is: a flow marked idle before each of its ACKs never enters PROBE_RTT.
DrainedAck(f) ==
    \E rs \in RateSamples :
        /\ rs.delivered > 0 /\ rs.has_interval /\ rs.round /\ rs.drained
        /\ rs.inflight <= rs.probe_cwnd
        /\ leocc_main(f, rs)

\* Strong fairness of these ACKs, with the guard written in place of ENABLED.
Fairness ==
    /\ WF_vars(Tick)
    /\ \A f \in Flows :
          []<>(~flow[f].idle_restart)
              => []<><<~flow[f].idle_restart /\ DrainedAck(f)>>_vars
    /\ \A f \in Flows, t \in Jiffies :
          []<>(now = t) => []<><<now = t /\ DrainedAck(f)>>_vars

FairSpec == Spec /\ Fairness

-----------------------------------------------------------------------------
(* Safety                                                                   *)

\* The mode and the full_bw flag are set in different helpers and reset in
\* different callbacks, yet outside a callback a flow is in STARTUP exactly while
\* it still believes the pipe is not full: PROBE_RTT of a flow whose pipe is not
\* full, or STARTUP with the flag up, is never left behind.
StartupIffPipeNotFull ==
    \A f \in Flows : (flow[f].mode = "STARTUP") <=> ~flow[f].full_bw_reached

\* PROBE_RTT and loss recovery both hold the window down, they overlap in many
\* orders, and they share one prior_cwnd, which is overwritten where the module sees
\* no episode.  It covers the window the flow had when the first of them began, or,
\* if a recovery follows CWR, when CWR began, should that be less: TCP does not have
\* the window saved again, and what it grew by in CWR is not given back.
PriorCwndCoversEpisode ==
    \A f \in Flows : InEpisode(flow[f]) => flow[f].prior_cwnd >= flow[f].owed

\* No flow has a window beyond the socket's clamp, which leocc_check_probe_rtt_done
\* does not apply.
WindowWithinClamp ==
    \A f \in Flows : flow[f].snd_cwnd <= CwndClamp /\ flow[f].prior_cwnd <= CwndClamp

(* Action properties *)

\* A flow leaves PROBE_RTT only when the inflight was small more than ProbeRttTime
\* ago: also when jiffies wrap, and when the stamp, computed modulo 2^32, comes out
\* as the "unset" 0.  By an ACK it leaves only if a round has begun since, too; when
\* it resumes sending after it was idle, no round is asked for.
ProbeRttHeldLongEnough ==
    [][\A f \in Flows :
        flow[f].mode = "PROBE_RTT" /\ flow'[f].mode # "PROBE_RTT"
            => /\ flow[f].held > ProbeRttTime
               /\ flow'[f].round_held \/ leocc_cwnd_event(f)]_vars

\* A flow goes back to STARTUP only for a reconfiguration it has been told of, at the
\* end of a probe, and forgets full_bw.  The bandwidth it then starts from is none
\* from before it last left STARTUP, so none that the restart before this one took
\* up or outgrew: it has been measured since, or is 0.  (It may be that of an earlier
\* probe, which was not for a reconfiguration.)
RestartOnlyForReconfiguration ==
    [][\A f \in Flows :
        flow[f].mode # "STARTUP" /\ flow'[f].mode = "STARTUP"
            => /\ flow[f].mode = "PROBE_RTT"
               /\ flow'[f].local_trigger
               /\ flow'[f].bw \in flow'[f].measured \cup {0}
               /\ flow'[f].full_bw = 0 /\ flow'[f].full_bw_cnt = 0]_vars

\* When a reconfiguration ends the episode, the flow restarts with the window it had
\* when the episode began (or when the CWR before it did, if that was less); it is
\* short only of what the ACK that ended it reported lost.
RestartGivesWindowBack ==
    [][\A f \in Flows :
        InEpisode(flow[f]) /\ ~InEpisode(flow'[f]) /\ flow'[f].mode = "STARTUP"
            => \/ flow'[f].snd_cwnd >= flow[f].owed
               \/ \E rs \in RateSamples :
                     /\ rs.losses > 0 /\ leocc_main(f, rs)
                     /\ flow'[f].snd_cwnd >= flow[f].owed - rs.losses]_vars

\* A cycle never begins with the phase that drains: it comes right after the
\* phase that fills the queue.
ProbeDownFollowsProbeUp ==
    [][\A f \in Flows :
        flow'[f].mode = "CRUISE" /\ flow'[f].cycle_idx = 1
            => flow[f].mode = "CRUISE" /\ flow[f].cycle_idx \in {0, 1}]_vars

(* Liveness *)

\* A flow that has been told of a reconfiguration restarts.
ReconfigurationHandled ==
    \A f \in Flows : flow[f].local_trigger ~> flow[f].mode = "STARTUP"

\* PROBE_RTT, which starves the flow, ends.
ProbeRttEnds ==
    \A f \in Flows : flow[f].mode = "PROBE_RTT" ~> flow[f].mode # "PROBE_RTT"
=============================================================================
