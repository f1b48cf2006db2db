----------------------------- MODULE LeoCCProofs -----------------------------
(***************************************************************************)
(* Every field of every flow keeps its range, and mode and full_bw_reached  *)
(* agree outside the callbacks: one lemma per helper of leocc.c says what    *)
(* the helper preserves, one lemma per action combines them.  Then the       *)
(* window: PROBE_RTT and loss recovery share one prior_cwnd, and whatever    *)
(* the order in which they overlap, it covers the window the flow had when   *)
(* the first of them began, and no window exceeds the clamp.  Last, what a   *)
(* step may do to the mode: when PROBE_RTT may end, what a restart needs,    *)
(* forgets and gives back, and in which phase a cycle begins.                *)
(***************************************************************************)
EXTENDS LeoCC, TLAPS

\* The part of a flow the second theorem is about is untouched; it is consistent.
SameMode(s, t) == t.mode = s.mode /\ t.full_bw_reached = s.full_bw_reached
ModeMatches(s) == (s.mode = "STARTUP") <=> ~s.full_bw_reached

-----------------------------------------------------------------------------

\* leocc_save_cwnd leaves a well-formed flow in its mode.
LEMMA SaveCwnd ==
    ASSUME NEW s \in FlowState
    PROVE  leocc_save_cwnd(s) \in FlowState /\ SameMode(s, leocc_save_cwnd(s))
  <1>1. s.snd_cwnd \in Nat /\ s.prior_cwnd \in Nat
    BY ZenonT(40) DEF FlowState
  <1>2. Max2(s.prior_cwnd, s.snd_cwnd) \in Nat
    BY <1>1, SMT DEF Max2
  <1>3. leocc_save_cwnd(s) \in FlowState
    BY <1>1, <1>2, ZenonT(40) DEF leocc_save_cwnd, FlowState
  <1>4. SameMode(s, leocc_save_cwnd(s))
    BY SMT DEF leocc_save_cwnd, FlowState, SameMode
  <1> QED
    BY <1>3, <1>4

\* The history variables stay in range, and the mode does not depend on them.
LEMMA Episode ==
    ASSUME NEW s \in FlowState
    PROVE  /\ BeginEpisode(s) \in FlowState /\ SameMode(s, BeginEpisode(s))
           /\ SettleEpisode(s) \in FlowState /\ SameMode(s, SettleEpisode(s))
  <1>1. s.snd_cwnd \in Nat /\ s.owed \in Nat /\ s.held \in 0 .. ProbeRttTime + 1
    BY ZenonT(40) DEF FlowState
  <1>2. 0 \in Nat /\ 0 \in 0 .. ProbeRttTime + 1
    BY LeoCCAssumption, SMT
  <1>3. BeginEpisode(s) \in FlowState
    <2> DEFINE o == IF s.ca_state = "CWR" THEN Min2(s.owed, s.snd_cwnd) ELSE s.snd_cwnd
    <2>1. o \in Nat
      BY <1>1, SMT DEF Min2
    <2>2. BeginEpisode(s) = s \/ BeginEpisode(s) = [s EXCEPT !.owed = o]
      BY Zenon DEF BeginEpisode
    <2> HIDE DEF o
    <2>3. [s EXCEPT !.owed = o] \in FlowState
      BY <2>1, ZenonT(40) DEF FlowState
    <2> QED
      BY <2>2, <2>3, Zenon
  <1>4. SettleEpisode(s) \in FlowState
    <2> DEFINE o == IF Owes(s) THEN s.owed ELSE 0
               h == IF s.mode = "PROBE_RTT" THEN s.held ELSE 0
    <2>1. o \in Nat /\ h \in 0 .. ProbeRttTime + 1
      BY <1>1, <1>2, Zenon
    <2> HIDE DEF o, h
    <2>2. [s EXCEPT !.owed = o, !.held = h] \in FlowState
      BY <2>1, ZenonT(40) DEF FlowState
    <2> QED
      BY <2>2, Zenon DEF SettleEpisode, o, h
  <1>5. SameMode(s, BeginEpisode(s)) /\ SameMode(s, SettleEpisode(s))
    BY SMT DEF BeginEpisode, SettleEpisode, FlowState, SameMode
  <1> QED
    BY <1>3, <1>4, <1>5

\* leocc_update_bw keeps the filters in Bandwidths and does not touch the mode.
LEMMA UpdateBw ==
    ASSUME NEW s \in FlowState, NEW rs \in RateSample, NEW max \in Bandwidths
    PROVE  /\ leocc_update_bw(s, rs, max) \in FlowState
           /\ SameMode(s, leocc_update_bw(s, rs, max))
  <1> DEFINE drop == /\ s.mode = "PROBE_RTT" /\ rs.rtt > 0
                /\ s.rtt_hat_post > rs.rtt + DeltaThresh
             pc == s.packet_conservation /\ ~rs.round
             rmb == IF drop THEN s.latest_bw ELSE s.reconfiguration_max_bw
             b == IF ~rs.app_limited \/ rs.bw >= s.bw THEN max ELSE s.bw
             rh == s.round_held \/ rs.round
             ms == s.measured \cup {rs.bw}
             t == [s EXCEPT !.round_start = rs.round, !.round_held = rh,
                            !.packet_conservation = pc,
                            !.reconfiguration_max_bw = rmb, !.bw = b, !.latest_bw = rs.bw,
                            !.measured = ms]
  <1>1. rs.round \in BOOLEAN /\ pc \in BOOLEAN /\ rh \in BOOLEAN
    BY ZenonT(40) DEF FlowState, RateSample
  <1>2. rmb \in Bandwidths /\ b \in Bandwidths /\ rs.bw \in Bandwidths
    BY ZenonT(40) DEF FlowState, RateSample
  <1>7. ms \in SUBSET Bandwidths
    <2>1. s.measured \in SUBSET Bandwidths
      BY ZenonT(40) DEF FlowState
    <2> QED
      BY <1>2, <2>1
  <1> HIDE DEF drop, pc, rmb, b, rh, ms
  <1>3. [s EXCEPT !.round_start = FALSE] \in FlowState
    BY ZenonT(40) DEF FlowState
  <1>4. t \in FlowState
    BY <1>1, <1>2, <1>7, ZenonT(60) DEF FlowState
  <1>5. leocc_update_bw(s, rs, max) = [s EXCEPT !.round_start = FALSE]
        \/ leocc_update_bw(s, rs, max) = t
    BY Zenon DEF leocc_update_bw, drop, pc, rmb, b, rh, ms
  <1>6. SameMode(s, [s EXCEPT !.round_start = FALSE]) /\ SameMode(s, t)
    BY SMT DEF FlowState, SameMode
  <1> QED
    BY <1>3, <1>4, <1>5, <1>6, Zenon

\* The cycle index wraps at CYCLE_LEN (leocc.c:428-435).
LEMMA AdvanceCyclePhase ==
    ASSUME NEW s \in FlowState
    PROVE  /\ leocc_advance_cycle_phase(s) \in FlowState
           /\ SameMode(s, leocc_advance_cycle_phase(s))
  <1>1. (s.cycle_idx + 1) % CycleLen \in 0 .. CycleLen - 1
    BY LeoCCAssumption, SMT DEF FlowState
  <1>2. leocc_advance_cycle_phase(s) \in FlowState
    BY <1>1, ZenonT(40) DEF leocc_advance_cycle_phase, FlowState
  <1>3. SameMode(s, leocc_advance_cycle_phase(s))
    BY SMT DEF leocc_advance_cycle_phase, FlowState, SameMode
  <1> QED
    BY <1>2, <1>3

\* leocc_update_cycle_phase advances the index or does nothing.
LEMMA UpdateCyclePhase ==
    ASSUME NEW s \in FlowState, NEW rs \in RateSample
    PROVE  /\ leocc_update_cycle_phase(s, rs) \in FlowState
           /\ SameMode(s, leocc_update_cycle_phase(s, rs))
  BY AdvanceCyclePhase, Zenon DEF leocc_update_cycle_phase, SameMode

\* The two bits of full_bw_cnt suffice, and full_bw_reached is never lowered here:
\* only the flag may run ahead of the mode, until leocc_check_drain.
LEMMA CheckFullBw ==
    ASSUME NEW s \in FlowState, NEW rs \in RateSample
    PROVE  LET t == leocc_check_full_bw_reached(s, rs)
           IN  /\ t \in FlowState /\ t.mode = s.mode
               /\ s.full_bw_reached => t.full_bw_reached
  <1> DEFINE c == (s.full_bw_cnt + 1) % 4
             g == [s EXCEPT !.full_bw = s.bw, !.full_bw_cnt = 0]
             n == [s EXCEPT !.full_bw_cnt = c, !.full_bw_reached = c >= 3]
             t == leocc_check_full_bw_reached(s, rs)
  <1>1. c \in 0 .. 3 /\ 0 \in 0 .. 3
    BY SMT DEF FlowState
  <1>2. s.bw \in Bandwidths
    BY ZenonT(40) DEF FlowState
  <1> HIDE DEF c
  <1>7. (c >= 3) \in BOOLEAN
    BY <1>1, SMT
  <1>3. g \in FlowState
    BY <1>1, <1>2, ZenonT(40) DEF FlowState
  <1>4. n \in FlowState
    BY <1>1, <1>7, ZenonT(40) DEF FlowState
  <1>5. t = s \/ t = g \/ (~s.full_bw_reached /\ t = n)
    BY Zenon DEF leocc_check_full_bw_reached, c
  <1>6. g.mode = s.mode /\ n.mode = s.mode /\ g.full_bw_reached = s.full_bw_reached
    BY SMT DEF FlowState
  <1> QED
    BY <1>3, <1>4, <1>5, <1>6, Zenon

\* leocc_reset_probe_bw_mode enters CRUISE at a phase of the cycle.
LEMMA ResetProbeBwMode ==
    ASSUME NEW s \in FlowState, NEW r \in CycleRand
    PROVE  LET t == leocc_reset_probe_bw_mode(s, r)
           IN  t \in FlowState /\ t.mode = "CRUISE" /\ t.full_bw_reached = s.full_bw_reached
  <1> DEFINE u == [s EXCEPT !.mode = "CRUISE", !.cycle_idx = CycleLen - 1 - r]
  <1>1. CycleLen - 1 - r \in 0 .. CycleLen - 1
    BY LeoCCAssumption, SMT DEF CycleRand
  <1>2. u \in FlowState
    BY <1>1, ZenonT(40) DEF FlowState, Modes
  <1>3. u.mode = "CRUISE" /\ u.full_bw_reached = s.full_bw_reached
    BY SMT DEF FlowState
  <1> HIDE DEF u
  <1> QED
    BY <1>2, <1>3, AdvanceCyclePhase, Zenon DEF leocc_reset_probe_bw_mode, SameMode, u

\* leocc_reset_mode sets mode and flag together (leocc.c:446-473).
LEMMA ResetMode ==
    ASSUME NEW s \in FlowState, NEW r \in CycleRand
    PROVE  LET t == leocc_reset_mode(s, r) IN t \in FlowState /\ ModeMatches(t)
  <1> DEFINE u == leocc_reset_startup_mode(s)
             v == leocc_reset_probe_bw_mode(s, r)
  <1>1. 0 \in Bandwidths /\ 0 \in 0 .. 3
    BY LeoCCAssumption, SMT
  <1>2. u \in FlowState
    BY <1>1, ZenonT(40) DEF leocc_reset_startup_mode, FlowState, Modes
  <1>3. u.mode = "STARTUP" /\ u.full_bw_reached = FALSE
    BY SMT DEF leocc_reset_startup_mode, FlowState
  <1>4. v \in FlowState /\ v.mode = "CRUISE" /\ v.full_bw_reached = s.full_bw_reached
    BY ResetProbeBwMode
  <1>5. "STARTUP" # "CRUISE"
    OBVIOUS
  <1> HIDE DEF u, v
  <1> QED
    BY <1>2, <1>3, <1>4, <1>5, Zenon DEF leocc_reset_mode, ModeMatches, u, v

\* STARTUP ends when the pipe is full, and then the mode matches the flag again.
LEMMA CheckDrain ==
    ASSUME NEW s \in FlowState, NEW rs \in RateSample, NEW r \in CycleRand,
           s.mode # "STARTUP" => s.full_bw_reached
    PROVE  LET t == leocc_check_drain(s, rs, r) IN t \in FlowState /\ ModeMatches(t)
  <1> DEFINE e == [s EXCEPT !.reconfiguration_max_bw = 0, !.local_trigger = FALSE,
                            !.mode = "DRAIN", !.measured = {s.latest_bw}]
             d == EnterDrain(s)
             v == leocc_reset_probe_bw_mode(d, r)
  <1>1. 0 \in Bandwidths /\ {s.latest_bw} \in SUBSET Bandwidths
    <2>1. s.latest_bw \in Bandwidths
      BY ZenonT(40) DEF FlowState
    <2> QED
      BY <2>1, LeoCCAssumption
  <1>2. e \in FlowState
    BY <1>1, ZenonT(40) DEF FlowState, Modes
  <1>3. e.mode = "DRAIN" /\ e.full_bw_reached = s.full_bw_reached
    BY SMT DEF FlowState
  <1>4. "STARTUP" # "CRUISE" /\ "STARTUP" # "DRAIN"
    OBVIOUS
  <1>5. d \in FlowState /\ ModeMatches(d)
    <2> HIDE DEF e
    <2> QED
      BY <1>2, <1>3, <1>4, Zenon DEF EnterDrain, ModeMatches, e
  <1> HIDE DEF d
  <1>6. v \in FlowState /\ v.mode = "CRUISE" /\ v.full_bw_reached = d.full_bw_reached
    BY <1>5, ResetProbeBwMode
  <1>7. d.mode = "DRAIN" => ModeMatches(v)
    BY <1>4, <1>5, <1>6, Zenon DEF ModeMatches
  <1> HIDE DEF v
  <1> QED
    BY <1>5, <1>6, <1>7, Zenon DEF leocc_check_drain, d, v

\* The end of PROBE_RTT, by an ACK or by cwnd_event, resets mode and flag together.
LEMMA CheckProbeRttDone ==
    ASSUME NEW s \in FlowState, NEW r \in CycleRand, ModeMatches(s)
    PROVE  LET t == leocc_check_probe_rtt_done(s, r) IN t \in FlowState /\ ModeMatches(t)
  <1> DEFINE w == [s EXCEPT !.snd_cwnd = Max2(@, s.prior_cwnd)]
             t == leocc_reset_mode(w, r)
             v == [t EXCEPT !.bw = t.reconfiguration_max_bw]
  <1>1. s.snd_cwnd \in Nat /\ s.prior_cwnd \in Nat
    BY ZenonT(40) DEF FlowState
  <1>2. Max2(s.snd_cwnd, s.prior_cwnd) \in Nat
    BY <1>1, SMT DEF Max2
  <1>3. w \in FlowState
    BY <1>2, ZenonT(40) DEF FlowState
  <1> HIDE DEF w
  <1>4. t \in FlowState /\ ModeMatches(t)
    BY <1>3, ResetMode
  <1> HIDE DEF t
  <1>5. v \in FlowState
    BY <1>4, ZenonT(40) DEF FlowState
  <1>6. SameMode(t, v)
    BY <1>4, SMT DEF FlowState, SameMode
  <1> HIDE DEF v
  <1>7. ModeMatches(v)
    BY <1>4, <1>6, Zenon DEF ModeMatches, SameMode
  <1> QED
    BY <1>4, <1>5, <1>7, Zenon DEF leocc_check_probe_rtt_done, w, t, v

\* The u32 conversion of rtt_us, -1 included, is an RTT the flow can hold.
LEMMA RttRange ==
    ASSUME NEW rs \in RateSample
    PROVE  /\ rs.rtt >= 0 => rs.rtt \in 0 .. RttMod - 1
           /\ rs.rtt % RttMod \in 0 .. RttMod - 1
  <1>1. RttMod \in Nat \ {0, 1} /\ Rtts \subseteq 0 .. RttMod - 2
    BY LeoCCAssumption
  <1>2. rs.rtt \in Rtts \cup {-1}
    BY SMT DEF RateSample
  <1> DEFINE x == rs.rtt
  <1>3. x \in Rtts \/ x = -1
    BY <1>2
  <1> HIDE DEF x
  <1>6. RttMod \in Int /\ RttMod >= 2
    BY <1>1, SMT
  <1>4. x \in Int /\ x <= RttMod - 2
    <2>1. CASE x \in Rtts
      <3>1. x \in 0 .. RttMod - 2
        BY <1>1, <2>1, Zenon
      <3> QED
        BY <1>6, <3>1, SMT
    <2>2. CASE x = -1
      BY <1>6, <2>2, SMT
    <2> QED
      BY <1>3, <2>1, <2>2
  <1>5. x % RttMod \in 0 .. RttMod - 1 /\ (x >= 0 => x \in 0 .. RttMod - 1)
    BY <1>6, <1>4, SMT
  <1> QED
    BY <1>5 DEF x

\* Taking a smaller or a fresher minimum RTT does not touch the mode.
LEMMA TakeMinRttType ==
    ASSUME NEW s \in FlowState, NEW rs \in RateSample, NEW expired \in BOOLEAN, now \in Jiffies
    PROVE  TakeMinRtt(s, rs, expired) \in FlowState /\ SameMode(s, TakeMinRtt(s, rs, expired))
  <1> DEFINE t == [s EXCEPT !.min_rtt_us = rs.rtt, !.min_rtt_stamp = now]
  <1>1. rs.rtt >= 0 => rs.rtt \in 0 .. RttMod - 1
    BY RttRange
  <1>2. rs.rtt >= 0 => t \in FlowState
    BY <1>1, ZenonT(40) DEF FlowState
  <1>3. SameMode(s, t)
    BY SMT DEF FlowState, SameMode
  <1> HIDE DEF t
  <1> QED
    BY <1>2, <1>3, Zenon DEF TakeMinRtt, SameMode, t

\* Only CRUISE, hence a flow whose pipe is full, enters PROBE_RTT.
LEMMA EnterProbeRttMode ==
    ASSUME NEW s \in FlowState, NEW expired \in BOOLEAN, ModeMatches(s), now \in Jiffies
    PROVE  LET t == EnterProbeRtt(s, expired) IN t \in FlowState /\ ModeMatches(t)
  <1> DEFINE b == BeginEpisode(s)
             p == [b EXCEPT !.mode = "PROBE_RTT", !.probe_rtt_done_stamp = 0, !.held = 0]
             v == leocc_save_cwnd(p)
  <1>1. b \in FlowState /\ SameMode(s, b)
    BY Episode
  <1> HIDE DEF b
  <1>2. 0 \in Jiffies /\ 0 \in 0 .. ProbeRttTime + 1
    BY LeoCCAssumption, SMT DEF Jiffies
  <1>3. p \in FlowState
    BY <1>1, <1>2, ZenonT(40) DEF FlowState, Modes
  <1>4. p.mode = "PROBE_RTT" /\ p.full_bw_reached = b.full_bw_reached
    BY <1>1, SMT DEF FlowState
  <1> HIDE DEF p
  <1>5. v \in FlowState /\ SameMode(p, v)
    BY <1>3, SaveCwnd
  <1> HIDE DEF v
  <1>6. "STARTUP" # "CRUISE" /\ "STARTUP" # "PROBE_RTT"
    OBVIOUS
  <1>7. s.mode = "CRUISE" => ModeMatches(v)
    BY <1>1, <1>4, <1>5, <1>6, Zenon DEF SameMode, ModeMatches
  <1> QED
    BY <1>5, <1>7, Zenon DEF EnterProbeRtt, b, p, v

\* Each branch of PROBE_RTT stays or ends by leocc_check_probe_rtt_done.
LEMMA InProbeRttMode ==
    ASSUME NEW s \in FlowState, NEW rs \in RateSample, NEW r \in CycleRand,
           ModeMatches(s), now \in Jiffies
    PROVE  LET t == InProbeRtt(s, rs, r) IN t \in FlowState /\ ModeMatches(t)
  <1> DEFINE done == s.probe_rtt_round_done \/ s.round_start
             a == [s EXCEPT !.probe_rtt_done_stamp = (now + ProbeRttTime) % JiffyMod,
                            !.probe_rtt_round_done = FALSE, !.held = 0,
                            !.round_held = FALSE]
             t == [s EXCEPT !.probe_rtt_round_done = done]
             m == [t EXCEPT !.min_rtt_us = rs.rtt % RttMod, !.min_rtt_stamp = now]
             c == leocc_check_probe_rtt_done(
                      IF After(now, s.probe_rtt_done_stamp) THEN m ELSE t, r)
  <1>1. (now + ProbeRttTime) % JiffyMod \in Jiffies /\ 0 \in 0 .. ProbeRttTime + 1
    BY LeoCCAssumption, SMT DEF Jiffies
  <1>2. done \in BOOLEAN
    BY ZenonT(40) DEF FlowState
  <1>3. rs.rtt % RttMod \in 0 .. RttMod - 1
    BY RttRange
  <1> HIDE DEF done
  <1>4. a \in FlowState
    BY <1>1, ZenonT(40) DEF FlowState
  <1>5. t \in FlowState
    BY <1>2, ZenonT(40) DEF FlowState
  <1>6. SameMode(s, a) /\ SameMode(s, t)
    BY SMT DEF FlowState, SameMode
  <1> HIDE DEF a, t
  <1>7. m \in FlowState
    BY <1>3, <1>5, ZenonT(40) DEF FlowState
  <1>8. SameMode(t, m)
    BY <1>5, SMT DEF FlowState, SameMode
  <1> HIDE DEF m
  <1>9. ModeMatches(a) /\ ModeMatches(t) /\ ModeMatches(m)
    BY <1>6, <1>8, Zenon DEF ModeMatches, SameMode
  <1>10. c \in FlowState /\ ModeMatches(c)
    BY <1>5, <1>7, <1>9, CheckProbeRttDone
  <1> HIDE DEF c
  <1>11. InProbeRtt(s, rs, r) \in {s, a, c}
    BY Zenon DEF InProbeRtt, done, a, t, m, c
  <1> QED
    BY <1>4, <1>9, <1>10, <1>11, Zenon

\* leocc_update_min_rtt, its three parts composed.
LEMMA UpdateMinRtt ==
    ASSUME NEW s \in FlowState, NEW rs \in RateSample, NEW r \in CycleRand,
           ModeMatches(s), now \in Jiffies
    PROVE  LET t == leocc_update_min_rtt(s, rs, r) IN t \in FlowState /\ ModeMatches(t)
  <1> DEFINE expired == FilterExpired(s)
             a == TakeMinRtt(s, rs, expired)
             b == EnterProbeRtt(a, expired)
             t == InProbeRtt(b, rs, r)
             i == [t EXCEPT !.idle_restart = FALSE]
  <1>1. expired \in BOOLEAN
    BY SMT DEF FilterExpired, After
  <1>2. a \in FlowState /\ SameMode(s, a)
    BY <1>1, TakeMinRttType
  <1>3. ModeMatches(a)
    BY <1>2, Zenon DEF ModeMatches, SameMode
  <1> HIDE DEF a, expired
  <1>4. b \in FlowState /\ ModeMatches(b)
    BY <1>1, <1>2, <1>3, EnterProbeRttMode
  <1> HIDE DEF b
  <1>5. t \in FlowState /\ ModeMatches(t)
    BY <1>4, InProbeRttMode
  <1> HIDE DEF t
  <1>6. i \in FlowState
    BY <1>5, ZenonT(40) DEF FlowState
  <1>7. SameMode(t, i)
    BY <1>5, SMT DEF FlowState, SameMode
  <1> HIDE DEF i
  <1> QED
    BY <1>5, <1>6, <1>7, Zenon
    DEF leocc_update_min_rtt, ModeMatches, SameMode, expired, a, b, t, i

\* leocc_update_gains picks a gain of the table and leaves the mode alone.
LEMMA UpdateGains ==
    ASSUME NEW s \in FlowState, leocc_pacing_gain_0 \in {ProbeUp, GentleUp}
    PROVE  leocc_update_gains(s) \in FlowState /\ SameMode(s, leocc_update_gains(s))
  <1> DEFINE g == CASE s.mode = "STARTUP" -> HighGain
                    [] s.mode = "DRAIN" -> DrainGain
                    [] s.mode = "PROBE_RTT" -> Unit
                    [] s.mode = "CRUISE" /\ s.cycle_idx = 0 -> leocc_pacing_gain_0
                    [] s.mode = "CRUISE" /\ s.cycle_idx = 1 -> ProbeDown
                    [] s.mode = "CRUISE" /\ s.cycle_idx \notin {0, 1} -> Unit
             G == {0, HighGain, DrainGain, ProbeUp, GentleUp, ProbeDown, Unit}
  <1>1. s.mode \in Modes
    BY ZenonT(40) DEF FlowState
  <1>2. g \in G
    BY <1>1, Zenon DEF Modes
  <1> HIDE DEF g
  <1>3. [s EXCEPT !.pacing_gain = g] \in FlowState
    BY <1>2, ZenonT(40) DEF FlowState
  <1>4. SameMode(s, [s EXCEPT !.pacing_gain = g])
    BY SMT DEF FlowState, SameMode
  <1> QED
    BY <1>3, <1>4, Zenon DEF leocc_update_gains, g

\* The whole of leocc_update_model: the flag raised by leocc_check_full_bw_reached
\* is followed by leocc_check_drain on the same ACK, so that they match at its end.
LEMMA UpdateModel ==
    ASSUME NEW s \in FlowState, NEW rs \in RateSample, NEW r \in CycleRand,
           NEW max \in Bandwidths, ModeMatches(s), now \in Jiffies,
           leocc_pacing_gain_0 \in {ProbeUp, GentleUp}
    PROVE  LET t == leocc_update_model(s, rs, max, r) IN t \in FlowState /\ ModeMatches(t)
  <1> DEFINE a == leocc_update_bw(s, rs, max)
             b == leocc_update_cycle_phase(a, rs)
             c == leocc_check_full_bw_reached(b, rs)
             d == leocc_check_drain(c, rs, r)
             e == leocc_update_min_rtt(d, rs, r)
             t == leocc_update_gains(e)
  <1>1. a \in FlowState /\ SameMode(s, a)
    BY UpdateBw
  <1> HIDE DEF a
  <1>2. b \in FlowState /\ SameMode(a, b)
    BY <1>1, UpdateCyclePhase
  <1> HIDE DEF b
  <1>3. c \in FlowState /\ c.mode = b.mode /\ (b.full_bw_reached => c.full_bw_reached)
    BY <1>2, CheckFullBw
  <1> HIDE DEF c
  <1>4. c.mode # "STARTUP" => c.full_bw_reached
    BY <1>1, <1>2, <1>3, Zenon DEF ModeMatches, SameMode
  <1>5. d \in FlowState /\ ModeMatches(d)
    BY <1>3, <1>4, CheckDrain
  <1> HIDE DEF d
  <1>6. e \in FlowState /\ ModeMatches(e)
    BY <1>5, UpdateMinRtt
  <1> HIDE DEF e
  <1>7. t \in FlowState /\ SameMode(e, t)
    BY <1>6, UpdateGains
  <1> HIDE DEF t
  <1> QED
    BY <1>6, <1>7, Zenon DEF leocc_update_model, ModeMatches, SameMode, a, b, c, d, e, t

-----------------------------------------------------------------------------

\* Any natural number is a window; setting it does not touch the mode.
LEMMA Window ==
    ASSUME NEW s \in FlowState, NEW c \in Nat
    PROVE  [s EXCEPT !.snd_cwnd = c] \in FlowState /\ SameMode(s, [s EXCEPT !.snd_cwnd = c])
  <1>1. [s EXCEPT !.snd_cwnd = c] \in FlowState
    BY ZenonT(40) DEF FlowState
  <1>2. SameMode(s, [s EXCEPT !.snd_cwnd = c])
    BY SMT DEF FlowState, SameMode
  <1> QED
    BY <1>1, <1>2

\* The counts of a rate sample are natural numbers.
LEMMA SampleCounts ==
    ASSUME NEW rs \in RateSample
    PROVE  /\ rs.losses \in Nat /\ rs.acked \in Nat /\ rs.inflight \in Nat
           /\ rs.target \in Nat /\ rs.probe_cwnd \in Nat
  BY Zenon DEF RateSample

\* Recovery's changes of the window keep it a natural number.
LEMMA RecoverOrRestore ==
    ASSUME NEW s \in FlowState, NEW rs \in RateSample
    PROVE  LET t == leocc_set_cwnd_to_recover_or_restore(s, rs)
           IN  t \in FlowState /\ SameMode(s, t)
  <1> DEFINE lost == IF rs.losses > 0 THEN Max2(s.snd_cwnd - rs.losses, 1) ELSE s.snd_cwnd
             keep == rs.inflight + rs.acked
             restored == Max2(lost, s.prior_cwnd)
             t == [s EXCEPT !.prev_ca_state = s.ca_state]
             a == [t EXCEPT !.packet_conservation = TRUE, !.snd_cwnd = keep]
             b == [t EXCEPT !.packet_conservation = FALSE, !.snd_cwnd = restored]
             c == [t EXCEPT !.snd_cwnd = lost]
             u == CASE s.ca_state = "Recovery" /\ s.prev_ca_state # "Recovery" -> a
                    [] InRecovery(s.prev_ca_state) /\ ~InRecovery(s.ca_state) -> b
                    [] OTHER -> c
             v == [u EXCEPT !.snd_cwnd = Max2(@, keep)]
  <1>1. /\ s.snd_cwnd \in Nat /\ s.prior_cwnd \in Nat
        /\ s.ca_state \in CaStates
    BY ZenonT(40) DEF FlowState
  <1>2. lost \in Nat /\ keep \in Nat /\ restored \in Nat
    BY <1>1, SampleCounts, SMT DEF Max2
  <1> HIDE DEF lost, keep, restored
  <1>3. t \in FlowState
    BY <1>1, ZenonT(40) DEF FlowState
  <1>4. SameMode(s, t)
    BY SMT DEF FlowState, SameMode
  <1> HIDE DEF t
  <1>5. a \in FlowState /\ b \in FlowState /\ c \in FlowState
    <2>1. a \in FlowState
      BY <1>2, <1>3, ZenonT(40) DEF FlowState
    <2>2. b \in FlowState
      BY <1>2, <1>3, ZenonT(40) DEF FlowState
    <2>3. c \in FlowState
      BY <1>2, <1>3, ZenonT(40) DEF FlowState
    <2> QED
      BY <2>1, <2>2, <2>3
  <1>6. SameMode(t, a) /\ SameMode(t, b) /\ SameMode(t, c)
    BY <1>3, SMT DEF FlowState, SameMode
  <1> HIDE DEF a, b, c
  <1>7. u = a \/ u = b \/ u = c
    BY Zenon DEF InRecovery
  <1> HIDE DEF u
  <1>8. u \in FlowState /\ SameMode(s, u)
    BY <1>4, <1>5, <1>6, <1>7, Zenon DEF SameMode
  <1>9. u.snd_cwnd \in Nat
    BY <1>8, ZenonT(40) DEF FlowState
  <1>10. Max2(u.snd_cwnd, keep) \in Nat
    BY <1>2, <1>9, SMT DEF Max2
  <1>11. v \in FlowState /\ SameMode(u, v)
    BY <1>8, <1>10, Window
  <1> HIDE DEF v
  <1>12. leocc_set_cwnd_to_recover_or_restore(s, rs) = IF u.packet_conservation THEN v ELSE u
    BY Zenon DEF leocc_set_cwnd_to_recover_or_restore, lost, keep, restored, t, a, b, c, u, v
  <1> QED
    BY <1>8, <1>11, <1>12, Zenon DEF SameMode

\* leocc_set_cwnd leaves a well-formed flow in its mode.
LEMMA SetCwnd ==
    ASSUME NEW s \in FlowState, NEW rs \in RateSample
    PROVE  LET t == leocc_set_cwnd(s, rs) IN t \in FlowState /\ SameMode(s, t)
  <1> DEFINE t == leocc_set_cwnd_to_recover_or_restore(s, rs)
             g == GrowToTarget(t, rs)
             w == IF rs.acked = 0 THEN s ELSE IF t.packet_conservation THEN t ELSE g
  <1>1. t \in FlowState /\ SameMode(s, t)
    BY RecoverOrRestore
  <1> HIDE DEF t
  <1>2. CwndMinTarget \in Nat /\ CwndClamp \in Nat
    BY LeoCCAssumption
  <1>3. t.snd_cwnd \in Nat /\ t.full_bw_reached \in BOOLEAN
    BY <1>1, ZenonT(40) DEF FlowState
  <1> DEFINE c == CASE t.full_bw_reached -> Min2(t.snd_cwnd + rs.acked, rs.target)
                    [] ~t.full_bw_reached /\ (t.snd_cwnd < rs.target \/ rs.few_delivered) -> t.snd_cwnd + rs.acked
                    [] OTHER -> t.snd_cwnd
  <1>4. Max2(c, CwndMinTarget) \in Nat
    <2>1. Min2(t.snd_cwnd + rs.acked, rs.target) \in Nat /\ t.snd_cwnd + rs.acked \in Nat
      BY <1>3, SampleCounts, SMT DEF Min2
    <2>2. c \in Nat
      BY <1>3, <2>1, Zenon
    <2> HIDE DEF c
    <2> QED
      BY <1>2, <2>2, SMT DEF Max2
  <1>5. g = [t EXCEPT !.snd_cwnd = Max2(c, CwndMinTarget)]
    BY Zenon DEF GrowToTarget
  <1> HIDE DEF c
  <1>6. g \in FlowState /\ SameMode(t, g)
    BY <1>1, <1>4, <1>5, Window
  <1> HIDE DEF g
  <1>7. w \in FlowState /\ SameMode(s, w)
    BY <1>1, <1>6, Zenon DEF SameMode
  <1> HIDE DEF w
  <1> DEFINE m == Min2(w.snd_cwnd, CwndClamp)
             k == IF w.mode = "PROBE_RTT" THEN Min2(m, rs.probe_cwnd) ELSE m
  <1>8. w.snd_cwnd \in Nat
    BY <1>7, ZenonT(40) DEF FlowState
  <1>9. k \in Nat
    BY <1>2, <1>8, SampleCounts, SMT DEF Min2
  <1>10. CapCwnd(w, rs) = [w EXCEPT !.snd_cwnd = k]
    BY Zenon DEF CapCwnd
  <1> HIDE DEF k, m
  <1>11. CapCwnd(w, rs) \in FlowState /\ SameMode(w, CapCwnd(w, rs))
    BY <1>7, <1>9, <1>10, Window
  <1> QED
    BY <1>7, <1>11, Zenon DEF leocc_set_cwnd, SameMode, t, g, w

-----------------------------------------------------------------------------

\* Inductive as it stands: inside a callback the flag may run ahead of the mode,
\* and CheckDrain closes the gap.
Inv == TypeOK /\ StartupIffPipeNotFull

\* What the invariant says of one flow.
LEMMA FlowOf ==
    ASSUME Inv, NEW f \in Flows
    PROVE  flow[f] \in FlowState /\ ModeMatches(flow[f]) /\ now \in Jiffies
  BY Zenon DEF Inv, TypeOK, StartupIffPipeNotFull, ModeMatches

\* Replacing one flow by a flow that satisfies the invariant preserves it.
LEMMA NewFlow ==
    ASSUME Inv, NEW f \in Flows, NEW s \in FlowState, ModeMatches(s),
           flow' = [flow EXCEPT ![f] = SettleEpisode(s)]
    PROVE  flow' \in [Flows -> FlowState] /\ StartupIffPipeNotFull'
  <1> DEFINE t == SettleEpisode(s)
  <1>1. t \in FlowState /\ ModeMatches(t)
    BY Episode, Zenon DEF ModeMatches, SameMode
  <1> HIDE DEF t
  <1>2. flow \in [Flows -> FlowState]
    BY DEF Inv, TypeOK
  <1>3. flow' = [flow EXCEPT ![f] = t]
    BY DEF t
  <1>4. flow' \in [Flows -> FlowState]
    BY <1>1, <1>2, <1>3, Zenon
  <1>5. ASSUME NEW g \in Flows PROVE ModeMatches(flow'[g])
    <2>1. flow'[g] = IF g = f THEN t ELSE flow[g]
      BY <1>2, <1>3, Zenon
    <2>2. ModeMatches(flow[g])
      BY FlowOf
    <2> QED
      BY <1>1, <2>1, <2>2, Zenon
  <1> QED
    BY <1>4, <1>5, Zenon DEF StartupIffPipeNotFull, ModeMatches

\* The same, for the actions that change nothing but one flow.
LEMMA OnlyFlowInv ==
    ASSUME Inv, NEW f \in Flows, NEW s \in FlowState, ModeMatches(s), OnlyFlow(f, s)
    PROVE  Inv'
  <1>1. flow' \in [Flows -> FlowState] /\ StartupIffPipeNotFull'
    BY NewFlow, Zenon DEF OnlyFlow
  <1>2. UNCHANGED <<now, leocc_pacing_gain_0, global_reconfiguration_trigger, min_rtt_fluctuation>>
    BY DEF OnlyFlow
  <1> QED
    BY <1>1, <1>2, Zenon DEF Inv, TypeOK

\* leocc_main preserves the invariant, whatever the ACK reports.
LEMMA AckInv ==
    ASSUME Inv, NEW f \in Flows, Ack(f)
    PROVE  Inv'
  <1>1. PICK rs \in RateSamples : leocc_main(f, rs)
    BY DEF Ack
  <1>2. rs \in RateSample
    BY LeoCCAssumption, Zenon
  <1> DEFINE x == flow[f].local_trigger \/ global_reconfiguration_trigger
             s == [flow[f] EXCEPT !.local_trigger = x]
  <1>3. flow[f] \in FlowState /\ ModeMatches(flow[f]) /\ now \in Jiffies
    BY FlowOf
  <1>4. leocc_pacing_gain_0 \in {ProbeUp, GentleUp} /\ x \in BOOLEAN
    BY <1>3, ZenonT(40) DEF Inv, TypeOK, FlowState
  <1> HIDE DEF x
  <1>5. s \in FlowState
    BY <1>3, <1>4, ZenonT(40) DEF FlowState
  <1>6. SameMode(flow[f], s)
    BY <1>3, SMT DEF FlowState, SameMode
  <1>7. ModeMatches(s)
    BY <1>3, <1>6, Zenon DEF SameMode, ModeMatches
  <1>8. s = [flow[f] EXCEPT !.local_trigger = @ \/ global_reconfiguration_trigger]
    BY Zenon DEF x
  <1> HIDE DEF s
  <1>9. PICK max \in RunningMax(s.bw, rs.bw), r \in CycleRand,
             hat \in KalmanRtt(s.rtt_hat_post, rs.rtt) :
          LET t == leocc_update_model(s, rs, max, r)
              u == [t EXCEPT !.rtt_hat_post = hat]
          IN  /\ leocc_pacing_gain_0' = IF Fluctuates(u) THEN GentleUp ELSE ProbeUp
              /\ flow' = [flow EXCEPT ![f] = SettleEpisode(leocc_set_cwnd(u, rs))]
              /\ UNCHANGED <<now, global_reconfiguration_trigger, min_rtt_fluctuation>>
    BY <1>1, <1>8, Zenon DEF leocc_main
  <1> DEFINE t == leocc_update_model(s, rs, max, r)
             u == [t EXCEPT !.rtt_hat_post = hat]
             w == leocc_set_cwnd(u, rs)
  <1>10. max \in Bandwidths
    <2>1. rs.bw \in Bandwidths
      BY <1>2, Zenon DEF RateSample
    <2> QED
      BY <1>9, <2>1, Zenon DEF RunningMax
  <1>11. hat \in Rtts \cup {0}
    <2>1. s.rtt_hat_post \in Rtts \cup {0}
      BY <1>5, ZenonT(40) DEF FlowState
    <2> QED
      BY <1>9, <2>1, Zenon DEF KalmanRtt
  <1>12. t \in FlowState /\ ModeMatches(t)
    BY <1>2, <1>3, <1>4, <1>5, <1>7, <1>9, <1>10, UpdateModel
  <1>13. leocc_pacing_gain_0' \in {ProbeUp, GentleUp}
    BY <1>9, Zenon
  <1>14. flow' = [flow EXCEPT ![f] = SettleEpisode(w)]
    BY <1>9
  <1>15. UNCHANGED <<now, global_reconfiguration_trigger, min_rtt_fluctuation>>
    BY <1>9
  <1> HIDE DEF t
  <1>16. u \in FlowState
    BY <1>11, <1>12, ZenonT(40) DEF FlowState
  <1>17. SameMode(t, u)
    BY <1>12, SMT DEF FlowState, SameMode
  <1> HIDE DEF u
  <1>18. w \in FlowState /\ SameMode(u, w)
    BY <1>2, <1>16, SetCwnd
  <1> HIDE DEF w
  <1>19. ModeMatches(w)
    BY <1>12, <1>17, <1>18, Zenon DEF SameMode, ModeMatches
  <1>20. flow' \in [Flows -> FlowState] /\ StartupIffPipeNotFull'
    BY <1>14, <1>18, <1>19, NewFlow
  <1> QED
    BY <1>13, <1>15, <1>20, Zenon DEF Inv, TypeOK

\* leocc_cwnd_event may end PROBE_RTT outside an ACK, and preserves it too.
LEMMA CwndEventInv ==
    ASSUME Inv, NEW f \in Flows, leocc_cwnd_event(f)
    PROVE  Inv'
  <1> DEFINE s == [flow[f] EXCEPT !.idle_restart = TRUE]
  <1>1. flow[f] \in FlowState /\ ModeMatches(flow[f])
    BY FlowOf
  <1>2. s \in FlowState
    BY <1>1, ZenonT(40) DEF FlowState
  <1>3. SameMode(flow[f], s)
    BY <1>1, SMT DEF FlowState, SameMode
  <1>4. ModeMatches(s)
    BY <1>1, <1>3, Zenon DEF SameMode, ModeMatches
  <1>5. PICK r \in CycleRand :
          OnlyFlow(f, IF s.mode = "PROBE_RTT" THEN leocc_check_probe_rtt_done(s, r) ELSE s)
    BY Zenon DEF leocc_cwnd_event
  <1> HIDE DEF s
  <1> DEFINE t == leocc_check_probe_rtt_done(s, r)
  <1>6. t \in FlowState /\ ModeMatches(t)
    BY <1>2, <1>4, CheckProbeRttDone
  <1>7. OnlyFlow(f, s) \/ OnlyFlow(f, t)
    BY <1>5, Zenon
  <1> HIDE DEF t
  <1> QED
    BY <1>2, <1>4, <1>6, <1>7, OnlyFlowInv, Zenon

\* What TCP does in a loss episode, from the outside.
LossAction(f) ==
    EnterCwr(f) \/ LeaveCwr(f) \/ EnterRecovery(f) \/ EnterLoss(f) \/ LeaveRecovery(f)

\* It moves the window, the saved window and the state, resets full_bw, and leaves the
\* mode machine and what it has measured alone.
LossStep(s, t) ==
    /\ SameMode(s, t)
    /\ t.cycle_idx = s.cycle_idx
    /\ t.probe_rtt_done_stamp = s.probe_rtt_done_stamp /\ t.held = s.held
    /\ t.probe_rtt_round_done = s.probe_rtt_round_done /\ t.round_held = s.round_held
    /\ t.latest_bw = s.latest_bw /\ t.measured = s.measured
    /\ t.reconfiguration_max_bw = s.reconfiguration_max_bw

\* Such steps compose.
LEMMA LossStepsCompose ==
    ASSUME NEW s, NEW t, NEW u
    PROVE  LossStep(s, s) /\ (LossStep(s, t) /\ LossStep(t, u) => LossStep(s, u))
  BY Zenon DEF LossStep, SameMode

\* The callbacks of a loss episode, and what the stack does around them, are such steps.
LEMMA LossSteps ==
    ASSUME NEW s \in FlowState, NEW c \in Nat
    PROVE  LET b == BeginEpisode(s)
               v == leocc_save_cwnd(b)
           IN  /\ b \in FlowState /\ LossStep(s, b)
               /\ v \in FlowState /\ LossStep(s, v)
               /\ leocc_undo_cwnd(s) \in FlowState /\ LossStep(s, leocc_undo_cwnd(s))
               /\ \A a \in CaStates :
                     LET t == [s EXCEPT !.ca_state = a]
                     IN  t \in FlowState /\ LossStep(s, t)
               /\ LET t == leocc_set_state_loss([s EXCEPT !.ca_state = "Loss", !.snd_cwnd = c])
                  IN  t \in FlowState /\ LossStep(s, t)
  <1> DEFINE b == BeginEpisode(s)
             v == leocc_save_cwnd(b)
             x == [s EXCEPT !.ca_state = "Loss", !.snd_cwnd = c]
             y == leocc_set_state_loss(x)
  <1>1. 0 \in Bandwidths /\ 0 \in 0 .. 3 /\ "Loss" \in CaStates
    BY LeoCCAssumption, SMT DEF CaStates
  <1>2. b \in FlowState /\ LossStep(s, b)
    <2>1. LossStep(s, b)
      BY SMT DEF BeginEpisode, FlowState, LossStep, SameMode
    <2> QED
      BY <2>1, Episode
  <1>3. v \in FlowState /\ LossStep(s, v)
    <2> HIDE DEF b
    <2>1. v \in FlowState
      BY <1>2, SaveCwnd
    <2>2. LossStep(b, v)
      BY <1>2, SMT DEF leocc_save_cwnd, FlowState, LossStep, SameMode
    <2> QED
      BY <1>2, <2>1, <2>2, LossStepsCompose
  <1>4. leocc_undo_cwnd(s) \in FlowState
    BY <1>1, ZenonT(40) DEF leocc_undo_cwnd, FlowState
  <1>5. LossStep(s, leocc_undo_cwnd(s))
    BY SMT DEF leocc_undo_cwnd, FlowState, LossStep, SameMode
  <1>6. ASSUME NEW a \in CaStates
        PROVE  [s EXCEPT !.ca_state = a] \in FlowState /\ LossStep(s, [s EXCEPT !.ca_state = a])
    <2>1. [s EXCEPT !.ca_state = a] \in FlowState
      BY ZenonT(40) DEF FlowState
    <2>2. LossStep(s, [s EXCEPT !.ca_state = a])
      BY SMT DEF FlowState, LossStep, SameMode
    <2> QED
      BY <2>1, <2>2
  <1>7. x \in FlowState /\ LossStep(s, x)
    <2>1. x \in FlowState
      BY <1>1, ZenonT(40) DEF FlowState
    <2>2. LossStep(s, x)
      BY SMT DEF FlowState, LossStep, SameMode
    <2> QED
      BY <2>1, <2>2
  <1>8. y \in FlowState /\ LossStep(s, y)
    <2> HIDE DEF x
    <2>1. y \in FlowState
      BY <1>1, <1>7, ZenonT(40) DEF leocc_set_state_loss, FlowState
    <2>2. LossStep(x, y)
      BY <1>7, SMT DEF leocc_set_state_loss, FlowState, LossStep, SameMode
    <2> QED
      BY <1>7, <2>1, <2>2, LossStepsCompose
  <1> QED
    BY <1>2, <1>3, <1>4, <1>5, <1>6, <1>8

\* An action of a loss episode makes one such step of its flow.
LEMMA LossActions ==
    ASSUME Inv, NEW f \in Flows, LossAction(f)
    PROVE  \E t \in FlowState : OnlyFlow(f, t) /\ LossStep(flow[f], t)
  <1> DEFINE s == flow[f]
             b == BeginEpisode(s)
             v == leocc_save_cwnd(b)
             w == leocc_undo_cwnd(s)
             At(q, a) == [q EXCEPT !.ca_state = a]
  <1>1. s \in FlowState /\ 0 \in Nat
    BY FlowOf
  <1>2. /\ v \in FlowState /\ LossStep(s, v) /\ b \in FlowState /\ LossStep(s, b)
        /\ w \in FlowState /\ LossStep(s, w) /\ LossStep(s, s)
    BY <1>1, LossSteps, LossStepsCompose
  <1>3. ASSUME NEW q \in FlowState, LossStep(s, q), NEW a \in CaStates, OnlyFlow(f, At(q, a))
        PROVE  \E t \in FlowState : OnlyFlow(f, t) /\ LossStep(s, t)
    <2>1. At(q, a) \in FlowState /\ LossStep(q, At(q, a))
      BY <1>1, <1>3, LossSteps
    <2> HIDE DEF s, At
    <2>2. LossStep(s, At(q, a))
      BY <1>3, <2>1, LossStepsCompose
    <2> QED
      BY <1>3, <2>1, <2>2
  <1>4. "Open" \in CaStates /\ "CWR" \in CaStates /\ "Recovery" \in CaStates
    BY DEF CaStates
  <1>5. CASE EnterCwr(f)
    <2>1. OnlyFlow(f, At(v, "CWR"))
      BY <1>5 DEF EnterCwr, leocc_ssthresh
    <2> HIDE DEF s, b, v, w, At
    <2> QED
      BY <1>2, <1>3, <1>4, <2>1 DEF s
  <1>6. CASE LeaveCwr(f)
    <2>1. OnlyFlow(f, At(s, "Open"))
      BY <1>6 DEF LeaveCwr
    <2> HIDE DEF s, b, v, w, At
    <2> QED
      BY <1>1, <1>2, <1>3, <1>4, <2>1 DEF s
  <1>7. CASE EnterRecovery(f)
    <2>1. OnlyFlow(f, At(v, "Recovery")) \/ OnlyFlow(f, At(b, "Recovery"))
      BY <1>7, Zenon DEF EnterRecovery, leocc_ssthresh
    <2> HIDE DEF s, b, v, w, At
    <2> QED
      BY <1>2, <1>3, <1>4, <2>1 DEF s
  <1>8. CASE EnterLoss(f)
    <2>1. PICK again \in BOOLEAN, c \in 1 .. CwndClamp :
            LET q == IF s.ca_state = "Open" \/ again THEN v ELSE b
            IN  OnlyFlow(f, leocc_set_state_loss([q EXCEPT !.ca_state = "Loss",
                                                           !.snd_cwnd = c]))
      BY <1>8, Zenon DEF EnterLoss, leocc_ssthresh
    <2> DEFINE q == IF s.ca_state = "Open" \/ again THEN v ELSE b
               t == leocc_set_state_loss([q EXCEPT !.ca_state = "Loss", !.snd_cwnd = c])
    <2>2. OnlyFlow(f, t)
      BY <2>1
    <2>3. c \in Nat
      BY LeoCCAssumption, SMT
    <2> HIDE DEF s, b, v, w, At
    <2>4. q \in FlowState /\ LossStep(s, q)
      BY <1>2
    <2> HIDE DEF q
    <2>5. t \in FlowState /\ LossStep(q, t)
      BY <2>3, <2>4, LossSteps
    <2> HIDE DEF t
    <2>6. LossStep(s, t)
      BY <2>4, <2>5, LossStepsCompose
    <2> QED
      BY <2>2, <2>5, <2>6 DEF s
  <1>9. CASE LeaveRecovery(f)
    <2>1. OnlyFlow(f, At(w, "Open")) \/ OnlyFlow(f, At(s, "Open"))
      BY <1>9, Zenon DEF LeaveRecovery
    <2> HIDE DEF s, b, v, w, At
    <2> QED
      BY <1>1, <1>2, <1>3, <1>4, <2>1 DEF s
  <1> QED
    BY <1>5, <1>6, <1>7, <1>8, <1>9 DEF LossAction

\* None of them touches mode and flag: undo, say, clears full_bw but not the flag.
LEMMA LossActionsInv ==
    ASSUME Inv, NEW f \in Flows, LossAction(f)
    PROVE  Inv'
  <1>1. PICK t \in FlowState : OnlyFlow(f, t) /\ LossStep(flow[f], t)
    BY LossActions
  <1>2. ModeMatches(t)
    BY <1>1, FlowOf, Zenon DEF LossStep, SameMode, ModeMatches
  <1> QED
    BY <1>1, <1>2, OnlyFlowInv

\* Time changes only the clock, which wraps, and the bounded history.
LEMMA TickInv ==
    ASSUME Inv, Tick
    PROVE  Inv'
  <1> DEFINE h(f) == IF flow[f].mode = "PROBE_RTT"
                     THEN Min2(flow[f].held + 1, ProbeRttTime + 1) ELSE 0
             n(f) == [flow[f] EXCEPT !.held = h(f)]
  <1>1. ASSUME NEW f \in Flows PROVE n(f) \in FlowState /\ ModeMatches(n(f))
    <2>1. flow[f] \in FlowState /\ ModeMatches(flow[f])
      BY FlowOf
    <2>2. h(f) \in 0 .. ProbeRttTime + 1
      <3>1. flow[f].held \in 0 .. ProbeRttTime + 1
        BY <2>1, ZenonT(40) DEF FlowState
      <3> QED
        BY <3>1, LeoCCAssumption, SMT DEF Min2
    <2> HIDE DEF h
    <2>3. n(f) \in FlowState
      BY <2>1, <2>2, ZenonT(40) DEF FlowState
    <2>4. SameMode(flow[f], n(f))
      BY <2>1, SMT DEF FlowState, SameMode
    <2> QED
      BY <2>1, <2>3, <2>4, Zenon DEF SameMode, ModeMatches
  <1>2. flow' = [f \in Flows |-> n(f)]
    BY DEF Tick
  <1> HIDE DEF n
  <1>3. flow' \in [Flows -> FlowState] /\ \A f \in Flows : ModeMatches(flow'[f])
    BY <1>1, <1>2, Zenon
  <1>4. now' \in Jiffies
    BY LeoCCAssumption, SMT DEF Inv, TypeOK, Tick, Jiffies
  <1>5. UNCHANGED <<leocc_pacing_gain_0, global_reconfiguration_trigger, min_rtt_fluctuation>>
    BY DEF Tick
  <1> QED
    BY <1>3, <1>4, <1>5, Zenon DEF Inv, TypeOK, StartupIffPipeNotFull, ModeMatches

\* The netlink handler touches no flow.
LEMMA NetlinkHandlerInv ==
    ASSUME Inv, NetlinkHandler
    PROVE  Inv'
  <1>1. /\ flow' = flow /\ now' = now /\ leocc_pacing_gain_0' = leocc_pacing_gain_0
        /\ global_reconfiguration_trigger' \in BOOLEAN /\ min_rtt_fluctuation' \in Fluctuations
    BY Zenon DEF NetlinkHandler
  <1> QED
    BY <1>1, Zenon DEF Inv, TypeOK, StartupIffPipeNotFull

\* leocc_init starts every flow in STARTUP with the flag down.
LEMMA InitInv == Init => Inv
  <1> SUFFICES ASSUME Init PROVE Inv
    OBVIOUS
  <1>1. /\ 0 \in Bandwidths /\ 0 \in 0 .. 3 /\ 0 \in 0 .. CycleLen - 1 /\ 0 \in Jiffies
        /\ 0 \in 0 .. ProbeRttTime + 1 /\ 0 \in Nat /\ CwndMinTarget \in Nat
        /\ 0 \in Fluctuations
    BY LeoCCAssumption, SMT DEF Jiffies
  <1>2. ASSUME NEW m \in Rtts \cup {NoRtt}
        PROVE  LET s == InitialFlow(m, CwndMinTarget) IN s \in FlowState /\ ModeMatches(s)
    <2>1. m \in 0 .. RttMod - 1
      <3>1. RttMod \in Int /\ RttMod >= 2
        BY LeoCCAssumption, SMT
      <3>2. CASE m \in Rtts
        <4>1. m \in 0 .. RttMod - 2
          BY <3>2, LeoCCAssumption, Zenon
        <4> QED
          BY <3>1, <4>1, SMT
      <3>3. CASE m = NoRtt
        BY <3>1, <3>3, SMT DEF NoRtt
      <3> QED
        BY <3>2, <3>3
    <2>2. InitialFlow(m, CwndMinTarget) \in FlowState
      BY <1>1, <2>1, ZenonT(40) DEF InitialFlow, FlowState, Modes, CaStates
    <2>3. ModeMatches(InitialFlow(m, CwndMinTarget))
      BY SMT DEF InitialFlow, ModeMatches
    <2> QED
      BY <2>2, <2>3
  <1>3. flow \in [Flows -> FlowState] /\ \A f \in Flows : ModeMatches(flow[f])
    <2>1. flow \in [Flows -> {InitialFlow(m, CwndMinTarget) : m \in Rtts \cup {NoRtt}}]
      BY DEF Init
    <2> QED
      BY <1>2, <2>1, Zenon
  <1>4. now \in Jiffies /\ leocc_pacing_gain_0 \in {ProbeUp, GentleUp}
        /\ global_reconfiguration_trigger \in BOOLEAN /\ min_rtt_fluctuation \in Fluctuations
    BY <1>1, Zenon DEF Init
  <1> QED
    BY <1>3, <1>4, Zenon DEF Inv, TypeOK, StartupIffPipeNotFull, ModeMatches

\* Every step preserves the invariant.
LEMMA NextInv == Inv /\ [Next]_vars => Inv'
  <1> SUFFICES ASSUME Inv, [Next]_vars PROVE Inv'
    OBVIOUS
  <1>1. ASSUME NEW f \in Flows, FlowNext(f) PROVE Inv'
    BY <1>1, AckInv, CwndEventInv, LossActionsInv, Zenon DEF FlowNext, LossAction
  <1>2. CASE UNCHANGED vars
    BY <1>2, Zenon DEF vars, Inv, TypeOK, StartupIffPipeNotFull
  <1> QED
    BY <1>1, <1>2, TickInv, NetlinkHandlerInv, Zenon DEF Next

\* Whatever the callbacks, losses and netlink messages, in whatever order and for
\* any number of flows, every field keeps its range: bitfields do not overflow.
THEOREM FlowsAreTyped == Spec => []TypeOK
  <1>1. Inv => TypeOK
    BY DEF Inv
  <1> QED
    BY InitInv, NextInv, <1>1, PTL DEF Spec

\* Between two callbacks, a flow is in STARTUP exactly while full_bw_reached is
\* down, for any number of flows and every width of jiffies and of RTTs.
THEOREM StartupIsPipeNotFull == Spec => []StartupIffPipeNotFull
  <1>1. Inv => StartupIffPipeNotFull
    BY DEF Inv
  <1> QED
    BY InitInv, NextInv, <1>1, PTL DEF Spec

-----------------------------------------------------------------------------
(* The congestion window                                                    *)

\* The inductive invariant of one flow.  prior_cwnd is overwritten, not maximised,
\* only while prev_ca_state is still Open; TCP may then already be in Recovery (the
\* last part: no ACK has reduced the window yet), but not in Loss (the first).
Covered(s) ==
    /\ s.ca_state = "Loss" => s.prev_ca_state = "Loss"
    /\ s.snd_cwnd <= CwndClamp /\ s.prior_cwnd <= CwndClamp
    /\ Owes(s) => s.owed <= s.prior_cwnd
    /\ s.ca_state = "Recovery" /\ ~InRecovery(s.prev_ca_state) /\ s.mode # "PROBE_RTT"
          => s.owed <= s.snd_cwnd

AllCovered == \A f \in Flows : Covered(flow[f])

\* What a step leaves alone when it is about neither the window nor the episode.
Keeps(s, t) ==
    /\ t.ca_state = s.ca_state /\ t.prev_ca_state = s.prev_ca_state
    /\ t.prior_cwnd = s.prior_cwnd /\ t.snd_cwnd = s.snd_cwnd /\ t.owed = s.owed
    /\ (t.mode = "PROBE_RTT") <=> (s.mode = "PROBE_RTT")

\* The windows of a flow are natural numbers.
LEMMA WindowTypes ==
    ASSUME NEW s \in FlowState
    PROVE  /\ s.snd_cwnd \in Nat /\ s.prior_cwnd \in Nat /\ s.owed \in Nat
           /\ s.ca_state \in CaStates /\ s.prev_ca_state \in CaStates
           /\ CwndClamp \in Nat /\ CwndMinTarget \in Nat /\ 1 <= CwndClamp
  <1>1. /\ CwndMinTarget \in Nat \ {0} /\ CwndClamp \in Nat /\ CwndClamp >= CwndMinTarget
    BY LeoCCAssumption
  <1>2. CwndMinTarget \in Nat /\ 1 <= CwndClamp
    BY <1>1, SMT
  <1> QED
    BY <1>1, <1>2, ZenonT(40) DEF FlowState

\* Such a step preserves the invariant.
LEMMA KeepsCovered ==
    ASSUME NEW s, NEW t, Keeps(s, t), Covered(s)
    PROVE  Covered(t)
  BY Zenon DEF Keeps, Covered, Owes, InEpisode

\* Such steps compose.
LEMMA KeepsTransitive ==
    ASSUME NEW s, NEW t, NEW u, Keeps(s, t), Keeps(t, u)
    PROVE  Keeps(s, u)
  BY Zenon DEF Keeps

-----------------------------------------------------------------------------

\* The bandwidth filter, the cycle, and the full-pipe estimate are not about the
\* window.
LEMMA FilterKeeps ==
    ASSUME NEW s \in FlowState, NEW rs \in RateSample, NEW max \in Bandwidths
    PROVE  /\ Keeps(s, leocc_update_bw(s, rs, max))
           /\ Keeps(s, leocc_advance_cycle_phase(s))
           /\ Keeps(s, leocc_update_cycle_phase(s, rs))
           /\ Keeps(s, leocc_check_full_bw_reached(s, rs))
           /\ Keeps(s, leocc_update_gains(s))
  <1>1. Keeps(s, leocc_update_bw(s, rs, max))
    BY SMT DEF leocc_update_bw, FlowState, Keeps
  <1>2. Keeps(s, leocc_advance_cycle_phase(s))
    BY SMT DEF leocc_advance_cycle_phase, FlowState, Keeps
  <1>3. Keeps(s, s)
    BY Zenon DEF Keeps
  <1>4. Keeps(s, leocc_update_cycle_phase(s, rs))
    BY <1>2, <1>3, Zenon DEF leocc_update_cycle_phase
  <1>5. Keeps(s, leocc_check_full_bw_reached(s, rs))
    BY SMT DEF leocc_check_full_bw_reached, FlowState, Keeps
  <1>6. Keeps(s, leocc_update_gains(s))
    <2> DEFINE G(g) == [s EXCEPT !.pacing_gain = g]
    <2>1. ASSUME NEW g PROVE Keeps(s, G(g))
      BY SMT DEF FlowState, Keeps
    <2> HIDE DEF G
    <2> QED
      BY <2>1, Zenon DEF leocc_update_gains, G
  <1> QED
    BY <1>1, <1>2, <1>4, <1>5, <1>6

\* Outside PROBE_RTT, a change of mode that does not enter it keeps the episode.
LEMMA ModeChangeKeeps ==
    ASSUME NEW s \in FlowState, NEW r \in CycleRand
    PROVE  /\ s.mode # "PROBE_RTT" => Keeps(s, leocc_reset_probe_bw_mode(s, r))
           /\ s.mode # "PROBE_RTT" => Keeps(s, EnterDrain(s))
           /\ Keeps([s EXCEPT !.mode = "CRUISE"], leocc_reset_probe_bw_mode(s, r))
           /\ Keeps([s EXCEPT !.mode = "CRUISE"], leocc_reset_startup_mode(s))
  <1> DEFINE u == [s EXCEPT !.mode = "CRUISE", !.cycle_idx = CycleLen - 1 - r]
             v == leocc_advance_cycle_phase(u)
             c == [s EXCEPT !.mode = "CRUISE"]
  <1>1. Keeps(c, v)
    BY SMT DEF leocc_advance_cycle_phase, FlowState, Keeps
  <1>2. Keeps(c, leocc_reset_startup_mode(s))
    BY SMT DEF leocc_reset_startup_mode, FlowState, Keeps
  <1>3. s.mode # "PROBE_RTT" => Keeps(s, c) /\ Keeps(s, EnterDrain(s))
    BY SMT DEF EnterDrain, FlowState, Keeps
  <1>4. v = leocc_reset_probe_bw_mode(s, r)
    BY Zenon DEF leocc_reset_probe_bw_mode
  <1> HIDE DEF c, v
  <1> QED
    BY <1>1, <1>2, <1>3, <1>4, KeepsTransitive, Zenon DEF c

\* leocc_check_drain does not run in PROBE_RTT, or does nothing there.
LEMMA CheckDrainCovered ==
    ASSUME NEW s \in FlowState, NEW rs \in RateSample, NEW r \in CycleRand, Covered(s)
    PROVE  Covered(leocc_check_drain(s, rs, r))
  <1> DEFINE d == EnterDrain(s)
             v == leocc_reset_probe_bw_mode(d, r)
  <1>1. d \in FlowState /\ Covered(d)
    <2> DEFINE e == [s EXCEPT !.reconfiguration_max_bw = 0, !.local_trigger = FALSE,
                              !.mode = "DRAIN", !.measured = {s.latest_bw}]
    <2>1. e \in FlowState
      BY LeoCCAssumption, ZenonT(40) DEF FlowState, Modes
    <2>2. d = s \/ d = e
      BY Zenon DEF EnterDrain
    <2>3. s.mode = "PROBE_RTT" => d = s
      BY SMT DEF EnterDrain
    <2> HIDE DEF d, e
    <2> QED
      BY <2>1, <2>2, <2>3, ModeChangeKeeps, KeepsCovered, Zenon DEF d
  <1> HIDE DEF d
  <1>2. d.mode = "DRAIN" => Covered(v)
    <2>1. "DRAIN" # "PROBE_RTT"
      OBVIOUS
    <2> QED
      BY <1>1, <2>1, ModeChangeKeeps, KeepsCovered, Zenon
  <1> QED
    BY <1>1, <1>2, Zenon DEF leocc_check_drain, d

-----------------------------------------------------------------------------

\* Leaving PROBE_RTT with a window of at least prior_cwnd, within the clamp, is safe
\* also when a loss recovery goes on.
LEMMA RestoreCovered ==
    ASSUME NEW s \in FlowState, Covered(s)
    PROVE  Covered([s EXCEPT !.snd_cwnd = Max2(@, s.prior_cwnd), !.mode = "CRUISE"])
  <1> DEFINE x == Max2(s.snd_cwnd, s.prior_cwnd)
             t == [s EXCEPT !.snd_cwnd = x, !.mode = "CRUISE"]
  <1>1. x \in Nat /\ x >= s.prior_cwnd /\ x <= CwndClamp
    BY WindowTypes, SMT DEF Max2, Covered
  <1> HIDE DEF x
  <1>2. /\ t.ca_state = s.ca_state /\ t.prev_ca_state = s.prev_ca_state
        /\ t.prior_cwnd = s.prior_cwnd /\ t.snd_cwnd = x /\ t.owed = s.owed
        /\ t.mode = "CRUISE" /\ t.mode # "PROBE_RTT"
    BY SMT DEF FlowState
  <1> HIDE DEF t
  <1>3. Owes(t) => Owes(s)
    BY <1>2, Zenon DEF Owes, InEpisode
  <1>4. s.ca_state = "Recovery" => Owes(s)
    BY Zenon DEF Owes, InEpisode, InRecovery
  <1>5. Owes(s) => s.owed <= x
    BY <1>1, WindowTypes, SMT DEF Covered
  <1>6. Covered(t)
    BY <1>1, <1>2, <1>3, <1>4, <1>5, Zenon DEF Covered
  <1> QED
    BY <1>6 DEF t, x

\* The end of PROBE_RTT: the window is restored, also during a loss recovery.
LEMMA CheckProbeRttDoneCovered ==
    ASSUME NEW s \in FlowState, NEW r \in CycleRand, Covered(s)
    PROVE  Covered(leocc_check_probe_rtt_done(s, r))
  <1> DEFINE w == [s EXCEPT !.snd_cwnd = Max2(@, s.prior_cwnd)]
             c == [w EXCEPT !.mode = "CRUISE"]
             t == leocc_reset_mode(w, r)
             v == [t EXCEPT !.bw = t.reconfiguration_max_bw]
  <1>1. w \in FlowState
    <2>1. Max2(s.snd_cwnd, s.prior_cwnd) \in Nat
      BY WindowTypes, SMT DEF Max2
    <2> QED
      BY <2>1, ZenonT(40) DEF FlowState
  <1>2. Covered(c)
    <2>1. c = [s EXCEPT !.snd_cwnd = Max2(@, s.prior_cwnd), !.mode = "CRUISE"]
      BY SMT DEF FlowState
    <2> HIDE DEF c
    <2> QED
      BY <2>1, RestoreCovered
  <1> HIDE DEF w
  <1>3. Keeps(c, leocc_reset_startup_mode(w)) /\ Keeps(c, leocc_reset_probe_bw_mode(w, r))
    BY <1>1, ModeChangeKeeps
  <1> HIDE DEF c
  <1>4. t \in FlowState /\ Covered(t)
    <2>1. t \in FlowState
      BY <1>1, ResetMode
    <2>2. Covered(t)
      BY <1>2, <1>3, KeepsCovered, Zenon DEF leocc_reset_mode
    <2> QED
      BY <2>1, <2>2
  <1> HIDE DEF t
  <1>5. Keeps(t, v)
    BY <1>4, SMT DEF FlowState, Keeps
  <1>6. Covered(v)
    BY <1>4, <1>5, KeepsCovered
  <1> HIDE DEF v
  <1> QED
    BY <1>4, <1>6, Zenon DEF leocc_check_probe_rtt_done, w, t, v

\* An episode begins and TCP calls ssthresh: where prior_cwnd is overwritten, the
\* window is no less than what is owed.
LEMMA BeginAndSave ==
    ASSUME NEW s \in FlowState, Covered(s)
    PROVE  LET b == BeginEpisode(s)
               v == leocc_save_cwnd(b)
           IN  /\ b \in FlowState /\ v \in FlowState
               /\ b.ca_state = s.ca_state /\ b.prev_ca_state = s.prev_ca_state
               /\ b.mode = s.mode /\ b.snd_cwnd = s.snd_cwnd /\ b.prior_cwnd = s.prior_cwnd
               /\ v.ca_state = s.ca_state /\ v.prev_ca_state = s.prev_ca_state
               /\ v.mode = s.mode /\ v.snd_cwnd = s.snd_cwnd
               /\ v.owed = b.owed /\ v.owed <= v.prior_cwnd /\ v.prior_cwnd <= CwndClamp
               /\ Owes(s) => b.owed <= b.prior_cwnd
               /\ ~InEpisode(s) => b.owed <= b.snd_cwnd
  <1> DEFINE b == BeginEpisode(s)
             v == leocc_save_cwnd(b)
             x == Max2(s.prior_cwnd, s.snd_cwnd)
             o == IF s.ca_state = "CWR" THEN Min2(s.owed, s.snd_cwnd) ELSE s.snd_cwnd
  <1>1. /\ b.ca_state = s.ca_state /\ b.prev_ca_state = s.prev_ca_state
        /\ b.mode = s.mode /\ b.snd_cwnd = s.snd_cwnd /\ b.prior_cwnd = s.prior_cwnd
        /\ b.owed = IF InEpisode(s) THEN s.owed ELSE o
    BY SMT DEF BeginEpisode, FlowState
  <1>2. b \in FlowState
    BY Episode
  <1> HIDE DEF b
  <1>3. /\ v.ca_state = b.ca_state /\ v.prev_ca_state = b.prev_ca_state
        /\ v.mode = b.mode /\ v.snd_cwnd = b.snd_cwnd /\ v.owed = b.owed
        /\ v.prior_cwnd = IF ~InRecovery(b.prev_ca_state) /\ b.mode # "PROBE_RTT"
                          THEN b.snd_cwnd ELSE Max2(b.prior_cwnd, b.snd_cwnd)
    BY <1>2, SMT DEF leocc_save_cwnd, FlowState
  <1>4. v \in FlowState
    BY <1>2, SaveCwnd
  <1> HIDE DEF v
  <1>5. /\ o <= s.snd_cwnd
        /\ s.ca_state = "CWR" => o <= s.owed
        /\ s.snd_cwnd <= x /\ s.prior_cwnd <= x /\ x <= CwndClamp /\ x \in Nat /\ o \in Nat
    BY WindowTypes, SMT DEF Max2, Min2, Covered
  <1> HIDE DEF o
  <1>6. Owes(s) => b.owed <= b.prior_cwnd
    <2>1. CASE InEpisode(s)
      BY <1>1, <2>1, Zenon DEF Covered, Owes
    <2>2. CASE ~InEpisode(s) /\ s.ca_state = "CWR"
      <3>1. s.owed <= s.prior_cwnd
        BY <2>2, Zenon DEF Covered, Owes
      <3> QED
        BY <1>1, <1>5, <2>2, <3>1, WindowTypes, SMT
    <2> QED
      BY <2>1, <2>2, Zenon DEF Owes
  <1>7. ~InEpisode(s) => b.owed <= b.snd_cwnd
    BY <1>1, <1>5, Zenon
  <1>8. v.owed <= v.prior_cwnd /\ v.prior_cwnd <= CwndClamp
    <2>1. CASE ~InRecovery(s.prev_ca_state) /\ s.mode # "PROBE_RTT"
      <3>1. InEpisode(s) => s.owed <= s.snd_cwnd
        <4>1. InEpisode(s) => s.ca_state = "Recovery"
          BY <2>1, Zenon DEF InEpisode, InRecovery, Covered
        <4> QED
          BY <2>1, <4>1, Zenon DEF Covered
      <3>2. b.owed <= b.snd_cwnd
        BY <1>1, <1>7, <3>1, Zenon
      <3>3. s.snd_cwnd <= CwndClamp
        BY Zenon DEF Covered
      <3> QED
        BY <1>1, <1>3, <2>1, <3>2, <3>3, Zenon
    <2>2. CASE ~(~InRecovery(s.prev_ca_state) /\ s.mode # "PROBE_RTT")
      <3>1. v.prior_cwnd = x
        BY <1>1, <1>3, <2>2, Zenon
      <3>2. InEpisode(s) => s.owed <= x
        <4> HIDE DEF x
        <4>1. InEpisode(s) => s.owed <= s.prior_cwnd
          BY Zenon DEF Covered, Owes
        <4> QED
          BY <1>5, <4>1, WindowTypes, SMT
      <3>3. ~InEpisode(s) => o <= x
        <4> HIDE DEF x
        <4> QED
          BY <1>5, WindowTypes, SMT
      <3> QED
        BY <1>1, <1>3, <1>5, <3>1, <3>2, <3>3, Zenon
    <2> QED
      BY <2>1, <2>2
  <1> QED
    BY <1>1, <1>2, <1>3, <1>4, <1>6, <1>7, <1>8, Zenon DEF b, v

\* PROBE_RTT begins, during a loss recovery or outside one.
LEMMA EnterProbeRttCovered ==
    ASSUME NEW s \in FlowState, NEW expired \in BOOLEAN, Covered(s)
    PROVE  Covered(EnterProbeRtt(s, expired))
  <1> DEFINE b == BeginEpisode(s)
             p == [b EXCEPT !.mode = "PROBE_RTT", !.probe_rtt_done_stamp = 0, !.held = 0]
             v == leocc_save_cwnd(p)
             x == Max2(s.prior_cwnd, s.snd_cwnd)
  <1>1. /\ b \in FlowState
        /\ b.ca_state = s.ca_state /\ b.prev_ca_state = s.prev_ca_state
        /\ b.snd_cwnd = s.snd_cwnd /\ b.prior_cwnd = s.prior_cwnd
        /\ InEpisode(s) => b.owed <= b.prior_cwnd
        /\ ~InEpisode(s) => b.owed <= b.snd_cwnd
    BY BeginAndSave, Zenon DEF Owes
  <1> HIDE DEF b
  <1>3. /\ p.ca_state = b.ca_state /\ p.prev_ca_state = b.prev_ca_state
        /\ p.snd_cwnd = b.snd_cwnd /\ p.prior_cwnd = b.prior_cwnd /\ p.owed = b.owed
        /\ p.mode = "PROBE_RTT"
    BY <1>1, SMT DEF FlowState
  <1>4. p \in FlowState
    <2>1. 0 \in Jiffies /\ 0 \in 0 .. ProbeRttTime + 1
      BY LeoCCAssumption, SMT DEF Jiffies
    <2> QED
      BY <1>1, <2>1, ZenonT(40) DEF FlowState, Modes
  <1> HIDE DEF p
  <1>5. /\ v.ca_state = p.ca_state /\ v.prev_ca_state = p.prev_ca_state
        /\ v.snd_cwnd = p.snd_cwnd /\ v.owed = p.owed /\ v.mode = p.mode
        /\ v.prior_cwnd = Max2(p.prior_cwnd, p.snd_cwnd)
    BY <1>3, <1>4, SMT DEF leocc_save_cwnd, FlowState
  <1> HIDE DEF v
  <1>6. x <= CwndClamp /\ b.owed <= x
    <2>1. b.owed \in Nat
      BY <1>1, WindowTypes
    <2> QED
      BY <1>1, <2>1, WindowTypes, SMT DEF Max2, Covered
  <1>7. Covered(v)
    BY <1>1, <1>3, <1>5, <1>6, Zenon DEF Covered
  <1> QED
    BY <1>7, Zenon DEF EnterProbeRtt, b, p, v

\* The branches of PROBE_RTT stay, or end by leocc_check_probe_rtt_done.
LEMMA InProbeRttCovered ==
    ASSUME NEW s \in FlowState, NEW rs \in RateSample, NEW r \in CycleRand,
           Covered(s), now \in Jiffies
    PROVE  Covered(InProbeRtt(s, rs, r))
  <1> DEFINE done == s.probe_rtt_round_done \/ s.round_start
             a == [s EXCEPT !.probe_rtt_done_stamp = (now + ProbeRttTime) % JiffyMod,
                            !.probe_rtt_round_done = FALSE,
                            !.held = 0, !.round_held = FALSE]
             t == [s EXCEPT !.probe_rtt_round_done = done]
             m == [t EXCEPT !.min_rtt_us = rs.rtt % RttMod, !.min_rtt_stamp = now]
             c == leocc_check_probe_rtt_done(
                      IF After(now, s.probe_rtt_done_stamp) THEN m ELSE t, r)
  <1>1. Keeps(s, a) /\ Keeps(s, t)
    BY SMT DEF FlowState, Keeps
  <1>2. t \in FlowState
    <2>1. done \in BOOLEAN
      BY ZenonT(40) DEF FlowState
    <2> HIDE DEF done
    <2> QED
      BY <2>1, ZenonT(40) DEF FlowState
  <1> HIDE DEF a, t
  <1>3. m \in FlowState /\ Keeps(t, m)
    <2>1. rs.rtt % RttMod \in 0 .. RttMod - 1
      BY RttRange
    <2>2. m \in FlowState
      BY <1>2, <2>1, ZenonT(40) DEF FlowState
    <2>3. Keeps(t, m)
      BY <1>2, SMT DEF FlowState, Keeps
    <2> QED
      BY <2>2, <2>3
  <1> HIDE DEF m
  <1>4. Covered(a) /\ Covered(t) /\ Covered(m)
    BY <1>1, <1>3, KeepsCovered
  <1>5. Covered(c)
    BY <1>2, <1>3, <1>4, CheckProbeRttDoneCovered
  <1> HIDE DEF c
  <1>6. InProbeRtt(s, rs, r) \in {s, a, c}
    BY Zenon DEF InProbeRtt, a, t, m, c
  <1> QED
    BY <1>4, <1>5, <1>6, Zenon

\* leocc_update_min_rtt, its three parts composed.
LEMMA UpdateMinRttCovered ==
    ASSUME NEW s \in FlowState, NEW rs \in RateSample, NEW r \in CycleRand,
           ModeMatches(s), Covered(s), now \in Jiffies
    PROVE  Covered(leocc_update_min_rtt(s, rs, r))
  <1> DEFINE expired == FilterExpired(s)
             a == TakeMinRtt(s, rs, expired)
             b == EnterProbeRtt(a, expired)
             t == InProbeRtt(b, rs, r)
             i == [t EXCEPT !.idle_restart = FALSE]
  <1>1. expired \in BOOLEAN
    BY SMT DEF FilterExpired, After
  <1>2. a \in FlowState /\ ModeMatches(a)
    BY <1>1, TakeMinRttType, Zenon DEF ModeMatches, SameMode
  <1>3. Covered(a)
    <2>1. Keeps(s, a)
      BY SMT DEF TakeMinRtt, FlowState, Keeps
    <2> HIDE DEF a
    <2> QED
      BY <2>1, KeepsCovered
  <1> HIDE DEF a, expired
  <1>4. b \in FlowState /\ ModeMatches(b) /\ Covered(b)
    BY <1>1, <1>2, <1>3, EnterProbeRttMode, EnterProbeRttCovered
  <1> HIDE DEF b
  <1>5. t \in FlowState /\ Covered(t)
    BY <1>4, InProbeRttMode, InProbeRttCovered
  <1> HIDE DEF t
  <1>6. Covered(i)
    <2>1. Keeps(t, i)
      BY <1>5, SMT DEF FlowState, Keeps
    <2> HIDE DEF i
    <2> QED
      BY <1>5, <2>1, KeepsCovered
  <1> HIDE DEF i
  <1> QED
    BY <1>5, <1>6, Zenon DEF leocc_update_min_rtt, expired, a, b, t, i

\* The whole of leocc_update_model.
LEMMA UpdateModelCovered ==
    ASSUME NEW s \in FlowState, NEW rs \in RateSample, NEW r \in CycleRand,
           NEW max \in Bandwidths, ModeMatches(s), Covered(s), now \in Jiffies
    PROVE  Covered(leocc_update_model(s, rs, max, r))
  <1> DEFINE a == leocc_update_bw(s, rs, max)
             b == leocc_update_cycle_phase(a, rs)
             c == leocc_check_full_bw_reached(b, rs)
             d == leocc_check_drain(c, rs, r)
             e == leocc_update_min_rtt(d, rs, r)
             t == leocc_update_gains(e)
  <1>1. a \in FlowState /\ SameMode(s, a) /\ Covered(a)
    BY UpdateBw, FilterKeeps, KeepsCovered
  <1> HIDE DEF a
  <1>2. b \in FlowState /\ SameMode(a, b) /\ Covered(b)
    BY <1>1, UpdateCyclePhase, FilterKeeps, KeepsCovered
  <1> HIDE DEF b
  <1>3. /\ c \in FlowState /\ c.mode = b.mode /\ (b.full_bw_reached => c.full_bw_reached)
        /\ Covered(c)
    BY <1>2, CheckFullBw, FilterKeeps, KeepsCovered
  <1> HIDE DEF c
  <1>4. c.mode # "STARTUP" => c.full_bw_reached
    BY <1>1, <1>2, <1>3, Zenon DEF ModeMatches, SameMode
  <1>5. d \in FlowState /\ ModeMatches(d) /\ Covered(d)
    BY <1>3, <1>4, CheckDrain, CheckDrainCovered
  <1> HIDE DEF d
  <1>6. e \in FlowState /\ Covered(e)
    BY <1>5, UpdateMinRtt, UpdateMinRttCovered
  <1> HIDE DEF e
  <1>7. Covered(t)
    BY <1>6, FilterKeeps, KeepsCovered
  <1> HIDE DEF t
  <1> QED
    BY <1>7, Zenon DEF leocc_update_model, a, b, c, d, e, t

-----------------------------------------------------------------------------

\* leocc_set_cwnd takes note of TCP's state and then only moves the window.
MovesWindow(s, t) ==
    /\ t.ca_state = s.ca_state /\ t.prev_ca_state = s.prev_ca_state
    /\ t.prior_cwnd = s.prior_cwnd /\ t.owed = s.owed /\ t.mode = s.mode

\* What leocc_set_cwnd_to_recover_or_restore and the growth do besides the window.
LEMMA RecoverMovesWindow ==
    ASSUME NEW s \in FlowState, NEW rs \in RateSample
    PROVE  LET t == leocc_set_cwnd_to_recover_or_restore(s, rs)
           IN  /\ MovesWindow([s EXCEPT !.prev_ca_state = s.ca_state], t)
               /\ MovesWindow(t, GrowToTarget(t, rs))
  <1> DEFINE lost == IF rs.losses > 0 THEN Max2(s.snd_cwnd - rs.losses, 1) ELSE s.snd_cwnd
             keep == rs.inflight + rs.acked
             restored == Max2(lost, s.prior_cwnd)
             t == [s EXCEPT !.prev_ca_state = s.ca_state]
             a == [t EXCEPT !.packet_conservation = TRUE, !.snd_cwnd = keep]
             b == [t EXCEPT !.packet_conservation = FALSE, !.snd_cwnd = restored]
             c == [t EXCEPT !.snd_cwnd = lost]
             u == CASE s.ca_state = "Recovery" /\ s.prev_ca_state # "Recovery" -> a
                    [] InRecovery(s.prev_ca_state) /\ ~InRecovery(s.ca_state) -> b
                    [] OTHER -> c
             v == [u EXCEPT !.snd_cwnd = Max2(@, keep)]
             w == leocc_set_cwnd_to_recover_or_restore(s, rs)
  <1>1. t \in FlowState
    BY WindowTypes, ZenonT(40) DEF FlowState
  <1>2. lost \in Nat /\ keep \in Nat /\ restored \in Nat
    BY WindowTypes, SampleCounts, SMT DEF Max2
  <1> HIDE DEF lost, keep, restored, t
  <1>3. a \in FlowState /\ b \in FlowState /\ c \in FlowState
    <2>1. a \in FlowState
      BY <1>1, <1>2, ZenonT(40) DEF FlowState
    <2>2. b \in FlowState
      BY <1>1, <1>2, ZenonT(40) DEF FlowState
    <2>3. c \in FlowState
      BY <1>1, <1>2, ZenonT(40) DEF FlowState
    <2> QED
      BY <2>1, <2>2, <2>3
  <1>4. MovesWindow(t, a) /\ MovesWindow(t, b) /\ MovesWindow(t, c)
    BY <1>1, SMT DEF FlowState, MovesWindow
  <1> HIDE DEF a, b, c
  <1>5. u = a \/ u = b \/ u = c
    BY Zenon DEF InRecovery
  <1> HIDE DEF u
  <1>6. u \in FlowState /\ MovesWindow(t, u)
    BY <1>3, <1>4, <1>5, Zenon
  <1>7. MovesWindow(u, v)
    BY <1>6, SMT DEF FlowState, MovesWindow
  <1> HIDE DEF v
  <1>8. w = IF u.packet_conservation THEN v ELSE u
    BY Zenon DEF leocc_set_cwnd_to_recover_or_restore, lost, keep, restored, t, a, b, c, u, v
  <1>9. MovesWindow(t, w)
    BY <1>6, <1>7, <1>8, Zenon DEF MovesWindow
  <1>10. w \in FlowState
    BY RecoverOrRestore
  <1> HIDE DEF w
  <1>11. MovesWindow(w, GrowToTarget(w, rs))
    <2> DEFINE G(x) == [w EXCEPT !.snd_cwnd = x]
    <2>1. ASSUME NEW x PROVE MovesWindow(w, G(x))
      BY <1>10, SMT DEF FlowState, MovesWindow
    <2> HIDE DEF G
    <2> QED
      BY <2>1, Zenon DEF GrowToTarget, G
  <1> QED
    BY <1>9, <1>11, Zenon DEF w, t

\* leocc_set_cwnd: an ACK that acknowledges something applies what TCP's state
\* asks for and, with prev_ca_state up to date, may then lower the window.
LEMMA SetCwndCovered ==
    ASSUME NEW s \in FlowState, NEW rs \in RateSample, Covered(s)
    PROVE  Covered(leocc_set_cwnd(s, rs))
  <1> DEFINE n == [s EXCEPT !.prev_ca_state = s.ca_state]
             t == leocc_set_cwnd_to_recover_or_restore(s, rs)
             g == GrowToTarget(t, rs)
             q == IF t.packet_conservation THEN t ELSE g
             w == IF rs.acked = 0 THEN s ELSE q
             z == CapCwnd(w, rs)
  <1>1. /\ n.ca_state = s.ca_state /\ n.prev_ca_state = s.ca_state
        /\ n.prior_cwnd = s.prior_cwnd /\ n.owed = s.owed /\ n.mode = s.mode
    BY SMT DEF FlowState
  <1>2. MovesWindow(n, t) /\ MovesWindow(t, g) /\ t \in FlowState
    BY RecoverMovesWindow, RecoverOrRestore
  <1>3. g \in FlowState
    <2> HIDE DEF t
    <2> DEFINE c == CASE t.full_bw_reached -> Min2(t.snd_cwnd + rs.acked, rs.target)
                      [] ~t.full_bw_reached /\ (t.snd_cwnd < rs.target \/ rs.few_delivered)
                           -> t.snd_cwnd + rs.acked
                      [] OTHER -> t.snd_cwnd
    <2>1. /\ Min2(t.snd_cwnd + rs.acked, rs.target) \in Nat
          /\ t.snd_cwnd + rs.acked \in Nat /\ t.snd_cwnd \in Nat
      BY <1>2, WindowTypes, SampleCounts, SMT DEF Min2
    <2>2. t.full_bw_reached \in BOOLEAN
      BY <1>2, ZenonT(40) DEF FlowState
    <2>3. c \in Nat
      BY <2>1, <2>2, Zenon
    <2>4. g = [t EXCEPT !.snd_cwnd = Max2(c, CwndMinTarget)]
      BY Zenon DEF GrowToTarget
    <2> HIDE DEF c, g
    <2>5. Max2(c, CwndMinTarget) \in Nat
      BY <2>3, WindowTypes, SMT DEF Max2
    <2> QED
      BY <1>2, <2>4, <2>5, Window
  <1> HIDE DEF n, t, g
  <1>4. q \in FlowState /\ MovesWindow(n, q)
    BY <1>2, <1>3, Zenon DEF MovesWindow
  <1> HIDE DEF q
  <1>5. w \in FlowState /\ (w = s \/ w = q)
    BY <1>4, Zenon
  <1> HIDE DEF w
  <1> DEFINE m == Min2(w.snd_cwnd, CwndClamp)
             k == IF w.mode = "PROBE_RTT" THEN Min2(m, rs.probe_cwnd) ELSE m
  <1>6. /\ k \in Nat /\ k <= CwndClamp
        /\ w.mode # "PROBE_RTT" /\ w.snd_cwnd <= CwndClamp => k = w.snd_cwnd
    BY <1>5, WindowTypes, SampleCounts, SMT DEF Min2
  <1>7. z = [w EXCEPT !.snd_cwnd = k]
    BY Zenon DEF CapCwnd
  <1> HIDE DEF k, m, z
  <1>8. MovesWindow(w, z) /\ z.snd_cwnd = k
    BY <1>5, <1>7, SMT DEF FlowState, MovesWindow
  <1>9. ASSUME w = s PROVE Covered(z)
    <2>1. /\ z.ca_state = s.ca_state /\ z.prev_ca_state = s.prev_ca_state
          /\ z.prior_cwnd = s.prior_cwnd /\ z.owed = s.owed /\ z.mode = s.mode
      BY <1>8, <1>9, Zenon DEF MovesWindow
    <2>2. Owes(z) => Owes(s)
      BY <2>1, Zenon DEF Owes, InEpisode
    <2>3. /\ z.snd_cwnd <= CwndClamp
          /\ s.mode # "PROBE_RTT" => z.snd_cwnd = s.snd_cwnd
      BY <1>6, <1>8, <1>9, Zenon DEF Covered
    <2> QED
      BY <2>1, <2>2, <2>3, Zenon DEF Covered
  <1>10. ASSUME w = q PROVE Covered(z)
    <2>1. /\ z.ca_state = s.ca_state /\ z.prev_ca_state = s.ca_state
          /\ z.prior_cwnd = s.prior_cwnd /\ z.owed = s.owed /\ z.mode = s.mode
      BY <1>1, <1>4, <1>8, <1>10, Zenon DEF MovesWindow
    <2>2. InRecovery(s.ca_state) \/ s.ca_state # "Recovery"
      BY Zenon DEF InRecovery
    <2>3. Owes(z) => Owes(s)
      BY <2>1, Zenon DEF Owes, InEpisode
    <2> QED
      BY <1>6, <1>8, <2>1, <2>2, <2>3, Zenon DEF Covered
  <1>11. Covered(z)
    BY <1>5, <1>9, <1>10
  <1> QED
    BY <1>11, Zenon DEF leocc_set_cwnd, t, g, q, w, z

-----------------------------------------------------------------------------

\* Inductive: Inv types the flows.
WindowInv == Inv /\ AllCovered

\* The history variable is reset only outside an episode.
LEMMA SettleCovered ==
    ASSUME NEW s \in FlowState, Covered(s)
    PROVE  Covered(SettleEpisode(s))
  <1> DEFINE t == SettleEpisode(s)
  <1>1. /\ t.ca_state = s.ca_state /\ t.prev_ca_state = s.prev_ca_state
        /\ t.prior_cwnd = s.prior_cwnd /\ t.snd_cwnd = s.snd_cwnd /\ t.mode = s.mode
        /\ Owes(s) => t.owed = s.owed
    BY SMT DEF SettleEpisode, FlowState
  <1> HIDE DEF t
  <1>2. Owes(t) => Owes(s)
    BY <1>1, Zenon DEF Owes, InEpisode
  <1>3. s.ca_state = "Recovery" => Owes(s)
    BY Zenon DEF Owes, InEpisode, InRecovery
  <1>4. Covered(t)
    BY <1>1, <1>2, <1>3, Zenon DEF Covered
  <1> QED
    BY <1>4 DEF t

\* Replacing one flow by a covered one.
LEMMA NewFlowCovered ==
    ASSUME WindowInv, NEW f \in Flows, NEW s \in FlowState, Covered(s),
           flow' = [flow EXCEPT ![f] = SettleEpisode(s)]
    PROVE  AllCovered'
  <1> DEFINE t == SettleEpisode(s)
  <1>1. Covered(t)
    BY SettleCovered
  <1>2. flow \in [Flows -> FlowState]
    BY DEF WindowInv, Inv, TypeOK
  <1> HIDE DEF t
  <1>3. ASSUME NEW g \in Flows PROVE Covered(flow'[g])
    <2>1. flow'[g] = IF g = f THEN t ELSE flow[g]
      BY <1>2, Zenon DEF t
    <2>2. Covered(flow[g])
      BY Zenon DEF WindowInv, AllCovered
    <2> QED
      BY <1>1, <2>1, <2>2, Zenon
  <1> QED
    BY <1>3, Zenon DEF AllCovered

\* What the invariant says of one flow.
LEMMA WindowOf ==
    ASSUME WindowInv, NEW f \in Flows
    PROVE  /\ flow[f] \in FlowState /\ ModeMatches(flow[f]) /\ Covered(flow[f])
           /\ now \in Jiffies /\ leocc_pacing_gain_0 \in {ProbeUp, GentleUp}
  BY FlowOf, Zenon DEF WindowInv, AllCovered, Inv, TypeOK

\* leocc_main preserves the invariant, whatever the ACK reports.
LEMMA AckCovered ==
    ASSUME WindowInv, NEW f \in Flows, Ack(f)
    PROVE  AllCovered'
  <1>1. PICK rs \in RateSamples : leocc_main(f, rs)
    BY DEF Ack
  <1>2. rs \in RateSample
    BY LeoCCAssumption, Zenon
  <1> DEFINE x == flow[f].local_trigger \/ global_reconfiguration_trigger
             s == [flow[f] EXCEPT !.local_trigger = x]
  <1>3. /\ flow[f] \in FlowState /\ ModeMatches(flow[f]) /\ Covered(flow[f])
        /\ now \in Jiffies /\ leocc_pacing_gain_0 \in {ProbeUp, GentleUp}
    BY WindowOf
  <1>4. x \in BOOLEAN
    BY <1>3, ZenonT(40) DEF WindowInv, Inv, TypeOK, FlowState
  <1> HIDE DEF x
  <1>5. s \in FlowState
    BY <1>3, <1>4, ZenonT(40) DEF FlowState
  <1>6. SameMode(flow[f], s) /\ Keeps(flow[f], s)
    BY <1>3, SMT DEF FlowState, SameMode, Keeps
  <1>7. s = [flow[f] EXCEPT !.local_trigger = @ \/ global_reconfiguration_trigger]
    BY Zenon DEF x
  <1> HIDE DEF s
  <1>8. ModeMatches(s) /\ Covered(s)
    BY <1>3, <1>6, KeepsCovered, Zenon DEF SameMode, ModeMatches
  <1>9. PICK max \in RunningMax(s.bw, rs.bw), r \in CycleRand,
             hat \in KalmanRtt(s.rtt_hat_post, rs.rtt) :
          LET t == leocc_update_model(s, rs, max, r)
              u == [t EXCEPT !.rtt_hat_post = hat]
          IN  /\ leocc_pacing_gain_0' = IF Fluctuates(u) THEN GentleUp ELSE ProbeUp
              /\ flow' = [flow EXCEPT ![f] = SettleEpisode(leocc_set_cwnd(u, rs))]
              /\ UNCHANGED <<now, global_reconfiguration_trigger, min_rtt_fluctuation>>
    BY <1>1, <1>7, Zenon DEF leocc_main
  <1> DEFINE t == leocc_update_model(s, rs, max, r)
             u == [t EXCEPT !.rtt_hat_post = hat]
             w == leocc_set_cwnd(u, rs)
  <1>10. max \in Bandwidths
    <2>1. rs.bw \in Bandwidths
      BY <1>2, Zenon DEF RateSample
    <2> QED
      BY <1>9, <2>1, Zenon DEF RunningMax
  <1>11. hat \in Rtts \cup {0}
    <2>1. s.rtt_hat_post \in Rtts \cup {0}
      BY <1>5, ZenonT(40) DEF FlowState
    <2> QED
      BY <1>9, <2>1, Zenon DEF KalmanRtt
  <1>12. t \in FlowState /\ Covered(t)
    BY <1>2, <1>3, <1>5, <1>8, <1>9, <1>10, UpdateModel, UpdateModelCovered
  <1>13. flow' = [flow EXCEPT ![f] = SettleEpisode(w)]
    BY <1>9
  <1> HIDE DEF t
  <1>14. u \in FlowState /\ Keeps(t, u)
    <2>1. u \in FlowState
      BY <1>11, <1>12, ZenonT(40) DEF FlowState
    <2>2. Keeps(t, u)
      BY <1>12, SMT DEF FlowState, Keeps
    <2> QED
      BY <2>1, <2>2
  <1> HIDE DEF u
  <1>15. w \in FlowState /\ Covered(w)
    BY <1>2, <1>12, <1>14, KeepsCovered, SetCwnd, SetCwndCovered
  <1> HIDE DEF w
  <1> QED
    BY <1>13, <1>15, NewFlowCovered

\* Replacing one flow, for the actions that change nothing else.
LEMMA OnlyFlowCovered ==
    ASSUME WindowInv, NEW f \in Flows, NEW s \in FlowState, Covered(s), OnlyFlow(f, s)
    PROVE  AllCovered'
  <1>1. flow' = [flow EXCEPT ![f] = SettleEpisode(s)]
    BY DEF OnlyFlow
  <1> QED
    BY <1>1, NewFlowCovered

\* leocc_cwnd_event may end PROBE_RTT outside an ACK.
LEMMA CwndEventCovered ==
    ASSUME WindowInv, NEW f \in Flows, leocc_cwnd_event(f)
    PROVE  AllCovered'
  <1> DEFINE s == [flow[f] EXCEPT !.idle_restart = TRUE]
  <1>1. flow[f] \in FlowState /\ ModeMatches(flow[f]) /\ Covered(flow[f])
    BY WindowOf
  <1>2. s \in FlowState
    BY <1>1, ZenonT(40) DEF FlowState
  <1>3. SameMode(flow[f], s) /\ Keeps(flow[f], s)
    BY <1>1, SMT DEF FlowState, SameMode, Keeps
  <1>4. PICK r \in CycleRand :
          OnlyFlow(f, IF s.mode = "PROBE_RTT" THEN leocc_check_probe_rtt_done(s, r) ELSE s)
    BY Zenon DEF leocc_cwnd_event
  <1> HIDE DEF s
  <1>5. ModeMatches(s) /\ Covered(s)
    BY <1>1, <1>3, KeepsCovered, Zenon DEF SameMode, ModeMatches
  <1> DEFINE t == leocc_check_probe_rtt_done(s, r)
  <1>6. t \in FlowState /\ Covered(t)
    BY <1>2, <1>5, CheckProbeRttDone, CheckProbeRttDoneCovered
  <1>7. OnlyFlow(f, s) \/ OnlyFlow(f, t)
    BY <1>4, Zenon
  <1> HIDE DEF t
  <1> QED
    BY <1>2, <1>5, <1>6, <1>7, OnlyFlowCovered, Zenon

\* CWR begins: ssthresh saves the window, which LeoCC does not reduce.
LEMMA EnterCwrCovered ==
    ASSUME WindowInv, NEW f \in Flows, EnterCwr(f)
    PROVE  AllCovered'
  <1> DEFINE s == flow[f]
             v == leocc_save_cwnd(BeginEpisode(s))
             t == [v EXCEPT !.ca_state = "CWR"]
  <1>1. s \in FlowState /\ Covered(s)
    BY WindowOf
  <1>2. OnlyFlow(f, t)
    BY DEF EnterCwr, leocc_ssthresh
  <1> HIDE DEF s
  <1>3. /\ v \in FlowState /\ v.snd_cwnd = s.snd_cwnd
        /\ v.prior_cwnd <= CwndClamp /\ v.owed <= v.prior_cwnd
    BY <1>1, BeginAndSave
  <1> HIDE DEF v
  <1>4. /\ t.ca_state = "CWR" /\ t.snd_cwnd = v.snd_cwnd
        /\ t.prior_cwnd = v.prior_cwnd /\ t.owed = v.owed
    BY <1>3, SMT DEF FlowState
  <1>5. t \in FlowState
    BY <1>3, ZenonT(40) DEF FlowState, CaStates
  <1> HIDE DEF t
  <1>6. t.ca_state # "Loss" /\ t.ca_state # "Recovery"
    BY <1>4, SMT
  <1>7. Covered(t)
    BY <1>1, <1>3, <1>4, <1>6, Zenon DEF Covered
  <1> QED
    BY <1>2, <1>5, <1>7, OnlyFlowCovered

\* CWR ends; what is owed is forgotten unless PROBE_RTT or a recovery goes on.
LEMMA LeaveCwrCovered ==
    ASSUME WindowInv, NEW f \in Flows, LeaveCwr(f)
    PROVE  AllCovered'
  <1> DEFINE s == flow[f]
             t == [s EXCEPT !.ca_state = "Open"]
  <1>1. s \in FlowState /\ Covered(s)
    BY WindowOf
  <1>2. s.ca_state = "CWR" /\ OnlyFlow(f, t)
    BY DEF LeaveCwr
  <1> HIDE DEF s
  <1>3. /\ t.ca_state = "Open" /\ t.snd_cwnd = s.snd_cwnd
        /\ t.prior_cwnd = s.prior_cwnd /\ t.owed = s.owed
    BY <1>1, SMT DEF FlowState
  <1>4. t \in FlowState
    BY <1>1, ZenonT(40) DEF FlowState, CaStates
  <1> HIDE DEF t
  <1>5. t.ca_state # "Loss" /\ t.ca_state # "Recovery"
    BY <1>3, SMT
  <1>6. Covered(t)
    BY <1>1, <1>2, <1>3, <1>5, Zenon DEF Covered, Owes
  <1> QED
    BY <1>2, <1>4, <1>6, OnlyFlowCovered

\* A fast recovery begins, with ssthresh or, out of CWR, without.  TCP is in Recovery,
\* but prev_ca_state may still say Open: until the next ACK, the window is no less than
\* the one that is owed.
LEMMA EnterRecoveryCovered ==
    ASSUME WindowInv, NEW f \in Flows, EnterRecovery(f)
    PROVE  AllCovered'
  <1> DEFINE s == flow[f]
             b == BeginEpisode(s)
             v == leocc_save_cwnd(b)
             q == IF s.ca_state = "CWR" THEN b ELSE v
             t == [q EXCEPT !.ca_state = "Recovery"]
  <1>1. s \in FlowState /\ Covered(s)
    BY WindowOf
  <1>2. s.ca_state # "Recovery" /\ OnlyFlow(f, t)
    BY Zenon DEF EnterRecovery, leocc_ssthresh
  <1> HIDE DEF s
  <1>3. /\ b \in FlowState /\ v \in FlowState
        /\ b.prev_ca_state = s.prev_ca_state /\ v.prev_ca_state = s.prev_ca_state
        /\ b.mode = s.mode /\ v.mode = s.mode
        /\ b.snd_cwnd = s.snd_cwnd /\ v.snd_cwnd = s.snd_cwnd
        /\ b.prior_cwnd = s.prior_cwnd /\ v.prior_cwnd <= CwndClamp
        /\ v.owed = b.owed /\ v.owed <= v.prior_cwnd
        /\ Owes(s) => b.owed <= b.prior_cwnd
        /\ ~InEpisode(s) => b.owed <= b.snd_cwnd
    BY <1>1, BeginAndSave
  <1>4. s.ca_state = "CWR" => Owes(s)
    BY DEF Owes
  <1> HIDE DEF b, v
  <1>5. /\ q \in FlowState /\ q.prev_ca_state = s.prev_ca_state /\ q.mode = s.mode
        /\ q.snd_cwnd = s.snd_cwnd /\ q.prior_cwnd <= CwndClamp
        /\ q.owed <= q.prior_cwnd /\ (~InEpisode(s) => q.owed <= q.snd_cwnd)
    BY <1>1, <1>3, <1>4, Zenon DEF Covered
  <1> HIDE DEF q
  <1>6. /\ t.ca_state = "Recovery" /\ t.prev_ca_state = q.prev_ca_state
        /\ t.mode = q.mode /\ t.snd_cwnd = q.snd_cwnd
        /\ t.prior_cwnd = q.prior_cwnd /\ t.owed = q.owed
    BY <1>5, SMT DEF FlowState
  <1>7. t \in FlowState
    BY <1>5, ZenonT(40) DEF FlowState, CaStates
  <1> HIDE DEF t
  <1>8. ~InRecovery(s.prev_ca_state) => ~InRecovery(s.ca_state)
    BY <1>1, <1>2, Zenon DEF InRecovery, Covered
  <1>9. ~InRecovery(t.prev_ca_state) /\ t.mode # "PROBE_RTT" => t.owed <= t.snd_cwnd
    BY <1>5, <1>6, <1>8, Zenon DEF InEpisode
  <1>10. t.ca_state # "Loss"
    BY <1>6, SMT
  <1>11. t.snd_cwnd <= CwndClamp
    BY <1>1, <1>5, <1>6, Zenon DEF Covered
  <1>12. Covered(t)
    BY <1>5, <1>6, <1>9, <1>10, <1>11, Zenon DEF Covered
  <1> QED
    BY <1>2, <1>7, <1>12, OnlyFlowCovered

\* A retransmission timeout, out of Open or out of a reduction that has begun, with
\* or without ssthresh; set_state(Loss) brings prev_ca_state up to date.
LEMMA EnterLossCovered ==
    ASSUME WindowInv, NEW f \in Flows, EnterLoss(f)
    PROVE  AllCovered'
  <1> DEFINE s == flow[f]
             b == BeginEpisode(s)
             v == leocc_save_cwnd(b)
  <1>1. s \in FlowState /\ Covered(s)
    BY WindowOf
  <1>2. PICK again \in BOOLEAN, c \in 1 .. CwndClamp :
          LET q == IF s.ca_state = "Open" \/ again THEN v ELSE b
          IN  OnlyFlow(f, leocc_set_state_loss([q EXCEPT !.ca_state = "Loss", !.snd_cwnd = c]))
    BY Zenon DEF EnterLoss, leocc_ssthresh
  <1> DEFINE q == IF s.ca_state = "Open" \/ again THEN v ELSE b
             l == [q EXCEPT !.ca_state = "Loss", !.snd_cwnd = c]
             t == leocc_set_state_loss(l)
  <1>3. OnlyFlow(f, t)
    BY <1>2
  <1> HIDE DEF s
  <1>4. /\ b \in FlowState /\ v \in FlowState
        /\ b.prior_cwnd = s.prior_cwnd /\ v.prior_cwnd <= CwndClamp
        /\ v.owed <= v.prior_cwnd /\ (Owes(s) => b.owed <= b.prior_cwnd)
    BY <1>1, BeginAndSave
  <1>5. s.ca_state # "Open" => Owes(s)
    BY <1>1, WindowTypes, Zenon DEF Owes, InEpisode, InRecovery, CaStates
  <1> HIDE DEF b, v
  <1>7. q \in FlowState /\ q.prior_cwnd <= CwndClamp /\ q.owed <= q.prior_cwnd
    BY <1>1, <1>4, <1>5, Zenon DEF Covered
  <1> HIDE DEF q
  <1>8. c \in Nat /\ c <= CwndClamp
    BY WindowTypes, SMT
  <1>9. l \in FlowState
    BY <1>7, <1>8, ZenonT(40) DEF FlowState, CaStates
  <1>10. /\ l.ca_state = "Loss" /\ l.snd_cwnd = c
         /\ l.prior_cwnd = q.prior_cwnd /\ l.owed = q.owed
    BY <1>7, SMT DEF FlowState
  <1> HIDE DEF l
  <1>11. t \in FlowState
    BY <1>9, LeoCCAssumption, ZenonT(40) DEF leocc_set_state_loss, FlowState, CaStates
  <1>12. /\ t.ca_state = l.ca_state /\ t.prev_ca_state = "Loss" /\ t.snd_cwnd = l.snd_cwnd
         /\ t.prior_cwnd = l.prior_cwnd /\ t.owed = l.owed
    BY <1>9, SMT DEF leocc_set_state_loss, FlowState
  <1> HIDE DEF t
  <1>13. "Loss" # "Recovery"
    OBVIOUS
  <1>14. Covered(t)
    BY <1>7, <1>8, <1>10, <1>12, <1>13, Zenon DEF Covered
  <1> QED
    BY <1>3, <1>11, <1>14, OnlyFlowCovered

\* A recovery ends, undone or not: prev_ca_state keeps the episode open until the
\* next ACK has restored the window.
LEMMA LeaveRecoveryCovered ==
    ASSUME WindowInv, NEW f \in Flows, LeaveRecovery(f)
    PROVE  AllCovered'
  <1> DEFINE s == flow[f]
             v == leocc_undo_cwnd(s)
  <1>1. s \in FlowState /\ Covered(s)
    BY WindowOf
  <1>2. PICK undo \in BOOLEAN :
          OnlyFlow(f, [IF undo THEN v ELSE s EXCEPT !.ca_state = "Open"])
    BY Zenon DEF LeaveRecovery
  <1>3. InRecovery(s.ca_state)
    BY DEF LeaveRecovery
  <1> DEFINE q == IF undo THEN v ELSE s
             t == [q EXCEPT !.ca_state = "Open"]
  <1>4. OnlyFlow(f, t)
    BY <1>2
  <1> HIDE DEF s
  <1>5. v \in FlowState /\ Keeps(s, v)
    <2>1. 0 \in Bandwidths /\ 0 \in 0 .. 3
      BY LeoCCAssumption, SMT
    <2>2. v \in FlowState
      BY <1>1, <2>1, ZenonT(40) DEF leocc_undo_cwnd, FlowState
    <2>3. Keeps(s, v)
      BY <1>1, SMT DEF leocc_undo_cwnd, FlowState, Keeps
    <2> QED
      BY <2>2, <2>3
  <1> HIDE DEF v
  <1>6. q \in FlowState /\ Covered(q) /\ InEpisode(q)
    <2>1. q.ca_state = s.ca_state
      BY <1>5, Zenon DEF Keeps
    <2>2. q \in FlowState /\ Covered(q)
      BY <1>1, <1>5, KeepsCovered
    <2> HIDE DEF q
    <2> QED
      BY <1>3, <2>1, <2>2, Zenon DEF InEpisode
  <1> HIDE DEF q
  <1>7. /\ t.ca_state = "Open" /\ t.prev_ca_state = q.prev_ca_state
        /\ t.mode = q.mode /\ t.snd_cwnd = q.snd_cwnd
        /\ t.prior_cwnd = q.prior_cwnd /\ t.owed = q.owed
    BY <1>6, SMT DEF FlowState
  <1>8. t \in FlowState
    BY <1>6, ZenonT(40) DEF FlowState, CaStates
  <1> HIDE DEF t
  <1>9. t.ca_state # "Loss" /\ t.ca_state # "Recovery"
    BY <1>7, SMT
  <1>10. Covered(t)
    BY <1>6, <1>7, <1>9, Zenon DEF Covered, Owes
  <1> QED
    BY <1>4, <1>8, <1>10, OnlyFlowCovered

\* Time is not about the window.
LEMMA TickCovered ==
    ASSUME WindowInv, Tick
    PROVE  AllCovered'
  <1> DEFINE h(f) == IF flow[f].mode = "PROBE_RTT"
                     THEN Min2(flow[f].held + 1, ProbeRttTime + 1) ELSE 0
             n(f) == [flow[f] EXCEPT !.held = h(f)]
  <1>1. flow' = [f \in Flows |-> n(f)]
    BY DEF Tick
  <1>2. ASSUME NEW f \in Flows PROVE Covered(n(f))
    <2>1. flow[f] \in FlowState /\ Covered(flow[f])
      BY WindowOf
    <2> HIDE DEF h
    <2>2. Keeps(flow[f], n(f))
      BY <2>1, SMT DEF FlowState, Keeps
    <2> HIDE DEF n
    <2> QED
      BY <2>1, <2>2, KeepsCovered
  <1> HIDE DEF n
  <1> QED
    BY <1>1, <1>2, Zenon DEF AllCovered

\* No flow starts inside an episode, and the initial window is within the clamp.
LEMMA InitCovered == Init => AllCovered
  <1> SUFFICES ASSUME Init, NEW f \in Flows PROVE Covered(flow[f])
    BY DEF AllCovered
  <1>1. PICK m \in Rtts \cup {NoRtt} : flow[f] = InitialFlow(m, CwndMinTarget)
    BY Zenon DEF Init
  <1>2. 0 <= CwndClamp /\ CwndMinTarget <= CwndClamp
    BY LeoCCAssumption, SMT
  <1>3. LET s == InitialFlow(m, CwndMinTarget)
        IN  /\ s.ca_state = "Open" /\ s.prev_ca_state = "Open" /\ s.mode = "STARTUP"
            /\ s.snd_cwnd = CwndMinTarget /\ s.prior_cwnd = 0 /\ s.owed = 0
    BY SMT DEF InitialFlow
  <1>4. /\ ~InRecovery("Open") /\ "Open" # "Loss" /\ "Open" # "Recovery" /\ "Open" # "CWR"
        /\ "STARTUP" # "PROBE_RTT"
    BY SMT DEF InRecovery
  <1> QED
    BY <1>1, <1>2, <1>3, <1>4, Zenon DEF Covered, Owes, InEpisode

\* Every step preserves the invariant.
LEMMA NextCovered == WindowInv /\ [Next]_vars => WindowInv'
  <1> SUFFICES ASSUME WindowInv, [Next]_vars PROVE AllCovered'
    BY NextInv, Zenon DEF WindowInv
  <1>1. ASSUME NEW f \in Flows, FlowNext(f) PROVE AllCovered'
    BY <1>1, AckCovered, CwndEventCovered, EnterCwrCovered, LeaveCwrCovered,
       EnterRecoveryCovered, EnterLossCovered, LeaveRecoveryCovered, Zenon DEF FlowNext
  <1>2. ASSUME UNCHANGED flow PROVE AllCovered'
    BY <1>2, Zenon DEF WindowInv, AllCovered
  <1>3. NetlinkHandler \/ UNCHANGED vars => UNCHANGED flow
    BY Zenon DEF NetlinkHandler, vars
  <1> QED
    BY <1>1, <1>2, <1>3, TickCovered, Zenon DEF Next

\* PROBE_RTT and loss recoveries may overlap in every order, begin in CWR or outside
\* it, end by an ACK, an undo or the resumption of sending: the saved window
\* (leocc.c:240-249) is never less than the window the flow had before the first of
\* them, or when the CWR before it began, should that be less.
THEOREM SavedWindowCoversEpisode == Spec => []PriorCwndCoversEpisode
  <1>1. WindowInv => PriorCwndCoversEpisode
    <2> SUFFICES ASSUME WindowInv, NEW f \in Flows, InEpisode(flow[f])
                 PROVE  flow[f].prior_cwnd >= flow[f].owed
      BY DEF PriorCwndCoversEpisode
    <2>1. flow[f] \in FlowState /\ Covered(flow[f])
      BY WindowOf
    <2> QED
      BY <2>1, WindowTypes, SMT DEF Covered, Owes
  <1>2. Init => WindowInv
    BY InitInv, InitCovered DEF WindowInv
  <1> QED
    BY <1>1, <1>2, NextCovered, PTL DEF Spec

\* No helper leaves a window beyond snd_cwnd_clamp: leocc_check_probe_rtt_done,
\* which does not apply it, restores a window that was within it.
THEOREM WindowsAreClamped == Spec => []WindowWithinClamp
  <1>1. WindowInv => WindowWithinClamp
    <2> SUFFICES ASSUME WindowInv, NEW f \in Flows
                 PROVE  flow[f].snd_cwnd <= CwndClamp /\ flow[f].prior_cwnd <= CwndClamp
      BY DEF WindowWithinClamp
    <2>1. Covered(flow[f])
      BY WindowOf
    <2> QED
      BY <2>1, Zenon DEF Covered
  <1>2. Init => WindowInv
    BY InitInv, InitCovered DEF WindowInv
  <1> QED
    BY <1>1, <1>2, NextCovered, PTL DEF Spec
-----------------------------------------------------------------------------
(* Jiffies                                                                  *)

\* Adding less than one turn of the clock wraps at most once, in either direction.
LEMMA WrapsOnce ==
    ASSUME NEW x \in Int, -JiffyMod <= x, x < 2 * JiffyMod
    PROVE  x % JiffyMod = IF x < 0 THEN x + JiffyMod
                          ELSE IF x < JiffyMod THEN x ELSE x - JiffyMod
  <1> DEFINE J == JiffyMod
             q == x \div J
             m == x % J
  <1>1. J \in Nat /\ J >= 1
    BY LeoCCAssumption
  <1> HIDE DEF J
  <1>2. q \in Int /\ m \in 0 .. J - 1 /\ x = J * q + m
    BY <1>1, SMT
  <1>3. -J <= x /\ x < 2 * J
    BY DEF J
  <1> HIDE DEF q, m
  <1>4. q \in {-1, 0, 1}
    <2>1. ~(q >= 2)
      <3> SUFFICES ASSUME q >= 2 PROVE FALSE
        OBVIOUS
      <3>1. J * q >= J * 2
        BY <1>1, <1>2, SMT
      <3> QED
        BY <1>1, <1>2, <1>3, <3>1, SMT
    <2>2. ~(q <= -2)
      <3> SUFFICES ASSUME q <= -2 PROVE FALSE
        OBVIOUS
      <3>1. J * q <= J * (-2)
        BY <1>1, <1>2, SMT
      <3> QED
        BY <1>1, <1>2, <1>3, <3>1, SMT
    <2> QED
      BY <1>2, <2>1, <2>2, SMT
  <1>5. m = IF x < 0 THEN x + J ELSE IF x < J THEN x ELSE x - J
    <2>1. CASE q = -1
      BY <1>1, <1>2, <2>1, SMT
    <2>2. CASE q = 0
      BY <1>1, <1>2, <2>2, SMT
    <2>3. CASE q = 1
      BY <1>1, <1>2, <2>3, SMT
    <2> QED
      BY <1>4, <2>1, <2>2, <2>3
  <1> QED
    BY <1>5 DEF m, J

\* The stamp of a probe that has been held for at most ProbeRttTime jiffies.
StampOf(t, held) == (t - held + ProbeRttTime) % JiffyMod

\* That stamp is not over yet, also when it has wrapped,
LEMMA StampNotOver ==
    ASSUME now \in Jiffies, NEW held \in 0 .. ProbeRttTime
    PROVE  ~After(now, StampOf(now, held))
  <1> DEFINE J == JiffyMod
             P == ProbeRttTime
             x == now - held + P
             s == x % J
             y == now - s
  <1>1. J \in Nat /\ J >= 1 /\ P \in Nat /\ 2 * P < J /\ now \in 0 .. J - 1 /\ held \in 0 .. P
    BY LeoCCAssumption DEF Jiffies
  <1>2. x \in Int /\ 0 <= x /\ x < 2 * J
    BY <1>1, SMT
  <1>3. s = IF x < 0 THEN x + J ELSE IF x < J THEN x ELSE x - J
    BY <1>1, <1>2, WrapsOnce
  <1> HIDE DEF s
  <1>4. y \in Int /\ -J <= y /\ y < 2 * J
    BY <1>1, <1>2, <1>3, SMT
  <1>5. y % J = IF y < 0 THEN y + J ELSE IF y < J THEN y ELSE y - J
    BY <1>1, <1>4, WrapsOnce
  <1> DEFINE z == y % J
  <1> HIDE DEF z
  <1>6. z = 0 \/ z > J \div 2
    BY <1>1, <1>2, <1>3, <1>5, SMT DEF z
  <1>7. ~(z \in 1 .. J \div 2)
    BY <1>1, <1>6, SMT
  <1> QED
    BY <1>7 DEF After, StampOf, z, s

\* and it stays the same as time passes.
LEMMA StampTicks ==
    ASSUME now \in Jiffies, NEW held \in Nat, held + 1 \in 0 .. ProbeRttTime
    PROVE  StampOf((now + 1) % JiffyMod, held + 1) = StampOf(now, held)
  <1> DEFINE J == JiffyMod
             P == ProbeRttTime
             n == (now + 1) % J
             x == now - held + P
             y == n - (held + 1) + P
  <1>1. J \in Nat /\ J >= 1 /\ P \in Nat /\ 2 * P < J /\ now \in 0 .. J - 1 /\ held + 1 \in 0 .. P
    BY LeoCCAssumption DEF Jiffies
  <1>2. n = IF now + 1 < J THEN now + 1 ELSE now + 1 - J
    BY <1>1, WrapsOnce
  <1> HIDE DEF n
  <1>3. x \in Int /\ 0 <= x /\ x < 2 * J /\ y \in Int /\ -J <= y /\ y < 2 * J
    BY <1>1, <1>2, SMT
  <1>4. /\ x % J = IF x < 0 THEN x + J ELSE IF x < J THEN x ELSE x - J
        /\ y % J = IF y < 0 THEN y + J ELSE IF y < J THEN y ELSE y - J
    BY <1>1, <1>3, WrapsOnce
  <1>5. x % J = y % J
    BY <1>1, <1>2, <1>3, <1>4, SMT
  <1> QED
    BY <1>5 DEF StampOf, n

-----------------------------------------------------------------------------
(* What a step may do to the phase of a flow                                *)

\* What a flow has measured since it left STARTUP, and whether a round has begun since
\* its probe was stamped, are histories: they cover what the filters hold, and the
\* round the module counts.
Measured(s) ==
    /\ s.latest_bw \in s.measured
    /\ s.reconfiguration_max_bw \in s.measured \cup {0}
Rounds(s) ==
    s.mode = "PROBE_RTT" /\ s.probe_rtt_done_stamp # 0 /\ s.probe_rtt_round_done
        => s.round_held
Books(s) == Measured(s) /\ Rounds(s)

\* On an ACK, once leocc_update_bw has run.
Begun(s) == s.round_start => s.round_held

\* A probe that ends has seen a round begin.
Left(s, t) == s.mode = "PROBE_RTT" /\ t.mode # "PROBE_RTT" => t.round_held

SameEntries(s, t) ==
    /\ t.round_held = s.round_held /\ t.probe_rtt_round_done = s.probe_rtt_round_done
    /\ t.latest_bw = s.latest_bw /\ t.measured = s.measured
    /\ t.reconfiguration_max_bw = s.reconfiguration_max_bw

\* The step from s to t does not touch the mode, the cycle or the probe's stamp.
SamePhase(s, t) ==
    /\ t.mode = s.mode /\ t.cycle_idx = s.cycle_idx
    /\ t.probe_rtt_done_stamp = s.probe_rtt_done_stamp /\ t.held = s.held

\* Nor what a restart has set up.
SameRestart(s, t) ==
    /\ SamePhase(s, t)
    /\ t.local_trigger = s.local_trigger /\ t.bw = s.bw
    /\ SameEntries(s, t)
    /\ t.full_bw = s.full_bw /\ t.full_bw_cnt = s.full_bw_cnt

\* A flow that has just been sent back to STARTUP.
Restarted(t) ==
    /\ t.local_trigger /\ t.bw = t.reconfiguration_max_bw
    /\ t.full_bw = 0 /\ t.full_bw_cnt = 0

\* PROBE_RTT ends only when its stamp is over, STARTUP is entered only from it, the
\* cycle does not begin in phase 1, and a stamp is taken from the present.
PhaseStep(s, t) ==
    /\ s.mode = "PROBE_RTT" /\ t.mode # "PROBE_RTT"
          => s.probe_rtt_done_stamp # 0 /\ After(now, s.probe_rtt_done_stamp)
    /\ s.mode # "STARTUP" /\ t.mode = "STARTUP" => s.mode = "PROBE_RTT" /\ Restarted(t)
    /\ t.mode = "CRUISE" /\ t.cycle_idx = 1 => s.mode = "CRUISE" /\ s.cycle_idx = 1
    /\ t.mode = "PROBE_RTT" /\ t.probe_rtt_done_stamp # 0
          => \/ t.held = 0 /\ t.probe_rtt_done_stamp = StampOf(now, 0)
             \/ /\ s.mode = "PROBE_RTT"
                /\ t.probe_rtt_done_stamp = s.probe_rtt_done_stamp /\ t.held = s.held

\* A step that leaves the phase alone is one; such a step may precede one, and one
\* that leaves the restart alone may follow it.
LEMMA PhaseSteps ==
    ASSUME NEW s, NEW t, NEW u
    PROVE  /\ SamePhase(s, t) => PhaseStep(s, t)
           /\ SamePhase(s, t) /\ PhaseStep(t, u) => PhaseStep(s, u)
           /\ PhaseStep(s, t) /\ SameRestart(t, u) => PhaseStep(s, u)
           /\ SamePhase(s, t) /\ SamePhase(t, u) => SamePhase(s, u)
           /\ SameRestart(s, t) /\ SameRestart(t, u) => SameRestart(s, u)
           /\ SameRestart(s, t) => SamePhase(s, t)
  BY Zenon DEF SamePhase, SameRestart, SameEntries, PhaseStep, Restarted

\* What keeps the books.
LEMMA BooksSteps ==
    ASSUME NEW s, NEW t
    PROVE  /\ SameEntries(s, t) /\ SamePhase(s, t) /\ Books(s) => Books(t)
           /\ SameRestart(s, t) /\ Books(s) => Books(t)
           /\ SameEntries(s, t) /\ t.mode # "PROBE_RTT" /\ Books(s) => Books(t)
  BY Zenon DEF SameRestart, SamePhase, SameEntries, Books, Measured, Rounds

\* The filters, the minimum RTT and the window are not about the phase.
LEMMA OthersKeepPhase ==
    ASSUME NEW s \in FlowState, NEW rs \in RateSample, NEW max \in Bandwidths,
           NEW expired \in BOOLEAN
    PROVE  /\ SamePhase(s, leocc_update_bw(s, rs, max))
           /\ SamePhase(s, leocc_check_full_bw_reached(s, rs))
           /\ SamePhase(s, TakeMinRtt(s, rs, expired))
           /\ SamePhase(s, BeginEpisode(s))
           /\ SamePhase(s, leocc_save_cwnd(s))
           /\ SameRestart(s, leocc_update_gains(s))
  <1>1. SamePhase(s, leocc_update_bw(s, rs, max))
    BY SMT DEF leocc_update_bw, FlowState, SamePhase
  <1>2. SamePhase(s, leocc_check_full_bw_reached(s, rs))
    BY SMT DEF leocc_check_full_bw_reached, FlowState, SamePhase
  <1>3. SamePhase(s, TakeMinRtt(s, rs, expired))
    BY SMT DEF TakeMinRtt, FlowState, SamePhase
  <1>4. SamePhase(s, BeginEpisode(s)) /\ SamePhase(s, leocc_save_cwnd(s))
    BY SMT DEF BeginEpisode, leocc_save_cwnd, FlowState, SamePhase
  <1>5. SameRestart(s, leocc_update_gains(s))
    <2> DEFINE G(g) == [s EXCEPT !.pacing_gain = g]
    <2>1. ASSUME NEW g PROVE SameRestart(s, G(g))
      BY SMT DEF FlowState, SameRestart, SamePhase, SameEntries
    <2> HIDE DEF G
    <2>2. \E g : leocc_update_gains(s) = G(g)
      BY Zenon DEF leocc_update_gains, G
    <2> QED
      BY <2>1, <2>2, Zenon
  <1> QED
    BY <1>1, <1>2, <1>3, <1>4, <1>5

\* leocc_reset_probe_bw_mode draws the phase the cycle begins with; it is not 1, the
\* phase that drains the queue (leocc.c:457-464).
LEMMA CycleBegins ==
    ASSUME NEW s \in FlowState, NEW r \in CycleRand
    PROVE  LET t == leocc_reset_probe_bw_mode(s, r)
           IN  /\ t.mode = "CRUISE" /\ t.cycle_idx # 1
               /\ t.full_bw = s.full_bw /\ t.full_bw_cnt = s.full_bw_cnt
  <1> DEFINE L == CycleLen
             u == [s EXCEPT !.mode = "CRUISE", !.cycle_idx = L - 1 - r]
             i == (L - 1 - r + 1) % L
             t == leocc_advance_cycle_phase(u)
  <1>1. L \in Nat /\ L >= 2 /\ r \in 0 .. L - 2
    BY LeoCCAssumption, SMT DEF CycleRand
  <1>2. t.mode = "CRUISE" /\ t.cycle_idx = i
        /\ t.full_bw = s.full_bw /\ t.full_bw_cnt = s.full_bw_cnt
    BY SMT DEF leocc_advance_cycle_phase, FlowState
  <1> HIDE DEF t, L
  <1>3. i # 1
    <2>1. CASE r = 0
      <3>1. i = L % L
        BY <1>1, <2>1, SMT
      <3>2. L % L = 0
        BY <1>1, SMT
      <3> QED
        BY <3>1, <3>2
    <2>2. CASE r # 0
      <3>1. L - 1 - r + 1 = L - r /\ L - r \in 2 .. L - 1
        BY <1>1, <2>2, SMT
      <3>2. (L - r) % L = L - r
        BY <1>1, <3>1, SMT
      <3> QED
        BY <1>1, <3>1, <3>2, SMT
    <2> QED
      BY <2>1, <2>2
  <1> QED
    BY <1>2, <1>3, Zenon DEF leocc_reset_probe_bw_mode, t, L

\* Outside PROBE_RTT, leocc_check_drain does not enter STARTUP.
LEMMA CheckDrainPhase ==
    ASSUME NEW s \in FlowState, NEW rs \in RateSample, NEW r \in CycleRand
    PROVE  LET t == leocc_check_drain(s, rs, r)
           IN  /\ s.mode = "PROBE_RTT" => SamePhase(s, t)
               /\ s.mode # "PROBE_RTT" => t.mode # "PROBE_RTT"
               /\ s.mode # "STARTUP" => t.mode # "STARTUP"
               /\ t.mode = "CRUISE" /\ t.cycle_idx = 1 => s.mode = "CRUISE" /\ s.cycle_idx = 1
  <1> DEFINE e == [s EXCEPT !.reconfiguration_max_bw = 0, !.local_trigger = FALSE,
                            !.mode = "DRAIN", !.measured = {s.latest_bw}]
             d == EnterDrain(s)
             v == leocc_reset_probe_bw_mode(d, r)
             t == leocc_check_drain(s, rs, r)
  <1>1. e \in FlowState /\ e.mode = "DRAIN"
    <2>1. e \in FlowState
      <3>1. {s.latest_bw} \in SUBSET Bandwidths
        BY SMT DEF FlowState
      <3> QED
        BY <3>1, LeoCCAssumption, ZenonT(40) DEF FlowState, Modes
    <2>2. e.mode = "DRAIN"
      BY SMT DEF FlowState
    <2> QED
      BY <2>1, <2>2
  <1>2. (d = e /\ s.mode = "STARTUP") \/ d = s
    BY Zenon DEF EnterDrain
  <1> HIDE DEF d, e
  <1>3. d \in FlowState
    BY <1>1, <1>2, Zenon
  <1>4. v.mode = "CRUISE" /\ v.cycle_idx # 1
    BY <1>3, CycleBegins
  <1> HIDE DEF v
  <1>5. t = IF d.mode = "DRAIN" /\ rs.drained THEN v ELSE d
    BY Zenon DEF leocc_check_drain, d, v
  <1> HIDE DEF t
  <1>6. SamePhase(s, s)
    BY DEF SamePhase
  <1> QED
    BY <1>1, <1>2, <1>4, <1>5, <1>6 DEF t

\* The end of PROBE_RTT: its stamp is over, and the flow restarts only with the
\* trigger up and a filter that holds what the probe has measured (leocc.c:585-600).
LEMMA ProbeDonePhase ==
    ASSUME NEW s \in FlowState, NEW r \in CycleRand,
           s.mode = "PROBE_RTT", s.full_bw_reached
    PROVE  PhaseStep(s, leocc_check_probe_rtt_done(s, r))
  <1> DEFINE m == Max2(s.snd_cwnd, s.prior_cwnd)
             w == [s EXCEPT !.snd_cwnd = m]
             u == leocc_reset_startup_mode(w)
             v == leocc_reset_probe_bw_mode(w, r)
             x == leocc_reset_mode(w, r)
             y == [x EXCEPT !.bw = x.reconfiguration_max_bw]
             t == leocc_check_probe_rtt_done(s, r)
             over == s.probe_rtt_done_stamp # 0 /\ After(now, s.probe_rtt_done_stamp)
  <1>1. w \in FlowState
    <2>1. m \in Nat
      BY WindowTypes, SMT DEF Max2
    <2> QED
      BY <2>1, ZenonT(40) DEF FlowState
  <1>2. w.full_bw_reached
    BY SMT DEF FlowState
  <1> HIDE DEF w
  <1>3. u \in FlowState /\ u.mode = "STARTUP" /\ u.full_bw = 0 /\ u.full_bw_cnt = 0
        /\ u.local_trigger = w.local_trigger
    <2>1. u.mode = "STARTUP" /\ u.full_bw = 0 /\ u.full_bw_cnt = 0
          /\ u.local_trigger = w.local_trigger
      BY <1>1, SMT DEF leocc_reset_startup_mode, FlowState
    <2>2. 0 \in Bandwidths /\ 0 \in 0 .. 3
      BY LeoCCAssumption, SMT
    <2>3. u \in FlowState
      BY <1>1, <2>2, ZenonT(40) DEF leocc_reset_startup_mode, FlowState, Modes
    <2> QED
      BY <2>1, <2>3
  <1>4. v \in FlowState /\ v.mode = "CRUISE" /\ v.cycle_idx # 1
    BY <1>1, CycleBegins, ResetProbeBwMode
  <1> HIDE DEF u, v
  <1>5. x = IF w.local_trigger THEN u ELSE v
    BY <1>2, Zenon DEF leocc_reset_mode, u, v
  <1> HIDE DEF x
  <1>6. x \in FlowState
    BY <1>3, <1>4, <1>5, Zenon
  <1>7. /\ y.mode = x.mode /\ y.cycle_idx = x.cycle_idx
        /\ y.local_trigger = x.local_trigger /\ y.full_bw = x.full_bw
        /\ y.full_bw_cnt = x.full_bw_cnt
        /\ y.bw = y.reconfiguration_max_bw
    BY <1>6, SMT DEF FlowState
  <1> HIDE DEF y
  <1>8. t = IF over THEN IF x.local_trigger THEN y ELSE x ELSE s
    BY Zenon DEF leocc_check_probe_rtt_done, w, x, y, m
  <1> HIDE DEF t
  <1>9. SamePhase(s, s)
    BY DEF SamePhase
  <1>10. "STARTUP" # "CRUISE" /\ "STARTUP" # "PROBE_RTT" /\ "CRUISE" # "PROBE_RTT"
    OBVIOUS
  <1>11. CASE over /\ w.local_trigger
    <2>1. t = y /\ y.mode = "STARTUP" /\ Restarted(y)
      BY <1>3, <1>5, <1>7, <1>8, <1>11, Zenon DEF Restarted
    <2> QED
      BY <1>10, <1>11, <2>1, Zenon DEF PhaseStep, t
  <1>12. CASE over /\ ~w.local_trigger
    <2>1. t.mode = "CRUISE" /\ t.cycle_idx # 1
      BY <1>4, <1>5, <1>7, <1>8, <1>12, Zenon
    <2> QED
      BY <1>10, <1>12, <2>1, Zenon DEF PhaseStep, t
  <1>13. CASE ~over
    BY <1>8, <1>9, <1>13, PhaseSteps, Zenon DEF t
  <1> QED
    BY <1>11, <1>12, <1>13, Zenon

\* PROBE_RTT begins in CRUISE, with its stamp unset.
LEMMA EnterProbeRttPhase ==
    ASSUME NEW s \in FlowState, NEW expired \in BOOLEAN
    PROVE  LET t == EnterProbeRtt(s, expired)
           IN  \/ t = s
               \/ s.mode = "CRUISE" /\ t.mode = "PROBE_RTT" /\ t.probe_rtt_done_stamp = 0
  <1> DEFINE b == BeginEpisode(s)
             p == [b EXCEPT !.mode = "PROBE_RTT", !.probe_rtt_done_stamp = 0, !.held = 0]
             v == leocc_save_cwnd(p)
  <1>1. b \in FlowState
    BY Episode
  <1> HIDE DEF b
  <1>2. p \in FlowState
    <2>1. 0 \in Jiffies /\ 0 \in 0 .. ProbeRttTime + 1
      BY LeoCCAssumption, SMT DEF Jiffies
    <2> QED
      BY <1>1, <2>1, ZenonT(40) DEF FlowState, Modes
  <1>3. p.mode = "PROBE_RTT" /\ p.probe_rtt_done_stamp = 0
    BY <1>1, SMT DEF FlowState
  <1> HIDE DEF p
  <1>4. v.mode = "PROBE_RTT" /\ v.probe_rtt_done_stamp = 0
    <2>1. v.mode = p.mode /\ v.probe_rtt_done_stamp = p.probe_rtt_done_stamp
      BY <1>2, SMT DEF leocc_save_cwnd, FlowState
    <2> QED
      BY <1>3, <2>1
  <1> HIDE DEF v
  <1> QED
    BY <1>4, Zenon DEF EnterProbeRtt, b, p, v

\* In PROBE_RTT the stamp is taken, kept, or found to be over.
LEMMA InProbeRttPhase ==
    ASSUME NEW s \in FlowState, NEW rs \in RateSample, NEW r \in CycleRand,
           s.mode = "PROBE_RTT" => s.full_bw_reached, now \in Jiffies
    PROVE  PhaseStep(s, InProbeRtt(s, rs, r))
  <1> DEFINE done == s.probe_rtt_round_done \/ s.round_start
             stamp == (now + ProbeRttTime) % JiffyMod
             a == [s EXCEPT !.probe_rtt_done_stamp = stamp,
                            !.probe_rtt_round_done = FALSE,
                            !.held = 0, !.round_held = FALSE]
             t == [s EXCEPT !.probe_rtt_round_done = done]
             m == [t EXCEPT !.min_rtt_us = rs.rtt % RttMod, !.min_rtt_stamp = now]
             n == IF After(now, s.probe_rtt_done_stamp) THEN m ELSE t
             c == leocc_check_probe_rtt_done(n, r)
  <1>1. stamp = StampOf(now, 0)
    BY LeoCCAssumption, SMT DEF Jiffies, StampOf
  <1> HIDE DEF stamp
  <1>2. a.mode = s.mode /\ a.held = 0 /\ a.probe_rtt_done_stamp = stamp
    BY SMT DEF FlowState
  <1> HIDE DEF a
  <1>3. PhaseStep(s, s) /\ (s.mode = "PROBE_RTT" => PhaseStep(s, a))
    <2>1. SamePhase(s, s)
      BY DEF SamePhase
    <2>2. "PROBE_RTT" # "STARTUP" /\ "PROBE_RTT" # "CRUISE"
      OBVIOUS
    <2> QED
      BY <1>1, <1>2, <2>1, <2>2, PhaseSteps, Zenon DEF PhaseStep
  <1>4. t \in FlowState /\ SamePhase(s, t) /\ SameMode(s, t)
    <2>1. done \in BOOLEAN
      BY ZenonT(40) DEF FlowState
    <2> HIDE DEF done
    <2>2. t \in FlowState
      BY <2>1, ZenonT(40) DEF FlowState
    <2>3. SamePhase(s, t) /\ SameMode(s, t)
      BY SMT DEF FlowState, SamePhase, SameMode
    <2> QED
      BY <2>2, <2>3
  <1> HIDE DEF t
  <1>5. m \in FlowState /\ SamePhase(t, m) /\ SameMode(t, m)
    <2>1. rs.rtt % RttMod \in 0 .. RttMod - 1
      BY RttRange
    <2>2. m \in FlowState
      BY <1>4, <2>1, ZenonT(40) DEF FlowState
    <2>3. SamePhase(t, m) /\ SameMode(t, m)
      BY <1>4, SMT DEF FlowState, SamePhase, SameMode
    <2> QED
      BY <2>2, <2>3
  <1> HIDE DEF m
  <1>6. n \in FlowState /\ SamePhase(s, n) /\ SameMode(s, n)
    BY <1>4, <1>5, PhaseSteps, Zenon DEF SameMode
  <1> HIDE DEF n
  <1>7. s.mode = "PROBE_RTT" => PhaseStep(s, c)
    <2> SUFFICES ASSUME s.mode = "PROBE_RTT" PROVE PhaseStep(s, c)
      OBVIOUS
    <2>1. n.mode = "PROBE_RTT" /\ n.full_bw_reached
      BY <1>6, Zenon DEF SameMode
    <2>2. PhaseStep(n, c)
      BY <1>6, <2>1, ProbeDonePhase
    <2> QED
      BY <1>6, <2>2, PhaseSteps, Zenon
  <1> HIDE DEF c
  <1>8. \/ InProbeRtt(s, rs, r) = s
        \/ s.mode = "PROBE_RTT" /\ InProbeRtt(s, rs, r) \in {s, a, c}
    BY Zenon DEF InProbeRtt, stamp, a, t, m, n, c, done
  <1> QED
    BY <1>3, <1>7, <1>8, Zenon

\* leocc_update_min_rtt: a probe that begins on an ACK does not end on it.
LEMMA UpdateMinRttPhase ==
    ASSUME NEW s \in FlowState, NEW rs \in RateSample, NEW r \in CycleRand,
           ModeMatches(s), now \in Jiffies
    PROVE  PhaseStep(s, leocc_update_min_rtt(s, rs, r))
  <1> DEFINE expired == FilterExpired(s)
             a == TakeMinRtt(s, rs, expired)
             b == EnterProbeRtt(a, expired)
             t == InProbeRtt(b, rs, r)
             i == [t EXCEPT !.idle_restart = FALSE]
  <1>1. expired \in BOOLEAN
    BY SMT DEF FilterExpired, After
  <1>2. a \in FlowState /\ SamePhase(s, a) /\ SameMode(s, a)
    <2>1. 0 \in Bandwidths
      BY LeoCCAssumption
    <2> QED
      BY <1>1, <2>1, TakeMinRttType, OthersKeepPhase
  <1>3. ModeMatches(a)
    BY <1>2, Zenon DEF ModeMatches, SameMode
  <1> HIDE DEF a, expired
  <1>4. b \in FlowState /\ ModeMatches(b)
    BY <1>1, <1>2, <1>3, EnterProbeRttMode
  <1>5. \/ b = a
        \/ a.mode = "CRUISE" /\ b.mode = "PROBE_RTT" /\ b.probe_rtt_done_stamp = 0
    BY <1>1, <1>2, EnterProbeRttPhase
  <1> HIDE DEF b
  <1>6. t \in FlowState /\ PhaseStep(b, t)
    <2>1. b.mode = "PROBE_RTT" => b.full_bw_reached
      BY <1>4, SMT DEF ModeMatches
    <2> QED
      BY <1>4, <2>1, InProbeRttMode, InProbeRttPhase
  <1> HIDE DEF t
  <1>7. PhaseStep(a, t)
    <2>1. CASE b = a
      BY <1>6, <2>1
    <2>2. CASE a.mode = "CRUISE" /\ b.mode = "PROBE_RTT" /\ b.probe_rtt_done_stamp = 0
      <3>1. "CRUISE" # "PROBE_RTT" /\ "STARTUP" # "PROBE_RTT"
        OBVIOUS
      <3>2. t.mode = "PROBE_RTT"
        BY <1>6, <2>2, Zenon DEF PhaseStep
      <3> QED
        BY <1>6, <2>2, <3>1, <3>2, Zenon DEF PhaseStep
    <2> QED
      BY <1>5, <2>1, <2>2
  <1>8. PhaseStep(s, t)
    BY <1>2, <1>7, PhaseSteps
  <1>9. SameRestart(t, i)
    BY <1>6, SMT DEF FlowState, SameRestart, SamePhase, SameEntries
  <1> HIDE DEF i
  <1> QED
    BY <1>8, <1>9, PhaseSteps, Zenon DEF leocc_update_min_rtt, expired, a, b, t, i

\* Phase 1 is reached from phase 0 of the cycle alone.
LEMMA UpdateCyclePhasePhase ==
    ASSUME NEW s \in FlowState, NEW rs \in RateSample
    PROVE  LET t == leocc_update_cycle_phase(s, rs)
           IN  /\ t.mode = s.mode
               /\ s.mode # "CRUISE" => SamePhase(s, t)
               /\ t.probe_rtt_done_stamp = s.probe_rtt_done_stamp /\ t.held = s.held
               /\ t.cycle_idx = 1 /\ t.mode = "CRUISE" => s.cycle_idx \in {0, 1}
  <1> DEFINE L == CycleLen
             i == (s.cycle_idx + 1) % L
             a == leocc_advance_cycle_phase(s)
             t == leocc_update_cycle_phase(s, rs)
  <1>1. L \in Nat /\ L >= 2 /\ s.cycle_idx \in 0 .. L - 1
    <2>1. s.cycle_idx \in 0 .. L - 1
      BY ZenonT(40) DEF FlowState
    <2> QED
      BY <2>1, LeoCCAssumption
  <1>2. /\ a.mode = s.mode /\ a.cycle_idx = i
        /\ a.probe_rtt_done_stamp = s.probe_rtt_done_stamp /\ a.held = s.held
    BY SMT DEF leocc_advance_cycle_phase, FlowState
  <1> HIDE DEF L, a
  <1>3. i = 1 => s.cycle_idx \in {0, 1}
    <2>1. CASE s.cycle_idx = L - 1
      <3>1. i = L % L
        BY <1>1, <2>1, SMT
      <3>2. L % L = 0
        BY <1>1, SMT
      <3> QED
        BY <3>1, <3>2
    <2>2. CASE s.cycle_idx # L - 1
      <3>1. s.cycle_idx + 1 \in 0 .. L - 1
        BY <1>1, <2>2, SMT
      <3>2. (s.cycle_idx + 1) % L = s.cycle_idx + 1
        BY <1>1, <3>1, SMT
      <3> QED
        BY <1>1, <3>2, SMT
    <2> QED
      BY <2>1, <2>2
  <1>4. t = IF s.mode = "CRUISE" /\ rs.phase_over THEN a ELSE s
    BY Zenon DEF leocc_update_cycle_phase, a
  <1>5. SamePhase(s, s) /\ (s.cycle_idx = 1 => s.cycle_idx \in {0, 1})
    BY DEF SamePhase
  <1> HIDE DEF t, i
  <1>6. CASE t = a /\ s.mode = "CRUISE"
    BY <1>2, <1>3, <1>6, Zenon DEF t
  <1>7. CASE t = s
    BY <1>5, <1>7, Zenon DEF t
  <1> QED
    BY <1>4, <1>6, <1>7, Zenon

\* The phase of a flow as the cycle may advance on the way.
CycleStep(s, t) ==
    /\ s.mode = "PROBE_RTT" /\ t.mode # "PROBE_RTT"
          => s.probe_rtt_done_stamp # 0 /\ After(now, s.probe_rtt_done_stamp)
    /\ s.mode # "STARTUP" /\ t.mode = "STARTUP" => s.mode = "PROBE_RTT" /\ Restarted(t)
    /\ t.mode = "CRUISE" /\ t.cycle_idx = 1 => s.mode = "CRUISE" /\ s.cycle_idx \in {0, 1}
    /\ t.mode = "PROBE_RTT" /\ t.probe_rtt_done_stamp # 0
          => \/ t.held = 0 /\ t.probe_rtt_done_stamp = StampOf(now, 0)
             \/ /\ s.mode = "PROBE_RTT"
                /\ t.probe_rtt_done_stamp = s.probe_rtt_done_stamp /\ t.held = s.held

\* Steps before and after that leave the phase alone.
LEMMA CycleSteps ==
    ASSUME NEW s, NEW t, NEW u
    PROVE  /\ PhaseStep(s, t) => CycleStep(s, t)
           /\ SamePhase(s, t) /\ CycleStep(t, u) => CycleStep(s, u)
           /\ CycleStep(s, t) /\ SameRestart(t, u) => CycleStep(s, u)
  <1>1. \A i : i = 1 => i \in {0, 1}
    OBVIOUS
  <1> QED
    BY <1>1, Zenon DEF SamePhase, SameRestart, SameEntries, PhaseStep, CycleStep, Restarted

\* The whole of leocc_update_model.
LEMMA UpdateModelPhase ==
    ASSUME NEW s \in FlowState, NEW rs \in RateSample, NEW r \in CycleRand,
           NEW max \in Bandwidths, ModeMatches(s), now \in Jiffies
    PROVE  CycleStep(s, leocc_update_model(s, rs, max, r))
  <1> DEFINE a == leocc_update_bw(s, rs, max)
             b == leocc_update_cycle_phase(a, rs)
             c == leocc_check_full_bw_reached(b, rs)
             d == leocc_check_drain(c, rs, r)
             e == leocc_update_min_rtt(d, rs, r)
             t == leocc_update_gains(e)
  <1>1. a \in FlowState /\ SameMode(s, a) /\ SamePhase(s, a)
    BY UpdateBw, OthersKeepPhase, Zenon
  <1> HIDE DEF a
  <1>2. b \in FlowState /\ SameMode(a, b)
    BY <1>1, UpdateCyclePhase
  <1>3. /\ b.mode = a.mode
        /\ a.mode # "CRUISE" => SamePhase(a, b)
        /\ b.probe_rtt_done_stamp = a.probe_rtt_done_stamp /\ b.held = a.held
        /\ b.cycle_idx = 1 /\ b.mode = "CRUISE" => a.cycle_idx \in {0, 1}
    BY <1>1, UpdateCyclePhasePhase
  <1> HIDE DEF b
  <1>4. /\ c \in FlowState /\ c.mode = b.mode /\ (b.full_bw_reached => c.full_bw_reached)
        /\ SamePhase(b, c)
    <2>1. 0 \in Bandwidths /\ TRUE \in BOOLEAN
      BY LeoCCAssumption
    <2> QED
      BY <1>2, <2>1, CheckFullBw, OthersKeepPhase, Zenon
  <1> HIDE DEF c
  <1>5. c.mode # "STARTUP" => c.full_bw_reached
    BY <1>1, <1>2, <1>4, Zenon DEF ModeMatches, SameMode
  <1>6. d \in FlowState /\ ModeMatches(d)
    BY <1>4, <1>5, CheckDrain
  <1>7. /\ c.mode = "PROBE_RTT" => SamePhase(c, d)
        /\ c.mode # "PROBE_RTT" => d.mode # "PROBE_RTT"
        /\ c.mode # "STARTUP" => d.mode # "STARTUP"
        /\ d.mode = "CRUISE" /\ d.cycle_idx = 1 => c.mode = "CRUISE" /\ c.cycle_idx = 1
    BY <1>4, CheckDrainPhase
  <1> HIDE DEF d
  <1>8. e \in FlowState /\ PhaseStep(d, e)
    BY <1>6, UpdateMinRtt, UpdateMinRttPhase
  <1> HIDE DEF e
  <1>9. /\ a.mode = "PROBE_RTT" => SamePhase(a, d)
        /\ a.mode # "PROBE_RTT" => d.mode # "PROBE_RTT"
        /\ a.mode # "STARTUP" => d.mode # "STARTUP"
        /\ d.mode = "CRUISE" /\ d.cycle_idx = 1 => a.mode = "CRUISE" /\ a.cycle_idx \in {0, 1}
    <2>1. "CRUISE" # "PROBE_RTT"
      OBVIOUS
    <2> QED
      BY <1>3, <1>4, <1>7, <2>1, PhaseSteps, Zenon DEF SamePhase
  <1>10. CycleStep(a, e)
    <2>1. CASE a.mode = "PROBE_RTT"
      BY <1>8, <1>9, <2>1, PhaseSteps, CycleSteps
    <2>2. CASE a.mode # "PROBE_RTT"
      <3>1. e.mode = "STARTUP" => d.mode = "STARTUP"
        BY <1>8, <1>9, <2>2, Zenon DEF PhaseStep
      <3> QED
        BY <1>8, <1>9, <2>2, <3>1, Zenon DEF PhaseStep, CycleStep
    <2> QED
      BY <2>1, <2>2
  <1>11. SameRestart(e, t)
    <2>1. 0 \in Bandwidths /\ TRUE \in BOOLEAN
      BY LeoCCAssumption
    <2> QED
      BY <1>8, <2>1, OthersKeepPhase, Zenon
  <1> HIDE DEF t
  <1>12. CycleStep(s, t)
    BY <1>1, <1>10, <1>11, CycleSteps
  <1> QED
    BY <1>12, Zenon DEF leocc_update_model, a, b, c, d, e, t

-----------------------------------------------------------------------------

\* An ACK's sample is entered, whether the filter takes it or not.
LEMMA UpdateBwBooks ==
    ASSUME NEW s \in FlowState, NEW rs \in RateSample, NEW max \in Bandwidths, Books(s)
    PROVE  LET t == leocc_update_bw(s, rs, max)
           IN  t.mode = s.mode /\ Books(t) /\ Begun(t)
  <1> DEFINE drop == /\ s.mode = "PROBE_RTT" /\ rs.rtt > 0
                     /\ s.rtt_hat_post > rs.rtt + DeltaThresh
             h == s.round_held \/ rs.round
             p == s.packet_conservation /\ ~rs.round
             m == IF drop THEN s.latest_bw ELSE s.reconfiguration_max_bw
             w == IF ~rs.app_limited \/ rs.bw >= s.bw THEN max ELSE s.bw
             a == [s EXCEPT !.round_start = FALSE]
             b == [s EXCEPT !.round_start = rs.round, !.round_held = h,
                            !.packet_conservation = p, !.reconfiguration_max_bw = m,
                            !.bw = w, !.latest_bw = rs.bw,
                            !.measured = s.measured \cup {rs.bw}]
             t == leocc_update_bw(s, rs, max)
  <1>0. m \in {s.latest_bw, s.reconfiguration_max_bw}
    BY Zenon
  <1>2. t = a \/ t = b
    BY Zenon DEF leocc_update_bw
  <1> HIDE DEF h, p, m, w, t
  <1>3. /\ a.mode = s.mode /\ a.probe_rtt_done_stamp = s.probe_rtt_done_stamp
        /\ a.probe_rtt_round_done = s.probe_rtt_round_done
        /\ a.latest_bw = s.latest_bw /\ a.measured = s.measured
        /\ a.reconfiguration_max_bw = s.reconfiguration_max_bw
        /\ a.round_held = s.round_held /\ a.round_start = FALSE
    BY SMT DEF FlowState
  <1>4. /\ b.mode = s.mode /\ b.probe_rtt_done_stamp = s.probe_rtt_done_stamp
        /\ b.probe_rtt_round_done = s.probe_rtt_round_done
        /\ b.latest_bw = rs.bw /\ b.measured = s.measured \cup {rs.bw}
        /\ b.reconfiguration_max_bw = m
        /\ b.round_held = h /\ b.round_start = rs.round
    BY SMT DEF FlowState
  <1> HIDE DEF a, b
  <1>5. (rs.round => h) /\ (s.round_held => h)
    BY Zenon DEF h
  <1>6. a.mode = s.mode /\ Books(a) /\ Begun(a)
    BY <1>3, Zenon DEF Books, Measured, Rounds, Begun
  <1>7. b.mode = s.mode /\ Books(b) /\ Begun(b)
    BY <1>0, <1>4, <1>5, Zenon DEF Books, Measured, Rounds, Begun
  <1> QED
    BY <1>2, <1>6, <1>7, Zenon DEF t

\* leocc_check_drain begins a new account where it resets the probe's maximum.
LEMMA CheckDrainBooks ==
    ASSUME NEW s \in FlowState, NEW rs \in RateSample, NEW r \in CycleRand,
           Books(s), Begun(s)
    PROVE  LET t == leocc_check_drain(s, rs, r)
           IN  /\ Books(t) /\ Begun(t)
               /\ (s.mode = "PROBE_RTT") <=> (t.mode = "PROBE_RTT")
  <1> DEFINE e == [s EXCEPT !.reconfiguration_max_bw = 0, !.local_trigger = FALSE,
                            !.mode = "DRAIN", !.measured = {s.latest_bw}]
             d == EnterDrain(s)
             v == leocc_reset_probe_bw_mode(d, r)
             t == leocc_check_drain(s, rs, r)
  <1>1. /\ e.mode = "DRAIN" /\ e.round_held = s.round_held /\ e.round_start = s.round_start
        /\ e.latest_bw = s.latest_bw /\ e.measured = {s.latest_bw}
        /\ e.reconfiguration_max_bw = 0
    BY SMT DEF FlowState
  <1>2. e \in FlowState
    <2>1. {s.latest_bw} \in SUBSET Bandwidths
      BY SMT DEF FlowState
    <2> QED
      BY <2>1, LeoCCAssumption, ZenonT(40) DEF FlowState, Modes
  <1>3. (d = e /\ s.mode = "STARTUP") \/ d = s
    BY Zenon DEF EnterDrain
  <1> HIDE DEF d, e
  <1>4. "DRAIN" # "PROBE_RTT" /\ "STARTUP" # "PROBE_RTT" /\ "CRUISE" # "PROBE_RTT"
    OBVIOUS
  <1>5. Books(e) /\ Begun(e)
    BY <1>1, <1>4, Zenon DEF Books, Measured, Rounds, Begun
  <1>6. /\ d \in FlowState /\ Books(d) /\ Begun(d)
        /\ (s.mode = "PROBE_RTT") <=> (d.mode = "PROBE_RTT")
    BY <1>1, <1>2, <1>3, <1>4, <1>5, Zenon
  <1>7. SameEntries(d, v) /\ v.round_start = d.round_start /\ v.mode = "CRUISE"
    BY <1>6, SMT DEF leocc_reset_probe_bw_mode, leocc_advance_cycle_phase, FlowState,
                     SameEntries
  <1>8. Books(v) /\ Begun(v)
    BY <1>4, <1>6, <1>7, BooksSteps, Zenon DEF Begun, SameEntries
  <1> HIDE DEF v
  <1>9. t = IF d.mode = "DRAIN" /\ rs.drained THEN v ELSE d
    BY Zenon DEF leocc_check_drain, d, v
  <1> HIDE DEF t
  <1> QED
    BY <1>4, <1>6, <1>7, <1>8, <1>9, Zenon DEF t

\* The end of PROBE_RTT takes the bandwidth from the books and leaves them alone.
LEMMA ProbeDoneBooks ==
    ASSUME NEW s \in FlowState, NEW r \in CycleRand, s.mode = "PROBE_RTT", Books(s)
    PROVE  LET t == leocc_check_probe_rtt_done(s, r)
           IN  Books(t) /\ t.round_held = s.round_held
  <1> DEFINE w == [s EXCEPT !.snd_cwnd = Max2(@, s.prior_cwnd)]
             u == leocc_reset_startup_mode(w)
             v == leocc_reset_probe_bw_mode(w, r)
             x == leocc_reset_mode(w, r)
             y == [x EXCEPT !.bw = x.reconfiguration_max_bw]
             t == leocc_check_probe_rtt_done(s, r)
  <1>1. w \in FlowState
    <2>1. Max2(s.snd_cwnd, s.prior_cwnd) \in Nat
      BY WindowTypes, SMT DEF Max2
    <2> QED
      BY <2>1, ZenonT(40) DEF FlowState
  <1>2. SameEntries(s, w)
    BY SMT DEF FlowState, SameEntries
  <1> HIDE DEF w
  <1>3. SameEntries(w, u) /\ u.mode = "STARTUP"
    BY <1>1, SMT DEF leocc_reset_startup_mode, FlowState, SameEntries
  <1>4. SameEntries(w, v) /\ v.mode = "CRUISE"
    BY <1>1, SMT DEF leocc_reset_probe_bw_mode, leocc_advance_cycle_phase, FlowState,
                     SameEntries
  <1>5. x = u \/ x = v
    BY Zenon DEF leocc_reset_mode
  <1>6. x \in FlowState
    BY <1>1, ResetMode
  <1> HIDE DEF u, v, x
  <1>7. SameEntries(x, y) /\ y.mode = x.mode
    BY <1>6, SMT DEF FlowState, SameEntries
  <1> HIDE DEF y
  <1>8. "STARTUP" # "PROBE_RTT" /\ "CRUISE" # "PROBE_RTT"
    OBVIOUS
  <1>9. SameEntries(s, x) /\ x.mode # "PROBE_RTT"
    BY <1>2, <1>3, <1>4, <1>5, <1>8, Zenon DEF SameEntries
  <1>10. SameEntries(s, y) /\ y.mode # "PROBE_RTT"
    BY <1>7, <1>9, Zenon DEF SameEntries
  <1>11. Books(x) /\ Books(y) /\ x.round_held = s.round_held /\ y.round_held = s.round_held
    BY <1>9, <1>10, BooksSteps, Zenon DEF SameEntries
  <1>12. t = x \/ t = y \/ t = s
    BY Zenon DEF leocc_check_probe_rtt_done, w, x, y
  <1> HIDE DEF t
  <1> QED
    BY <1>11, <1>12, Zenon DEF t

\* A probe that is stamped starts a new account of rounds; one that may end has seen one.
LEMMA InProbeRttBooks ==
    ASSUME NEW s \in FlowState, NEW rs \in RateSample, NEW r \in CycleRand,
           Books(s), Begun(s), now \in Jiffies
    PROVE  LET t == InProbeRtt(s, rs, r) IN Books(t) /\ Left(s, t)
  <1> DEFINE done == s.probe_rtt_round_done \/ s.round_start
             a == [s EXCEPT !.probe_rtt_done_stamp = (now + ProbeRttTime) % JiffyMod,
                            !.probe_rtt_round_done = FALSE,
                            !.held = 0, !.round_held = FALSE]
             t == [s EXCEPT !.probe_rtt_round_done = done]
             m == [t EXCEPT !.min_rtt_us = rs.rtt % RttMod, !.min_rtt_stamp = now]
             n == IF After(now, s.probe_rtt_done_stamp) THEN m ELSE t
             c == leocc_check_probe_rtt_done(n, r)
  <1>1. Books(a) /\ a.mode = s.mode
    <2>1. /\ a.mode = s.mode /\ a.probe_rtt_round_done = FALSE
          /\ a.latest_bw = s.latest_bw /\ a.measured = s.measured
          /\ a.reconfiguration_max_bw = s.reconfiguration_max_bw
      BY SMT DEF FlowState
    <2> HIDE DEF a
    <2> QED
      BY <2>1, Zenon DEF Books, Measured, Rounds
  <1> HIDE DEF a
  <1>2. /\ t \in FlowState /\ t.mode = s.mode /\ t.round_held = s.round_held
        /\ t.latest_bw = s.latest_bw /\ t.measured = s.measured
        /\ t.reconfiguration_max_bw = s.reconfiguration_max_bw
    <2>1. done \in BOOLEAN
      BY ZenonT(40) DEF FlowState
    <2> HIDE DEF done
    <2>2. t \in FlowState
      BY <2>1, ZenonT(40) DEF FlowState
    <2> QED
      BY <2>2, SMT DEF FlowState
  <1> HIDE DEF t
  <1>3. m \in FlowState /\ SameEntries(t, m) /\ m.mode = t.mode
    <2>1. rs.rtt % RttMod \in 0 .. RttMod - 1
      BY RttRange
    <2>2. m \in FlowState
      BY <1>2, <2>1, ZenonT(40) DEF FlowState
    <2>3. SameEntries(t, m) /\ m.mode = t.mode
      BY <1>2, SMT DEF FlowState, SameEntries
    <2> QED
      BY <2>2, <2>3
  <1> HIDE DEF m
  <1>4. /\ n \in FlowState /\ n.mode = s.mode /\ n.round_held = s.round_held
        /\ Measured(n)
    <2>1. m.mode = s.mode /\ m.round_held = s.round_held
      BY <1>2, <1>3, Zenon DEF SameEntries
    <2>2. Measured(t) /\ Measured(m)
      BY <1>2, <1>3, Zenon DEF Books, Measured, SameEntries
    <2> QED
      BY <1>2, <1>3, <2>1, <2>2, Zenon
  <1> HIDE DEF n
  <1>5. s.mode = "PROBE_RTT" /\ s.probe_rtt_done_stamp # 0 /\ done => s.round_held
    BY Zenon DEF Books, Rounds, Begun
  <1>6. s.mode = "PROBE_RTT" /\ s.round_held => Books(c) /\ c.round_held
    <2>1. SUFFICES ASSUME s.mode = "PROBE_RTT", s.round_held PROVE Books(c) /\ c.round_held
      OBVIOUS
    <2>2. n.mode = "PROBE_RTT" /\ n.round_held
      BY <1>4, <2>1
    <2>3. Books(n)
      BY <1>4, <2>2 DEF Books, Rounds
    <2>4. Books(c) /\ c.round_held = n.round_held
      BY <1>4, <2>2, <2>3, ProbeDoneBooks
    <2> QED
      BY <2>2, <2>4, Zenon
  <1> HIDE DEF c
  <1>7. \/ InProbeRtt(s, rs, r) = s
        \/ s.mode = "PROBE_RTT" /\ InProbeRtt(s, rs, r) = a
        \/ /\ s.mode = "PROBE_RTT" /\ s.probe_rtt_done_stamp # 0 /\ done
           /\ InProbeRtt(s, rs, r) = c
    BY Zenon DEF InProbeRtt, a, t, m, n, c
  <1> HIDE DEF done
  <1> QED
    BY <1>1, <1>5, <1>6, <1>7, Zenon DEF Left

\* leocc_update_min_rtt: a probe that begins has no stamp, and so no rounds to count.
LEMMA UpdateMinRttBooks ==
    ASSUME NEW s \in FlowState, NEW rs \in RateSample, NEW r \in CycleRand,
           ModeMatches(s), Books(s), Begun(s), now \in Jiffies
    PROVE  LET t == leocc_update_min_rtt(s, rs, r) IN Books(t) /\ Left(s, t)
  <1> DEFINE expired == FilterExpired(s)
             a == TakeMinRtt(s, rs, expired)
             b == EnterProbeRtt(a, expired)
             t == InProbeRtt(b, rs, r)
             i == [t EXCEPT !.idle_restart = FALSE]
  <1>1. expired \in BOOLEAN
    BY SMT DEF FilterExpired, After
  <1>2. a \in FlowState /\ ModeMatches(a)
    BY <1>1, TakeMinRttType, Zenon DEF ModeMatches, SameMode
  <1>3. SamePhase(s, a) /\ SameEntries(s, a) /\ a.round_start = s.round_start
    BY SMT DEF TakeMinRtt, FlowState, SamePhase, SameEntries
  <1> HIDE DEF a, expired
  <1>4. Books(a) /\ Begun(a) /\ a.mode = s.mode
    BY <1>3, BooksSteps, Zenon DEF Begun, SameEntries, SamePhase
  <1>5. b \in FlowState
    BY <1>1, <1>2, EnterProbeRttMode
  <1>6. SameEntries(a, b) /\ b.round_start = a.round_start
    <2> DEFINE o == BeginEpisode(a)
               p == [o EXCEPT !.mode = "PROBE_RTT", !.probe_rtt_done_stamp = 0, !.held = 0]
               v == leocc_save_cwnd(p)
    <2>1. o \in FlowState /\ SameEntries(a, o) /\ o.round_start = a.round_start
      <3>1. SameEntries(a, o) /\ o.round_start = a.round_start
        BY <1>2, SMT DEF BeginEpisode, FlowState, SameEntries
      <3> QED
        BY <1>2, <3>1, Episode
    <2> HIDE DEF o
    <2>2. p \in FlowState /\ SameEntries(o, p) /\ p.round_start = o.round_start
      <3>1. 0 \in Jiffies /\ 0 \in 0 .. ProbeRttTime + 1
        BY LeoCCAssumption, SMT DEF Jiffies
      <3>2. p \in FlowState
        BY <2>1, <3>1, ZenonT(40) DEF FlowState, Modes
      <3>3. SameEntries(o, p) /\ p.round_start = o.round_start
        BY <2>1, SMT DEF FlowState, SameEntries
      <3> QED
        BY <3>2, <3>3
    <2> HIDE DEF p
    <2>3. SameEntries(p, v) /\ v.round_start = p.round_start
      BY <2>2, SMT DEF leocc_save_cwnd, FlowState, SameEntries
    <2> HIDE DEF v
    <2>4. SameEntries(a, v) /\ v.round_start = a.round_start
      BY <2>1, <2>2, <2>3, Zenon DEF SameEntries
    <2>5. b = a \/ b = v
      BY Zenon DEF EnterProbeRtt, b, o, p, v
    <2> HIDE DEF b
    <2> QED
      BY <2>4, <2>5, Zenon DEF SameEntries
  <1>7. \/ b = a
        \/ a.mode = "CRUISE" /\ b.mode = "PROBE_RTT" /\ b.probe_rtt_done_stamp = 0
    BY <1>1, <1>2, EnterProbeRttPhase
  <1> HIDE DEF b
  <1>8. Books(b) /\ Begun(b) /\ (s.mode = "PROBE_RTT" => b.mode = "PROBE_RTT")
    BY <1>4, <1>6, <1>7, Zenon DEF Books, Measured, Rounds, Begun, SameEntries
  <1>9. Books(t) /\ Left(b, t) /\ t \in FlowState
    <2>1. ModeMatches(b)
      BY <1>1, <1>2, EnterProbeRttMode DEF b
    <2> QED
      BY <1>5, <1>8, <2>1, InProbeRttBooks, InProbeRttMode
  <1> HIDE DEF t
  <1>10. SameRestart(t, i)
    BY <1>9, SMT DEF FlowState, SameRestart, SamePhase, SameEntries
  <1> HIDE DEF i
  <1>11. Books(i) /\ i.mode = t.mode /\ i.round_held = t.round_held
    BY <1>9, <1>10, BooksSteps, Zenon DEF SameRestart, SamePhase, SameEntries
  <1>12. Left(s, t) /\ Left(s, i)
    BY <1>8, <1>9, <1>11, Zenon DEF Left
  <1> QED
    BY <1>9, <1>11, <1>12, Zenon DEF leocc_update_min_rtt, expired, a, b, t, i

\* The whole of leocc_update_model.
LEMMA UpdateModelBooks ==
    ASSUME NEW s \in FlowState, NEW rs \in RateSample, NEW r \in CycleRand,
           NEW max \in Bandwidths, ModeMatches(s), Books(s), now \in Jiffies
    PROVE  LET t == leocc_update_model(s, rs, max, r) IN Books(t) /\ Left(s, t)
  <1> DEFINE a == leocc_update_bw(s, rs, max)
             b == leocc_update_cycle_phase(a, rs)
             c == leocc_check_full_bw_reached(b, rs)
             d == leocc_check_drain(c, rs, r)
             e == leocc_update_min_rtt(d, rs, r)
             t == leocc_update_gains(e)
  <1>1. a \in FlowState /\ SameMode(s, a) /\ Books(a) /\ Begun(a) /\ a.mode = s.mode
    BY UpdateBw, UpdateBwBooks
  <1> HIDE DEF a
  <1>2. b \in FlowState /\ SameMode(a, b)
    BY <1>1, UpdateCyclePhase
  <1>3. /\ SameEntries(a, b) /\ b.round_start = a.round_start /\ b.mode = a.mode
        /\ b.probe_rtt_done_stamp = a.probe_rtt_done_stamp
    BY <1>1, SMT DEF leocc_update_cycle_phase, leocc_advance_cycle_phase, FlowState,
                     SameEntries
  <1> HIDE DEF b
  <1>4. c \in FlowState /\ c.mode = b.mode /\ (b.full_bw_reached => c.full_bw_reached)
    BY <1>2, CheckFullBw
  <1>5. /\ SameEntries(b, c) /\ c.round_start = b.round_start
        /\ c.probe_rtt_done_stamp = b.probe_rtt_done_stamp
    BY <1>2, SMT DEF leocc_check_full_bw_reached, FlowState, SameEntries
  <1> HIDE DEF c
  <1>6. Books(c) /\ Begun(c) /\ c.mode = s.mode
    BY <1>1, <1>3, <1>4, <1>5, Zenon DEF Books, Measured, Rounds, Begun, SameEntries
  <1>7. c.mode # "STARTUP" => c.full_bw_reached
    BY <1>1, <1>2, <1>4, Zenon DEF ModeMatches, SameMode
  <1>8. /\ d \in FlowState /\ ModeMatches(d) /\ Books(d) /\ Begun(d)
        /\ (c.mode = "PROBE_RTT") <=> (d.mode = "PROBE_RTT")
    BY <1>4, <1>6, <1>7, CheckDrain, CheckDrainBooks
  <1> HIDE DEF d
  <1>9. e \in FlowState /\ Books(e) /\ Left(d, e)
    BY <1>8, UpdateMinRtt, UpdateMinRttBooks
  <1> HIDE DEF e
  <1>10. SameRestart(e, t)
    <2>1. 0 \in Bandwidths /\ TRUE \in BOOLEAN
      BY LeoCCAssumption
    <2> QED
      BY <1>9, <2>1, OthersKeepPhase, Zenon
  <1> HIDE DEF t
  <1>11. Books(t) /\ t.mode = e.mode /\ t.round_held = e.round_held
    BY <1>9, <1>10, BooksSteps, Zenon DEF SameRestart, SamePhase, SameEntries
  <1>12. Left(s, t)
    BY <1>6, <1>8, <1>9, <1>11, Zenon DEF Left
  <1> QED
    BY <1>11, <1>12, Zenon DEF leocc_update_model, a, b, c, d, e, t

\* The window is not about the phase either.
LEMMA WindowKeepsRestart ==
    ASSUME NEW s \in FlowState, NEW x, NEW y, NEW z
    PROVE  /\ SameRestart(s, [s EXCEPT !.snd_cwnd = x])
           /\ SameRestart(s, [s EXCEPT !.prev_ca_state = y])
           /\ SameRestart(s, [s EXCEPT !.packet_conservation = z, !.snd_cwnd = x])
           /\ SameRestart(s, [s EXCEPT !.rtt_hat_post = x])
  BY SMT DEF FlowState, SameRestart, SamePhase, SameEntries

\* The growth of the window keeps it a natural number.
LEMMA GrowTyped ==
    ASSUME NEW n \in FlowState, NEW rs \in RateSample
    PROVE  GrowToTarget(n, rs) \in FlowState
  <1> DEFINE k == CASE n.full_bw_reached -> Min2(n.snd_cwnd + rs.acked, rs.target)
                    [] ~n.full_bw_reached /\ (n.snd_cwnd < rs.target \/ rs.few_delivered)
                         -> n.snd_cwnd + rs.acked
                    [] OTHER -> n.snd_cwnd
  <1>1. /\ Min2(n.snd_cwnd + rs.acked, rs.target) \in Nat
        /\ n.snd_cwnd + rs.acked \in Nat /\ n.snd_cwnd \in Nat
    BY WindowTypes, SampleCounts, SMT DEF Min2
  <1>2. n.full_bw_reached \in BOOLEAN
    BY ZenonT(40) DEF FlowState
  <1>3. k \in Nat
    BY <1>1, <1>2, Zenon
  <1>4. GrowToTarget(n, rs) = [n EXCEPT !.snd_cwnd = Max2(k, CwndMinTarget)]
    BY Zenon DEF GrowToTarget
  <1> HIDE DEF k
  <1>5. Max2(k, CwndMinTarget) \in Nat
    BY <1>3, WindowTypes, SMT DEF Max2
  <1> QED
    BY <1>4, <1>5, Window

\* leocc_set_cwnd is only about the window.
LEMMA SetCwndPhase ==
    ASSUME NEW s \in FlowState, NEW rs \in RateSample
    PROVE  SameRestart(s, leocc_set_cwnd(s, rs))
  <1> DEFINE lost == IF rs.losses > 0 THEN Max2(s.snd_cwnd - rs.losses, 1) ELSE s.snd_cwnd
             keep == rs.inflight + rs.acked
             restored == Max2(lost, s.prior_cwnd)
             t == [s EXCEPT !.prev_ca_state = s.ca_state]
             a == [t EXCEPT !.packet_conservation = TRUE, !.snd_cwnd = keep]
             b == [t EXCEPT !.packet_conservation = FALSE, !.snd_cwnd = restored]
             c == [t EXCEPT !.snd_cwnd = lost]
             u == CASE s.ca_state = "Recovery" /\ s.prev_ca_state # "Recovery" -> a
                    [] InRecovery(s.prev_ca_state) /\ ~InRecovery(s.ca_state) -> b
                    [] OTHER -> c
             v == [u EXCEPT !.snd_cwnd = Max2(@, keep)]
             n == leocc_set_cwnd_to_recover_or_restore(s, rs)
             g == GrowToTarget(n, rs)
             w == IF rs.acked = 0 THEN s ELSE IF n.packet_conservation THEN n ELSE g
  <1>1. t \in FlowState /\ SameRestart(s, t)
    <2>1. t \in FlowState
      BY WindowTypes, ZenonT(40) DEF FlowState
    <2> QED
      BY <2>1, WindowKeepsRestart
  <1>2. lost \in Nat /\ keep \in Nat /\ restored \in Nat
    BY WindowTypes, SampleCounts, SMT DEF Max2
  <1> HIDE DEF lost, keep, restored, t
  <1>3. a \in FlowState /\ b \in FlowState /\ c \in FlowState
    <2>1. a \in FlowState
      BY <1>1, <1>2, ZenonT(40) DEF FlowState
    <2>2. b \in FlowState
      BY <1>1, <1>2, ZenonT(40) DEF FlowState
    <2>3. c \in FlowState
      BY <1>1, <1>2, ZenonT(40) DEF FlowState
    <2> QED
      BY <2>1, <2>2, <2>3
  <1>4. SameRestart(t, a) /\ SameRestart(t, b) /\ SameRestart(t, c)
    BY <1>1, WindowKeepsRestart
  <1> HIDE DEF a, b, c
  <1>5. u = a \/ u = b \/ u = c
    BY Zenon DEF InRecovery
  <1> HIDE DEF u
  <1>6. u \in FlowState /\ SameRestart(s, u)
    <2>1. SameRestart(s, a) /\ SameRestart(s, b) /\ SameRestart(s, c)
      BY <1>1, <1>4, PhaseSteps
    <2>2. CASE u = a
      BY <1>3, <2>1, <2>2
    <2>3. CASE u = b
      BY <1>3, <2>1, <2>3
    <2>4. CASE u = c
      BY <1>3, <2>1, <2>4
    <2> QED
      BY <1>5, <2>2, <2>3, <2>4
  <1>7. SameRestart(u, v)
    BY <1>6, WindowKeepsRestart
  <1> HIDE DEF v
  <1>8. n = IF u.packet_conservation THEN v ELSE u
    BY Zenon DEF leocc_set_cwnd_to_recover_or_restore, lost, keep, restored, t, a, b, c, u, v
  <1>9. SameRestart(s, n)
    BY <1>6, <1>7, <1>8, PhaseSteps, Zenon
  <1>10. n \in FlowState
    BY RecoverOrRestore
  <1> HIDE DEF n
  <1>11. SameRestart(n, g)
    BY <1>10, WindowKeepsRestart, Zenon DEF GrowToTarget
  <1> HIDE DEF g
  <1>12. SameRestart(s, s)
    BY DEF SameRestart, SamePhase, SameEntries
  <1>13. SameRestart(s, w)
    BY <1>9, <1>11, <1>12, PhaseSteps, Zenon
  <1>14. SameRestart(w, CapCwnd(w, rs))
    <2> DEFINE G(x) == [w EXCEPT !.snd_cwnd = x]
    <2>1. w \in FlowState
      <3>1. g \in FlowState
        BY <1>10, GrowTyped DEF g
      <3> QED
        BY <1>10, <3>1, Zenon
    <2>2. \A x : SameRestart(w, G(x))
      BY <2>1, WindowKeepsRestart
    <2> HIDE DEF G, w
    <2>3. \E x : CapCwnd(w, rs) = G(x)
      BY Zenon DEF CapCwnd, G
    <2> QED
      BY <2>2, <2>3, Zenon
  <1>15. SameRestart(s, CapCwnd(w, rs))
    BY <1>13, <1>14, PhaseSteps
  <1> QED
    BY <1>15, Zenon DEF leocc_set_cwnd, n, g, w

-----------------------------------------------------------------------------
(* The actions                                                              *)

\* While a probe has not been held for longer than ProbeRttTime, its stamp says so.
HeldStamp(s) ==
    s.mode = "PROBE_RTT" /\ s.probe_rtt_done_stamp # 0 /\ s.held <= ProbeRttTime
        => s.probe_rtt_done_stamp = StampOf(now, s.held)

AllHeldStamps == \A f \in Flows : HeldStamp(flow[f])

AllBooks == \A f \in Flows : Books(flow[f])

\* Inductive, with Inv, which types the flows.
PhaseInv == Inv /\ AllHeldStamps /\ AllBooks

\* What an action makes of the flow f: the books are kept, and a probe that ends has
\* seen a round, unless the flow resumes from idle.
BookStep(f, t) ==
    Books(flow[f]) => Books(t) /\ (Left(flow[f], t) \/ leocc_cwnd_event(f))

\* The end of an episode is not about the phase.
LEMMA SettlePhase ==
    ASSUME NEW s, NEW t \in FlowState, CycleStep(s, t)
    PROVE  CycleStep(s, SettleEpisode(t))
  <1> DEFINE u == SettleEpisode(t)
  <1>1. /\ u.mode = t.mode /\ u.cycle_idx = t.cycle_idx
        /\ u.probe_rtt_done_stamp = t.probe_rtt_done_stamp
        /\ t.mode = "PROBE_RTT" => u.held = t.held
        /\ u.local_trigger = t.local_trigger /\ u.bw = t.bw
        /\ u.reconfiguration_max_bw = t.reconfiguration_max_bw
        /\ u.full_bw = t.full_bw /\ u.full_bw_cnt = t.full_bw_cnt
    BY SMT DEF SettleEpisode, FlowState
  <1> HIDE DEF u
  <1> QED
    BY <1>1, Zenon DEF CycleStep, Restarted, u

\* Nor about the books.
LEMMA SettleBooks ==
    ASSUME NEW f \in Flows, NEW t \in FlowState, BookStep(f, t)
    PROVE  BookStep(f, SettleEpisode(t))
  <1> DEFINE u == SettleEpisode(t)
  <1>1. /\ u.mode = t.mode /\ u.probe_rtt_done_stamp = t.probe_rtt_done_stamp
        /\ SameEntries(t, u)
    BY SMT DEF SettleEpisode, FlowState, SameEntries
  <1> HIDE DEF u
  <1>2. (Books(t) => Books(u)) /\ (Left(flow[f], t) => Left(flow[f], u))
    BY <1>1, Zenon DEF Books, Measured, Rounds, Left, SameEntries
  <1> QED
    BY <1>2, Zenon DEF BookStep, u

\* A step of one flow.
FlowStep(f) ==
    /\ now' = now
    /\ CycleStep(flow[f], flow'[f])
    /\ BookStep(f, flow'[f])
    /\ \A g \in Flows \ {f} : flow'[g] = flow[g]

\* An ACK: the trigger it may find does not matter before leocc_update_model.
LEMMA AckPhase ==
    ASSUME Inv, NEW f \in Flows, Ack(f)
    PROVE  FlowStep(f)
  <1>1. PICK rs \in RateSamples : leocc_main(f, rs)
    BY DEF Ack
  <1>2. rs \in RateSample
    BY LeoCCAssumption, Zenon
  <1> DEFINE x == flow[f].local_trigger \/ global_reconfiguration_trigger
             s == [flow[f] EXCEPT !.local_trigger = x]
  <1>3. /\ flow[f] \in FlowState /\ ModeMatches(flow[f]) /\ now \in Jiffies
        /\ leocc_pacing_gain_0 \in {ProbeUp, GentleUp}
    BY FlowOf, Zenon DEF Inv, TypeOK
  <1>4. x \in BOOLEAN
    BY <1>3, ZenonT(40) DEF Inv, TypeOK, FlowState
  <1> HIDE DEF x
  <1>5. s \in FlowState
    BY <1>3, <1>4, ZenonT(40) DEF FlowState
  <1>6. SameMode(flow[f], s) /\ SamePhase(flow[f], s) /\ SameEntries(flow[f], s)
    BY <1>3, SMT DEF FlowState, SameMode, SamePhase, SameEntries
  <1>7. s = [flow[f] EXCEPT !.local_trigger = @ \/ global_reconfiguration_trigger]
    BY Zenon DEF x
  <1> HIDE DEF s
  <1>8. ModeMatches(s)
    BY <1>3, <1>6, Zenon DEF SameMode, ModeMatches
  <1>9. PICK max \in RunningMax(s.bw, rs.bw), r \in CycleRand,
             hat \in KalmanRtt(s.rtt_hat_post, rs.rtt) :
          LET t == leocc_update_model(s, rs, max, r)
              u == [t EXCEPT !.rtt_hat_post = hat]
          IN  /\ leocc_pacing_gain_0' = IF Fluctuates(u) THEN GentleUp ELSE ProbeUp
              /\ flow' = [flow EXCEPT ![f] = SettleEpisode(leocc_set_cwnd(u, rs))]
              /\ UNCHANGED <<now, global_reconfiguration_trigger, min_rtt_fluctuation>>
    BY <1>1, <1>7, Zenon DEF leocc_main
  <1> DEFINE t == leocc_update_model(s, rs, max, r)
             u == [t EXCEPT !.rtt_hat_post = hat]
             w == leocc_set_cwnd(u, rs)
  <1>10. max \in Bandwidths
    <2>1. rs.bw \in Bandwidths
      BY <1>2, Zenon DEF RateSample
    <2> QED
      BY <1>9, <2>1, Zenon DEF RunningMax
  <1>11. hat \in Rtts \cup {0}
    <2>1. s.rtt_hat_post \in Rtts \cup {0}
      BY <1>5, ZenonT(40) DEF FlowState
    <2> QED
      BY <1>9, <2>1, Zenon DEF KalmanRtt
  <1>12. t \in FlowState /\ CycleStep(s, t)
    BY <1>2, <1>3, <1>5, <1>8, <1>9, <1>10, UpdateModel, UpdateModelPhase
  <1>13. flow' = [flow EXCEPT ![f] = SettleEpisode(w)] /\ now' = now
    BY <1>9
  <1> HIDE DEF t
  <1>14. u \in FlowState /\ SameRestart(t, u)
    <2>1. u \in FlowState
      BY <1>11, <1>12, ZenonT(40) DEF FlowState
    <2>2. SameRestart(t, u)
      BY <1>12, WindowKeepsRestart
    <2> QED
      BY <2>1, <2>2
  <1> HIDE DEF u
  <1>15. w \in FlowState /\ SameRestart(u, w)
    BY <1>2, <1>14, SetCwnd, SetCwndPhase
  <1> HIDE DEF w
  <1>16. CycleStep(flow[f], w)
    BY <1>6, <1>12, <1>14, <1>15, CycleSteps, Zenon
  <1>17. flow \in [Flows -> FlowState]
    BY DEF Inv, TypeOK
  <1>18. BookStep(f, w)
    <2>1. SameRestart(t, w)
      BY <1>14, <1>15, PhaseSteps
    <2>2. Books(flow[f]) => Books(t) /\ Left(s, t)
      BY <1>2, <1>3, <1>5, <1>6, <1>8, <1>9, <1>10, BooksSteps, UpdateModelBooks DEF t
    <2>3. Books(t) => Books(w)
      BY <2>1, BooksSteps
    <2>4. Left(s, t) => Left(flow[f], w)
      BY <1>6, <2>1, Zenon DEF Left, SameRestart, SamePhase, SameEntries
    <2> QED
      BY <2>2, <2>3, <2>4, Zenon DEF BookStep
  <1> QED
    BY <1>13, <1>15, <1>16, <1>17, <1>18, SettlePhase, SettleBooks, Zenon DEF FlowStep

\* The other callbacks of a flow.
LEMMA OnlyFlowPhase ==
    ASSUME Inv, NEW f \in Flows, NEW s \in FlowState, CycleStep(flow[f], s), BookStep(f, s),
           OnlyFlow(f, s)
    PROVE  FlowStep(f)
  <1>1. flow \in [Flows -> FlowState]
    BY DEF Inv, TypeOK
  <1>2. flow' = [flow EXCEPT ![f] = SettleEpisode(s)] /\ now' = now
    BY DEF OnlyFlow
  <1>3. CycleStep(flow[f], SettleEpisode(s)) /\ BookStep(f, SettleEpisode(s))
    BY SettlePhase, SettleBooks
  <1> QED
    BY <1>1, <1>2, <1>3, Zenon DEF FlowStep

\* leocc_cwnd_event ends a probe as an ACK would, or changes nothing of the phase.
LEMMA CwndEventPhase ==
    ASSUME Inv, NEW f \in Flows, leocc_cwnd_event(f)
    PROVE  FlowStep(f)
  <1> DEFINE s == [flow[f] EXCEPT !.idle_restart = TRUE]
  <1>1. flow[f] \in FlowState /\ ModeMatches(flow[f])
    BY FlowOf
  <1>2. s \in FlowState
    BY <1>1, ZenonT(40) DEF FlowState
  <1>3. SameMode(flow[f], s) /\ SamePhase(flow[f], s) /\ SameEntries(flow[f], s)
    BY <1>1, SMT DEF FlowState, SameMode, SamePhase, SameEntries
  <1>4. ModeMatches(s)
    BY <1>1, <1>3, Zenon DEF SameMode, ModeMatches
  <1>5. PICK r \in CycleRand :
          OnlyFlow(f, IF s.mode = "PROBE_RTT" THEN leocc_check_probe_rtt_done(s, r) ELSE s)
    BY Zenon DEF leocc_cwnd_event
  <1> HIDE DEF s
  <1> DEFINE t == leocc_check_probe_rtt_done(s, r)
  <1>6. t \in FlowState
    BY <1>2, <1>4, CheckProbeRttDone
  <1>7. CASE s.mode = "PROBE_RTT"
    <2>1. s.full_bw_reached
      BY <1>4, <1>7, SMT DEF ModeMatches
    <2>2. PhaseStep(s, t)
      BY <1>2, <1>7, <2>1, ProbeDonePhase
    <2>3. CycleStep(flow[f], t)
      BY <1>3, <2>2, CycleSteps
    <2>4. OnlyFlow(f, t)
      BY <1>5, <1>7
    <2>5. Books(flow[f]) => Books(t)
      BY <1>2, <1>3, <1>7, BooksSteps, ProbeDoneBooks
    <2> HIDE DEF t
    <2>6. BookStep(f, t)
      BY <2>5, Zenon DEF BookStep
    <2> QED
      BY <1>6, <2>3, <2>4, <2>6, OnlyFlowPhase
  <1>8. CASE s.mode # "PROBE_RTT"
    <2>1. OnlyFlow(f, s)
      BY <1>5, <1>8
    <2>2. CycleStep(flow[f], s)
      BY <1>3, PhaseSteps, CycleSteps
    <2>3. BookStep(f, s)
      BY <1>3, BooksSteps, Zenon DEF BookStep
    <2> QED
      BY <1>2, <2>1, <2>2, <2>3, OnlyFlowPhase
  <1> QED
    BY <1>7, <1>8

\* The actions of a loss episode leave the phase alone, whatever they do to the window.
LEMMA LossActionsPhase ==
    ASSUME Inv, NEW f \in Flows, LossAction(f)
    PROVE  FlowStep(f)
  <1>1. PICK t \in FlowState : OnlyFlow(f, t) /\ LossStep(flow[f], t)
    BY LossActions
  <1>2. CycleStep(flow[f], t)
    BY <1>1, PhaseSteps, CycleSteps, Zenon DEF LossStep, SameMode, SamePhase
  <1>3. BookStep(f, t)
    BY <1>1, Zenon DEF BookStep, LossStep, SameMode, Books, Measured, Rounds, Left
  <1> QED
    BY <1>1, <1>2, <1>3, OnlyFlowPhase

\* Every step of a flow.
LEMMA FlowNextPhase ==
    ASSUME Inv, NEW f \in Flows, FlowNext(f)
    PROVE  FlowStep(f)
  BY AckPhase, CwndEventPhase, LossActionsPhase, Zenon DEF FlowNext, LossAction

\* What a step does to any flow: one phase step, or nothing but time passing.
LEMMA NextPhase ==
    ASSUME Inv, [Next]_vars, NEW f \in Flows
    PROVE  \/ now' = now /\ CycleStep(flow[f], flow'[f]) /\ BookStep(f, flow'[f])
           \/ now' = now /\ flow'[f] = flow[f]
           \/ /\ now' = (now + 1) % JiffyMod
              /\ flow'[f] = [flow[f] EXCEPT !.held = IF flow[f].mode = "PROBE_RTT"
                                                     THEN Min2(@ + 1, ProbeRttTime + 1) ELSE 0]
  <1>1. ASSUME NEW g \in Flows, FlowNext(g)
        PROVE  /\ now' = now
               /\ \/ CycleStep(flow[f], flow'[f]) /\ BookStep(f, flow'[f])
                  \/ flow'[f] = flow[f]
    <2>1. FlowStep(g)
      BY <1>1, FlowNextPhase
    <2> QED
      BY <2>1, Zenon DEF FlowStep
  <1>2. CASE Tick
    BY <1>2, Zenon DEF Tick
  <1>3. CASE NetlinkHandler \/ UNCHANGED vars
    BY <1>3, Zenon DEF NetlinkHandler, vars
  <1> QED
    BY <1>1, <1>2, <1>3, Zenon DEF Next

\* The stamp stays true to the time the probe has been held.
LEMMA HeldStampStep ==
    ASSUME Inv, [Next]_vars, NEW f \in Flows, HeldStamp(flow[f])
    PROVE  HeldStamp(flow[f])'
  <1> DEFINE s == flow[f]
             t == flow'[f]
             Held(u, n) == u.mode = "PROBE_RTT" /\ u.probe_rtt_done_stamp # 0
                              /\ u.held <= ProbeRttTime
                           => u.probe_rtt_done_stamp = StampOf(n, u.held)
  <1>1. s \in FlowState /\ now \in Jiffies
    BY FlowOf
  <1>2. Held(s, now)
    BY DEF HeldStamp
  <1>3. SUFFICES Held(t, now')
    BY DEF HeldStamp, StampOf
  <1>4. CASE now' = now /\ CycleStep(s, t)
    BY <1>2, <1>4, Zenon DEF CycleStep
  <1>5. CASE now' = now /\ t = s
    BY <1>2, <1>5
  <1>6. CASE now' = (now + 1) % JiffyMod
             /\ t = [s EXCEPT !.held = IF s.mode = "PROBE_RTT"
                                       THEN Min2(@ + 1, ProbeRttTime + 1) ELSE 0]
    <2> HIDE DEF s, t
    <2>1. SUFFICES ASSUME t.mode = "PROBE_RTT", t.probe_rtt_done_stamp # 0,
                          t.held <= ProbeRttTime
                   PROVE  t.probe_rtt_done_stamp = StampOf(now', t.held)
      OBVIOUS
    <2>2. /\ t.mode = s.mode /\ t.probe_rtt_done_stamp = s.probe_rtt_done_stamp
          /\ t.held = IF s.mode = "PROBE_RTT" THEN Min2(s.held + 1, ProbeRttTime + 1) ELSE 0
      BY <1>1, <1>6, SMT DEF FlowState
    <2>3. s.mode = "PROBE_RTT" /\ t.held = Min2(s.held + 1, ProbeRttTime + 1)
      BY <2>1, <2>2
    <2>4. s.held \in 0 .. ProbeRttTime + 1 /\ ProbeRttTime \in Nat
      BY <1>1, LeoCCAssumption, ZenonT(40) DEF FlowState
    <2> DEFINE h == s.held
    <2>5. /\ h \in Nat /\ h + 1 \in 0 .. ProbeRttTime /\ t.held = h + 1
          /\ h <= ProbeRttTime
      BY <2>1, <2>3, <2>4, SMT DEF Min2
    <2>6. s.probe_rtt_done_stamp = StampOf(now, h)
      BY <1>2, <2>1, <2>2, <2>3, <2>5
    <2> HIDE DEF h
    <2>7. StampOf((now + 1) % JiffyMod, h + 1) = StampOf(now, h)
      BY <1>1, <2>5, StampTicks
    <2> QED
      BY <1>6, <2>2, <2>5, <2>6, <2>7
  <1> QED
    BY <1>4, <1>5, <1>6, NextPhase

\* The books are kept.
LEMMA BooksStep ==
    ASSUME Inv, [Next]_vars, NEW f \in Flows, Books(flow[f])
    PROVE  Books(flow'[f])
  <1>1. flow[f] \in FlowState
    BY FlowOf
  <1> DEFINE h == IF flow[f].mode = "PROBE_RTT"
                  THEN Min2(flow[f].held + 1, ProbeRttTime + 1) ELSE 0
             t == [flow[f] EXCEPT !.held = h]
  <1>2. SameEntries(flow[f], t) /\ t.mode = flow[f].mode
        /\ t.probe_rtt_done_stamp = flow[f].probe_rtt_done_stamp
    BY <1>1, SMT DEF FlowState, SameEntries
  <1>3. BookStep(f, flow'[f]) \/ flow'[f] = flow[f] \/ flow'[f] = t
    BY NextPhase, Zenon
  <1> HIDE DEF t
  <1>4. Books(t)
    BY <1>2, Zenon DEF Books, Measured, Rounds, SameEntries
  <1> QED
    BY <1>3, <1>4, Zenon DEF BookStep

\* PhaseInv is inductive.
LEMMA PhaseInvHolds == Spec => []PhaseInv
  <1>1. Init => PhaseInv
    <2> SUFFICES ASSUME Init PROVE AllHeldStamps /\ AllBooks
      BY InitInv DEF PhaseInv
    <2>1. ASSUME NEW f \in Flows PROVE HeldStamp(flow[f]) /\ Books(flow[f])
      <3>1. PICK m \in Rtts \cup {NoRtt} : flow[f] = InitialFlow(m, CwndMinTarget)
        BY Zenon DEF Init
      <3>2. LET s == InitialFlow(m, CwndMinTarget)
            IN  /\ s.mode = "STARTUP" /\ s.latest_bw = 0 /\ s.measured = {0}
                /\ s.reconfiguration_max_bw = 0
        BY SMT DEF InitialFlow
      <3>3. 0 \in {0} /\ "STARTUP" # "PROBE_RTT"
        OBVIOUS
      <3> QED
        BY <3>1, <3>2, <3>3, Zenon DEF HeldStamp, Books, Measured, Rounds
    <2> QED
      BY <2>1 DEF AllHeldStamps, AllBooks
  <1>2. PhaseInv /\ [Next]_vars => PhaseInv'
    <2> SUFFICES ASSUME PhaseInv, [Next]_vars PROVE PhaseInv'
      OBVIOUS
    <2>1. ASSUME NEW f \in Flows PROVE HeldStamp(flow[f])'
      BY HeldStampStep DEF PhaseInv, AllHeldStamps
    <2>2. ASSUME NEW f \in Flows PROVE Books(flow'[f])
      BY BooksStep DEF PhaseInv, AllBooks
    <2> QED
      BY <2>1, <2>2, NextInv DEF PhaseInv, AllHeldStamps, AllBooks
  <1> QED
    BY <1>1, <1>2, PTL DEF Spec

-----------------------------------------------------------------------------

\* A flow leaves PROBE_RTT only more than ProbeRttTime after its inflight was found
\* small (leocc.c:585-649), for every width of the jiffies that is more than twice
\* that time, wherever the clock wraps; and by an ACK only if a round has begun in
\* that time (leocc.c:634-641).
THEOREM ProbeRttIsHeld == Spec => ProbeRttHeldLongEnough
  <1> DEFINE A == \A f \in Flows :
                    flow[f].mode = "PROBE_RTT" /\ flow'[f].mode # "PROBE_RTT"
                        => /\ flow[f].held > ProbeRttTime
                           /\ flow'[f].round_held \/ leocc_cwnd_event(f)
  <1>1. PhaseInv /\ [Next]_vars => A
    <2> SUFFICES ASSUME PhaseInv, [Next]_vars, NEW f \in Flows,
                        flow[f].mode = "PROBE_RTT", flow'[f].mode # "PROBE_RTT"
                 PROVE  /\ flow[f].held > ProbeRttTime
                        /\ flow'[f].round_held \/ leocc_cwnd_event(f)
      OBVIOUS
    <2> DEFINE s == flow[f]
               t == flow'[f]
    <2>1. s \in FlowState /\ now \in Jiffies /\ HeldStamp(s) /\ Books(s)
      BY FlowOf DEF PhaseInv, AllHeldStamps, AllBooks
    <2>2. s.held \in 0 .. ProbeRttTime + 1 /\ ProbeRttTime \in Nat
      BY <2>1, LeoCCAssumption, ZenonT(40) DEF FlowState
    <2>3. CycleStep(s, t) /\ BookStep(f, t)
      <3>1. [s EXCEPT !.held = IF s.mode = "PROBE_RTT"
                               THEN Min2(@ + 1, ProbeRttTime + 1) ELSE 0].mode = s.mode
        BY <2>1, SMT DEF FlowState
      <3> QED
        BY <3>1, NextPhase DEF PhaseInv
    <2>4. s.probe_rtt_done_stamp # 0 /\ After(now, s.probe_rtt_done_stamp)
      BY <2>3, Zenon DEF CycleStep
    <2>6. flow'[f].round_held \/ leocc_cwnd_event(f)
      BY <2>1, <2>3, Zenon DEF BookStep, Left
    <2> HIDE DEF s
    <2>5. ASSUME ~(s.held > ProbeRttTime) PROVE FALSE
      <3>1. s.held \in 0 .. ProbeRttTime /\ s.held <= ProbeRttTime
        BY <2>2, <2>5, SMT
      <3>2. s.probe_rtt_done_stamp = StampOf(now, s.held)
        BY <2>1, <2>4, <3>1 DEF HeldStamp, s
      <3> QED
        BY <2>1, <2>4, <3>1, <3>2, StampNotOver
    <2> QED
      BY <2>5, <2>6 DEF s
  <1>2. PhaseInv /\ [Next]_vars => [A]_vars
    BY <1>1
  <1> QED
    BY <1>2, PhaseInvHolds, PTL DEF Spec, ProbeRttHeldLongEnough

\* A flow goes back to STARTUP only for a reconfiguration it has been told of, at the
\* end of a probe, with full_bw forgotten, and with no bandwidth from before it last
\* left STARTUP (leocc.c:466-473, 475-505, 568-600).
THEOREM RestartsForReconfiguration == Spec => RestartOnlyForReconfiguration
  <1> DEFINE A == \A f \in Flows :
                    flow[f].mode # "STARTUP" /\ flow'[f].mode = "STARTUP"
                        => /\ flow[f].mode = "PROBE_RTT"
                           /\ flow'[f].local_trigger
                           /\ flow'[f].bw \in flow'[f].measured \cup {0}
                           /\ flow'[f].full_bw = 0 /\ flow'[f].full_bw_cnt = 0
  <1>1. PhaseInv /\ [Next]_vars => A
    <2> SUFFICES ASSUME PhaseInv, [Next]_vars, NEW f \in Flows,
                        flow[f].mode # "STARTUP", flow'[f].mode = "STARTUP"
                 PROVE  flow[f].mode = "PROBE_RTT" /\ Restarted(flow'[f]) /\ Books(flow'[f])
      BY Zenon DEF Restarted, Books, Measured
    <2>1. flow[f] \in FlowState /\ Books(flow'[f])
      BY FlowOf, BooksStep DEF PhaseInv, AllBooks
    <2>2. CycleStep(flow[f], flow'[f])
      <3>1. [flow[f] EXCEPT !.held = IF flow[f].mode = "PROBE_RTT"
                THEN Min2(@ + 1, ProbeRttTime + 1) ELSE 0].mode = flow[f].mode
        BY <2>1, SMT DEF FlowState
      <3> QED
        BY <3>1, NextPhase DEF PhaseInv
    <2> QED
      BY <2>1, <2>2, Zenon DEF CycleStep
  <1>2. PhaseInv /\ [Next]_vars => [A]_vars
    BY <1>1
  <1> QED
    BY <1>2, PhaseInvHolds, PTL DEF Spec, RestartOnlyForReconfiguration

\* The phase that drains the queue comes right after the one that fills it, whatever
\* phase a cycle is drawn to begin with (leocc.c:428-464), for every cycle length.
THEOREM DrainsWhatItFilled == Spec => ProbeDownFollowsProbeUp
  <1> DEFINE A == \A f \in Flows :
                    flow'[f].mode = "CRUISE" /\ flow'[f].cycle_idx = 1
                        => flow[f].mode = "CRUISE" /\ flow[f].cycle_idx \in {0, 1}
  <1>1. PhaseInv /\ [Next]_vars => A
    <2> SUFFICES ASSUME PhaseInv, [Next]_vars, NEW f \in Flows,
                        flow'[f].mode = "CRUISE", flow'[f].cycle_idx = 1
                 PROVE  flow[f].mode = "CRUISE" /\ flow[f].cycle_idx \in {0, 1}
      OBVIOUS
    <2>1. flow[f] \in FlowState
      BY FlowOf DEF PhaseInv
    <2>2. LET t == [flow[f] EXCEPT !.held = IF flow[f].mode = "PROBE_RTT"
                        THEN Min2(@ + 1, ProbeRttTime + 1) ELSE 0]
          IN  t.mode = flow[f].mode /\ t.cycle_idx = flow[f].cycle_idx
      BY <2>1, SMT DEF FlowState
    <2>3. \/ CycleStep(flow[f], flow'[f])
          \/ flow'[f].mode = flow[f].mode /\ flow'[f].cycle_idx = flow[f].cycle_idx
      BY <2>2, NextPhase DEF PhaseInv
    <2> QED
      BY <2>3, Zenon DEF CycleStep
  <1>2. PhaseInv /\ [Next]_vars => [A]_vars
    BY <1>1
  <1> QED
    BY <1>2, PhaseInvHolds, PTL DEF Spec, ProbeDownFollowsProbeUp

-----------------------------------------------------------------------------
(* What a restart gives back                                                *)

\* Unless it ends in PROBE_RTT, the step from s to t leaves the loss recovery and
\* what is saved alone, and gives the saved window back if it ends a probe.
GivesBack(s, t) ==
    t.mode # "PROBE_RTT"
        => /\ t.ca_state = s.ca_state /\ t.prev_ca_state = s.prev_ca_state
           /\ t.prior_cwnd = s.prior_cwnd
           /\ s.mode = "PROBE_RTT" => t.snd_cwnd >= s.prior_cwnd
           /\ s.mode # "PROBE_RTT" => t.snd_cwnd = s.snd_cwnd

\* A step that is about neither the window nor the episode is one, if it does not
\* leave PROBE_RTT, and may precede or follow one.
LEMMA GivesBackSteps ==
    ASSUME NEW s, NEW t, NEW u
    PROVE  /\ Keeps(s, t) => GivesBack(s, t)
           /\ Keeps(s, t) /\ GivesBack(t, u) => GivesBack(s, u)
           /\ GivesBack(s, t) /\ Keeps(t, u) => GivesBack(s, u)
  BY Zenon DEF Keeps, GivesBack

\* leocc_check_drain does not touch the window.
LEMMA CheckDrainKeeps ==
    ASSUME NEW s \in FlowState, NEW rs \in RateSample, NEW r \in CycleRand
    PROVE  Keeps(s, leocc_check_drain(s, rs, r))
  <1> DEFINE e == [s EXCEPT !.reconfiguration_max_bw = 0, !.local_trigger = FALSE,
                            !.mode = "DRAIN", !.measured = {s.latest_bw}]
             d == EnterDrain(s)
             v == leocc_reset_probe_bw_mode(d, r)
  <1>1. e \in FlowState
    <2>1. {s.latest_bw} \in SUBSET Bandwidths
      BY SMT DEF FlowState
    <2> QED
      BY <2>1, LeoCCAssumption, ZenonT(40) DEF FlowState, Modes
  <1>2. d = s \/ d = e
    BY Zenon DEF EnterDrain
  <1>3. Keeps(s, s) /\ (s.mode # "PROBE_RTT" => Keeps(s, d))
    BY ModeChangeKeeps, Zenon DEF Keeps
  <1>4. s.mode = "PROBE_RTT" => d = s
    BY SMT DEF EnterDrain
  <1> HIDE DEF d, e
  <1>5. d \in FlowState /\ Keeps(s, d)
    BY <1>1, <1>2, <1>3, <1>4
  <1>6. d.mode = "DRAIN" => Keeps(s, v)
    <2>1. "DRAIN" # "PROBE_RTT"
      OBVIOUS
    <2> QED
      BY <1>5, <2>1, ModeChangeKeeps, KeepsTransitive, Zenon
  <1> HIDE DEF v
  <1> QED
    BY <1>5, <1>6, Zenon DEF leocc_check_drain, d, v

\* The end of a probe raises the window to what it has saved, whichever mode follows.
LEMMA ProbeDoneGivesBack ==
    ASSUME NEW s \in FlowState, NEW r \in CycleRand, s.mode = "PROBE_RTT"
    PROVE  GivesBack(s, leocc_check_probe_rtt_done(s, r))
  <1> DEFINE m == Max2(s.snd_cwnd, s.prior_cwnd)
             w == [s EXCEPT !.snd_cwnd = m]
             c == [w EXCEPT !.mode = "CRUISE"]
             t == leocc_reset_mode(w, r)
             v == [t EXCEPT !.bw = t.reconfiguration_max_bw]
  <1>1. m \in Nat /\ m >= s.prior_cwnd
    BY WindowTypes, SMT DEF Max2
  <1> HIDE DEF m
  <1>2. w \in FlowState
    BY <1>1, ZenonT(40) DEF FlowState
  <1>3. /\ c.ca_state = s.ca_state /\ c.prev_ca_state = s.prev_ca_state
        /\ c.prior_cwnd = s.prior_cwnd /\ c.snd_cwnd = m /\ c.mode = "CRUISE"
    BY SMT DEF FlowState
  <1>4. Keeps(c, t)
    BY <1>2, ModeChangeKeeps, Zenon DEF leocc_reset_mode
  <1>5. t \in FlowState
    BY <1>2, ResetMode
  <1> HIDE DEF c, t, w
  <1>6. Keeps(t, v)
    BY <1>5, SMT DEF FlowState, Keeps
  <1> HIDE DEF v
  <1>7. GivesBack(s, c)
    BY <1>1, <1>3, Zenon DEF GivesBack
  <1>8. GivesBack(s, t)
    BY <1>4, <1>7, GivesBackSteps
  <1>9. GivesBack(s, v)
    BY <1>6, <1>8, GivesBackSteps
  <1>10. GivesBack(s, s)
    BY DEF GivesBack
  <1> QED
    BY <1>8, <1>9, <1>10, Zenon DEF leocc_check_probe_rtt_done, m, w, t, v

\* leocc_update_min_rtt: a probe that begins does not end on the same ACK.
LEMMA UpdateMinRttGivesBack ==
    ASSUME NEW s \in FlowState, NEW rs \in RateSample, NEW r \in CycleRand,
           ModeMatches(s), now \in Jiffies
    PROVE  GivesBack(s, leocc_update_min_rtt(s, rs, r))
  <1> DEFINE expired == FilterExpired(s)
             a == TakeMinRtt(s, rs, expired)
             b == EnterProbeRtt(a, expired)
             t == InProbeRtt(b, rs, r)
             i == [t EXCEPT !.idle_restart = FALSE]
  <1>1. expired \in BOOLEAN
    BY SMT DEF FilterExpired, After
  <1>2. a \in FlowState /\ ModeMatches(a) /\ Keeps(s, a)
    <2>1. Keeps(s, a)
      BY SMT DEF TakeMinRtt, FlowState, Keeps
    <2> QED
      BY <1>1, <2>1, TakeMinRttType, Zenon DEF ModeMatches, SameMode
  <1> HIDE DEF a, expired
  <1>3. b \in FlowState /\ ModeMatches(b)
    BY <1>1, <1>2, EnterProbeRttMode
  <1>4. b = a \/ (b.mode = "PROBE_RTT" /\ b.probe_rtt_done_stamp = 0)
    BY <1>1, <1>2, EnterProbeRttPhase
  <1> HIDE DEF b
  <1>5. t \in FlowState /\ GivesBack(b, t)
    <2> DEFINE done == b.probe_rtt_round_done \/ b.round_start
               k == [b EXCEPT !.probe_rtt_done_stamp = (now + ProbeRttTime) % JiffyMod,
                              !.probe_rtt_round_done = FALSE,
                            !.held = 0, !.round_held = FALSE]
               n == [b EXCEPT !.probe_rtt_round_done = done]
               m == [n EXCEPT !.min_rtt_us = rs.rtt % RttMod, !.min_rtt_stamp = now]
               q == IF After(now, b.probe_rtt_done_stamp) THEN m ELSE n
               c == leocc_check_probe_rtt_done(q, r)
    <2>1. t \in FlowState
      BY <1>3, InProbeRttMode
    <2>2. Keeps(b, k) /\ Keeps(b, n) /\ Keeps(b, b)
      BY <1>3, SMT DEF FlowState, Keeps
    <2>3. n \in FlowState
      <3>1. done \in BOOLEAN
        BY <1>3, ZenonT(40) DEF FlowState
      <3> HIDE DEF done
      <3> QED
        BY <1>3, <3>1, ZenonT(40) DEF FlowState
    <2> HIDE DEF k, n
    <2>4. m \in FlowState /\ Keeps(n, m)
      <3>1. rs.rtt % RttMod \in 0 .. RttMod - 1
        BY RttRange
      <3>2. m \in FlowState
        BY <2>3, <3>1, ZenonT(40) DEF FlowState
      <3>3. Keeps(n, m)
        BY <2>3, SMT DEF FlowState, Keeps
      <3> QED
        BY <3>2, <3>3
    <2> HIDE DEF m
    <2>5. q \in FlowState /\ Keeps(b, q)
      BY <2>2, <2>3, <2>4, KeepsTransitive
    <2> HIDE DEF q
    <2>6. b.mode = "PROBE_RTT" => GivesBack(b, c)
      <3> SUFFICES ASSUME b.mode = "PROBE_RTT" PROVE GivesBack(b, c)
        OBVIOUS
      <3>1. q.mode = "PROBE_RTT"
        BY <2>5 DEF Keeps
      <3> QED
        BY <2>5, <3>1, ProbeDoneGivesBack, GivesBackSteps
    <2> HIDE DEF c
    <2>7. t = b \/ (b.mode = "PROBE_RTT" /\ t \in {b, k, c})
      BY Zenon DEF InProbeRtt, t, k, n, m, q, c, done
    <2>8. GivesBack(b, b) /\ GivesBack(b, k)
      BY <2>2, GivesBackSteps
    <2> QED
      BY <2>1, <2>6, <2>7, <2>8, Zenon
  <1>6. GivesBack(a, t)
    <2>1. CASE b = a
      BY <1>5, <2>1
    <2>2. CASE b.mode = "PROBE_RTT" /\ b.probe_rtt_done_stamp = 0
      <3>1. PhaseStep(b, t)
        <4>1. b.mode = "PROBE_RTT" => b.full_bw_reached
          BY <1>3, SMT DEF ModeMatches
        <4> QED
          BY <1>3, <4>1, InProbeRttPhase
      <3>2. t.mode = "PROBE_RTT"
        BY <2>2, <3>1, Zenon DEF PhaseStep
      <3> QED
        BY <3>2 DEF GivesBack
    <2> QED
      BY <1>4, <2>1, <2>2
  <1> HIDE DEF t
  <1>7. Keeps(t, i)
    BY <1>5, SMT DEF FlowState, Keeps
  <1> HIDE DEF i
  <1>8. GivesBack(s, t) /\ GivesBack(s, i)
    BY <1>2, <1>6, <1>7, GivesBackSteps, Zenon
  <1> QED
    BY <1>8, Zenon DEF leocc_update_min_rtt, expired, a, b, t, i

\* The whole of leocc_update_model.
LEMMA UpdateModelGivesBack ==
    ASSUME NEW s \in FlowState, NEW rs \in RateSample, NEW r \in CycleRand,
           NEW max \in Bandwidths, ModeMatches(s), now \in Jiffies
    PROVE  GivesBack(s, leocc_update_model(s, rs, max, r))
  <1> DEFINE a == leocc_update_bw(s, rs, max)
             b == leocc_update_cycle_phase(a, rs)
             c == leocc_check_full_bw_reached(b, rs)
             d == leocc_check_drain(c, rs, r)
             e == leocc_update_min_rtt(d, rs, r)
             t == leocc_update_gains(e)
  <1>1. a \in FlowState /\ SameMode(s, a) /\ Keeps(s, a)
    BY UpdateBw, FilterKeeps
  <1> HIDE DEF a
  <1>2. b \in FlowState /\ SameMode(a, b) /\ Keeps(a, b)
    BY <1>1, UpdateCyclePhase, FilterKeeps
  <1> HIDE DEF b
  <1>3. /\ c \in FlowState /\ c.mode = b.mode /\ (b.full_bw_reached => c.full_bw_reached)
        /\ Keeps(b, c)
    BY <1>2, CheckFullBw, FilterKeeps
  <1> HIDE DEF c
  <1>4. c.mode # "STARTUP" => c.full_bw_reached
    BY <1>1, <1>2, <1>3, Zenon DEF ModeMatches, SameMode
  <1>5. d \in FlowState /\ ModeMatches(d) /\ Keeps(c, d)
    BY <1>3, <1>4, CheckDrain, CheckDrainKeeps
  <1> HIDE DEF d
  <1>6. e \in FlowState /\ GivesBack(d, e)
    BY <1>5, UpdateMinRtt, UpdateMinRttGivesBack
  <1> HIDE DEF e
  <1>7. Keeps(e, t)
    BY <1>6, FilterKeeps
  <1> HIDE DEF t
  <1>8. Keeps(s, d)
    BY <1>1, <1>2, <1>3, <1>5, KeepsTransitive
  <1>9. GivesBack(s, t)
    BY <1>6, <1>7, <1>8, GivesBackSteps, Zenon
  <1> QED
    BY <1>9, Zenon DEF leocc_update_model, a, b, c, d, e, t

\* At least o, or short of it only by what the ACK has reported lost.
ShortOfLosses(x, o, rs) == x >= o \/ (rs.losses > 0 /\ x >= o - rs.losses)

\* leocc_set_cwnd outside recovery, in a mode that does not hold the window down and
\* while the pipe is not full: what is saved comes back, and growth only adds.
LEMMA SetCwndRestores ==
    ASSUME NEW s \in FlowState, NEW rs \in RateSample, NEW o \in Nat,
           ~InRecovery(s.ca_state), s.mode # "PROBE_RTT", ~s.full_bw_reached,
           o <= CwndClamp, o <= s.prior_cwnd, s.snd_cwnd >= o \/ InRecovery(s.prev_ca_state),
           ~InRecovery(leocc_set_cwnd(s, rs).prev_ca_state)
    PROVE  ShortOfLosses(leocc_set_cwnd(s, rs).snd_cwnd, o, rs)
  <1> DEFINE lost == IF rs.losses > 0 THEN Max2(s.snd_cwnd - rs.losses, 1) ELSE s.snd_cwnd
             keep == rs.inflight + rs.acked
             restored == Max2(lost, s.prior_cwnd)
             t == [s EXCEPT !.prev_ca_state = s.ca_state]
             a == [t EXCEPT !.packet_conservation = TRUE, !.snd_cwnd = keep]
             b == [t EXCEPT !.packet_conservation = FALSE, !.snd_cwnd = restored]
             c == [t EXCEPT !.snd_cwnd = lost]
             u == CASE s.ca_state = "Recovery" /\ s.prev_ca_state # "Recovery" -> a
                    [] InRecovery(s.prev_ca_state) /\ ~InRecovery(s.ca_state) -> b
                    [] OTHER -> c
             v == [u EXCEPT !.snd_cwnd = Max2(@, keep)]
             n == leocc_set_cwnd_to_recover_or_restore(s, rs)
             g == GrowToTarget(n, rs)
             q == IF n.packet_conservation THEN n ELSE g
             w == IF rs.acked = 0 THEN s ELSE q
             z == CapCwnd(w, rs)
  <1>1. t \in FlowState
    BY WindowTypes, ZenonT(40) DEF FlowState
  <1>2. /\ lost \in Nat /\ keep \in Nat /\ restored \in Nat /\ restored >= o
        /\ s.snd_cwnd >= o => ShortOfLosses(lost, o, rs)
    BY WindowTypes, SampleCounts, SMT DEF Max2, ShortOfLosses
  <1> HIDE DEF lost, keep, restored, t
  <1>3. b \in FlowState /\ c \in FlowState
    BY <1>1, <1>2, ZenonT(40) DEF FlowState
  <1>4. b.snd_cwnd = restored /\ c.snd_cwnd = lost
    BY <1>1, SMT DEF FlowState
  <1> HIDE DEF a, b, c
  <1>5. u = IF InRecovery(s.prev_ca_state) THEN b ELSE c
    <2>1. s.ca_state # "Recovery"
      BY Zenon DEF InRecovery
    <2> QED
      BY <2>1, Zenon
  <1> HIDE DEF u
  <1>6. u \in FlowState /\ ShortOfLosses(u.snd_cwnd, o, rs)
    <2>1. restored >= o => ShortOfLosses(restored, o, rs)
      BY Zenon DEF ShortOfLosses
    <2> QED
      BY <1>2, <1>3, <1>4, <1>5, <2>1, Zenon
  <1>7. ShortOfLosses(v.snd_cwnd, o, rs)
    <2>1. v.snd_cwnd = Max2(u.snd_cwnd, keep)
      BY <1>6, SMT DEF FlowState
    <2>2. u.snd_cwnd \in Nat /\ rs.losses \in Nat
      BY <1>6, WindowTypes, SampleCounts
    <2> HIDE DEF v
    <2> QED
      BY <1>2, <1>6, <2>1, <2>2, SMT DEF Max2, ShortOfLosses
  <1> HIDE DEF v
  <1>8. n = IF u.packet_conservation THEN v ELSE u
    BY Zenon DEF leocc_set_cwnd_to_recover_or_restore, lost, keep, restored, t, a, b, c, u, v
  <1>9. n \in FlowState /\ SameMode(s, n) /\ ShortOfLosses(n.snd_cwnd, o, rs)
    BY <1>6, <1>7, <1>8, RecoverOrRestore, Zenon
  <1> HIDE DEF n
  <1>10. ~n.full_bw_reached /\ n.mode # "PROBE_RTT"
    BY <1>9, Zenon DEF SameMode
  <1>11. MovesWindow(n, g) /\ g \in FlowState /\ ShortOfLosses(g.snd_cwnd, o, rs)
    <2> DEFINE k == IF n.snd_cwnd < rs.target \/ rs.few_delivered
                    THEN n.snd_cwnd + rs.acked ELSE n.snd_cwnd
               y == Max2(k, CwndMinTarget)
    <2>1. n.snd_cwnd \in Nat /\ rs.losses \in Nat /\ rs.acked \in Nat /\ CwndMinTarget \in Nat
      BY <1>9, WindowTypes, SampleCounts
    <2>2. k \in Nat /\ k >= n.snd_cwnd
      BY <2>1, SMT
    <2>3. g = [n EXCEPT !.snd_cwnd = y]
      BY <1>10, Zenon DEF GrowToTarget
    <2> HIDE DEF k
    <2>4. y \in Nat /\ y >= n.snd_cwnd
      BY <2>1, <2>2, SMT DEF Max2
    <2> HIDE DEF y, g
    <2>5. g \in FlowState
      BY <1>9, <2>3, <2>4, Window
    <2>6. MovesWindow(n, g) /\ g.snd_cwnd = y
      BY <1>9, <2>3, SMT DEF FlowState, MovesWindow
    <2>7. ShortOfLosses(y, o, rs)
      BY <1>9, <2>1, <2>4, SMT DEF ShortOfLosses
    <2> QED
      BY <2>5, <2>6, <2>7
  <1> HIDE DEF g
  <1>12. q \in FlowState /\ q.mode # "PROBE_RTT" /\ ShortOfLosses(q.snd_cwnd, o, rs)
    BY <1>9, <1>10, <1>11, Zenon DEF MovesWindow
  <1> HIDE DEF q
  <1>13. w \in FlowState /\ w.mode # "PROBE_RTT"
    BY <1>12, Zenon
  <1>14. z.prev_ca_state = w.prev_ca_state /\ z.snd_cwnd = Min2(w.snd_cwnd, CwndClamp)
    <2> HIDE DEF w
    <2> DEFINE x == Min2(w.snd_cwnd, CwndClamp)
    <2>1. z = [w EXCEPT !.snd_cwnd = x]
      BY <1>13, Zenon DEF CapCwnd
    <2> HIDE DEF z, x
    <2>2. z.prev_ca_state = w.prev_ca_state /\ z.snd_cwnd = x
      BY <1>13, <2>1, SMT DEF FlowState
    <2> QED
      BY <2>2 DEF x
  <1> HIDE DEF z
  <1>15. leocc_set_cwnd(s, rs) = z
    BY Zenon DEF leocc_set_cwnd, n, g, q, w, z
  <1>16. ShortOfLosses(w.snd_cwnd, o, rs)
    <2>1. CASE rs.acked = 0
      <3>1. w = s
        BY <2>1
      <3>2. s.snd_cwnd >= o
        BY <1>14, <1>15, <3>1
      <3> QED
        BY <3>1, <3>2 DEF ShortOfLosses
    <2>2. CASE rs.acked # 0
      BY <1>12, <2>2
    <2> QED
      BY <2>1, <2>2
  <1> HIDE DEF w
  <1>17. w.snd_cwnd \in Nat /\ rs.losses \in Nat /\ CwndClamp \in Nat
    BY <1>13, WindowTypes, SampleCounts
  <1>18. ShortOfLosses(z.snd_cwnd, o, rs)
    BY <1>14, <1>16, <1>17, SMT DEF ShortOfLosses, Min2
  <1> QED
    BY <1>15, <1>18

\* What a step that ends an episode in STARTUP leaves of the window.
Restarts(s, t) == InEpisode(s) /\ ~InEpisode(t) /\ t.mode = "STARTUP"

\* An ACK that ends the episode is short only of its own losses.
LEMMA AckRestarts ==
    ASSUME WindowInv, NEW f \in Flows, NEW rs \in RateSamples, leocc_main(f, rs),
           Restarts(flow[f], flow'[f])
    PROVE  ShortOfLosses(flow'[f].snd_cwnd, flow[f].owed, rs)
  <1>1. rs \in RateSample
    BY LeoCCAssumption, Zenon
  <1> DEFINE o == flow[f].owed
             x == flow[f].local_trigger \/ global_reconfiguration_trigger
             s == [flow[f] EXCEPT !.local_trigger = x]
  <1>2. /\ flow[f] \in FlowState /\ ModeMatches(flow[f]) /\ Covered(flow[f])
        /\ now \in Jiffies /\ leocc_pacing_gain_0 \in {ProbeUp, GentleUp}
    BY WindowOf
  <1>3. x \in BOOLEAN
    BY <1>2, ZenonT(40) DEF WindowInv, Inv, TypeOK, FlowState
  <1> HIDE DEF x
  <1>4. s \in FlowState
    BY <1>2, <1>3, ZenonT(40) DEF FlowState
  <1>5. SameMode(flow[f], s) /\ Keeps(flow[f], s)
    BY <1>2, SMT DEF FlowState, SameMode, Keeps
  <1>6. s = [flow[f] EXCEPT !.local_trigger = @ \/ global_reconfiguration_trigger]
    BY Zenon DEF x
  <1> HIDE DEF s
  <1>7. ModeMatches(s)
    BY <1>2, <1>5, Zenon DEF SameMode, ModeMatches
  <1>8. PICK max \in RunningMax(s.bw, rs.bw), r \in CycleRand,
             hat \in KalmanRtt(s.rtt_hat_post, rs.rtt) :
          LET t == leocc_update_model(s, rs, max, r)
              u == [t EXCEPT !.rtt_hat_post = hat]
          IN  /\ leocc_pacing_gain_0' = IF Fluctuates(u) THEN GentleUp ELSE ProbeUp
              /\ flow' = [flow EXCEPT ![f] = SettleEpisode(leocc_set_cwnd(u, rs))]
              /\ UNCHANGED <<now, global_reconfiguration_trigger, min_rtt_fluctuation>>
    BY <1>6, Zenon DEF leocc_main
  <1> DEFINE t == leocc_update_model(s, rs, max, r)
             u == [t EXCEPT !.rtt_hat_post = hat]
             w == leocc_set_cwnd(u, rs)
             z == SettleEpisode(w)
  <1>9. max \in Bandwidths
    <2>1. rs.bw \in Bandwidths
      BY <1>1, Zenon DEF RateSample
    <2> QED
      BY <1>8, <2>1, Zenon DEF RunningMax
  <1>10. hat \in Rtts \cup {0}
    <2>1. s.rtt_hat_post \in Rtts \cup {0}
      BY <1>4, ZenonT(40) DEF FlowState
    <2> QED
      BY <1>8, <2>1, Zenon DEF KalmanRtt
  <1>11. t \in FlowState /\ ModeMatches(t) /\ GivesBack(s, t)
    BY <1>1, <1>2, <1>4, <1>7, <1>8, <1>9, UpdateModel, UpdateModelGivesBack
  <1>12. flow' = [flow EXCEPT ![f] = z]
    BY <1>8
  <1> HIDE DEF t
  <1>13. u \in FlowState /\ Keeps(t, u) /\ SameMode(t, u)
    <2>1. u \in FlowState
      BY <1>10, <1>11, ZenonT(40) DEF FlowState
    <2>2. Keeps(t, u) /\ SameMode(t, u)
      BY <1>11, SMT DEF FlowState, Keeps, SameMode
    <2> QED
      BY <2>1, <2>2
  <1> HIDE DEF u
  <1>14. ModeMatches(u) /\ GivesBack(flow[f], u)
    <2>1. ModeMatches(u)
      BY <1>11, <1>13, Zenon DEF SameMode, ModeMatches
    <2>2. GivesBack(s, u)
      BY <1>11, <1>13, GivesBackSteps
    <2> QED
      BY <1>5, <2>1, <2>2, GivesBackSteps
  <1>15. w \in FlowState /\ SameMode(u, w) /\ w.ca_state = u.ca_state
    <2> DEFINE n == [u EXCEPT !.prev_ca_state = u.ca_state]
               k == leocc_set_cwnd_to_recover_or_restore(u, rs)
               g == GrowToTarget(k, rs)
               q == IF rs.acked = 0 THEN u ELSE IF k.packet_conservation THEN k ELSE g
    <2>1. n.ca_state = u.ca_state
      BY <1>13, SMT DEF FlowState
    <2>2. MovesWindow(n, k) /\ MovesWindow(k, g)
      BY <1>1, <1>13, RecoverMovesWindow
    <2>3. k \in FlowState
      BY <1>1, <1>13, RecoverOrRestore
    <2> HIDE DEF n, k
    <2>4. g \in FlowState
      BY <1>1, <2>3, GrowTyped
    <2> HIDE DEF g
    <2>5. q.ca_state = u.ca_state
      BY <2>1, <2>2, Zenon DEF MovesWindow
    <2>6. CapCwnd(q, rs).ca_state = q.ca_state
      <3>1. q \in FlowState
        BY <1>13, <2>3, <2>4
      <3> HIDE DEF q
      <3> DEFINE G(y) == [q EXCEPT !.snd_cwnd = y]
      <3>2. ASSUME NEW y PROVE G(y).ca_state = q.ca_state
        BY <3>1, SMT DEF FlowState
      <3> HIDE DEF G
      <3>3. \E y : CapCwnd(q, rs) = G(y)
        BY Zenon DEF CapCwnd, G
      <3> QED
        BY <3>2, <3>3, Zenon
    <2>7. w = CapCwnd(q, rs)
      BY Zenon DEF leocc_set_cwnd, k, g, q, w
    <2> QED
      BY <1>1, <1>13, <2>5, <2>6, <2>7, SetCwnd
  <1> HIDE DEF w
  <1>16. /\ z.mode = w.mode /\ z.ca_state = w.ca_state /\ z.prev_ca_state = w.prev_ca_state
         /\ z.snd_cwnd = w.snd_cwnd
    BY <1>15, SMT DEF SettleEpisode, FlowState
  <1>17. flow'[f] = z
    <2>1. flow \in [Flows -> FlowState]
      BY DEF WindowInv, Inv, TypeOK
    <2> HIDE DEF z
    <2> QED
      BY <1>12, <2>1, Zenon
  <1> HIDE DEF z
  <1>18. /\ u.mode = "STARTUP" /\ u.mode # "PROBE_RTT" /\ ~u.full_bw_reached
         /\ ~InRecovery(u.ca_state) /\ ~InRecovery(w.prev_ca_state)
    <2>1. z.mode = "STARTUP" /\ ~InEpisode(z)
      BY <1>17 DEF Restarts
    <2>2. u.mode = "STARTUP" /\ ~InRecovery(u.ca_state) /\ ~InRecovery(w.prev_ca_state)
      BY <1>15, <1>16, <2>1, Zenon DEF InEpisode, SameMode
    <2>3. ~u.full_bw_reached
      BY <1>14, <2>2, Zenon DEF ModeMatches
    <2> QED
      BY <2>2, <2>3
  <1>20. /\ u.ca_state = flow[f].ca_state /\ u.prev_ca_state = flow[f].prev_ca_state
         /\ u.prior_cwnd = flow[f].prior_cwnd
         /\ flow[f].mode = "PROBE_RTT" => u.snd_cwnd >= flow[f].prior_cwnd
    BY <1>14, <1>18 DEF GivesBack
  <1>21. /\ o \in Nat /\ o <= CwndClamp /\ o <= u.prior_cwnd
         /\ u.snd_cwnd >= o \/ InRecovery(u.prev_ca_state)
    <2>1. o \in Nat /\ flow[f].prior_cwnd \in Nat /\ CwndClamp \in Nat /\ u.snd_cwnd \in Nat
      BY <1>2, <1>13, WindowTypes
    <2>2. InEpisode(flow[f]) /\ o <= flow[f].prior_cwnd /\ flow[f].prior_cwnd <= CwndClamp
      BY <1>2 DEF Restarts, Covered, Owes
    <2>3. flow[f].mode = "PROBE_RTT" \/ InRecovery(u.prev_ca_state)
      BY <1>18, <1>20, <2>2, Zenon DEF InEpisode
    <2> HIDE DEF o
    <2> QED
      BY <1>20, <2>1, <2>2, <2>3, SMT
  <1> HIDE DEF o
  <1>22. ShortOfLosses(w.snd_cwnd, o, rs)
    BY <1>1, <1>13, <1>18, <1>21, SetCwndRestores DEF w
  <1> QED
    BY <1>16, <1>17, <1>22 DEF o

\* Every other step gives it back whole: cwnd_event from what is saved, and a loss
\* recovery that ends before an ACK has noticed it has not yet taken anything.
LEMMA OtherRestarts ==
    ASSUME WindowInv, NEW f \in Flows, Restarts(flow[f], flow'[f]),
           leocc_cwnd_event(f) \/ LossAction(f)
    PROVE  flow'[f].snd_cwnd >= flow[f].owed
  <1> DEFINE s == flow[f]
  <1>1. s \in FlowState /\ ModeMatches(s) /\ Covered(s) /\ now \in Jiffies
    BY WindowOf
  <1>2. s.owed \in Nat /\ s.prior_cwnd \in Nat /\ s.snd_cwnd \in Nat /\ s.ca_state \in CaStates
    BY <1>1, WindowTypes
  <1>3. InEpisode(s) /\ s.owed <= s.prior_cwnd
    BY <1>1 DEF Restarts, Covered, Owes
  <1>4. ASSUME NEW t \in FlowState, OnlyFlow(f, t)
        PROVE  /\ flow'[f].mode = t.mode /\ flow'[f].ca_state = t.ca_state
               /\ flow'[f].prev_ca_state = t.prev_ca_state /\ flow'[f].snd_cwnd = t.snd_cwnd
               /\ t.mode = "STARTUP" /\ ~InEpisode(t)
    <2> DEFINE z == SettleEpisode(t)
    <2>1. /\ z.mode = t.mode /\ z.ca_state = t.ca_state /\ z.prev_ca_state = t.prev_ca_state
          /\ z.snd_cwnd = t.snd_cwnd
      BY SMT DEF SettleEpisode, FlowState
    <2>2. flow'[f] = z
      <3>1. flow \in [Flows -> FlowState]
        BY DEF WindowInv, Inv, TypeOK
      <3>2. flow' = [flow EXCEPT ![f] = z]
        BY <1>4 DEF OnlyFlow
      <3> HIDE DEF z
      <3> QED
        BY <3>1, <3>2, Zenon
    <2> HIDE DEF z
    <2>3. z.mode = "STARTUP" /\ ~InEpisode(z)
      BY <2>2 DEF Restarts
    <2> QED
      BY <2>1, <2>2, <2>3, Zenon DEF InEpisode
  <1> HIDE DEF s
  <1>5. CASE leocc_cwnd_event(f)
    <2> DEFINE i == [s EXCEPT !.idle_restart = TRUE]
    <2>1. i \in FlowState
      BY <1>1, ZenonT(40) DEF FlowState
    <2>2. SameMode(s, i) /\ Keeps(s, i)
      BY <1>1, SMT DEF FlowState, SameMode, Keeps
    <2>3. PICK r \in CycleRand :
            OnlyFlow(f, IF i.mode = "PROBE_RTT" THEN leocc_check_probe_rtt_done(i, r) ELSE i)
      BY <1>5, Zenon DEF leocc_cwnd_event, s
    <2> HIDE DEF i
    <2> DEFINE t == leocc_check_probe_rtt_done(i, r)
    <2>4. ModeMatches(i)
      BY <1>1, <2>2, Zenon DEF SameMode, ModeMatches
    <2>5. t \in FlowState
      BY <2>1, <2>4, CheckProbeRttDone
    <2>6. CASE i.mode = "PROBE_RTT"
      <3>1. GivesBack(i, t)
        BY <2>1, <2>6, ProbeDoneGivesBack
      <3>2. OnlyFlow(f, t)
        BY <2>3, <2>6
      <3> HIDE DEF t
      <3>3. t.mode # "PROBE_RTT" /\ flow'[f].snd_cwnd = t.snd_cwnd
        BY <1>4, <2>5, <3>2
      <3>4. t.snd_cwnd >= i.prior_cwnd /\ i.prior_cwnd = s.prior_cwnd
        BY <2>2, <2>6, <3>1, <3>3 DEF GivesBack, Keeps
      <3>5. t.snd_cwnd \in Nat
        BY <2>5, WindowTypes
      <3> QED
        BY <1>2, <1>3, <3>3, <3>4, <3>5, SMT DEF s
    <2>7. CASE i.mode # "PROBE_RTT"
      <3>1. OnlyFlow(f, i)
        BY <2>3, <2>7
      <3>2. ~InEpisode(i)
        BY <1>4, <2>1, <3>1
      <3>3. InEpisode(i)
        BY <1>3, <2>2, Zenon DEF InEpisode, Keeps
      <3> QED
        BY <3>2, <3>3
    <2> QED
      BY <2>6, <2>7
  <1>6. CASE EnterCwr(f)
    <2> DEFINE v == leocc_save_cwnd(BeginEpisode(s))
               t == [v EXCEPT !.ca_state = "CWR"]
    <2>1. OnlyFlow(f, t) /\ s.ca_state = "Open"
      BY <1>6 DEF EnterCwr, leocc_ssthresh, s
    <2>2. v \in FlowState /\ v.mode = s.mode /\ v.prev_ca_state = s.prev_ca_state
      BY <1>1, BeginAndSave
    <2> HIDE DEF v
    <2>3. t \in FlowState
      BY <2>2, ZenonT(40) DEF FlowState, CaStates
    <2>4. t.mode = v.mode /\ t.prev_ca_state = v.prev_ca_state
      BY <2>2, SMT DEF FlowState
    <2> HIDE DEF t
    <2>5. ~InRecovery(s.ca_state)
      BY <2>1, SMT DEF InRecovery
    <2>6. InEpisode(t)
      BY <1>3, <2>2, <2>4, <2>5, Zenon DEF InEpisode
    <2> QED
      BY <1>4, <2>1, <2>3, <2>6
  <1>10. CASE LeaveCwr(f)
    <2> DEFINE t == [s EXCEPT !.ca_state = "Open"]
    <2>1. OnlyFlow(f, t) /\ s.ca_state = "CWR"
      BY <1>10 DEF LeaveCwr, s
    <2>2. t \in FlowState
      BY <1>1, ZenonT(40) DEF FlowState, CaStates
    <2>3. t.mode = s.mode /\ t.prev_ca_state = s.prev_ca_state
      BY <1>1, SMT DEF FlowState
    <2> HIDE DEF t
    <2>4. ~InRecovery(s.ca_state)
      BY <2>1, SMT DEF InRecovery
    <2>5. InEpisode(t)
      BY <1>3, <2>3, <2>4, Zenon DEF InEpisode
    <2> QED
      BY <1>4, <2>1, <2>2, <2>5
  <1>7. CASE EnterRecovery(f)
    <2> DEFINE b == BeginEpisode(s)
               v == leocc_save_cwnd(b)
               q == IF s.ca_state = "CWR" THEN b ELSE v
               t == [q EXCEPT !.ca_state = "Recovery"]
    <2>1. b \in FlowState /\ v \in FlowState
      BY <1>1, BeginAndSave
    <2>2. OnlyFlow(f, t)
      BY <1>7, Zenon DEF EnterRecovery, leocc_ssthresh, s
    <2> HIDE DEF b, v
    <2>3. q \in FlowState
      BY <2>1
    <2> HIDE DEF q
    <2>4. t \in FlowState
      BY <2>3, ZenonT(40) DEF FlowState, CaStates
    <2>5. t.ca_state = "Recovery"
      BY <2>3, SMT DEF FlowState
    <2> HIDE DEF t
    <2>6. InEpisode(t)
      BY <2>5, SMT DEF InEpisode, InRecovery
    <2> QED
      BY <1>4, <2>2, <2>4, <2>6
  <1>8. CASE EnterLoss(f)
    <2> DEFINE b == BeginEpisode(s)
               v == leocc_save_cwnd(b)
    <2>1. PICK again \in BOOLEAN, c \in 1 .. CwndClamp :
            LET q == IF s.ca_state = "Open" \/ again THEN v ELSE b
            IN  OnlyFlow(f, leocc_set_state_loss([q EXCEPT !.ca_state = "Loss",
                                                           !.snd_cwnd = c]))
      BY <1>8, Zenon DEF EnterLoss, leocc_ssthresh, s
    <2> DEFINE q == IF s.ca_state = "Open" \/ again THEN v ELSE b
               x == [q EXCEPT !.ca_state = "Loss", !.snd_cwnd = c]
               t == leocc_set_state_loss(x)
    <2>2. OnlyFlow(f, t)
      BY <2>1
    <2>3. c \in Nat
      BY LeoCCAssumption, SMT
    <2>4. v \in FlowState /\ b \in FlowState
      BY <1>1, BeginAndSave
    <2> HIDE DEF v, b
    <2>5. q \in FlowState
      BY <2>4
    <2> HIDE DEF q
    <2>6. t \in FlowState
      BY <2>3, <2>5, LossSteps
    <2>7. t.ca_state = "Loss"
      <3>1. x \in FlowState
        BY <2>3, <2>5, ZenonT(40) DEF FlowState, CaStates
      <3>2. x.ca_state = "Loss"
        BY <2>5, SMT DEF FlowState
      <3> HIDE DEF x
      <3>3. t.ca_state = x.ca_state
        BY <3>1, SMT DEF leocc_set_state_loss, FlowState
      <3> QED
        BY <3>2, <3>3
    <2> HIDE DEF t
    <2>8. InEpisode(t)
      BY <2>7, SMT DEF InEpisode, InRecovery
    <2> QED
      BY <1>4, <2>2, <2>6, <2>8
  <1>9. CASE LeaveRecovery(f)
    <2> DEFINE v == leocc_undo_cwnd(s)
    <2>1. PICK undo \in BOOLEAN :
            OnlyFlow(f, [IF undo THEN v ELSE s EXCEPT !.ca_state = "Open"])
      BY <1>9, Zenon DEF LeaveRecovery, s
    <2> DEFINE q == IF undo THEN v ELSE s
               t == [q EXCEPT !.ca_state = "Open"]
    <2>2. OnlyFlow(f, t) /\ InRecovery(s.ca_state)
      BY <1>9, <2>1 DEF LeaveRecovery, s
    <2>3. v \in FlowState
      BY <1>1, <1>2, LossSteps
    <2>4. /\ v.mode = s.mode /\ v.prev_ca_state = s.prev_ca_state /\ v.snd_cwnd = s.snd_cwnd
      BY <1>1, SMT DEF leocc_undo_cwnd, FlowState
    <2> HIDE DEF v
    <2>5. /\ q \in FlowState /\ q.mode = s.mode /\ q.prev_ca_state = s.prev_ca_state
          /\ q.snd_cwnd = s.snd_cwnd
      BY <1>1, <2>3, <2>4, Zenon
    <2> HIDE DEF q
    <2>6. t \in FlowState
      BY <2>5, ZenonT(40) DEF FlowState, CaStates
    <2>7. t.mode = q.mode /\ t.prev_ca_state = q.prev_ca_state /\ t.snd_cwnd = q.snd_cwnd
      BY <2>5, SMT DEF FlowState
    <2> HIDE DEF t
    <2>8. ~InEpisode(t) /\ flow'[f].snd_cwnd = s.snd_cwnd
      BY <1>4, <2>2, <2>5, <2>6, <2>7
    <2>9. s.mode # "PROBE_RTT" /\ ~InRecovery(s.prev_ca_state)
      BY <2>5, <2>7, <2>8, Zenon DEF InEpisode
    <2>10. s.ca_state = "Recovery"
      <3>1. s.ca_state # "Loss"
        BY <1>1, <2>9, SMT DEF Covered, InRecovery
      <3> QED
        BY <2>2, <3>1, SMT DEF InRecovery
    <2>11. s.owed <= s.snd_cwnd
      BY <1>1, <2>9, <2>10 DEF Covered
    <2> QED
      BY <1>2, <2>8, <2>11, SMT DEF s
  <1> QED
    BY <1>5, <1>6, <1>7, <1>8, <1>9, <1>10 DEF LossAction

\* A flow that a reconfiguration sends back to STARTUP at the end of an episode has
\* the window it had before (or when the CWR before it began, if that was less), short
\* only of what the ACK that ended it reported lost, however PROBE_RTT, CWR and loss
\* recoveries overlapped (leocc.c:240-249, 339-366, 585-600).
THEOREM RestartsWithItsWindow == Spec => RestartGivesWindowBack
  <1> DEFINE A == \A f \in Flows :
                    InEpisode(flow[f]) /\ ~InEpisode(flow'[f]) /\ flow'[f].mode = "STARTUP"
                        => \/ flow'[f].snd_cwnd >= flow[f].owed
                           \/ \E rs \in RateSamples :
                                 /\ rs.losses > 0 /\ leocc_main(f, rs)
                                 /\ flow'[f].snd_cwnd >= flow[f].owed - rs.losses
  <1>1. WindowInv /\ [Next]_vars => A
    <2> SUFFICES ASSUME WindowInv, [Next]_vars, NEW f \in Flows,
                        Restarts(flow[f], flow'[f])
                 PROVE  \/ flow'[f].snd_cwnd >= flow[f].owed
                        \/ \E rs \in RateSamples :
                              /\ rs.losses > 0 /\ leocc_main(f, rs)
                              /\ flow'[f].snd_cwnd >= flow[f].owed - rs.losses
      BY Zenon DEF Restarts
    <2>1. CASE Ack(f)
      <3>1. PICK rs \in RateSamples : leocc_main(f, rs)
        BY <2>1 DEF Ack
      <3>2. ShortOfLosses(flow'[f].snd_cwnd, flow[f].owed, rs)
        BY <3>1, AckRestarts
      <3> QED
        BY <3>1, <3>2, Zenon DEF ShortOfLosses
    <2>2. CASE leocc_cwnd_event(f) \/ LossAction(f)
      BY <2>2, OtherRestarts
    <2>3. ASSUME flow'[f] = flow[f] PROVE FALSE
      BY <2>3, Zenon DEF Restarts
    <2>4. ASSUME NEW g \in Flows \ {f}, FlowNext(g) PROVE FALSE
      <3>1. FlowStep(g)
        BY <2>4, FlowNextPhase DEF WindowInv
      <3>2. flow'[f] = flow[f]
        BY <2>4, <3>1, Zenon DEF FlowStep
      <3> QED
        BY <2>3, <3>2
    <2>5. CASE Tick
      <3>1. flow[f] \in FlowState
        BY WindowOf
      <3>2. flow'[f] = [flow[f] EXCEPT !.held = IF flow[f].mode = "PROBE_RTT"
                                                THEN Min2(@ + 1, ProbeRttTime + 1) ELSE 0]
        BY <2>5, Zenon DEF Tick
      <3>3. Keeps(flow[f], flow'[f])
        BY <3>1, <3>2, SMT DEF FlowState, Keeps
      <3> QED
        BY <3>3, Zenon DEF Restarts, InEpisode, Keeps
    <2>6. CASE NetlinkHandler \/ UNCHANGED vars
      <3>1. flow' = flow
        BY <2>6, Zenon DEF NetlinkHandler, vars
      <3> QED
        BY <2>3, <3>1
    <2> QED
      BY <2>1, <2>2, <2>4, <2>5, <2>6, Zenon DEF Next, FlowNext, LossAction
  <1>2. WindowInv /\ [Next]_vars => [A]_vars
    BY <1>1
  <1>3. Init => WindowInv
    BY InitInv, InitCovered DEF WindowInv
  <1> QED
    BY <1>2, <1>3, NextCovered, PTL DEF Spec, RestartGivesWindowBack

=============================================================================
