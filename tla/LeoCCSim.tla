------------------------------ MODULE LeoCCSim ------------------------------
(***************************************************************************)
(* The version of LeoCC for emulation.  It is the flow of module LeoCC, told *)
(* of reconfigurations by a schedule instead of the netlink handler: one     *)
(* every PERIOD, in the last magic_offset ms before `offset`, counted from   *)
(* the latest leocc_init of any socket (init_stamp is one static).           *)
(*                                                                         *)
(* The helpers are the same text in both versions, and so are taken from     *)
(* LeoCC; what differs is leocc_init and leocc_main.  Loss recovery, which   *)
(* has nothing to do with the schedule, is left to LeoCC.  The clock counts  *)
(* jiffies; the schedule counts ms, computed from them in 32 bits.           *)
(***************************************************************************)
EXTENDS Integers

CONSTANTS
    Flows, RateSamples, Bandwidths, Rtts, RttMod, MinRttWin, ProbeRttTime,
    DeltaRtt, DeltaThresh, CycleLen, CwndMinTarget, CwndClamp,   \* as in LeoCC
    JiffyMod,             \* 2^width of jiffies and of the products below
    MsPerSecond,          \* 1000
    HZ,
    PERIOD,               \* ms between reconfigurations
    offset,               \* module parameter, ms
    magic_offset,         \* magic_offet, ms
    MinRttFluctuation,    \* module parameter min_rtt_fluctuation
    OtherStarts           \* bound: jiffies at which another socket may start

ASSUME ScheduleAssumption ==
    /\ MsPerSecond \in Nat \ {0} /\ HZ \in Nat \ {0} /\ PERIOD \in Nat \ {0}
    /\ offset \in Nat /\ magic_offset \in Nat
    /\ MinRttFluctuation \in Nat /\ OtherStarts \subseteq Nat
    /\ JiffyMod \in Nat \ {0} /\ ProbeRttTime \in Nat \ {0} /\ 2 * ProbeRttTime < JiffyMod

\* The window opens a jiffy after the schedule starts or later, and a probe outlasts it:
\* with the code's numbers, after 11900 ms, and 200 ms to 100 ms.
ASSUME WindowAssumption ==
    /\ offset < JiffyMod
    /\ HZ * offset >= HZ * magic_offset + MsPerSecond
    /\ MsPerSecond * (ProbeRttTime + 1) >= HZ * (magic_offset + 1)

VARIABLES
    flow, now, leocc_pacing_gain_0,   \* as in LeoCC
    init_stamp,                       \* jiffies at the latest leocc_init
    probes                            \* history: of each flow, for this window's trigger

vars == <<flow, now, leocc_pacing_gain_0, init_stamp, probes>>

delta_since_start ==
    ((((now - init_stamp) % JiffyMod) * MsPerSecond) % JiffyMod) \div HZ

relative_time == delta_since_start % PERIOD

\* `offset - magic_offet` is unsigned: with an offset below the window's length it
\* wraps, and no time is in the window.
InWindow ==
    relative_time >= (offset - magic_offset) % JiffyMod /\ relative_time <= offset

Live == INSTANCE LeoCC
            WITH global_reconfiguration_trigger <- InWindow,
                 min_rtt_fluctuation <- MinRttFluctuation,
                 Fluctuations <- {0, MinRttFluctuation},
                 LossyPath <- FALSE

TypeOK ==
    /\ Live!TypeOK
    /\ init_stamp \in Live!Jiffies
    /\ probes \in [Flows -> Nat]

-----------------------------------------------------------------------------
(* What a call of leocc_update_model does, helper by helper                 *)

UpdateBandwidth(s, rs, max) == Live!leocc_update_bw(s, rs, max)

UpdateCyclePhase(s, rs) == Live!leocc_update_cycle_phase(s, rs)

CheckFullBw(s, rs) == Live!leocc_check_full_bw_reached(s, rs)

CheckDrainKeepsTrigger(s, rs, r) ==
    [Live!leocc_check_drain(s, rs, r) EXCEPT !.local_trigger = s.local_trigger]

CheckDrain(s, rs, r) == Live!leocc_check_drain(s, rs, r)

UpdateMinRtt(s, rs, r) == Live!leocc_update_min_rtt(s, rs, r)

leocc_update_model(s, rs, max, r) ==
    Live!leocc_update_gains(
        UpdateMinRtt(
            CheckDrain(
                CheckFullBw(UpdateCyclePhase(UpdateBandwidth(s, rs, max), rs), rs),
                rs, r),
            rs, r))

SetCwnd(s, rs) == Live!leocc_set_cwnd(s, rs)

-----------------------------------------------------------------------------
(* The callbacks                                                            *)

\* The trigger's guard.  A flow that has the trigger keeps it until DRAIN.
Told(s) == [s EXCEPT !.local_trigger = @ \/ InWindow]

\* Unlike the live version, a fluctuation of 0 does not switch this test off.
Fluctuates(s) ==
    /\ s.rtt_hat_post >= (DeltaRtt + s.min_rtt_us + MinRttFluctuation) % RttMod
    /\ ~s.local_trigger
    /\ s.mode = "CRUISE"

\* A probe for the trigger begins.
CountProbe(f) ==
    probes' = IF /\ flow[f].mode # "PROBE_RTT" /\ flow'[f].mode = "PROBE_RTT"
                 /\ flow'[f].local_trigger
              THEN [probes EXCEPT ![f] = @ + 1] ELSE probes

\* A window opens.
CountAnew ==
    probes' = IF ~InWindow /\ InWindow' THEN [f \in Flows |-> 0] ELSE probes

leocc_main(f, rs) ==
    \E max \in Live!RunningMax(flow[f].bw, rs.bw), r \in Live!CycleRand,
       hat \in Live!KalmanRtt(flow[f].rtt_hat_post, rs.rtt) :
      LET t == leocc_update_model(Told(flow[f]), rs, max, r)
          u == [t EXCEPT !.rtt_hat_post = hat]
      IN  /\ leocc_pacing_gain_0' =
                 IF Fluctuates(u) THEN Live!GentleUp ELSE Live!ProbeUp
          /\ flow' = [flow EXCEPT ![f] = Live!SettleEpisode(SetCwnd(u, rs))]
          /\ CountProbe(f)
          /\ UNCHANGED <<now, init_stamp>>

Ack(f) == \E rs \in RateSamples : leocc_main(f, rs)

leocc_cwnd_event(f) ==
    \E r \in Live!CycleRand :
      LET s == [flow[f] EXCEPT !.idle_restart = TRUE]
          t == IF s.mode = "PROBE_RTT" THEN Live!leocc_check_probe_rtt_done(s, r) ELSE s
      IN  /\ flow' = [flow EXCEPT ![f] = Live!SettleEpisode(t)]
          /\ CountProbe(f)
          /\ UNCHANGED <<now, leocc_pacing_gain_0, init_stamp>>

\* leocc_init of one more socket: the schedule of all flows starts again.  The new
\* window has not opened yet, unless the offset is within it.
leocc_init ==
    /\ now \in OtherStarts
    /\ init_stamp' = now
    /\ UNCHANGED <<flow, now, leocc_pacing_gain_0>>
    /\ CountAnew

Init ==
    /\ now = 0 /\ init_stamp = now
    /\ flow \in [Flows -> {[Live!InitialFlow(m, CwndMinTarget) EXCEPT !.min_rtt_stamp = now] :
                              m \in Rtts \cup {Live!NoRtt}}]
    /\ leocc_pacing_gain_0 = Live!ProbeUp
    /\ probes = [f \in Flows |-> 0]

Tick ==
    /\ now' = (now + 1) % JiffyMod
    /\ flow' = [f \in Flows |->
                  [flow[f] EXCEPT !.held = IF flow[f].mode = "PROBE_RTT"
                                           THEN Live!Min2(@ + 1, ProbeRttTime + 1) ELSE 0]]
    /\ UNCHANGED <<leocc_pacing_gain_0, init_stamp>>
    /\ CountAnew

FlowNext(f) == Ack(f) \/ leocc_cwnd_event(f)

Next == (\E f \in Flows : FlowNext(f)) \/ leocc_init \/ Tick

Spec == Init /\ [][Next]_vars

-----------------------------------------------------------------------------
(* Properties                                                               *)

\* Every ACK of the window tells the flow of the reconfiguration, and DRAIN forgets
\* that it has been told: a flow can be told more than once, also when a flow that
\* starts moves the window.  Yet it answers with one probe, since a probe that
\* begins in the window outlasts it.
OneProbePerWindow == \A f \in Flows : probes[f] <= 1
=============================================================================
