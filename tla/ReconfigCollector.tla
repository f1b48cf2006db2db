-------------------------- MODULE ReconfigCollector --------------------------
(***************************************************************************)
(* The reconfiguration detector of LeoCC on a live network.                *)
(*                                                                         *)
(* The user-space program monitor_ping reads the output of `ping -i 0.01`   *)
(* line by line.  A gap between two lines longer than THRESHOLD is taken   *)
(* for a satellite reconfiguration and is reported to the kernel; every     *)
(* other line that carries an RTT is reported as an ordinary sample.  The   *)
(* report is a netlink datagram, and the kernel runs netlink_recv_msg in    *)
(* the context of the sender: the loop body of monitor_ping and the         *)
(* handler are one step.                                                    *)
(*                                                                         *)
(* The handler raises a flag that every LeoCC flow of the host reads, drops *)
(* it after a while, and collects RTT samples from which it derives the     *)
(* fluctuation of the minimum RTT.  Times are milliseconds.                 *)
(***************************************************************************)
EXTENDS Naturals, Sequences, SequencesExt, FiniteSets

CONSTANTS
    Rtts,                \* the RTTs, in ms, a ping line can carry (0: none printed)
    LineGap,             \* lines follow each other at least LineGap ms apart
    Threshold,           \* THRESHOLD of monitor_ping
    TriggerDuration,     \* global_reconfiguration_trigger_duration
    RTT_SAMPLE_MAX,      \* capacity of rtt_samples
    ReconfigsApart,      \* TRUE: no satellite reconfiguration before the samples of
                         \* the previous one are in; FALSE: at any time
    MaxTime              \* bound: the clock stops here

ASSUME CollectorAssumption ==
    /\ Rtts \subseteq Nat /\ 0 \in Rtts
    /\ LineGap \in Nat \ {0} /\ Threshold \in Nat
    /\ TriggerDuration \in Nat \ {0}
    /\ RTT_SAMPLE_MAX \in Nat \ {0}
    /\ ReconfigsApart \in BOOLEAN
    /\ MaxTime \in Nat

VARIABLES
    now,                              \* gettimeofday
    last_time,                        \* monitor_ping: time of the previous line
    global_reconfiguration_trigger,   \* read by every flow
    reconfiguration_trigger_time_ms,  \* 0: no trigger to act on
    reconfiguration_rtt_ms,
    min_rtt_fluctuation_collection,   \* samples are being collected
    rtt_samples,                      \* the first rtt_sample_count entries
    min_rtt_fluctuation,              \* read by every flow
    detected_at,                      \* history: time of the last report with
                                      \* is_reconfig = 1 (0: none)
    handled_at,                       \* history: time of the last report
    first_sample_at                   \* history: time rtt_samples[1] was stored

monitorVars == <<now, last_time>>
kernelVars == <<global_reconfiguration_trigger, reconfiguration_trigger_time_ms,
                reconfiguration_rtt_ms, min_rtt_fluctuation_collection,
                rtt_samples, min_rtt_fluctuation>>
historyVars == <<detected_at, handled_at, first_sample_at>>
vars == <<monitorVars, kernelVars, historyVars>>

TypeOK ==
    /\ now \in Nat /\ last_time \in Nat /\ historyVars \in Nat \X Nat \X Nat
    /\ global_reconfiguration_trigger \in BOOLEAN
    /\ reconfiguration_trigger_time_ms \in Nat
    /\ reconfiguration_rtt_ms \in Nat
    /\ min_rtt_fluctuation_collection \in BOOLEAN
    /\ rtt_samples \in Seq(Rtts)
    /\ Len(rtt_samples) <= RTT_SAMPLE_MAX
    /\ min_rtt_fluctuation \in Nat

\* The module is loaded and monitor_ping started at time 1 (time 0 would be
\* confused with "no trigger", as it is in the code).
Init ==
    /\ now = 1 /\ last_time = 1
    /\ global_reconfiguration_trigger = FALSE
    /\ reconfiguration_trigger_time_ms = 0
    /\ reconfiguration_rtt_ms = 0
    /\ min_rtt_fluctuation_collection = FALSE
    /\ rtt_samples = <<>>
    /\ min_rtt_fluctuation = 0
    /\ detected_at = 0 /\ handled_at = 0 /\ first_sample_at = 0

-----------------------------------------------------------------------------
(* netlink_recv_msg                                                         *)

\* (Slips a test of the properties below must notice are defined beside the
\* operators they would replace, here and in the other modules.)
FlagExpiresAfterRtt ==
    /\ global_reconfiguration_trigger
    /\ reconfiguration_trigger_time_ms > 0
    /\ now >= reconfiguration_trigger_time_ms + reconfiguration_rtt_ms

FlagExpiresLate ==
    /\ global_reconfiguration_trigger
    /\ reconfiguration_trigger_time_ms > 0
    /\ now > reconfiguration_trigger_time_ms + TriggerDuration

\* The flag is dropped by the first report after TriggerDuration.
FlagExpires ==
    /\ global_reconfiguration_trigger
    /\ reconfiguration_trigger_time_ms > 0
    /\ now >= reconfiguration_trigger_time_ms + TriggerDuration

\* Collection begins one RTT after the trigger: the path has settled.
CollectionStarts ==
    /\ ~min_rtt_fluctuation_collection
    /\ reconfiguration_trigger_time_ms > 0
    /\ now >= reconfiguration_trigger_time_ms + reconfiguration_rtt_ms

BufferFullLate(samples) == Len(samples) > RTT_SAMPLE_MAX
BufferFull(samples) == Len(samples) >= RTT_SAMPLE_MAX

FluctuationUnsorted(samples) ==
    LET n == Len(samples) IN samples[(n * 95) \div 100 + 1] - samples[(n * 5) \div 100 + 1]

\* sort: the samples in ascending order.
Ascending(p, samples) ==
    \A i, j \in DOMAIN samples : i < j => p[i] # p[j] /\ samples[p[i]] <= samples[p[j]]
Sorted(samples) ==
    LET order == CHOOSE p \in [DOMAIN samples -> DOMAIN samples] : Ascending(p, samples)
    IN  [i \in DOMAIN samples |-> samples[order[i]]]

\* The difference of the 95th and the 5th percentile.
Fluctuation(samples) ==
    LET sorted == Sorted(samples)
        n == Len(sorted)
    IN  sorted[(n * 95) \div 100 + 1] - sorted[(n * 5) \div 100 + 1]

\* The handler, for a report of an RTT of `rtt` ms at time `now`.
netlink_recv_msg(rtt, is_reconfig) ==
    LET collecting == min_rtt_fluctuation_collection \/ CollectionStarts
        samples == IF CollectionStarts THEN <<>> ELSE rtt_samples
        full == collecting /\ BufferFull(samples)
    IN  /\ global_reconfiguration_trigger' =
             (is_reconfig \/ (global_reconfiguration_trigger /\ ~FlagExpires))
        /\ min_rtt_fluctuation_collection' = (collecting /\ ~full)
        /\ rtt_samples' =
             CASE full -> Sorted(samples)
               [] collecting /\ ~full -> Append(samples, rtt)
               [] OTHER -> samples
        /\ min_rtt_fluctuation' =
             IF full THEN Fluctuation(samples) ELSE min_rtt_fluctuation
        /\ reconfiguration_trigger_time_ms' =
             CASE is_reconfig -> now
               [] full /\ ~is_reconfig -> 0
               [] OTHER -> reconfiguration_trigger_time_ms
        /\ reconfiguration_rtt_ms' =
             IF is_reconfig THEN rtt ELSE reconfiguration_rtt_ms
        /\ detected_at' = IF is_reconfig THEN now ELSE detected_at
        /\ handled_at' = now
        /\ first_sample_at' =
             IF collecting /\ samples = <<>> THEN now ELSE first_sample_at

-----------------------------------------------------------------------------
(* monitor_ping                                                             *)

\* A long gap is over: the line after it is reported whatever it carries.
ReportReconfiguration(rtt) ==
    /\ now - last_time > Threshold
    /\ netlink_recv_msg(rtt, TRUE)
    /\ last_time' = now
    /\ UNCHANGED now

\* An ordinary line with an RTT.
ReportSample(rtt) ==
    /\ now - last_time <= Threshold
    /\ rtt > 0
    /\ netlink_recv_msg(rtt, FALSE)
    /\ last_time' = now
    /\ UNCHANGED now

\* A line without an RTT (the banner of ping, an ICMP error) is not reported,
\* but it does end the gap.
SkipLine ==
    /\ now - last_time <= Threshold
    /\ last_time' = now
    /\ UNCHANGED <<now, kernelVars, historyVars>>

\* ping waits 10 ms before each request; its lines follow the replies.
PingLine ==
    /\ now >= last_time + LineGap
    /\ \/ \E rtt \in Rtts : ReportReconfiguration(rtt) \/ ReportSample(rtt)
       \/ SkipLine

\* The clock.  A gap between lines becomes longer than Threshold only when the
\* environment reconfigures the path.
Tick ==
    /\ now < MaxTime
    /\ \/ now + 1 - last_time <= Threshold
       \/ reconfiguration_trigger_time_ms = 0
       \/ ~ReconfigsApart
    /\ now' = now + 1
    /\ UNCHANGED <<last_time, kernelVars, historyVars>>

Next == PingLine \/ Tick

Spec == Init /\ [][Next]_vars

-----------------------------------------------------------------------------
(* Properties                                                               *)

\* A flow that gets an ACK within TriggerDuration of a detection sees the flag:
\* neither an earlier trigger's expiry nor the end of a collection, which both
\* work on the one shared trigger time, may drop it early.
FlagHeldForItsDuration ==
    detected_at > 0 /\ now < detected_at + TriggerDuration
        => global_reconfiguration_trigger

\* The flag is up for TriggerDuration: from the first report after it on, until
\* the next detection, it is down.  (netlink.h:17 gives the duration in ms.)
FlagDownAfterItsDuration ==
    global_reconfiguration_trigger => handled_at < detected_at + TriggerDuration

\* The fluctuation the flows add to the minimum RTT changes only when a full
\* buffer has been evaluated, and then it is at most the spread of RTTs seen.
FluctuationFromAFullBuffer ==
    [][min_rtt_fluctuation' # min_rtt_fluctuation
         => /\ Len(rtt_samples) = RTT_SAMPLE_MAX
            /\ min_rtt_fluctuation_collection /\ ~min_rtt_fluctuation_collection'
            /\ \E hi, lo \in ToSet(rtt_samples) : hi >= lo /\ min_rtt_fluctuation' = hi - lo]_vars
=============================================================================
