------------------------------ MODULE MCLeoCC ------------------------------
(* Values for TLC.  One flow is enough for what concerns one flow: its        *)
(* callbacks interleave with time, losses and the netlink handler.           *)
EXTENDS LeoCC

\* An ACK that delivers data, with nothing remarkable about it.
Plain ==
    [delivered |-> 1, has_interval |-> TRUE, bw |-> 4, round |-> TRUE, rtt |-> 1,
     app_limited |-> FALSE, ack_delayed |-> FALSE, losses |-> 0, acked |-> 1, inflight |-> 1,
     drained |-> TRUE, phase_over |-> TRUE, target |-> 2, few_delivered |-> FALSE,
     probe_cwnd |-> 1]

\* For the mode machine: time, triggers, rounds, RTTs; the window stays put.
ModeSamples ==
    {[Plain EXCEPT !.round = a, !.rtt = IF a THEN b ELSE 1, !.inflight = c,
                   !.drained = (c = 1)] :
        a \in BOOLEAN, b \in {-1, 2}, c \in {1, 2}}
    \cup {[Plain EXCEPT !.has_interval = FALSE, !.bw = 0, !.phase_over = FALSE],
          [Plain EXCEPT !.bw = 0, !.app_limited = TRUE, !.ack_delayed = TRUE],
          [Plain EXCEPT !.bw = 0, !.delivered = 0]}

\* For the window: losses, recovery, PROBE_RTT and growth.
WindowSamples ==
    {[Plain EXCEPT !.losses = a, !.acked = b, !.inflight = c, !.target = 2 * b, !.rtt = -1] :
        a, b \in {0, 1}, c \in {1, 2}}
    \cup {[Plain EXCEPT !.target = 1, !.few_delivered = TRUE, !.rtt = -1]}

\* For liveness: ACKs that help the mode machine on, and ACKs that do not.
LiveSamples ==
    {Plain,
     [Plain EXCEPT !.round = FALSE, !.drained = FALSE, !.inflight = 2],
     [Plain EXCEPT !.delivered = 0, !.bw = 0, !.app_limited = TRUE, !.rtt = -1]}

MCBandwidths == {0, 4}
MCRtts == {1, 2}
MCFluctuations == {0, 2}
OneFluctuation == {0}
OneRtt == {1}
=============================================================================
