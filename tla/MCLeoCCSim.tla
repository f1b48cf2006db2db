----------------------------- MODULE MCLeoCCSim -----------------------------
(* LeoCCSim for TLC: a jiffy stands for 100 ms.                              *)
EXTENDS LeoCCSim

Plain ==
    [delivered |-> 1, has_interval |-> TRUE, bw |-> 4, round |-> TRUE, rtt |-> 1,
     app_limited |-> FALSE, ack_delayed |-> FALSE, losses |-> 0, acked |-> 1, inflight |-> 1,
     drained |-> TRUE, phase_over |-> TRUE, target |-> 2, few_delivered |-> FALSE,
     probe_cwnd |-> 1]

SimSamples ==
    {Plain,
     [Plain EXCEPT !.round = FALSE, !.drained = FALSE, !.inflight = 2]}

MCBandwidths == {0, 4}
OneRtt == {1}
=============================================================================
