----------------------------- MODULE FerryQueues -----------------------------
(***************************************************************************)
(* The queues of mm-delay, mm-loss, mm-onoff, mm-intermittent and mm-meter:  *)
(* the FerryQueueType of a PacketShell, except for the queue of mm-link      *)
(* (module LinkQueue).                                                       *)
(*                                                                         *)
(* A packet has a key, and leaves when no other has a smaller one: in        *)
(* mm-delay its release time, by which the queue is a heap, so that packets  *)
(* with equal keys leave in any order; elsewhere its place in the order of   *)
(* arrival.                                                                 *)
(***************************************************************************)
EXTENDS Integers, Sequences, FiniteSets, FiniteSetsExt

CONSTANT MaxWait     \* 65535 ms: the longest wait that a queue asks for

\* What a tool is told on its command line.
Setup(kind, delays, interval, on_times, off_times) ==
    [kind |-> kind,               \* "delay", "loss", "switch" or "meter"
     delays |-> delays,           \* the trace of mm-delay, ms
     interval |-> interval,       \* the time between its entries
     on_times |-> on_times,       \* how long the link stays on: one time if it is
     off_times |-> off_times]     \* periodic, any of several if it is stochastic

Packet(id, key) == [id |-> id, key |-> key]

\* A switching link is off, and due to switch, when it is made.
NewQueue(now) == [packet_queue |-> {}, link_is_on |-> FALSE, next_switch_time |-> now]

\* A mutant: the comparison of the heap is the other way round.
top_latest(q) == {p \in q.packet_queue : \A o \in q.packet_queue : p.key >= o.key}

top(q) == {p \in q.packet_queue : \A o \in q.packet_queue : p.key <= o.key}
without(q, packets) == [q EXCEPT !.packet_queue = @ \ packets]

delay(s, now) == s.delays[((now \div s.interval) % Len(s.delays)) + 1]

dropped_packet(s, q) ==
    CASE s.kind = "loss" -> BOOLEAN
      [] s.kind = "switch" -> {~q.link_is_on}
      [] s.kind \in {"delay", "meter"} -> {FALSE}

\* The queue after a packet has been read, for each outcome of drop_packet.
read_packet(s, q, id, now) ==
    LET p == Packet(id, IF s.kind = "delay" THEN now + delay(s, now) ELSE id)
    IN  {IF drop THEN q ELSE [q EXCEPT !.packet_queue = @ \cup {p}] :
            drop \in dropped_packet(s, q)}

\* A mutant: a packet leaves a millisecond early.
DueOneEarly(s, p, now) == s.kind = "delay" => p.key <= now + 1

Due(s, p, now) == s.kind = "delay" => p.key <= now

ready(s, q, now) == {p \in top(q) : Due(s, p, now)}

\* The orders in which write_packets can empty the queue of what is due: each packet is
\* ready when those before it have left, and after the last no packet is.
Writes(s, q, now) ==
    {w \in UNION {[1 .. n -> q.packet_queue] : n \in 0 .. Cardinality(q.packet_queue)} :
        /\ \A i \in DOMAIN w : w[i] \in ready(s, without(q, {w[j] : j \in 1 .. i - 1}), now)
        /\ ready(s, without(q, {w[j] : j \in DOMAIN w}), now) = {}}

Switch(s, q) ==
    LET on == ~q.link_is_on
    IN  {[q EXCEPT !.link_is_on = on, !.next_switch_time = @ + d] :
            d \in IF on THEN s.on_times ELSE s.off_times}

\* The link after wait_time has switched it as often as is due.  A link that is both on
\* and off for a time takes two turns of the loop for a millisecond at most.
Switched(s, q, now) ==
    LET last == 2 * (now - q.next_switch_time + 1)
        turns[n \in 0 .. last] ==
            IF n = 0 THEN {q}
            ELSE UNION {IF p.next_switch_time > now THEN {p} ELSE Switch(s, p) : p \in turns[n - 1]}
    IN  IF s.kind # "switch" \/ q.next_switch_time > now THEN {q}
        ELSE {p \in turns[last] : p.next_switch_time > now}

\* Mutants: the sibling is asked for too early, or not for the last packet.
pending_output_early(s, q, now) == \E p \in top(q) : DueOneEarly(s, p, now)
pending_output_beyond_one(s, q, now) ==
    Cardinality(q.packet_queue) > 1 /\ \E p \in top(q) : Due(s, p, now)

pending_output(s, q, now) == ready(s, q, now) # {}

wait_time_until_output(s, q, now) ==
    CASE q.packet_queue = {} -> MaxWait
      [] q.packet_queue # {} /\ s.kind = "delay" -> Max({0, Min({p.key : p \in top(q)}) - now})
      [] q.packet_queue # {} /\ s.kind # "delay" -> 0

wait_time(s, q, now) ==
    LET t == wait_time_until_output(s, q, now)
    IN  IF s.kind = "switch" THEN Min({t, q.next_switch_time - now}) ELSE t
=============================================================================
