----------------------------- MODULE PacketQueue -----------------------------
(***************************************************************************)
(* The packet queues that a link can have.  infinite, droptail and drophead   *)
(* decide on drops when a packet comes, PIE too, with a probability that      *)
(* follows the delay it estimates; CoDel decides when a packet leaves.        *)
(*                                                                         *)
(* A queue is an object: its arguments, the packets in it, and what the       *)
(* active policies remember.  Its byte and packet counters are functions of   *)
(* the packets (their agreement is what the classes' assertions are about).   *)
(*                                                                         *)
(* CoDel and PIE read timestamp(), ms since the program started; a packet's   *)
(* arrival_time is raw_timestamp(), ms since the epoch.                      *)
(***************************************************************************)
EXTENDS Integers, Sequences

CONSTANTS
    PACKET_SIZE,      \* bytes per delivery opportunity, and the largest packet
    t_update,         \* 30 ms: the period of PIE's updates
    dq_threshold,     \* 16384 bytes: one measurement of PIE's rate takes that many
    Epoch,            \* raw_timestamp when the program starts
    Width             \* 2^64

\* "infinite", "droptail", "drophead", "codel" or "pie"; a limit of 0 is none.
\* The delays are target and interval of CoDel, qdelay_ref and max_burst of PIE.
Args(type, packet_limit, byte_limit, delays) ==
    [type |-> type, packet_limit |-> packet_limit, byte_limit |-> byte_limit, delays |-> delays]

ArgsAllowed(a) ==
    /\ a.type \in {"infinite", "droptail", "drophead", "codel", "pie"}
    /\ a.packet_limit \in Nat /\ a.byte_limit \in Nat
    /\ a.type # "infinite" => a.packet_limit > 0 \/ a.byte_limit > 0
    /\ a.type \in {"codel", "pie"} => a.delays[1] > 0 /\ a.delays[2] > 0

INVALID == -1

NewActive(a) ==
    CASE a.type = "codel" ->
           [first_above_time |-> 0, drop_next |-> 0, count |-> 0, lastcount |-> 0,
            dropping |-> FALSE]
      [] a.type = "pie" ->
           [drop_prob |-> 0, burst_allowance |-> 0, qdelay_old |-> 0, current_qdelay |-> 0,
            dq_count |-> INVALID, dq_tstamp |-> 0, avg_dq_rate |-> 0, last_update |-> 0]
      [] OTHER -> <<>>

NewPacketQueue(a) == [args |-> a, internal_queue |-> <<>>, active |-> NewActive(a)]

\* The bytes of the first n packets, for n up to all of them.
size_bytes(ps) ==
    LET of_first[n \in 0 .. Len(ps)] == IF n = 0 THEN 0 ELSE of_first[n - 1] + ps[n].size
    IN  of_first[Len(ps)]

good_with(a, bytes, packets) ==
    /\ a.byte_limit > 0 => bytes <= a.byte_limit
    /\ a.packet_limit > 0 => packets <= a.packet_limit

good(a, ps) == good_with(a, size_bytes(ps), Len(ps))

accept(q, p) == [q EXCEPT !.internal_queue = Append(@, p)]

-----------------------------------------------------------------------------
(* droptail and drophead                                                    *)

DropTail(q, p) == IF good(q.args, Append(q.internal_queue, p)) THEN accept(q, p) ELSE q

\* Packets go from the head until the rest is good: the longest good suffix.
DropHead(q, p) ==
    LET a == Append(q.internal_queue, p)
        GoodFrom == {i \in 1 .. Len(a) + 1 : good(q.args, SubSeq(a, i, Len(a)))}
        first == CHOOSE k \in GoodFrom : \A j \in GoodFrom : k <= j
    IN  [q EXCEPT !.internal_queue = SubSeq(a, first, Len(a))]

\* DroppingPacketQueue::dequeue asserts good() after every packet it takes out,
\* and enqueue of drophead drops with it: the process aborts when the limits do
\* not hold yet after the first packet dropped.
DropHeadAborts(q, p) ==
    LET a == Append(q.internal_queue, p) IN ~good(q.args, a) /\ ~good(q.args, Tail(a))

-----------------------------------------------------------------------------
(* CoDel                                                                    *)

Popped(q) == [q EXCEPT !.internal_queue = Tail(@)]

\* `now - arrival_time` is unsigned.
sojourn_time(p, now) == (now - (Epoch + p.arrival_time)) % Width

\* dodequeue: the queue without its first packet, and the verdict on that packet.
dodequeue(q, now) ==
    LET p == Head(q.internal_queue)
        rest == Tail(q.internal_queue)
        a == q.active
        below == \/ rest = <<>>
                 \/ sojourn_time(p, now) < q.args.delays[1]
                 \/ size_bytes(rest) <= PACKET_SIZE
        first == CASE below -> 0
                   [] ~below /\ a.first_above_time = 0 -> now + q.args.delays[2]
                   [] ~below /\ a.first_above_time # 0 -> a.first_above_time
    IN  [packet |-> p,
         queue |-> [Popped(q) EXCEPT !.active.first_above_time = first],
         ok_to_drop |-> ~below /\ a.first_above_time # 0 /\ now >= a.first_above_time]

\* interval / sqrt(count), rounded down: the largest d with d * d * count <= interval^2.
control_law(q, t, count) ==
    LET i == q.args.delays[2]
    IN  t + (CHOOSE d \in 0 .. i : d * d * count <= i * i
                                  /\ (d + 1) * (d + 1) * count > i * i)

\* A round of the loop of dequeue takes one more packet, and forgets it.
Discard(q, r) ==
    LET c == q.active.count + 1
    IN  [r.queue EXCEPT
            !.active.count = c,
            !.active.dropping = r.ok_to_drop,
            !.active.drop_next = IF r.ok_to_drop THEN control_law(q, @, c) ELSE @]

Discarding(q, now) ==
    LET Goes(r) == r.active.dropping /\ now >= r.active.drop_next
        Round(r) == IF Goes(r) THEN Discard(r, dodequeue(r, now)) ELSE r
        after[n \in 0 .. Len(q.internal_queue)] == IF n = 0 THEN q ELSE Round(after[n - 1])
    IN  after[Len(q.internal_queue)]

\* One packet is forgotten, and the state of dropping begins.
StartDropping(q, now) ==
    LET delta == q.active.count - q.active.lastcount
        recent == (now - q.active.drop_next) % Width < 16 * q.args.delays[2]
        Dropping(r, count) ==
            [r EXCEPT !.active.dropping = TRUE,
                      !.active.count = count, !.active.lastcount = count,
                      !.active.drop_next = control_law(q, now, count)]
    IN  Dropping(dodequeue(q, now).queue, IF delta > 1 /\ recent THEN delta ELSE 1)

\* The packet returned is the first, whatever the verdicts were.
CoDelDequeue(q, now) ==
    LET Return(r) ==
            [packet |-> r.packet,
             queue |-> IF q.active.dropping
                       THEN Discarding([r.queue EXCEPT !.active.dropping = r.ok_to_drop], now)
                       ELSE IF r.ok_to_drop THEN StartDropping(r.queue, now)
                       ELSE r.queue]
    IN  Return(dodequeue(q, now))

-----------------------------------------------------------------------------
(* PIE.  drop_prob counts in units of 1/1024, rounded down.                  *)

AtLeastZero(n) == IF n < 0 THEN 0 ELSE n

Clamped(p) == IF p > 1024 THEN 1024 ELSE AtLeastZero(p)

\* drop_prob_ after a delay of cur.  (1/8 x + 5/4 y) / 128 is (x + 10 y) / 1024.
NextDropProb(q, cur) ==
    LET a == q.active
        scale == IF a.drop_prob * 100 < 1024 THEN 1 ELSE IF a.drop_prob * 10 < 1024 THEN 4 ELSE 8
        p == a.drop_prob
                 + scale * ((cur - q.args.delays[1]) + 10 * (cur - a.current_qdelay))
        decays == cur = 0 /\ a.current_qdelay = 0 /\ q.internal_queue = <<>> /\ p <= 1024
    IN  IF decays THEN (Clamped(p) * 98) \div 100 ELSE Clamped(p)

\* One period of t_update.
UpdateDropProb(q) ==
    LET a == q.active
        half == q.args.delays[1] \div 2
        Updated(cur, prob) ==
            LET calm == prob = 0 /\ cur < half /\ a.current_qdelay < half /\ a.avg_dq_rate > 0
            IN  [q EXCEPT !.active =
                    [a EXCEPT !.qdelay_old = a.current_qdelay, !.current_qdelay = cur,
                              !.drop_prob = prob,
                              !.burst_allowance = IF calm THEN q.args.delays[2]
                                                  ELSE AtLeastZero(@ - t_update),
                              !.dq_count = IF calm THEN INVALID ELSE @,
                              !.avg_dq_rate = IF calm THEN 0 ELSE @,
                              !.last_update = @ + t_update]]
        cur == IF a.avg_dq_rate > 0 THEN size_bytes(q.internal_queue) \div a.avg_dq_rate ELSE 0
    IN  Updated(cur, NextDropProb(q, cur))

\* The updates missed, all with the queue as it is now.
calculate_drop_prob(q, now) ==
    LET missed == AtLeastZero(now - q.active.last_update - 1) \div t_update
        updated[n \in 0 .. missed] == IF n = 0 THEN q ELSE UpdateDropProb(updated[n - 1])
    IN  updated[missed]

\* What drop_early can return.
drop_early(q) ==
    LET a == q.active
        spared == \/ a.burst_allowance > 0
                  \/ a.qdelay_old < q.args.delays[1] \div 2 /\ a.drop_prob * 5 < 1024
                  \/ size_bytes(q.internal_queue) < 2 * PACKET_SIZE
    IN  {drop \in BOOLEAN : IF drop THEN ~spared /\ a.drop_prob > 0
                                    ELSE spared \/ a.drop_prob < 1024}

PieEnqueue(q, p, now) ==
    LET u == calculate_drop_prob(q, now)
    IN  {IF drop THEN u ELSE DropTail(u, p) : drop \in drop_early(u)}

\* A measurement of the rate is complete after dq_threshold bytes, unless that
\* took no time.
Measured(q, p, now) ==
    LET a == q.active
        bytes == size_bytes(q.internal_queue)
        begins == bytes >= dq_threshold /\ a.dq_count = INVALID
        started == IF begins THEN now ELSE a.dq_tstamp
        count == (IF begins THEN 0 ELSE a.dq_count) + p.size
        dtime == now - started
        sample == count \div dtime
        rate == IF a.avg_dq_rate = 0 THEN sample
                ELSE (a.avg_dq_rate - a.avg_dq_rate \div 8) + sample \div 8
    IN  [q EXCEPT !.active =
            IF ~begins /\ a.dq_count = INVALID THEN a
            ELSE IF count <= dq_threshold \/ dtime = 0
                 THEN [a EXCEPT !.dq_count = count, !.dq_tstamp = started]
            ELSE [a EXCEPT
                     !.avg_dq_rate = rate,
                     !.dq_count = IF bytes < dq_threshold THEN INVALID ELSE 0,
                     !.dq_tstamp = IF bytes < dq_threshold THEN started ELSE now,
                     !.burst_allowance = AtLeastZero(@ - dtime)]]

PieDequeue(q, now) ==
    LET p == Head(q.internal_queue)
    IN  [packet |-> p, queue |-> calculate_drop_prob(Measured(Popped(q), p, now), now)]

-----------------------------------------------------------------------------
(* What the link calls                                                      *)

\* The queues that can come of it.
Enqueue(q, p, now) ==
    CASE q.args.type = "infinite" -> {accept(q, p)}
      [] q.args.type \in {"droptail", "codel"} -> {DropTail(q, p)}
      [] q.args.type = "drophead" -> {DropHead(q, p)}
      [] q.args.type = "pie" -> PieEnqueue(q, p, now)

EnqueueAborts(q, p) == q.args.type = "drophead" /\ DropHeadAborts(q, p)

\* The packet that leaves, and the queue that is left.
Dequeue(q, now) ==
    CASE q.args.type = "codel" -> CoDelDequeue(q, now)
      [] q.args.type = "pie" -> PieDequeue(q, now)
      [] OTHER -> [packet |-> Head(q.internal_queue), queue |-> Popped(q)]
=============================================================================
