------------------------------ MODULE LinkQueue ------------------------------
(***************************************************************************)
(* One direction of an emulated link (mm-link).  A trace gives the times, in *)
(* ms, at which up to PACKET_SIZE bytes may leave.  The emulation is lazy:   *)
(* nothing happens at those times; read_packet and wait_time first bring the *)
(* link up to date (rationalize), whatever time has passed since, and then   *)
(* act.  The event loop calls read_packet when a packet is readable,         *)
(* wait_time before every poll, and write_packets when output is pending.    *)
(***************************************************************************)
EXTENDS PacketQueue, SequencesExt

CONSTANTS
    Links,           \* what may be emulated, and the packets that come
    MaxTime          \* bound: the clock stops here

\* The arguments of the queue, the trace, and whether to start it over at its end;
\* bound: `packets` packets arrive, each of one of `sizes`.
Link(args, schedule, repeat, sizes, packets) ==
    [args |-> args, schedule |-> schedule, repeat |-> repeat, sizes |-> sizes,
     packets |-> packets]

ASSUME LinkAssumption ==
    /\ PACKET_SIZE \in Nat \ {0} /\ t_update \in Nat \ {0}
    /\ \A l \in Links :
          /\ l.sizes \subseteq 1 .. PACKET_SIZE /\ l.packets \in Nat
          /\ ArgsAllowed(l.args)
          /\ l.schedule \in Seq(Nat) /\ l.schedule # <<>>
          /\ \A i \in 1 .. Len(l.schedule) - 1 : l.schedule[i] <= l.schedule[i + 1]
          /\ l.schedule[Len(l.schedule)] > 0
          /\ l.repeat \in BOOLEAN
    /\ MaxTime \in Nat

VARIABLES
    setup,        \* one of Links
    now,          \* raw_timestamp, since the program started
    link,         \* the LinkQueue object
    arrived,      \* history: number of packets read
    delivered,    \* history: packets written to the other side
    aborted       \* an assertion has failed

vars == <<setup, now, link, arrived, delivered, aborted>>

Packet == [id : 1 .. setup.packets, size : setup.sizes, arrival_time : 0 .. MaxTime]

\* next_delivery counts from 0, as in the code; in_transit holds at most the one
\* packet that has been dequeued and not fully sent.
InitialLink(l) ==
    [schedule |-> l.schedule, repeat |-> l.repeat, next_delivery |-> 0,
     base_timestamp |-> 0, packet_queue |-> NewPacketQueue(l.args), in_transit |-> <<>>,
     bytes_left |-> 0, output_queue |-> <<>>, finished |-> FALSE]

\* The assertions of rationalize, link_queue.cc:246-249: a packet is under way
\* exactly while it has bytes left, no more than its size, and fewer once the
\* opportunity it was started in is over.
TransitConsistent ==
    /\ link.bytes_left = 0 <=> link.in_transit = <<>>
    /\ link.in_transit # <<>> => link.bytes_left < link.in_transit[1].size

\* A link keeps its queue within the limits, the packet under way not counted.
WithinLimits ==
    setup.args.type # "infinite" =>
        good(setup.args, link.packet_queue.internal_queue)

\* The types, and of a link what its code asserts and its limits promise.
TypeOK ==
    /\ now \in 0 .. MaxTime
    /\ link.next_delivery \in 0 .. Len(link.schedule) - 1
    /\ link.base_timestamp \in Nat
    /\ link.packet_queue.internal_queue \in Seq(Packet)
    /\ link.in_transit \in Seq(Packet) /\ Len(link.in_transit) <= 1
    /\ link.bytes_left \in 0 .. PACKET_SIZE
    /\ link.output_queue \in Seq(Packet)
    /\ link.finished \in BOOLEAN
    /\ arrived \in 0 .. setup.packets
    /\ delivered \in Seq(Packet)
    /\ aborted \in BOOLEAN
    /\ TransitConsistent /\ WithinLimits

Init ==
    /\ now = 0 /\ arrived = 0 /\ delivered = <<>>
    /\ setup \in Links /\ link = InitialLink(setup)
    /\ aborted = FALSE

-----------------------------------------------------------------------------
(* rationalize                                                              *)

next_delivery_time(l) == l.schedule[l.next_delivery + 1] + l.base_timestamp

\* A finished link has its next delivery at 2^64 - 1.
Due(l, t) == ~l.finished /\ next_delivery_time(l) <= t

use_a_delivery_opportunity(l) ==
    LET n == (l.next_delivery + 1) % Len(l.schedule)
        wrapped == n = 0
    IN  [l EXCEPT !.next_delivery = n,
                  !.base_timestamp = @ + IF wrapped /\ l.repeat
                                         THEN l.schedule[Len(l.schedule)] ELSE 0,
                  !.finished = @ \/ (wrapped /\ ~l.repeat)]

StartFromTheTail(l, t) ==
    IF l.bytes_left = 0 /\ l.packet_queue.internal_queue # <<>>
    THEN [l EXCEPT !.in_transit = <<Last(l.packet_queue.internal_queue)>>,
                   !.packet_queue.internal_queue = Front(@),
                   !.bytes_left = Last(l.packet_queue.internal_queue).size]
    ELSE l

\* Take the next packet if none is under way.  The queue reads its own clock.
Start(l, t) ==
    IF l.bytes_left = 0 /\ l.packet_queue.internal_queue # <<>>
    THEN LET Taken(d) == [l EXCEPT !.in_transit = <<d.packet>>,
                                   !.packet_queue = d.queue,
                                   !.bytes_left = d.packet.size]
         IN  Taken(Dequeue(l.packet_queue, t))
    ELSE l

SendInPartIsSent(o, t) ==
    LET l == Start(o.link, t)
        amount == IF o.room <= l.bytes_left THEN o.room ELSE l.bytes_left
        done == amount > 0
    IN  [room |-> IF amount = 0 THEN 0 ELSE o.room - amount,
         link |-> [l EXCEPT !.bytes_left = @ - amount,
                            !.in_transit = IF done THEN <<>> ELSE @,
                            !.output_queue = IF done THEN @ \o l.in_transit ELSE @]]

\* Send as much of it as the opportunity has room for.  `o` pairs the link with
\* that room; with nothing left to send the room is lost.
Send(o, t) ==
    LET Sent(l, amount) ==
            LET done == amount > 0 /\ amount = l.bytes_left
            IN  [room |-> IF amount = 0 THEN 0 ELSE o.room - amount,
                 link |-> [l EXCEPT !.bytes_left = @ - amount,
                                    !.in_transit = IF done THEN <<>> ELSE @,
                                    !.output_queue = IF done THEN @ \o l.in_transit ELSE @]]
        FromThe(l) == Sent(l, IF o.room <= l.bytes_left THEN o.room ELSE l.bytes_left)
    IN  FromThe(Start(o.link, t))

\* A loop that runs n times: after[k] holds its one state after k rounds.  (A set,
\* so that TLC computes every state once.)
Repeat(n, s, Round(_)) ==
    LET after[k \in 0 .. n] ==
            IF k = 0 THEN {s} ELSE {Round(r) : r \in after[k - 1]}
    IN  CHOOSE r \in after[n] : TRUE

\* One opportunity.  Every Send but the last uses a byte at least, so PACKET_SIZE
\* and one more are enough.
Opportunity(l, t) ==
    Repeat(PACKET_SIZE + 1,
           [room |-> PACKET_SIZE, link |-> use_a_delivery_opportunity(l)],
           LAMBDA o : IF o.room > 0 THEN Send(o, t) ELSE o).link

\* Every opportunity up to time t; there are at most Len(schedule) in a ms, as a
\* trace lasts one ms or more.
rationalize(l, t) ==
    Repeat((MaxTime + 1) * Len(l.schedule), l,
           LAMBDA m : IF Due(m, t) THEN Opportunity(m, t) ELSE m)

-----------------------------------------------------------------------------
(* The calls of the event loop                                              *)

Reads(l, size) ==
    LET p == [id |-> arrived + 1, size |-> size, arrival_time |-> now]
    IN  /\ ~aborted
        /\ arrived < setup.packets
        /\ arrived' = arrived + 1
        /\ \E q \in Enqueue(l.packet_queue, p, now) : link' = [l EXCEPT !.packet_queue = q]
        /\ aborted' = EnqueueAborts(l.packet_queue, p)
        /\ UNCHANGED <<setup, now, delivered>>

read_packet_on_stale_link(size) == Reads(link, size)

read_packet(size) == Reads(rationalize(link, now), size)

wait_time ==
    /\ ~aborted
    /\ link' = rationalize(link, now)
    /\ UNCHANGED <<setup, now, arrived, delivered, aborted>>

write_packets ==
    /\ ~aborted
    /\ link.output_queue # <<>>
    /\ delivered' = delivered \o link.output_queue
    /\ link' = [link EXCEPT !.output_queue = <<>>]
    /\ UNCHANGED <<setup, now, arrived, aborted>>

Tick ==
    /\ now < MaxTime
    /\ now' = now + 1
    /\ UNCHANGED <<setup, link, arrived, delivered, aborted>>

Next ==
    \/ \E size \in setup.sizes : read_packet(size)
    \/ wait_time
    \/ write_packets
    \/ Tick

Spec == Init /\ [][Next]_vars

-----------------------------------------------------------------------------
(* Properties                                                               *)

\* All packets of the link, from the first delivered to the last queued.
InOrder ==
    delivered \o link.output_queue \o link.in_transit \o link.packet_queue.internal_queue

\* Packets leave in the order of arrival, none twice, whatever mixture of
\* complete, partial and dropped packets the opportunities made of them, and
\* whether drops are decided at enqueue or, as in CoDel, at dequeue.
FirstInFirstOut ==
    \A i, j \in DOMAIN InOrder : i < j => InOrder[i].id < InOrder[j].id

\* The assertion of DroppingPacketQueue::dequeue holds whenever it is reached.
NoAssertionFails == ~aborted

\* A queue that only has limits drops a packet only when, as it is with every
\* opportunity due served, it cannot take one more of the largest size; the active
\* ones only if there is more than a packet of that size in it.
Lost == arrived - Len(InOrder)
DropsOnlyWhenFull ==
    [][Lost' > Lost
         => LET before == link.packet_queue.internal_queue
                served == rationalize(link, now).packet_queue.internal_queue
            IN  \/ ~good_with(setup.args, size_bytes(served) + PACKET_SIZE, Len(served) + 1)
                \/ setup.args.type \in {"codel", "pie"} /\ size_bytes(before) > PACKET_SIZE]_vars

\* Emulating lazily changes nothing as long as the queue does not look at the
\* clock: at every call, the link is what a link that served each opportunity at
\* its own time would be.
UpToDate == rationalize(link, now)
Eager == INSTANCE EagerLink
             WITH waiting <- UpToDate.in_transit \o UpToDate.packet_queue.internal_queue,
                  sent <- IF UpToDate.in_transit = <<>> THEN 0
                          ELSE UpToDate.in_transit[1].size - UpToDate.bytes_left,
                  output <- UpToDate.output_queue
Timeless == setup.args.type \in {"infinite", "droptail"}
ImplementsEagerLink ==
    (Timeless => Eager!Init) /\ [][Timeless => Eager!Next]_(Eager!vars)
=============================================================================
