------------------------------ MODULE EagerLink ------------------------------
(***************************************************************************)
(* What LinkQueue promises: a link that serves every opportunity of its      *)
(* trace at its time.  When the clock reaches t, the opportunities at t take *)
(* PACKET_SIZE bytes each off what is waiting; what arrives later in the same*)
(* millisecond has missed them.  Output is written in order, at any later    *)
(* time.                                                                     *)
(***************************************************************************)
EXTENDS PacketQueue, FiniteSets

CONSTANTS MaxTime

VARIABLES
    now,
    setup,        \* the arguments of the queue, the trace, the packets that come
    waiting,      \* packets not fully sent
    sent,         \* bytes sent of the first of them
    output,       \* fully sent, to be written
    arrived, delivered

vars == <<now, setup, waiting, sent, output, arrived, delivered>>

Init ==
    /\ ArgsAllowed(setup.args)
    /\ now = 0 /\ waiting = <<>> /\ sent = 0 /\ output = <<>> /\ arrived = 0 /\ delivered = <<>>

\* The number of opportunities at time t, over the repetitions of the setup.
Opportunities(t) ==
    LET schedule == setup.schedule
    IN  Cardinality({ik \in (1 .. Len(schedule)) \X (IF setup.repeat THEN 0 .. t ELSE {0}) :
                        schedule[ik[1]] + ik[2] * schedule[Len(schedule)] = t})

\* A packet sent in part has left the queue the limits apply to.
Queued == IF sent = 0 THEN waiting ELSE Tail(waiting)
UnderWay == IF sent = 0 THEN <<>> ELSE <<Head(waiting)>>

Arrive(size) ==
    /\ arrived < setup.packets
    /\ arrived' = arrived + 1
    /\ \E q \in Enqueue([NewPacketQueue(setup.args) EXCEPT !.internal_queue = Queued],
                       [id |-> arrived + 1, size |-> size, arrival_time |-> now], now) :
          waiting' = UnderWay \o q.internal_queue
    /\ UNCHANGED <<now, setup, sent, output, delivered>>

\* What `bytes` more bytes make of the packets w, s of whose first are gone.
Serve(w, s, bytes) ==
    LET used(k) == size_bytes(SubSeq(w, 1, k))
        room == s + bytes
        whole == CHOOSE k \in 0 .. Len(w) :
                     used(k) <= room /\ (k < Len(w) => used(k + 1) > room)
    IN  [output |-> SubSeq(w, 1, whole),
         waiting |-> SubSeq(w, whole + 1, Len(w)),
         sent |-> IF whole = Len(w) THEN 0 ELSE room - used(whole)]

Advance ==
    /\ now < MaxTime
    /\ now' = now + 1
    /\ LET r == Serve(waiting, sent, Opportunities(now + 1) * PACKET_SIZE)
       IN  output' = output \o r.output /\ waiting' = r.waiting /\ sent' = r.sent
    /\ UNCHANGED <<setup, arrived, delivered>>

Write ==
    /\ \E k \in 1 .. Len(output) :
         /\ delivered' = delivered \o SubSeq(output, 1, k)
         /\ output' = SubSeq(output, k + 1, Len(output))
    /\ UNCHANGED <<now, setup, waiting, sent, arrived>>

Next == (\E size \in setup.sizes : Arrive(size)) \/ Advance \/ Write

Spec == Init /\ [][Next]_vars
=============================================================================
