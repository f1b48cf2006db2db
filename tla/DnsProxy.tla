------------------------------- MODULE DnsProxy -------------------------------
(***************************************************************************)
(* A thread of DNSProxy::handle_tcp: it relays the bytes of one connection    *)
(* between a client and the DNS server, through two ByteStreamQueues.  A       *)
(* queue is a ring of which one place stays free; it is filled and emptied one *)
(* contiguous piece at a time.  A read can do with less; a write waits until    *)
(* the connection has taken the whole piece, for the sockets block, and while it *)
(* waits the thread does nothing else.                                        *)
(*                                                                         *)
(* Bytes are numbered in the order in which a peer says them.                 *)
(***************************************************************************)
EXTENDS Poller, Sequences

CONSTANTS
    BUFFER_SIZE,   \* the places of a ring, two or more
    Room,          \* the bytes a connection holds for a peer that has not read them
    Spoken         \* bound: how many bytes the client, and the server, say at most

Peers == {"client", "server"}
Other == [client |-> "server", server |-> "client"]

VARIABLES
    peer,          \* for each peer: bytes said, whether it has closed (for output, or has
                   \* gone), the bytes the connection to it has got, and of its socket:
                   \* bytes read, eof()
    unread,        \* for each peer: how many of the bytes in its connection it has not read
    from,          \* from_client and from_server
    active,        \* the actions not cancelled
    thread,        \* poll, serve, to_client or to_server (in a write), exit, exception
    poll_report    \* the poll in progress

vars == <<peer, unread, from, active, thread, poll_report>>

-----------------------------------------------------------------------------
(* ByteStreamQueue                                                          *)

NewByteStreamQueue ==
    [buffer |-> [i \in 0 .. BUFFER_SIZE - 1 |-> 0],
     next_byte_to_push |-> 0, next_byte_to_pop |-> 0]

available_to_pop(q) ==
    q.next_byte_to_push - q.next_byte_to_pop
        + (IF q.next_byte_to_pop > q.next_byte_to_push THEN BUFFER_SIZE ELSE 0)

\* A mutant: the ring is filled to the last place.
available_to_push_all(q) ==
    q.next_byte_to_pop - q.next_byte_to_push
        + (IF q.next_byte_to_pop > q.next_byte_to_push THEN 0 ELSE BUFFER_SIZE)

available_to_push(q) ==
    q.next_byte_to_pop - q.next_byte_to_push - 1
        + (IF q.next_byte_to_pop > q.next_byte_to_push THEN 0 ELSE BUFFER_SIZE)

space_available(q) == available_to_push(q) > 0

\* A mutant: the last byte is not asked to be written.
non_empty_beyond_one(q) == available_to_pop(q) > 1

non_empty(q) == available_to_pop(q) > 0

Contiguous(place, available) == Min({available, BUFFER_SIZE - place})

\* The bytes after `taken`, as many as `n`, go into the ring.
push(q, taken, n) ==
    [q EXCEPT !.buffer = [i \in DOMAIN @ |->
                  IF i \in q.next_byte_to_push .. q.next_byte_to_push + n - 1
                  THEN taken + 1 + i - q.next_byte_to_push ELSE @[i]],
              !.next_byte_to_push = (@ + n) % BUFFER_SIZE]

pop(q, n) == [q EXCEPT !.next_byte_to_pop = (@ + n) % BUFFER_SIZE]
Popped(q, n) == [i \in 1 .. n |-> q.buffer[q.next_byte_to_pop + i - 1]]

-----------------------------------------------------------------------------
(* The poller                                                               *)

NewPeer == [said |-> 0, closed |-> "no", got |-> <<>>, taken |-> 0, eof |-> FALSE]

Init ==
    /\ peer = [p \in Peers |-> NewPeer]
    /\ unread = [p \in Peers |-> 0]
    /\ from = [p \in Peers |-> NewByteStreamQueue]
    /\ active = 1 .. 4
    /\ thread = "poll" /\ poll_report = NoReport

WritesTo == [client |-> "to_client", server |-> "to_server"]

\* The socket of each action.
SocketOf(i) == <<"server", "client", "server", "client">>[i]

actions ==
    [i \in 1 .. 4 |->
        LET p == SocketOf(i)
        IN  IF i <= 2 THEN Action("In", i \in active, space_available(from[p]), peer[p].eof)
            ELSE Action("Out", i \in active, non_empty(from[Other[p]]), peer[p].eof)]

Gone == {p \in Peers : peer[p].closed = "gone"}

HasInput(i) ==
    i <= 2 /\ (peer[SocketOf(i)].taken < peer[SocketOf(i)].said \/ peer[SocketOf(i)].closed # "no")

\* A connection takes bytes while it has room, and any once the peer has gone.
Writable(i) ==
    i > 2 /\ (unread[SocketOf(i)] < Room \/ SocketOf(i) \in Gone)

\* poll(60000): a timeout only has it called again.  A peer that has gone may show
\* as a hang-up.
Poll ==
    /\ thread = "poll"
    /\ IF NothingToPoll(actions)
       THEN thread' = "exit" /\ UNCHANGED poll_report
       ELSE \E hung \in {{}, {i \in 1 .. 4 : SocketOf(i) \in Gone}} :
                 LET r == Report({i \in Events(actions) : Writable(i) \/ HasInput(i)}, hung)
                 IN  Reported(r) # {} /\ poll_report' = r /\ thread' = "serve"
    /\ UNCHANGED <<peer, unread, from, active>>

Serve(i) ==
    /\ thread = "serve" /\ Serves(poll_report, i)
    /\ poll_report' = Served(poll_report)

EndPoll ==
    /\ thread = "serve"
    /\ HangsUp(poll_report) \/ Reported(poll_report) = {}
    /\ thread' = IF HangsUp(poll_report) THEN "exit" ELSE "poll"
    /\ poll_report' = NoReport
    /\ UNCHANGED <<peer, unread, from, active>>

\* A read takes some of what is there; at the end it takes nothing, and the action
\* is cancelled.  The queue asserts that it has space.
Read(i) ==
    LET p == SocketOf(i)
        q == from[p]
        most == Min({Contiguous(q.next_byte_to_push, available_to_push(q)),
                     peer[p].said - peer[p].taken})
    IN  /\ i <= 2 /\ Serve(i)
        /\ \E n \in (IF most = 0 THEN {0} ELSE 1 .. most) :
              /\ from' = [from EXCEPT ![p] = push(q, peer[p].taken, n)]
              /\ peer' = [peer EXCEPT ![p].taken = @ + n, ![p].eof = n = 0]
              /\ active' = IF n = 0 THEN active \ {i} ELSE active
        /\ thread' = IF space_available(q) THEN "serve" ELSE "abort"
        /\ UNCHANGED unread

\* A write begins.  The queue asserts that it has bytes.
Write(i) ==
    LET p == SocketOf(i)
    IN  /\ i > 2 /\ Serve(i)
        /\ thread' = IF non_empty(from[Other[p]]) THEN WritesTo[p] ELSE "abort"
        /\ UNCHANGED <<peer, unread, from, active>>

\* The connection takes what it has room for, and the write is over with the last byte
\* of the piece.  (Nobody looks at the queue in between: its bytes are popped as they go.)
WriteGoesOn(p) ==
    LET q == from[Other[p]]
        piece == Contiguous(q.next_byte_to_pop, available_to_pop(q))
        n == Min({piece, Room - unread[p]})
    IN  /\ thread = WritesTo[p] /\ unread[p] < Room
        /\ from' = [from EXCEPT ![Other[p]] = pop(q, n)]
        /\ peer' = [peer EXCEPT ![p].got = @ \o Popped(q, n)]
        /\ unread' = [unread EXCEPT ![p] = @ + n]
        /\ thread' = IF n = piece THEN "serve" ELSE thread
        /\ UNCHANGED <<active, poll_report>>

\* A write to a peer that has gone ends short, or throws.
CutShort(p) ==
    /\ thread = WritesTo[p] /\ p \in Gone
    /\ thread' \in {"serve", "exception"}
    /\ UNCHANGED <<peer, unread, from, active, poll_report>>

\* To read from a peer that has gone, or to write to it, may throw.
Throw ==
    /\ \E i \in 1 .. 4 : Serve(i) /\ SocketOf(i) \in Gone
    /\ thread' = "exception"
    /\ UNCHANGED <<peer, unread, from, active>>

-----------------------------------------------------------------------------
(* The peers                                                                *)

Say(p) ==
    /\ peer[p].closed = "no" /\ peer[p].said < Spoken[p]
    /\ \E n \in 1 .. Spoken[p] - peer[p].said : peer' = [peer EXCEPT ![p].said = @ + n]
    /\ UNCHANGED <<unread, from, active, thread, poll_report>>

\* A peer reads some of what has come.
Hear(p) ==
    /\ p \notin Gone
    /\ \E n \in 1 .. unread[p] : unread' = [unread EXCEPT ![p] = @ - n]
    /\ UNCHANGED <<peer, from, active, thread, poll_report>>

\* A peer may close for output only.
Close(p, how) ==
    /\ peer[p].closed # how /\ peer[p].closed # "gone"
    /\ peer' = [peer EXCEPT ![p].closed = how]
    /\ UNCHANGED <<unread, from, active, thread, poll_report>>

Relay ==
    \/ Poll \/ EndPoll \/ Throw
    \/ \E i \in 1 .. 4 : Read(i) \/ Write(i)
    \/ \E p \in Peers : WriteGoesOn(p) \/ CutShort(p)

Next ==
    \/ Relay
    \/ \E p \in Peers : Say(p) \/ Hear(p) \/ Close(p, "output") \/ Close(p, "gone")

\* The peers go on reading, whatever else they wait for.
Fairness == WF_vars(Relay) /\ \A p \in Peers : WF_vars(Hear(p))

Spec == Init /\ [][Next]_vars /\ Fairness

-----------------------------------------------------------------------------
(* Properties                                                               *)

\* The connection to each peer gets what the other has said, in order and without a gap, and all that
\* the thread has taken is in one place.  Until a peer has gone, the thread neither
\* fails nor leaves before it has relayed all that was said.
RelayedAsSaid ==
    /\ \A p \in Peers :
          LET got == peer[p].got
              q == from[Other[p]]
          IN  /\ got = [i \in 1 .. Len(got) |-> i]
              /\ Len(got) + available_to_pop(q) = peer[Other[p]].taken
    /\ thread # "abort"
    /\ (Gone = {} /\ thread \in {"exit", "exception"}) =>
          \A p \in Peers : Len(peer[p].got) = peer[Other[p]].said

\* What one peer has said is read by the other, although each write holds up both
\* directions, and even if the one has closed its side; unless a peer goes.
RelayedInTheEnd ==
    LET Behind == {p \in Peers : Len(peer[p].got) - unread[p] < peer[Other[p]].said}
    IN  Behind # {} ~> (Behind = {} \/ Gone # {})
=============================================================================
