---------------------------- MODULE DnsProxyProofs ----------------------------
(***************************************************************************)
(* The relay of DNSProxy::handle_tcp loses nothing, for rings of any size and  *)
(* peers that say any number of bytes.  The ring holds the bytes that have      *)
(* been taken and not handed over; a report of the poller stays true for the    *)
(* actions that are not served yet, since only an action itself uses up the     *)
(* space or the bytes it waited for.  A write that waits for its peer holds up  *)
(* the rest of the report, and does not change that.                          *)
(***************************************************************************)
EXTENDS DnsProxy, SequenceTheorems, TLAPS

-----------------------------------------------------------------------------
(* ByteStreamQueue                                                          *)

Places == 0 .. BUFFER_SIZE - 1

ByteStreamQueue ==
    [buffer : [Places -> Nat], next_byte_to_push : Places, next_byte_to_pop : Places]

Place(x) == IF x < BUFFER_SIZE THEN x ELSE x - BUFFER_SIZE

\* The ring holds the bytes that follow the first `gone`.
Holds(q, gone) ==
    \A j \in 0 .. available_to_pop(q) - 1 :
        q.buffer[Place(q.next_byte_to_pop + j)] = gone + 1 + j

LEMMA MinOfTwo ==
    ASSUME NEW a \in Int, NEW b \in Int
    PROVE  Min({a, b}) = IF a <= b THEN a ELSE b
  <1> DEFINE m == IF a <= b THEN a ELSE b
  <1>1. m \in {a, b} /\ \A y \in {a, b} : m <= y
    OBVIOUS
  <1>2. \A x \in {a, b} : (\A y \in {a, b} : x <= y) => x = m
    OBVIOUS
  <1> QED BY <1>1, <1>2 DEF Min

\* A piece goes up to the last place at most, so a position is that place's
\* successor, or wraps to 0.
LEMMA Wraps ==
    ASSUME BUFFER_SIZE \in Nat, BUFFER_SIZE >= 2, NEW x \in Nat, x <= BUFFER_SIZE
    PROVE  x % BUFFER_SIZE = IF x = BUFFER_SIZE THEN 0 ELSE x
  <1>1. CASE x = BUFFER_SIZE BY <1>1
  <1>2. CASE x < BUFFER_SIZE BY <1>2
  <1> QED BY <1>1, <1>2

LEMMA Availability ==
    ASSUME BUFFER_SIZE \in Nat, BUFFER_SIZE >= 2, NEW q \in ByteStreamQueue
    PROVE  /\ available_to_pop(q) \in 0 .. BUFFER_SIZE - 1
           /\ available_to_push(q) \in 0 .. BUFFER_SIZE - 1
           /\ available_to_pop(q) + available_to_push(q) = BUFFER_SIZE - 1
  <1>1. q.next_byte_to_push \in Places /\ q.next_byte_to_pop \in Places
    BY DEF ByteStreamQueue
  <1>2. CASE q.next_byte_to_pop > q.next_byte_to_push
    BY <1>1, <1>2 DEF available_to_pop, available_to_push, Places
  <1>3. CASE ~(q.next_byte_to_pop > q.next_byte_to_push)
    BY <1>1, <1>3 DEF available_to_pop, available_to_push, Places
  <1> QED BY <1>2, <1>3

LEMMA ContiguousIsLess ==
    ASSUME BUFFER_SIZE \in Nat, NEW place \in Nat, NEW available \in Nat
    PROVE  /\ Contiguous(place, available) \in Int
           /\ Contiguous(place, available) <= available
           /\ Contiguous(place, available) <= BUFFER_SIZE - place
           /\ available > 0 /\ place < BUFFER_SIZE => Contiguous(place, available) > 0
  <1>1. BUFFER_SIZE - place \in Int
    OBVIOUS
  <1>2. Contiguous(place, available) =
            IF available <= BUFFER_SIZE - place THEN available ELSE BUFFER_SIZE - place
    BY <1>1, MinOfTwo DEF Contiguous
  <1> QED BY <1>2

\* What is held lies before the next place to fill, and what is pushed after it.
LEMMA PlacesOfRing ==
    ASSUME BUFFER_SIZE \in Nat, BUFFER_SIZE >= 2,
           NEW in \in Places, NEW out \in Places, NEW held \in Nat, NEW n \in Nat, NEW j \in Nat,
           held = in - out + (IF out > in THEN BUFFER_SIZE ELSE 0),
           n <= BUFFER_SIZE - 1 - held, in + n <= BUFFER_SIZE, j < held + n
    PROVE  /\ Place(out + j) \in Places
           /\ j < held => Place(out + j) \notin in .. in + n - 1
           /\ j >= held => Place(out + j) = in + (j - held)
  <1>1. in \in 0 .. BUFFER_SIZE - 1 /\ out \in 0 .. BUFFER_SIZE - 1
    BY DEF Places
  <1>2. CASE out > in
    BY <1>1, <1>2 DEF Place, Places
  <1>3. CASE ~(out > in)
    BY <1>1, <1>3 DEF Place, Places
  <1> QED BY <1>2, <1>3

LEMMA PushAppends ==
    ASSUME BUFFER_SIZE \in Nat, BUFFER_SIZE >= 2, NEW q \in ByteStreamQueue,
           NEW gone \in Nat, Holds(q, gone),
           NEW n \in Nat, n <= Contiguous(q.next_byte_to_push, available_to_push(q))
    PROVE  LET r == push(q, gone + available_to_pop(q), n)
           IN  /\ r \in ByteStreamQueue
               /\ available_to_pop(r) = available_to_pop(q) + n
               /\ Holds(r, gone)
  <1> DEFINE in == q.next_byte_to_push
             out == q.next_byte_to_pop
             held == available_to_pop(q)
             room == available_to_push(q)
             r == push(q, gone + held, n)
  <1>1. /\ in \in Places /\ out \in Places /\ q.buffer \in [Places -> Nat]
        /\ held \in Nat /\ room \in Nat
    BY Availability DEF ByteStreamQueue
  <1>2. /\ in \in Nat /\ in < BUFFER_SIZE /\ out \in Nat /\ out < BUFFER_SIZE
        /\ held = in - out + (IF out > in THEN BUFFER_SIZE ELSE 0)
        /\ room = BUFFER_SIZE - 1 - held
    <2>1. in \in Nat /\ in < BUFFER_SIZE /\ out \in Nat /\ out < BUFFER_SIZE
      BY <1>1 DEF Places
    <2>2. held = in - out + (IF out > in THEN BUFFER_SIZE ELSE 0)
      BY <1>1 DEF Places, available_to_pop
    <2>3. room = BUFFER_SIZE - 1 - held
      BY <1>1, Availability
    <2> QED BY <2>1, <2>2, <2>3
  <1>3. n <= room /\ in + n <= BUFFER_SIZE
    <2>1. /\ Contiguous(in, room) \in Int
          /\ Contiguous(in, room) <= room /\ Contiguous(in, room) <= BUFFER_SIZE - in
      BY <1>1, <1>2, ContiguousIsLess
    <2> QED BY <1>1, <1>2, <2>1
  <1>4. /\ r.next_byte_to_push = IF in + n = BUFFER_SIZE THEN 0 ELSE in + n
        /\ r.next_byte_to_pop = out
        /\ r.buffer = [i \in Places |->
              IF i \in in .. in + n - 1 THEN gone + held + 1 + i - in ELSE q.buffer[i]]
    <2>1. (in + n) % BUFFER_SIZE = IF in + n = BUFFER_SIZE THEN 0 ELSE in + n
      <3>1. in + n \in Nat
        BY <1>2
      <3> QED BY <1>3, <3>1, Wraps
    <2>2. DOMAIN q.buffer = Places
      BY <1>1
    <2> QED BY <2>1, <2>2 DEF push, ByteStreamQueue
  <1>5. r \in ByteStreamQueue
    <2>1. r.buffer \in [Places -> Nat]
      <3>1. \A i \in in .. in + n - 1 : gone + held + 1 + i - in \in Nat
        BY <1>1, <1>2
      <3>2. \A i \in Places : q.buffer[i] \in Nat
        BY <1>1
      <3> QED BY <1>4, <3>1, <3>2
    <2>2. r.next_byte_to_push \in Places
      <3>1. (IF in + n = BUFFER_SIZE THEN 0 ELSE in + n) \in Places
        BY <1>2, <1>3 DEF Places
      <3> QED BY <1>4, <3>1
    <2>3. r = [q EXCEPT !.buffer = r.buffer, !.next_byte_to_push = r.next_byte_to_push]
      BY DEF push, ByteStreamQueue
    <2> QED BY <2>1, <2>2, <2>3 DEF ByteStreamQueue
  <1>6. available_to_pop(r) = held + n
    <2>1. available_to_pop(r) = r.next_byte_to_push - out
              + (IF out > r.next_byte_to_push THEN BUFFER_SIZE ELSE 0)
      BY <1>4 DEF available_to_pop
    <2>2. CASE in + n = BUFFER_SIZE
      BY <1>1, <1>2, <1>3, <1>4, <2>1, <2>2
    <2>3. CASE in + n < BUFFER_SIZE
      BY <1>1, <1>2, <1>3, <1>4, <2>1, <2>3
    <2>4. in + n = BUFFER_SIZE \/ in + n < BUFFER_SIZE
      BY <1>2, <1>3
    <2> QED BY <2>2, <2>3, <2>4
  <1>7. \A k \in 0 .. held - 1 : q.buffer[Place(out + k)] = gone + 1 + k
    BY DEF Holds
  <1> HIDE DEF in, out, held, room, r
  <1>8. Holds(r, gone)
    <2> SUFFICES ASSUME NEW j \in 0 .. held + n - 1
                 PROVE  r.buffer[Place(out + j)] = gone + 1 + j
      <3>1. r.next_byte_to_pop = out
        BY <1>4
      <3> QED BY <1>1, <1>6, <3>1 DEF Holds
    <2>1. j \in Nat /\ j < held + n /\ n <= BUFFER_SIZE - 1 - held
      BY <1>1, <1>2, <1>3
    <2>2. /\ Place(out + j) \in Places
          /\ j < held => Place(out + j) \notin in .. in + n - 1
          /\ j >= held => Place(out + j) = in + (j - held)
      <3>1. held = in - out + (IF out > in THEN BUFFER_SIZE ELSE 0)
        BY <1>2
      <3>2. in + n <= BUFFER_SIZE
        BY <1>3
      <3>3. in \in Places /\ out \in Places /\ held \in Nat
        BY <1>1
      <3> QED BY <2>1, <3>1, <3>2, <3>3, PlacesOfRing
    <2>3. CASE j < held
      <3>1. j \in 0 .. held - 1
        BY <1>1, <2>1, <2>3
      <3>2. q.buffer[Place(out + j)] = gone + 1 + j
        BY <1>7, <3>1
      <3> QED BY <1>4, <2>2, <2>3, <3>2
    <2>4. CASE j >= held
      <3>1. /\ Place(out + j) \in in .. in + n - 1
            /\ gone + held + 1 + Place(out + j) - in = gone + 1 + j
        BY <1>1, <1>2, <2>1, <2>2, <2>4
      <3> QED BY <1>4, <2>2, <3>1
    <2> QED BY <1>1, <2>1, <2>3, <2>4
  <1> QED BY <1>5, <1>6, <1>8 DEF r, held

LEMMA PopTakesTheFirst ==
    ASSUME BUFFER_SIZE \in Nat, BUFFER_SIZE >= 2, NEW q \in ByteStreamQueue,
           NEW gone \in Nat, Holds(q, gone),
           NEW n \in Nat, n <= Contiguous(q.next_byte_to_pop, available_to_pop(q))
    PROVE  /\ pop(q, n) \in ByteStreamQueue
           /\ n <= available_to_pop(q)
           /\ available_to_pop(pop(q, n)) = available_to_pop(q) - n
           /\ Holds(pop(q, n), gone + n)
           /\ Popped(q, n) = [i \in 1 .. n |-> gone + i]
  <1> DEFINE in == q.next_byte_to_push
             out == q.next_byte_to_pop
             held == available_to_pop(q)
             r == pop(q, n)
  <1>1. in \in Places /\ out \in Places /\ held \in Nat
    BY Availability DEF ByteStreamQueue
  <1>2. /\ in \in Nat /\ in < BUFFER_SIZE /\ out \in Nat /\ out < BUFFER_SIZE
        /\ held = in - out + (IF out > in THEN BUFFER_SIZE ELSE 0)
    <2>1. in \in Nat /\ in < BUFFER_SIZE /\ out \in Nat /\ out < BUFFER_SIZE
      BY <1>1 DEF Places
    <2>2. held = in - out + (IF out > in THEN BUFFER_SIZE ELSE 0)
      BY <1>1 DEF Places, available_to_pop
    <2> QED BY <2>1, <2>2
  <1>3. n <= held /\ out + n <= BUFFER_SIZE
    <2>1. /\ Contiguous(out, held) \in Int
          /\ Contiguous(out, held) <= held /\ Contiguous(out, held) <= BUFFER_SIZE - out
      BY <1>1, <1>2, ContiguousIsLess
    <2> QED BY <1>1, <1>2, <2>1
  <1>4. /\ r.next_byte_to_pop = IF out + n = BUFFER_SIZE THEN 0 ELSE out + n
        /\ r.next_byte_to_push = in
        /\ r.buffer = q.buffer
    <2>1. (out + n) % BUFFER_SIZE = IF out + n = BUFFER_SIZE THEN 0 ELSE out + n
      BY <1>2, <1>3, Wraps
    <2> QED BY <2>1 DEF pop, ByteStreamQueue
  <1>5. r \in ByteStreamQueue
    <2>1. r.next_byte_to_pop \in Places
      BY <1>2, <1>3, <1>4 DEF Places
    <2>2. r = [q EXCEPT !.next_byte_to_pop = r.next_byte_to_pop]
      BY DEF pop, ByteStreamQueue
    <2> QED BY <2>1, <2>2 DEF ByteStreamQueue
  <1>6. available_to_pop(r) = held - n
    <2>1. available_to_pop(r) = in - r.next_byte_to_pop
              + (IF r.next_byte_to_pop > in THEN BUFFER_SIZE ELSE 0)
      BY <1>4 DEF available_to_pop
    <2>2. CASE out + n = BUFFER_SIZE
      BY <1>1, <1>2, <1>3, <1>4, <2>1, <2>2
    <2>3. CASE out + n < BUFFER_SIZE
      BY <1>1, <1>2, <1>3, <1>4, <2>1, <2>3
    <2> QED BY <1>2, <1>3, <2>2, <2>3
  <1>7. \A k \in 0 .. held - 1 : q.buffer[Place(out + k)] = gone + 1 + k
    BY DEF Holds
  <1>8. Holds(r, gone + n)
    <2> SUFFICES ASSUME NEW j \in 0 .. held - n - 1
                 PROVE  r.buffer[Place(r.next_byte_to_pop + j)] = gone + n + 1 + j
      BY <1>6 DEF Holds
    <2>1. n + j \in 0 .. held - 1
      BY <1>1, <1>3
    <2>2. Place(r.next_byte_to_pop + j) = Place(out + (n + j))
      <3>1. held <= BUFFER_SIZE - 1
        BY <1>1, <1>2
      <3>2. CASE out + n = BUFFER_SIZE
        BY <1>1, <1>2, <1>3, <1>4, <2>1, <3>1, <3>2 DEF Place
      <3>3. CASE out + n < BUFFER_SIZE
        BY <1>1, <1>2, <1>3, <1>4, <2>1, <3>3 DEF Place
      <3> QED BY <1>2, <1>3, <3>2, <3>3
    <2>3. q.buffer[Place(out + (n + j))] = gone + 1 + (n + j)
      BY <1>7, <2>1
    <2> QED BY <1>4, <2>2, <2>3
  <1>9. Popped(q, n) = [i \in 1 .. n |-> gone + i]
    <2> SUFFICES ASSUME NEW i \in 1 .. n
                 PROVE  q.buffer[out + i - 1] = gone + i
      BY DEF Popped
    <2>1. i - 1 \in 0 .. held - 1 /\ Place(out + (i - 1)) = out + i - 1
      BY <1>1, <1>2, <1>3 DEF Place
    <2>2. q.buffer[Place(out + (i - 1))] = gone + 1 + (i - 1)
      BY <1>7, <2>1
    <2> QED BY <2>1, <2>2
  <1> QED BY <1>3, <1>5, <1>6, <1>8, <1>9

-----------------------------------------------------------------------------
(* The invariant                                                            *)

Peer ==
    [said : Nat, closed : {"no", "output", "gone"}, got : Seq(Nat), taken : Nat,
     eof : BOOLEAN]

TypeInv ==
    /\ peer \in [Peers -> Peer]
    /\ from \in [Peers -> ByteStreamQueue]
    /\ active \in SUBSET (1 .. 4)
    /\ thread \in {"poll", "serve", "to_client", "to_server", "exit", "exception", "abort"}
    /\ poll_report \in [revents : SUBSET (1 .. 4), hung : SUBSET (1 .. 4)]

\* What has been taken from a peer has been handed to the other, or is in the ring.
RingInv ==
    \A p \in Peers :
        LET got == peer[Other[p]].got
        IN  /\ got = [i \in 1 .. Len(got) |-> i]
            /\ Len(got) + available_to_pop(from[p]) = peer[p].taken
            /\ Holds(from[p], Len(got))
            /\ peer[p].taken <= peer[p].said

\* The end of a stream is final, and only then does its action go.
EndInv ==
    /\ \A p \in Peers : peer[p].eof => peer[p].taken = peer[p].said /\ peer[p].closed # "no"
    /\ \A i \in {1, 2} : i \in active \/ peer[SocketOf(i)].eof
    /\ {3, 4} \subseteq active

\* A connection holds no more than it has room for.
RoomInv == unread \in [Peers -> 0 .. Room]

InPoll == thread \in {"serve", "to_client", "to_server"}

\* What was true of an action when the poll began is true until it is served.
ReportInv ==
    InPoll =>
        /\ \A i \in poll_report.revents \cap {1, 2} :
              i \in active /\ space_available(from[SocketOf(i)]) /\ HasInput(i)
        /\ \A i \in poll_report.revents \cap {3, 4} :
              non_empty(from[Other[SocketOf(i)]]) /\ thread # WritesTo[SocketOf(i)]
        /\ poll_report.hung # {} => Gone # {}

\* The thread leaves when a peer has gone, or when both have ended and have all.
LeaveInv ==
    /\ thread # "abort"
    /\ thread \in {"exit", "exception"} =>
          \/ Gone # {}
          \/ \A p \in Peers : peer[p].eof /\ Len(peer[Other[p]].got) = peer[p].said

IInv == TypeInv /\ RoomInv /\ RingInv /\ EndInv /\ ReportInv /\ LeaveInv

ConstantsOfRelay ==
    /\ BUFFER_SIZE \in Nat /\ BUFFER_SIZE >= 2
    /\ Spoken \in [Peers -> Nat] /\ Room \in Nat

LEMMA OtherPeer ==
    /\ Other \in [Peers -> Peers]
    /\ \A p \in Peers : Other[p] # p /\ Other[Other[p]] = p
    /\ \A p, r \in Peers : r = p \/ r = Other[p]
  BY DEF Other, Peers

LEMMA Sockets ==
    /\ SocketOf(1) = "server" /\ SocketOf(2) = "client"
    /\ SocketOf(3) = "server" /\ SocketOf(4) = "client"
    /\ \A i \in 1 .. 4 : SocketOf(i) \in Peers
    /\ \A i, j \in {1, 2} : SocketOf(i) = SocketOf(j) => i = j
    /\ \A i, j \in {3, 4} : SocketOf(i) = SocketOf(j) => i = j
  <1>1. /\ SocketOf(1) = "server" /\ SocketOf(2) = "client"
        /\ SocketOf(3) = "server" /\ SocketOf(4) = "client"
    BY DEF SocketOf
  <1>2. \A i \in 1 .. 4 : i = 1 \/ i = 2 \/ i = 3 \/ i = 4
    OBVIOUS
  <1> QED BY <1>1, <1>2 DEF Peers

LEMMA Writing ==
    /\ \A p \in Peers : WritesTo[p] \in {"to_client", "to_server"}
    /\ \A p, o \in Peers : WritesTo[p] = WritesTo[o] => p = o
  BY DEF WritesTo, Peers

LEMMA MinOfActions ==
    ASSUME NEW S \in SUBSET (1 .. 4), S # {}
    PROVE  Min(S) \in S
  <1>1. \E m \in S : \A y \in S : m <= y
    <2>1. CASE 1 \in S BY <2>1
    <2>2. CASE 1 \notin S /\ 2 \in S BY <2>2
    <2>3. CASE 1 \notin S /\ 2 \notin S /\ 3 \in S BY <2>3
    <2>4. CASE S = {4} BY <2>4
    <2>5. \A y \in S : y = 1 \/ y = 2 \/ y = 3 \/ y = 4
      OBVIOUS
    <2> QED BY <2>1, <2>2, <2>3, <2>4, <2>5
  <1> QED BY <1>1 DEF Min

\* An action that is served was reported, and is served once.
LEMMA ServedOnce ==
    ASSUME TypeInv, NEW i \in 1 .. 4, Serve(i)
    PROVE  /\ thread = "serve"
           /\ i \in poll_report.revents
           /\ poll_report' = [poll_report EXCEPT !.revents = @ \ {i}]
           /\ poll_report' \in [revents : SUBSET (1 .. 4), hung : SUBSET (1 .. 4)]
           /\ poll_report'.revents = poll_report.revents \ {i}
           /\ poll_report'.hung = poll_report.hung
  <1>1. poll_report \in [revents : SUBSET (1 .. 4), hung : SUBSET (1 .. 4)]
    BY DEF TypeInv
  <1>2. /\ Reported(poll_report) # {} /\ Min(Reported(poll_report)) = i
        /\ i \notin poll_report.hung
    BY DEF Serve, Serves, At
  <1>3. i \in Reported(poll_report)
    <2>1. Reported(poll_report) \in SUBSET (1 .. 4)
      BY <1>1 DEF Reported
    <2> QED BY <1>2, <2>1, MinOfActions
  <1>4. poll_report' = [poll_report EXCEPT !.revents = @ \ {i}]
    BY <1>2 DEF Serve, Served, At
  <1> QED BY <1>1, <1>2, <1>3, <1>4 DEF Serve, Reported

LEMMA NumbersContinue ==
    ASSUME NEW s \in Seq(Nat), s = [i \in 1 .. Len(s) |-> i], NEW n \in Nat,
           NEW t, t = [i \in 1 .. n |-> Len(s) + i]
    PROVE  /\ s \o t \in Seq(Nat)
           /\ Len(s \o t) = Len(s) + n
           /\ s \o t = [i \in 1 .. Len(s \o t) |-> i]
  <1>1. t \in Seq(Nat) /\ Len(t) = n
    <2>1. t \in [1 .. n -> Nat]
      BY LenProperties
    <2> QED BY <2>1, SeqDef, LenProperties
  <1>2. /\ s \o t \in Seq(Nat) /\ Len(s \o t) = Len(s) + n
        /\ \A i \in 1 .. Len(s) + n : (s \o t)[i] = IF i <= Len(s) THEN s[i] ELSE t[i - Len(s)]
    BY <1>1, ConcatProperties
  <1>3. \A i \in 1 .. Len(s) + n : (s \o t)[i] = i
    <2> SUFFICES ASSUME NEW i \in 1 .. Len(s) + n PROVE (s \o t)[i] = i
      OBVIOUS
    <2>1. CASE i <= Len(s)
      BY <1>2, <2>1, LenProperties
    <2>2. CASE i > Len(s)
      <3>1. i - Len(s) \in 1 .. n
        BY <2>2, LenProperties
      <3> QED BY <1>2, <2>2, <3>1, LenProperties
    <2> QED BY <2>1, <2>2, LenProperties
  <1>4. s \o t \in [1 .. Len(s) + n -> Nat]
    BY <1>2, LenProperties
  <1> QED BY <1>2, <1>3, <1>4

-----------------------------------------------------------------------------
(* Every step keeps it                                                      *)

LEMMA InitKeeps ==
    ASSUME ConstantsOfRelay, Init
    PROVE  IInv
  <1>1. NewByteStreamQueue \in ByteStreamQueue /\ available_to_pop(NewByteStreamQueue) = 0
    BY DEF NewByteStreamQueue, ByteStreamQueue, Places, available_to_pop, ConstantsOfRelay
  <1>2. \A p \in Peers : peer[p] = NewPeer /\ from[p] = NewByteStreamQueue
    BY DEF Init
  <1>3. /\ NewPeer.got = <<>> /\ NewPeer.taken = 0 /\ NewPeer.said = 0
        /\ NewPeer.eof = FALSE
    BY DEF NewPeer
  <1>4. TypeInv
    <2>1. NewPeer \in Peer
      BY DEF NewPeer, Peer
    <2>2. NoReport \in [revents : SUBSET (1 .. 4), hung : SUBSET (1 .. 4)]
      BY DEF NoReport, Report
    <2> QED BY <1>1, <2>1, <2>2 DEF Init, TypeInv
  <1>5. RingInv
    <2> SUFFICES ASSUME NEW p \in Peers
                 PROVE  /\ <<>> = [i \in 1 .. Len(<<>>) |-> i]
                        /\ Len(<<>>) + available_to_pop(NewByteStreamQueue) = 0
                        /\ Holds(NewByteStreamQueue, Len(<<>>))
      BY <1>2, <1>3, OtherPeer DEF RingInv
    <2> QED BY <1>1 DEF Holds
  <1>6. EndInv
    BY <1>2, <1>3 DEF EndInv, Init
  <1>7. ReportInv /\ LeaveInv
    BY DEF ReportInv, InPoll, LeaveInv, Init
  <1>8. RoomInv
    BY DEF RoomInv, Init, ConstantsOfRelay
  <1> QED BY <1>4, <1>5, <1>6, <1>7, <1>8 DEF IInv

\* A poll reports only what is so; it is left for good only when nothing can come.
LEMMA PollKeeps ==
    ASSUME ConstantsOfRelay, IInv, Poll
    PROVE  IInv'
  <1> USE DEF IInv
  <1>1. UNCHANGED <<peer, unread, from, active>> /\ thread = "poll"
    BY DEF Poll
  <1>2. \A i \in 1 .. 4 : i \in Events(actions) <=>
            /\ i \in active
            /\ i <= 2 => space_available(from[SocketOf(i)]) /\ ~peer[SocketOf(i)].eof
            /\ i > 2 => non_empty(from[Other[SocketOf(i)]])
    <2> SUFFICES ASSUME NEW i \in 1 .. 4
                 PROVE  i \in Events(actions) <=>
                            /\ i \in active
                            /\ i <= 2 => space_available(from[SocketOf(i)])
                                         /\ ~peer[SocketOf(i)].eof
                            /\ i > 2 => non_empty(from[Other[SocketOf(i)]])
      OBVIOUS
    <2>1. DOMAIN actions = 1 .. 4
      BY DEF actions
    <2>2. CASE i <= 2
      <3>1. actions[i] = Action("In", i \in active, space_available(from[SocketOf(i)]),
                                peer[SocketOf(i)].eof)
        BY <2>2 DEF actions
      <3>2. /\ actions[i].direction = "In" /\ actions[i].active = (i \in active)
            /\ actions[i].interested = space_available(from[SocketOf(i)])
            /\ actions[i].eof = peer[SocketOf(i)].eof
        BY <3>1 DEF Action
      <3>3. ~(i > 2) /\ "In" # "Out"
        BY <2>2
      <3> QED BY <2>1, <2>2, <3>2, <3>3, Zenon DEF Events
    <2>3. CASE i > 2
      <3>1. actions[i] = Action("Out", i \in active, non_empty(from[Other[SocketOf(i)]]),
                                peer[SocketOf(i)].eof)
        BY <2>3 DEF actions
      <3>2. /\ actions[i].direction = "Out" /\ actions[i].active = (i \in active)
            /\ actions[i].interested = non_empty(from[Other[SocketOf(i)]])
            /\ actions[i].eof = peer[SocketOf(i)].eof
        BY <3>1 DEF Action
      <3>3. ~(i <= 2) /\ "In" # "Out"
        BY <2>3
      <3> QED BY <2>1, <2>3, <3>2, <3>3, Zenon DEF Events
    <2> QED BY <2>2, <2>3
  <1>3. CASE NothingToPoll(actions) /\ thread' = "exit" /\ UNCHANGED poll_report
    <2>1. \A i \in 1 .. 4 : i \notin Events(actions)
      BY <1>3 DEF NothingToPoll
    <2>2. \A p \in Peers : available_to_pop(from[p]) = 0
      <3> SUFFICES ASSUME NEW p \in Peers PROVE available_to_pop(from[p]) = 0
        OBVIOUS
      <3>1. PICK i \in {3, 4} : Other[SocketOf(i)] = p
        BY Sockets DEF Other, Peers
      <3>2. ~non_empty(from[p])
        BY <1>2, <2>1, <3>1 DEF EndInv
      <3>3. from[p] \in ByteStreamQueue
        BY DEF TypeInv
      <3> QED BY <3>2, <3>3, Availability DEF non_empty, ConstantsOfRelay
    <2>3. \A p \in Peers : peer[p].eof
      <3> SUFFICES ASSUME NEW p \in Peers PROVE peer[p].eof
        OBVIOUS
      <3>1. PICK i \in {1, 2} : SocketOf(i) = p
        BY Sockets DEF Peers
      <3>2. space_available(from[p])
        <4>1. from[p] \in ByteStreamQueue
          BY DEF TypeInv
        <4> QED BY <2>2, <4>1, Availability DEF space_available, ConstantsOfRelay
      <3> QED BY <1>2, <2>1, <3>1, <3>2 DEF EndInv
    <2>4. \A p \in Peers : Len(peer[Other[p]].got) = peer[p].said
      <3> SUFFICES ASSUME NEW p \in Peers PROVE Len(peer[Other[p]].got) = peer[p].said
        OBVIOUS
      <3>1. peer[Other[p]].got \in Seq(Nat)
        BY OtherPeer DEF TypeInv, Peer
      <3>2. Len(peer[Other[p]].got) + available_to_pop(from[p]) = peer[p].taken
        BY DEF RingInv
      <3>3. peer[p].taken = peer[p].said /\ Len(peer[Other[p]].got) \in Nat
        BY <2>3, <3>1, LenProperties DEF EndInv
      <3> QED BY <2>2, <3>2, <3>3
    <2>5. TypeInv' /\ RoomInv' /\ RingInv' /\ EndInv'
      BY <1>1, <1>3 DEF TypeInv, RoomInv, RingInv, EndInv
    <2>6. ReportInv' /\ LeaveInv'
      BY <1>1, <1>3, <2>3, <2>4 DEF ReportInv, InPoll, LeaveInv
    <2> QED BY <2>5, <2>6
  <1>4. ASSUME NEW hung \in {{}, {i \in 1 .. 4 : SocketOf(i) \in Gone}},
               poll_report' = Report({i \in Events(actions) : Writable(i) \/ HasInput(i)}, hung),
               thread' = "serve"
        PROVE  IInv'
    <2>1. /\ poll_report'.revents = {i \in Events(actions) : Writable(i) \/ HasInput(i)}
          /\ poll_report'.hung = hung
          /\ poll_report' \in [revents : SUBSET (1 .. 4), hung : SUBSET (1 .. 4)]
      BY <1>4 DEF Report, Events, actions
    <2>2. TypeInv' /\ RoomInv' /\ RingInv' /\ EndInv'
      BY <1>1, <1>4, <2>1 DEF TypeInv, RoomInv, RingInv, EndInv
    <2>3. ReportInv'
      <3>1. \A i \in poll_report'.revents \cap {1, 2} :
                i \in active /\ space_available(from[SocketOf(i)]) /\ HasInput(i)
        BY <1>2, <2>1 DEF Writable
      <3>2. \A i \in poll_report'.revents \cap {3, 4} :
                non_empty(from[Other[SocketOf(i)]]) /\ thread' # WritesTo[SocketOf(i)]
        BY <1>2, <1>4, <2>1, Sockets, Writing
      <3>3. poll_report'.hung # {} => Gone # {}
        BY <2>1
      <3>4. /\ \A i \in 1 .. 4 : HasInput(i)' <=> HasInput(i)
            /\ Gone' = Gone
        BY <1>1 DEF HasInput, Gone, SocketOf
      <3> QED BY <1>1, <3>1, <3>2, <3>3, <3>4 DEF ReportInv, InPoll, SocketOf, WritesTo
    <2>4. LeaveInv'
      BY <1>4 DEF LeaveInv
    <2> QED BY <2>2, <2>3, <2>4
  <1> QED BY <1>3, <1>4 DEF Poll

LEMMA EndPollKeeps ==
    ASSUME IInv, EndPoll
    PROVE  IInv'
  <1> USE DEF IInv
  <1>1. /\ UNCHANGED <<peer, unread, from, active>> /\ thread = "serve"
        /\ thread' \in {"exit", "poll"} /\ poll_report' = NoReport
        /\ thread' = "exit" => HangsUp(poll_report)
    BY DEF EndPoll
  <1>2. HangsUp(poll_report) => Gone # {}
    BY <1>1 DEF ReportInv, InPoll, HangsUp
  <1>3. TypeInv' /\ RoomInv' /\ RingInv' /\ EndInv'
    BY <1>1 DEF TypeInv, RoomInv, RingInv, EndInv, NoReport, Report
  <1>4. ReportInv' /\ LeaveInv'
    <2>1. Gone' = Gone
      BY <1>1 DEF Gone
    <2> QED BY <1>1, <1>2, <2>1 DEF ReportInv, InPoll, LeaveInv
  <1> QED BY <1>3, <1>4

LEMMA ThrowKeeps ==
    ASSUME IInv, Throw
    PROVE  IInv'
  <1> USE DEF IInv
  <1>1. PICK i \in 1 .. 4 : Serve(i) /\ SocketOf(i) \in Gone
    BY DEF Throw
  <1>2. thread' = "exception" /\ UNCHANGED <<peer, unread, from, active>>
    BY DEF Throw
  <1>3. poll_report' \in [revents : SUBSET (1 .. 4), hung : SUBSET (1 .. 4)]
    BY <1>1, ServedOnce
  <1>4. TypeInv' /\ RoomInv' /\ RingInv' /\ EndInv'
    BY <1>2, <1>3 DEF TypeInv, RoomInv, RingInv, EndInv
  <1>5. Gone' = Gone
    BY <1>2 DEF Gone
  <1> QED BY <1>1, <1>2, <1>4, <1>5 DEF ReportInv, InPoll, LeaveInv

\* A peer that speaks has not ended; one that closes has no more to say.
LEMMA SayKeeps ==
    ASSUME ConstantsOfRelay, IInv, NEW p \in Peers, Say(p)
    PROVE  IInv'
  <1> USE DEF IInv
  <1>1. PICK n \in 1 .. Spoken[p] - peer[p].said : peer' = [peer EXCEPT ![p].said = @ + n]
    BY DEF Say
  <1>2. /\ peer[p].closed = "no" /\ ~peer[p].eof
        /\ UNCHANGED <<unread, from, active, thread, poll_report>>
    BY DEF Say, EndInv
  <1>3. n \in Nat /\ peer[p].said \in Nat /\ peer[p].taken \in Nat
    BY DEF TypeInv, Peer, ConstantsOfRelay
  <1>4. TypeInv'
    <2>1. peer[p] \in Peer /\ peer[p].said + n \in Nat
      BY <1>3 DEF TypeInv
    <2>2. [peer[p] EXCEPT !.said = @ + n] \in Peer
      BY <2>1 DEF Peer
    <2>3. peer' \in [Peers -> Peer]
      BY <1>1, <2>2 DEF TypeInv
    <2> QED BY <1>2, <2>3 DEF TypeInv
  <1>5. \A r \in Peers :
            /\ peer'[r].closed = peer[r].closed /\ peer'[r].got = peer[r].got
            /\ peer'[r].taken = peer[r].taken /\ peer'[r].eof = peer[r].eof
            /\ peer'[r].said = IF r = p THEN peer[p].said + n ELSE peer[r].said
    BY <1>1 DEF TypeInv
  <1>6. RingInv'
    <2> SUFFICES ASSUME NEW r \in Peers
                 PROVE  /\ peer'[r].taken <= peer'[r].said
                        /\ peer'[Other[r]].got = peer[Other[r]].got
      BY <1>2, <1>5 DEF RingInv
    <2>1. peer[r].taken <= peer[r].said /\ peer[r].taken \in Nat /\ peer[r].said \in Nat
      BY DEF RingInv, TypeInv, Peer
    <2> QED BY <1>3, <1>5, <2>1, OtherPeer
  <1>7. EndInv'
    BY <1>2, <1>5, Sockets DEF EndInv
  <1>8. Gone' = Gone
    BY <1>5 DEF Gone
  <1>9. \A i \in 1 .. 4 : HasInput(i) => HasInput(i)'
    <2> SUFFICES ASSUME NEW i \in 1 .. 4, HasInput(i) PROVE HasInput(i)'
      OBVIOUS
    <2>1. /\ i <= 2 /\ SocketOf(i) \in Peers
          /\ peer[SocketOf(i)].taken < peer[SocketOf(i)].said \/ peer[SocketOf(i)].closed # "no"
      BY Sockets DEF HasInput
    <2>2. SocketOf(i)' = SocketOf(i)
      BY DEF SocketOf
    <2>3. peer[SocketOf(i)].taken \in Nat /\ peer[SocketOf(i)].said \in Nat
      BY <2>1 DEF TypeInv, Peer
    <2> QED BY <1>3, <1>5, <2>1, <2>2, <2>3 DEF HasInput
  <1>10. ReportInv'
    BY <1>2, <1>8, <1>9 DEF ReportInv, InPoll, SocketOf, WritesTo
  <1>11. LeaveInv'
    BY <1>2, <1>5, <1>8 DEF LeaveInv
  <1>12. RoomInv'
    BY <1>2 DEF RoomInv
  <1> QED BY <1>4, <1>6, <1>7, <1>10, <1>11, <1>12

LEMMA HearKeeps ==
    ASSUME ConstantsOfRelay, IInv, NEW p \in Peers, Hear(p)
    PROVE  IInv'
  <1> USE DEF IInv
  <1>1. PICK n \in 1 .. unread[p] : unread' = [unread EXCEPT ![p] = @ - n]
    BY DEF Hear
  <1>2. UNCHANGED <<peer, from, active, thread, poll_report>>
    BY DEF Hear
  <1>3. unread' \in [Peers -> 0 .. Room]
    BY <1>1 DEF TypeInv, RoomInv, ConstantsOfRelay
  <1>4. Gone' = Gone /\ \A j \in 1 .. 4 : HasInput(j)' <=> HasInput(j)
    BY <1>2 DEF Gone, HasInput, SocketOf
  <1>5. TypeInv' /\ RoomInv' /\ RingInv' /\ EndInv' /\ LeaveInv'
    BY <1>2, <1>3, <1>4 DEF TypeInv, RoomInv, RingInv, EndInv, LeaveInv
  <1>6. ReportInv'
    BY <1>2, <1>4 DEF ReportInv, InPoll, SocketOf, WritesTo
  <1> QED BY <1>5, <1>6

LEMMA CloseKeeps ==
    ASSUME IInv, NEW p \in Peers, NEW how \in {"output", "gone"}, Close(p, how)
    PROVE  IInv'
  <1> USE DEF IInv
  <1>1. /\ peer' = [peer EXCEPT ![p].closed = how]
        /\ peer[p].closed # "gone"
        /\ UNCHANGED <<unread, from, active, thread, poll_report>>
    BY DEF Close
  <1>2. TypeInv' /\ RoomInv'
    BY <1>1 DEF TypeInv, RoomInv, Peer
  <1>3. \A r \in Peers :
            /\ peer'[r].said = peer[r].said /\ peer'[r].got = peer[r].got
            /\ peer'[r].taken = peer[r].taken /\ peer'[r].eof = peer[r].eof
            /\ peer'[r].closed = IF r = p THEN how ELSE peer[r].closed
    BY <1>1 DEF TypeInv
  <1>4. RingInv'
    BY <1>1, <1>3, OtherPeer DEF RingInv
  <1>5. EndInv'
    BY <1>1, <1>3, Sockets DEF EndInv
  <1>6. Gone # {} => Gone' # {}
    BY <1>1, <1>3 DEF Gone
  <1>7. \A i \in 1 .. 4 : HasInput(i) => HasInput(i)'
    BY <1>3, Sockets DEF HasInput, SocketOf
  <1>8. ReportInv'
    BY <1>1, <1>6, <1>7 DEF ReportInv, InPoll, SocketOf, WritesTo
  <1>9. LeaveInv'
    BY <1>1, <1>3, <1>6, OtherPeer DEF LeaveInv
  <1> QED BY <1>2, <1>4, <1>5, <1>8, <1>9

LEMMA ReadKeeps ==
    ASSUME ConstantsOfRelay, IInv, NEW i \in 1 .. 4, Read(i)
    PROVE  IInv'
  <1> USE DEF IInv
  <1> DEFINE p == SocketOf(i)
             q == from[p]
             most == Min({Contiguous(q.next_byte_to_push, available_to_push(q)),
                          peer[p].said - peer[p].taken})
             gone == Len(peer[Other[p]].got)
  <1>1. /\ i \in {1, 2} /\ Serve(i)
        /\ thread' = IF space_available(q) THEN "serve" ELSE "abort"
    BY DEF Read
  <1>2. PICK n \in (IF most = 0 THEN {0} ELSE 1 .. most) :
            /\ from' = [from EXCEPT ![p] = push(q, peer[p].taken, n)]
            /\ peer' = [peer EXCEPT ![p].taken = @ + n, ![p].eof = n = 0]
            /\ active' = IF n = 0 THEN active \ {i} ELSE active
    BY DEF Read
  <1>3. /\ p \in Peers /\ q \in ByteStreamQueue /\ Other[p] \in Peers
        /\ peer[p].said \in Nat /\ peer[p].taken \in Nat /\ gone \in Nat
    BY Sockets, OtherPeer, LenProperties DEF TypeInv, Peer
  <1>4. /\ thread = "serve" /\ i \in poll_report.revents
        /\ poll_report' \in [revents : SUBSET (1 .. 4), hung : SUBSET (1 .. 4)]
        /\ poll_report'.revents = poll_report.revents \ {i}
        /\ poll_report'.hung = poll_report.hung
    BY <1>1, ServedOnce
  <1>5. i \in active /\ space_available(q) /\ HasInput(i)
    BY <1>1, <1>4 DEF ReportInv, InPoll
  <1>6. /\ peer[p].taken <= peer[p].said /\ Holds(q, gone)
        /\ gone + available_to_pop(q) = peer[p].taken
    BY <1>3 DEF RingInv
  <1>7. /\ n \in Nat
        /\ n <= Contiguous(q.next_byte_to_push, available_to_push(q))
        /\ peer[p].taken + n <= peer[p].said
        /\ n = 0 => peer[p].taken = peer[p].said
    <2>1. /\ q.next_byte_to_push \in Nat /\ q.next_byte_to_push < BUFFER_SIZE
          /\ available_to_push(q) \in Nat /\ available_to_push(q) > 0
      <3>1. q.next_byte_to_push \in Places
        BY <1>3 DEF ByteStreamQueue
      <3>2. available_to_push(q) \in Nat
        BY <1>3, Availability DEF ConstantsOfRelay
      <3> QED BY <1>5, <3>1, <3>2 DEF Places, space_available, ConstantsOfRelay
    <2> DEFINE piece == Contiguous(q.next_byte_to_push, available_to_push(q))
               waiting == peer[p].said - peer[p].taken
    <2>2. piece \in Int /\ piece > 0
      BY <2>1, ContiguousIsLess DEF ConstantsOfRelay
    <2>3. waiting \in Int /\ waiting >= 0
      BY <1>3, <1>6
    <2>4. most = IF piece <= waiting THEN piece ELSE waiting
      BY <2>2, <2>3, MinOfTwo
    <2>5. n \in (IF most = 0 THEN {0} ELSE 1 .. most)
      OBVIOUS
    <2> HIDE DEF piece, most
    <2>6. /\ n \in Nat /\ n <= piece /\ n <= waiting
          /\ n = 0 => waiting = 0
      BY <2>2, <2>3, <2>4, <2>5
    <2> QED BY <1>3, <2>6 DEF piece
  <1> HIDE DEF most
  <1> DEFINE r == push(q, peer[p].taken, n)
  <1>8. /\ r \in ByteStreamQueue
        /\ available_to_pop(r) = available_to_pop(q) + n
        /\ Holds(r, gone)
        /\ available_to_pop(q) \in Nat
    <2>1. push(q, peer[p].taken, n) = push(q, gone + available_to_pop(q), n)
      BY <1>6
    <2>2. available_to_pop(q) \in Nat
      BY <1>3, Availability DEF ConstantsOfRelay
    <2> HIDE DEF q, gone
    <2> QED BY <1>3, <1>6, <1>7, <2>1, <2>2, PushAppends DEF ConstantsOfRelay
  <1> HIDE DEF p, r
  <1> DEFINE s == [peer[p] EXCEPT !.taken = @ + n, !.eof = n = 0]
  <1>9. /\ peer' = [peer EXCEPT ![p] = s] /\ from' = [from EXCEPT ![p] = r]
        /\ s \in Peer
        /\ s.said = peer[p].said /\ s.closed = peer[p].closed /\ s.got = peer[p].got
        /\ s.taken = peer[p].taken + n
        /\ s.eof <=> n = 0
    <2>1. peer[p] \in Peer /\ peer[p].taken + n \in Nat /\ (n = 0) \in BOOLEAN
      BY <1>3, <1>7 DEF TypeInv
    <2>2. s \in Peer
      BY <2>1 DEF Peer
    <2>3. /\ s.said = peer[p].said /\ s.closed = peer[p].closed /\ s.got = peer[p].got
          /\ s.taken = peer[p].taken + n
      BY <2>1 DEF Peer
    <2>4. s.eof <=> n = 0
      BY <2>1 DEF Peer
    <2>5. peer' = [peer EXCEPT ![p] = s] /\ from' = [from EXCEPT ![p] = r]
      BY <1>2, <1>3 DEF TypeInv, r
    <2> QED BY <2>2, <2>3, <2>4, <2>5
  <1> HIDE DEF s
  <1>10. /\ from'[p] = r /\ peer'[p] = s
         /\ \A o \in Peers : o # p => from'[o] = from[o] /\ peer'[o] = peer[o]
    BY <1>3, <1>9 DEF TypeInv
  <1>11. TypeInv'
    <2>1. peer' \in [Peers -> Peer] /\ from' \in [Peers -> ByteStreamQueue]
      BY <1>8, <1>9 DEF TypeInv
    <2>2. active' \in SUBSET (1 .. 4) /\ thread' \in {"serve", "abort"}
      BY <1>1, <1>2 DEF TypeInv
    <2> QED BY <1>4, <2>1, <2>2 DEF TypeInv
  <1>12. RingInv'
    <2> SUFFICES ASSUME NEW o \in Peers
                 PROVE  LET got == peer'[Other[o]].got
                        IN  /\ got = [j \in 1 .. Len(got) |-> j]
                            /\ Len(got) + available_to_pop(from'[o]) = peer'[o].taken
                            /\ Holds(from'[o], Len(got))
                            /\ peer'[o].taken <= peer'[o].said
      BY DEF RingInv, Holds, available_to_pop, Place
    <2>1. peer'[Other[o]].got = peer[Other[o]].got
      BY <1>9, <1>10, OtherPeer
    <2>2. CASE o = p
      <3>1. gone + available_to_pop(r) = peer[p].taken + n
        <4> HIDE DEF q, gone
        <4> QED BY <1>3, <1>6, <1>7, <1>8
      <3> QED BY <1>6, <1>7, <1>8, <1>9, <1>10, <2>1, <2>2, <3>1 DEF RingInv
    <2>3. CASE o # p
      BY <1>9, <1>10, <2>1, <2>3 DEF RingInv
    <2> QED BY <2>2, <2>3
  <1>13. EndInv'
    <2>1. n = 0 => peer[p].closed # "no"
      BY <1>3, <1>5, <1>7 DEF HasInput, p
    <2>2. \A o \in Peers : peer'[o].eof =>
              peer'[o].taken = peer'[o].said /\ peer'[o].closed # "no"
      <3> SUFFICES ASSUME NEW o \in Peers, peer'[o].eof
                   PROVE  peer'[o].taken = peer'[o].said /\ peer'[o].closed # "no"
        OBVIOUS
      <3>1. CASE o = p
        <4>1. n = 0
          BY <1>9, <1>10, <3>1
        <4> QED BY <1>3, <1>7, <1>9, <1>10, <2>1, <3>1, <4>1
      <3>2. CASE o # p
        BY <1>9, <1>10, <3>2 DEF EndInv
      <3> QED BY <3>1, <3>2
    <2>3. \A j \in {1, 2} : j \in active' \/ peer'[SocketOf(j)].eof
      <3> SUFFICES ASSUME NEW j \in {1, 2}, j \notin active' PROVE peer'[SocketOf(j)].eof
        OBVIOUS
      <3>1. CASE j = i
        <4>1. n = 0
          BY <1>2, <1>5, <3>1
        <4> QED BY <1>9, <1>10, <3>1, <4>1 DEF p
      <3>2. CASE j # i
        <4>1. SocketOf(j) \in Peers /\ SocketOf(j) # p
          BY <1>1, <3>2, Sockets DEF p
        <4>2. j \notin active
          BY <1>2, <3>2
        <4> QED BY <1>9, <1>10, <4>1, <4>2 DEF EndInv
      <3> QED BY <3>1, <3>2
    <2>4. {3, 4} \subseteq active'
      BY <1>1, <1>2 DEF EndInv
    <2> QED BY <2>2, <2>3, <2>4 DEF EndInv, SocketOf
  <1>14. Gone' = Gone
    BY <1>9, <1>10 DEF Gone
  <1>15. ReportInv'
    <2>1. ASSUME NEW j \in poll_report'.revents \cap {1, 2}
          PROVE  j \in active' /\ space_available(from'[SocketOf(j)]) /\ HasInput(j)'
      <3>1. j # i /\ j \in poll_report.revents
        BY <1>4
      <3>2. SocketOf(j) \in Peers /\ SocketOf(j) # p
        BY <1>1, <3>1, Sockets DEF p
      <3> QED BY <1>2, <1>4, <1>9, <1>10, <3>1, <3>2 DEF ReportInv, InPoll, HasInput, SocketOf
    <2>2. ASSUME NEW j \in poll_report'.revents \cap {3, 4}
          PROVE  non_empty(from'[Other[SocketOf(j)]]) /\ thread' # WritesTo[SocketOf(j)]
      <3>1. Other[SocketOf(j)] \in Peers
        BY Sockets, OtherPeer
      <3>2. non_empty(from[Other[SocketOf(j)]])
        BY <1>4 DEF ReportInv, InPoll
      <3>3. non_empty(q) => non_empty(r)
        BY <1>7, <1>8 DEF non_empty
      <3>4. thread' # WritesTo[SocketOf(j)]
        BY <1>1, <1>5, Sockets, Writing
      <3> QED BY <1>9, <1>10, <3>1, <3>2, <3>3, <3>4
    <2> QED BY <1>4, <1>14, <2>1, <2>2
            DEF ReportInv, InPoll, SocketOf, WritesTo, space_available, non_empty,
                available_to_push, available_to_pop
  <1>16. LeaveInv'
    BY <1>1, <1>5 DEF LeaveInv
  <1>17. RoomInv'
    BY DEF Read, RoomInv
  <1> QED BY <1>11, <1>12, <1>13, <1>15, <1>16, <1>17

\* A write begins: the queue still has bytes, and no other action writes to this peer.
LEMMA WriteKeeps ==
    ASSUME ConstantsOfRelay, IInv, NEW i \in 1 .. 4, Write(i)
    PROVE  IInv'
  <1> USE DEF IInv
  <1> DEFINE p == SocketOf(i)
  <1>1. /\ i \in {3, 4} /\ Serve(i) /\ UNCHANGED <<peer, unread, from, active>>
        /\ thread' = IF non_empty(from[Other[p]]) THEN WritesTo[p] ELSE "abort"
    BY DEF Write
  <1>2. /\ thread = "serve" /\ i \in poll_report.revents
        /\ poll_report' \in [revents : SUBSET (1 .. 4), hung : SUBSET (1 .. 4)]
        /\ poll_report'.revents = poll_report.revents \ {i}
        /\ poll_report'.hung = poll_report.hung
    BY <1>1, ServedOnce
  <1>3. p \in Peers /\ thread' = WritesTo[p]
    BY <1>1, <1>2, Sockets DEF ReportInv, InPoll
  <1>4. TypeInv' /\ RoomInv' /\ RingInv' /\ EndInv' /\ LeaveInv'
    BY <1>1, <1>2, <1>3, Writing DEF TypeInv, RoomInv, RingInv, EndInv, LeaveInv
  <1>5. \A j \in poll_report'.revents \cap {3, 4} : thread' # WritesTo[SocketOf(j)]
    <2> SUFFICES ASSUME NEW j \in poll_report'.revents \cap {3, 4}
                 PROVE  WritesTo[p] # WritesTo[SocketOf(j)]
      BY <1>3
    <2>1. SocketOf(j) \in Peers /\ SocketOf(j) # p
      BY <1>1, <1>2, Sockets
    <2> QED BY <1>3, <2>1, Writing
  <1>6. Gone' = Gone /\ \A j \in 1 .. 4 : HasInput(j)' <=> HasInput(j)
    BY <1>1 DEF Gone, HasInput, SocketOf
  <1>7. ReportInv'
    BY <1>1, <1>2, <1>5, <1>6 DEF ReportInv, InPoll, SocketOf, WritesTo
  <1> QED BY <1>4, <1>7

LEMMA CutShortKeeps ==
    ASSUME IInv, NEW p \in Peers, CutShort(p)
    PROVE  IInv'
  <1> USE DEF IInv
  <1>1. /\ thread = WritesTo[p] /\ p \in Gone /\ thread' \in {"serve", "exception"}
        /\ UNCHANGED <<peer, unread, from, active, poll_report>>
    BY DEF CutShort
  <1>2. InPoll
    BY <1>1, Writing DEF InPoll
  <1>3. Gone' = Gone /\ \A j \in 1 .. 4 : HasInput(j)' <=> HasInput(j)
    BY <1>1 DEF Gone, HasInput, SocketOf
  <1>4. \A j \in {3, 4} : thread' # WritesTo[SocketOf(j)]
    BY <1>1, Sockets, Writing
  <1>5. TypeInv' /\ RoomInv' /\ RingInv' /\ EndInv' /\ LeaveInv'
    BY <1>1, <1>3 DEF TypeInv, RoomInv, RingInv, EndInv, LeaveInv
  <1>6. ReportInv'
    BY <1>1, <1>2, <1>3, <1>4 DEF ReportInv, InPoll, SocketOf, WritesTo
  <1> QED BY <1>5, <1>6

\* What a connection takes is what the ring has had longest.
LEMMA WriteGoesOnKeeps ==
    ASSUME ConstantsOfRelay, IInv, NEW p \in Peers, WriteGoesOn(p)
    PROVE  IInv'
  <1> USE DEF IInv
  <1> DEFINE q == from[Other[p]]
             got == peer[p].got
             piece == Contiguous(q.next_byte_to_pop, available_to_pop(q))
             n == Min({piece, Room - unread[p]})
  <1>1. /\ thread = WritesTo[p] /\ unread[p] < Room
        /\ thread' = IF n = piece THEN "serve" ELSE thread
        /\ from' = [from EXCEPT ![Other[p]] = pop(q, n)]
        /\ peer' = [peer EXCEPT ![p].got = @ \o Popped(q, n)]
        /\ unread' = [unread EXCEPT ![p] = @ + n]
        /\ UNCHANGED <<active, poll_report>>
    BY DEF WriteGoesOn
  <1>2. InPoll
    BY <1>1, Writing DEF InPoll
  <1>3. /\ p \in Peers /\ Other[p] \in Peers /\ Other[p] # p /\ Other[Other[p]] = p
        /\ q \in ByteStreamQueue /\ got \in Seq(Nat) /\ Len(got) \in Nat
    BY OtherPeer, LenProperties DEF TypeInv, Peer
  <1>4. thread' = "serve" \/ thread' = WritesTo[p]
    BY <1>1
  <1>5. n \in Nat /\ n <= piece /\ unread[p] + n <= Room /\ unread[p] \in Nat
    <2>1. q.next_byte_to_pop \in Nat /\ available_to_pop(q) \in Nat
          /\ q.next_byte_to_pop < BUFFER_SIZE
      <3>1. q.next_byte_to_pop \in Places
        BY <1>3 DEF ByteStreamQueue
      <3>2. available_to_pop(q) \in Nat
        BY <1>3, Availability DEF ConstantsOfRelay
      <3> QED BY <3>1, <3>2 DEF Places, ConstantsOfRelay
    <2>2. piece \in Nat
      <3>1. Contiguous(q.next_byte_to_pop, available_to_pop(q)) =
              IF available_to_pop(q) <= BUFFER_SIZE - q.next_byte_to_pop
              THEN available_to_pop(q) ELSE BUFFER_SIZE - q.next_byte_to_pop
        BY <2>1, MinOfTwo DEF Contiguous, ConstantsOfRelay
      <3> QED BY <2>1, <3>1 DEF ConstantsOfRelay
    <2>3. unread[p] \in Nat /\ Room \in Nat /\ Room - unread[p] \in Nat
      BY <1>1 DEF TypeInv, RoomInv, ConstantsOfRelay
    <2> HIDE DEF piece
    <2>4. n = IF piece <= Room - unread[p] THEN piece ELSE Room - unread[p]
      BY <2>2, <2>3, MinOfTwo
    <2> HIDE DEF n
    <2> QED BY <2>2, <2>3, <2>4
  <1>6. /\ Holds(q, Len(got)) /\ got = [j \in 1 .. Len(got) |-> j]
        /\ Len(got) + available_to_pop(q) = peer[Other[p]].taken
    BY <1>3 DEF RingInv
  <1>7. n \in Nat /\ n <= Contiguous(q.next_byte_to_pop, available_to_pop(q))
    BY <1>5
  <1> HIDE DEF n, piece
  <1> DEFINE r == pop(q, n)
             more == got \o Popped(q, n)
  <1> HIDE DEF q, got
  <1>8. /\ r \in ByteStreamQueue
        /\ available_to_pop(q) \in Nat /\ n <= available_to_pop(q)
        /\ available_to_pop(r) = available_to_pop(q) - n
        /\ Holds(r, Len(got) + n)
        /\ Popped(q, n) = [j \in 1 .. n |-> Len(got) + j]
    BY <1>3, <1>6, <1>7, Availability, PopTakesTheFirst DEF ConstantsOfRelay
  <1>9. /\ more \in Seq(Nat) /\ Len(more) = Len(got) + n
        /\ more = [j \in 1 .. Len(more) |-> j]
    <2>1. got \in Seq(Nat) /\ got = [j \in 1 .. Len(got) |-> j] /\ n \in Nat
      BY <1>3, <1>6, <1>7
    <2> DEFINE t == Popped(q, n)
    <2>2. t = [j \in 1 .. n |-> Len(got) + j]
      BY <1>8
    <2> HIDE DEF t
    <2>3. /\ got \o t \in Seq(Nat) /\ Len(got \o t) = Len(got) + n
          /\ got \o t = [j \in 1 .. Len(got \o t) |-> j]
      BY <2>1, <2>2, NumbersContinue
    <2> QED BY <2>3 DEF t
  <1> DEFINE s == [peer[p] EXCEPT !.got = more]
  <1> HIDE DEF r, more
  <1>10. /\ peer' = [peer EXCEPT ![p] = s] /\ from' = [from EXCEPT ![Other[p]] = r]
         /\ s \in Peer
         /\ s.said = peer[p].said /\ s.closed = peer[p].closed /\ s.eof = peer[p].eof
         /\ s.taken = peer[p].taken /\ s.got = more
    <2>1. peer[p] \in Peer
      BY <1>3 DEF TypeInv
    <2>2. s \in Peer
      BY <1>9, <2>1 DEF Peer
    <2>3. /\ s.said = peer[p].said /\ s.closed = peer[p].closed /\ s.eof = peer[p].eof
          /\ s.taken = peer[p].taken /\ s.got = more
      BY <2>1 DEF Peer
    <2>4. peer' = [peer EXCEPT ![p] = s] /\ from' = [from EXCEPT ![Other[p]] = r]
      BY <1>1, <1>3 DEF TypeInv, r, more, got
    <2> QED BY <2>2, <2>3, <2>4
  <1> HIDE DEF s
  <1>11. /\ from'[Other[p]] = r /\ from'[p] = from[p]
         /\ peer'[p] = s /\ peer'[Other[p]] = peer[Other[p]]
    BY <1>3, <1>10 DEF TypeInv
  <1>12. \A o \in Peers :
            /\ peer'[o].said = peer[o].said /\ peer'[o].closed = peer[o].closed
            /\ peer'[o].eof = peer[o].eof /\ peer'[o].taken = peer[o].taken
    BY <1>3, <1>10, <1>11, OtherPeer
  <1>13. TypeInv'
    <2>1. peer' \in [Peers -> Peer] /\ from' \in [Peers -> ByteStreamQueue]
      BY <1>8, <1>10 DEF TypeInv
    <2> QED BY <1>1, <1>4, <2>1, Writing DEF TypeInv
  <1>14. RingInv'
    <2> SUFFICES ASSUME NEW o \in Peers
                 PROVE  LET had == peer'[Other[o]].got
                        IN  /\ had = [j \in 1 .. Len(had) |-> j]
                            /\ Len(had) + available_to_pop(from'[o]) = peer'[o].taken
                            /\ Holds(from'[o], Len(had))
                            /\ peer'[o].taken <= peer'[o].said
      BY DEF RingInv, Holds, available_to_pop, Place
    <2>1. CASE o = Other[p]
      <3>1. peer'[Other[o]].got = more /\ from'[o] = r
        BY <1>3, <1>10, <1>11, <2>1
      <3>2. Len(more) + available_to_pop(r) = peer[o].taken
        BY <1>3, <1>6, <1>7, <1>8, <1>9, <2>1
      <3>3. peer'[o].taken = peer[o].taken /\ peer'[o].taken <= peer'[o].said
        BY <1>12 DEF RingInv
      <3>4. Holds(r, Len(more))
        BY <1>8, <1>9
      <3> QED BY <1>9, <3>1, <3>2, <3>3, <3>4
    <2>2. CASE o = p
      BY <1>3, <1>11, <1>12, <2>2 DEF RingInv
    <2> QED BY <1>3, <2>1, <2>2, OtherPeer
  <1>15. EndInv'
    BY <1>1, <1>12, Sockets DEF EndInv, SocketOf
  <1>16. Gone' = Gone
    BY <1>12 DEF Gone
  <1>17. ReportInv'
    <2>1. ASSUME NEW j \in poll_report'.revents \cap {1, 2}
          PROVE  j \in active' /\ space_available(from'[SocketOf(j)]) /\ HasInput(j)'
      <3>1. j \in active /\ space_available(from[SocketOf(j)]) /\ HasInput(j)
        BY <1>1, <1>2 DEF ReportInv
      <3>2. SocketOf(j) \in Peers
        BY Sockets
      <3>3. HasInput(j)'
        BY <1>12, <3>1, <3>2 DEF HasInput, SocketOf
      <3>4. space_available(q) => space_available(r)
        <4>1. /\ available_to_push(q) \in Int /\ available_to_push(r) \in Int
              /\ available_to_pop(q) + available_to_push(q) = BUFFER_SIZE - 1
              /\ available_to_pop(r) + available_to_push(r) = BUFFER_SIZE - 1
          BY <1>3, <1>8, Availability DEF ConstantsOfRelay
        <4> QED BY <1>7, <1>8, <4>1 DEF space_available, ConstantsOfRelay
      <3>5. space_available(from'[SocketOf(j)])
        BY <1>3, <1>11, <3>1, <3>2, <3>4, OtherPeer DEF q
      <3> QED BY <1>1, <3>1, <3>3, <3>5
    <2>2. ASSUME NEW j \in poll_report'.revents \cap {3, 4}
          PROVE  non_empty(from'[Other[SocketOf(j)]]) /\ thread' # WritesTo[SocketOf(j)]
      <3>1. non_empty(from[Other[SocketOf(j)]]) /\ thread # WritesTo[SocketOf(j)]
        BY <1>1, <1>2 DEF ReportInv
      <3>2. SocketOf(j) \in Peers /\ SocketOf(j) # p
        BY <1>1, <3>1, Sockets
      <3>3. Other[SocketOf(j)] = p
        BY <1>3, <3>2, OtherPeer
      <3>4. thread' # WritesTo[SocketOf(j)]
        BY <1>1, <1>4, <3>1, <3>2, Writing
      <3> QED BY <1>11, <3>1, <3>3, <3>4
    <2>3. poll_report'.hung # {} => Gone' # {}
      BY <1>1, <1>2, <1>16 DEF ReportInv
    <2> QED BY <1>16, <2>1, <2>2, <2>3
            DEF ReportInv, InPoll, SocketOf, WritesTo, space_available, non_empty,
                available_to_push, available_to_pop
  <1>18. LeaveInv'
    BY <1>4, Writing DEF LeaveInv
  <1>19. RoomInv'
    BY <1>1, <1>5 DEF RoomInv, ConstantsOfRelay
  <1> QED BY <1>13, <1>14, <1>15, <1>17, <1>18, <1>19

-----------------------------------------------------------------------------
(* The theorem                                                              *)

LEMMA StepKeeps ==
    ASSUME ConstantsOfRelay, IInv, [Next]_vars
    PROVE  IInv'
  <1>1. CASE Poll BY <1>1, PollKeeps
  <1>2. CASE EndPoll BY <1>2, EndPollKeeps
  <1>3. CASE Throw BY <1>3, ThrowKeeps
  <1>4. ASSUME NEW i \in 1 .. 4, Read(i) PROVE IInv'
    BY <1>4, ReadKeeps
  <1>5. ASSUME NEW i \in 1 .. 4, Write(i) PROVE IInv'
    BY <1>5, WriteKeeps
  <1>6. ASSUME NEW p \in Peers, Say(p) PROVE IInv'
    BY <1>6, SayKeeps
  <1>7. ASSUME NEW p \in Peers, Close(p, "output") \/ Close(p, "gone") PROVE IInv'
    BY <1>7, CloseKeeps
  <1>8. CASE UNCHANGED vars
    BY <1>8 DEF vars, IInv, TypeInv, RoomInv, RingInv, EndInv, ReportInv, InPoll, LeaveInv,
                WritesTo, Gone, HasInput,
                SocketOf
  <1>9. ASSUME NEW p \in Peers, WriteGoesOn(p) \/ CutShort(p) \/ Hear(p) PROVE IInv'
    BY <1>9, WriteGoesOnKeeps, CutShortKeeps, HearKeeps
  <1> QED
    BY <1>1, <1>2, <1>3, <1>4, <1>5, <1>6, <1>7, <1>8, <1>9 DEF Next, Relay

LEMMA InvariantSays ==
    ASSUME IInv
    PROVE  RelayedAsSaid
  <1> USE DEF IInv
  <1>1. ASSUME NEW p \in Peers
        PROVE  LET got == peer[p].got
                   q == from[Other[p]]
               IN  /\ got = [i \in 1 .. Len(got) |-> i]
                   /\ Len(got) + available_to_pop(q) = peer[Other[p]].taken
    BY OtherPeer DEF RingInv
  <1>2. ASSUME Gone = {}, thread \in {"exit", "exception"}, NEW p \in Peers
        PROVE  Len(peer[p].got) = peer[Other[p]].said
    BY <1>2, OtherPeer DEF LeaveInv
  <1> QED BY <1>1, <1>2 DEF RelayedAsSaid, LeaveInv

\* For rings of two places or more, connections of any size, and whatever the peers say
\* and read: the connection to each gets what the
\* other has said, in order, without a gap and without a byte twice; no assertion of
\* the queues fails; and the thread leaves early only if a peer has gone.  It needs no
\* fairness.
LEMMA RelayKeeps ==
    ASSUME BUFFER_SIZE \in Nat, BUFFER_SIZE >= 2, Spoken \in [Peers -> Nat],
           Room \in Nat
    PROVE  Init /\ [][Next]_vars => []RelayedAsSaid
  <1>1. ConstantsOfRelay
    BY DEF ConstantsOfRelay
  <1>2. Init => IInv
    BY <1>1, InitKeeps
  <1>3. IInv /\ [Next]_vars => IInv'
    BY <1>1, StepKeeps
  <1>4. IInv => RelayedAsSaid
    BY InvariantSays
  <1> QED BY <1>2, <1>3, <1>4, PTL

\* So it is with the specification of the relay.
THEOREM RelayLosesNothing ==
    ASSUME BUFFER_SIZE \in Nat, BUFFER_SIZE >= 2, Spoken \in [Peers -> Nat],
           Room \in Nat
    PROVE  Spec => []RelayedAsSaid
  BY RelayKeeps, PTL DEF Spec
=============================================================================
