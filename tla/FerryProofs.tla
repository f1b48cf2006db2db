------------------------------ MODULE FerryProofs ------------------------------
(***************************************************************************)
(* What a ferry keeps, for every tool and every trace of delays, any number   *)
(* of packets and signals, and whether it is scheduled promptly or not: the   *)
(* order of the packets, the times at which they leave, what a switching link *)
(* takes, and that the poller never calls back in vain.                      *)
(***************************************************************************)
EXTENDS Ferry, SequenceTheorems, WellFoundedInduction, TLAPS

-----------------------------------------------------------------------------
(* Numbers                                                                  *)

\* A set of natural numbers that is not empty has a least element.
LEMMA LeastNat ==
    ASSUME NEW S \in SUBSET Nat, S # {}
    PROVE  \E n \in S : \A k \in Nat : k < n => k \notin S
  <1> DEFINE R == OpToRel(<, Nat)
  <1>1. PICK n \in S : \A k \in S : ~(<<k, n>> \in R)
    BY NatLessThanWellFounded, WFMin, Zenon
  <1> QED
    BY <1>1, Zenon DEF OpToRel

\* Induction, for a set in the place of a predicate.
LEMMA NatSet ==
    ASSUME NEW T \in SUBSET Nat, 0 \in T, \A n \in Nat : n \in T => n + 1 \in T
    PROVE  T = Nat
  <1> SUFFICES ASSUME NEW m \in Nat, m \notin T PROVE FALSE
    OBVIOUS
  <1>1. PICK n \in Nat \ T : \A k \in Nat : k < n => k \in T
    BY LeastNat
  <1>2. n # 0 /\ n - 1 \in Nat /\ n - 1 < n /\ (n - 1) + 1 = n
    BY <1>1
  <1> QED
    BY <1>1, <1>2

\* The least of a set of natural numbers, and of two numbers.
LEMMA MinOfNat ==
    ASSUME NEW S \in SUBSET Nat, S # {}
    PROVE  Min(S) \in S /\ \A y \in S : Min(S) <= y
  <1>1. \E m \in S : \A y \in S : m <= y
    <2>1. PICK m \in S : \A k \in Nat : k < m => k \notin S
      BY LeastNat
    <2> QED
      BY <2>1
  <1> QED
    BY <1>1 DEF Min

LEMMA MinOfTwo ==
    ASSUME NEW a \in Int, NEW b \in Int
    PROVE  Min({a, b}) = IF a <= b THEN a ELSE b
  <1> DEFINE m == IF a <= b THEN a ELSE b
  <1>1. m \in {a, b} /\ \A y \in {a, b} : m <= y
    OBVIOUS
  <1>2. \A x \in {a, b} : (\A y \in {a, b} : x <= y) => x = m
    OBVIOUS
  <1> HIDE DEF m
  <1> QED
    BY <1>1, <1>2 DEF Min

LEMMA MaxOfTwo ==
    ASSUME NEW a \in Int, NEW b \in Int
    PROVE  Max({a, b}) = IF a >= b THEN a ELSE b
  <1> DEFINE m == IF a >= b THEN a ELSE b
  <1>1. m \in {a, b} /\ \A y \in {a, b} : m >= y
    OBVIOUS
  <1>2. \A x \in {a, b} : (\A y \in {a, b} : x >= y) => x = m
    OBVIOUS
  <1> HIDE DEF m
  <1> QED
    BY <1>1, <1>2 DEF Max

\* The place of a time in the period in which it is.
LEMMA PlaceInPeriod ==
    ASSUME NEW M \in Nat, M > 0, NEW k \in Nat, NEW r \in Nat, r < M
    PROVE  (k * M + r) % M = r
  <1>0. \A x, y \in Nat : x * y \in Nat
    BY SMT
  <1> DEFINE t == k * M + r
             d == t \div M
  <1>1. t \in Nat
    BY <1>0
  <1>2. d \in Nat /\ t = M * d + (t % M) /\ t % M \in 0 .. M - 1
    <2> HIDE DEF t
    <2> QED
      BY <1>1, SMT
  <1>3. d = k
    <2>1. ASSUME NEW x \in Nat, NEW y \in Nat, x < y PROVE x * M + M <= y * M
      <3>1. y = x + 1 + (y - x - 1) /\ y - x - 1 \in Nat
        BY <2>1
      <3>2. (y - x - 1) * M \in Nat
        BY <3>1, <1>0
      <3>3. y * M = x * M + M + (y - x - 1) * M
        BY <2>1, SMT
      <3> QED
        BY <3>2, <3>3, <1>0
    <2>2. d * M = M * d /\ d * M \in Nat /\ k * M \in Nat
      BY <1>0, <1>2, SMT
    <2>3. ~(d < k)
      BY <1>2, <2>1, <2>2
    <2>4. ~(k < d)
      BY <1>2, <2>1, <2>2
    <2> QED
      BY <1>2, <2>3, <2>4
  <1>4. M * d = k * M /\ k * M \in Nat
    BY <1>0, <1>3, SMT
  <1> QED
    BY <1>2, <1>4

-----------------------------------------------------------------------------
(* The queues                                                               *)

Packets == [id : Nat, key : Nat]
Queues == [packet_queue : SUBSET Packets, link_is_on : BOOLEAN, next_switch_time : Nat]

\* A queue that is not empty has a packet on top, and no other has a smaller key.
LEMMA TopOfQueue ==
    ASSUME NEW q \in Queues, q.packet_queue # {}
    PROVE  /\ top(q) # {} /\ top(q) \subseteq q.packet_queue
           /\ \A p \in top(q) : \A o \in q.packet_queue : p.key <= o.key
  <1> DEFINE keys == {p.key : p \in q.packet_queue}
  <1>1. q.packet_queue \in SUBSET Packets
    BY DEF Queues
  <1>2. \A p \in q.packet_queue : p.key \in Nat
    BY <1>1 DEF Packets
  <1>3. keys \in SUBSET Nat /\ keys # {}
    BY <1>2
  <1>4. PICK n \in keys : \A k \in Nat : k < n => k \notin keys
    BY <1>3, LeastNat
  <1>5. PICK p \in q.packet_queue : p.key = n
    BY <1>4
  <1>6. \A o \in q.packet_queue : p.key <= o.key
    BY <1>2, <1>3, <1>4, <1>5
  <1> QED
    BY <1>5, <1>6 DEF top

\* Output is pending exactly if a packet is due.
LEMMA PendingOutput ==
    ASSUME NEW s, NEW q \in Queues, NEW t \in Int
    PROVE  pending_output(s, q, t) <=> \E p \in q.packet_queue : Due(s, p, t)
  <1>1. ASSUME NEW p \in q.packet_queue, Due(s, p, t) PROVE ready(s, q, t) # {}
    <2>1. PICK o \in top(q) : o.key <= p.key
      BY TopOfQueue
    <2>2. o \in q.packet_queue /\ q.packet_queue \in SUBSET Packets
      BY TopOfQueue DEF Queues
    <2>3. o.key \in Nat /\ p.key \in Nat
      BY <2>2 DEF Packets
    <2>4. Due(s, o, t)
      BY <1>1, <2>1, <2>3 DEF Due
    <2> QED
      BY <2>1, <2>4 DEF ready
  <1>2. ready(s, q, t) \subseteq q.packet_queue /\ \A p \in ready(s, q, t) : Due(s, p, t)
    BY DEF ready, top
  <1> QED
    BY <1>1, <1>2 DEF pending_output

LEMMA WithoutTyped ==
    ASSUME NEW q \in Queues, NEW gone
    PROVE  /\ without(q, gone) \in Queues
           /\ without(q, gone).packet_queue = q.packet_queue \ gone
           /\ without(q, gone).link_is_on = q.link_is_on
           /\ without(q, gone).next_switch_time = q.next_switch_time
  BY DEF without, Queues

\* What is written was in the queue and due, each packet no later than what it left
\* behind; and something is, if a packet is due.
LEMMA WhatIsWritten ==
    ASSUME NEW s, NEW q \in Queues, NEW t \in Int, NEW w \in Writes(s, q, t)
    PROVE  /\ w \in Seq(q.packet_queue)
           /\ \A i \in 1 .. Len(w) : Due(s, w[i], t)
           /\ \A i, j \in 1 .. Len(w) : i < j => w[i].key <= w[j].key
           /\ \A i \in 1 .. Len(w) : \A p \in q.packet_queue :
                 (\A j \in 1 .. Len(w) : p # w[j]) => w[i].key <= p.key
           /\ pending_output(s, q, t) => w # <<>>
  <1> DEFINE before(i) == {w[j] : j \in 1 .. i - 1}
  <1>1. PICK n \in Nat : w \in [1 .. n -> q.packet_queue]
    <2>1. PICK n \in 0 .. Cardinality(q.packet_queue) : w \in [1 .. n -> q.packet_queue]
      BY DEF Writes
    <2> QED
      BY <2>1
  <1>2. w \in Seq(q.packet_queue) /\ Len(w) = n /\ DOMAIN w = 1 .. n
    BY <1>1
  <1>3. ASSUME NEW i \in 1 .. n
        PROVE  /\ Due(s, w[i], t) /\ w[i] \notin before(i)
               /\ \A p \in q.packet_queue : p \notin before(i) => w[i].key <= p.key
    <2>1. w[i] \in ready(s, without(q, before(i)), t)
      BY <1>2 DEF Writes
    <2>2. without(q, before(i)).packet_queue = q.packet_queue \ before(i)
      BY WithoutTyped
    <2> HIDE DEF before
    <2> QED
      BY <2>1, <2>2 DEF ready, top
  <1>4. ASSUME NEW i \in 1 .. n, NEW j \in 1 .. n, i < j PROVE w[i].key <= w[j].key
    <2>1. before(i) \subseteq before(j)
      BY <1>4
    <2>2. w[j] \in q.packet_queue
      BY <1>1
    <2> HIDE DEF before
    <2> QED
      BY <1>3, <2>1, <2>2
  <1>5. ASSUME NEW i \in 1 .. n, NEW p \in q.packet_queue, \A j \in 1 .. n : p # w[j]
        PROVE  w[i].key <= p.key
    <2>1. p \notin before(i)
      BY <1>5
    <2> HIDE DEF before
    <2> QED
      BY <1>3, <2>1
  <1>6. ASSUME pending_output(s, q, t), w = <<>> PROVE FALSE
    <2>1. {w[j] : j \in DOMAIN w} = {}
      BY <1>6
    <2>2. ready(s, without(q, {}), t) = {}
      BY <2>1 DEF Writes
    <2>3. without(q, {}).packet_queue = q.packet_queue \ {}
      BY WithoutTyped
    <2>4. q.packet_queue \ {} = q.packet_queue
      OBVIOUS
    <2> QED
      BY <1>6, <2>2, <2>3, <2>4 DEF pending_output, ready, top
  <1> QED
    BY <1>2, <1>3, <1>4, <1>5, <1>6

\* Of a tool that the assumptions admit.
LEMMA SetupFacts ==
    ASSUME FerryAssumption, NEW s \in Setups
    PROVE  /\ s.delays \in Seq(Nat) /\ (s.kind = "delay" => s.delays # <<>>)
           /\ s.interval \in Nat /\ s.interval > 0
           /\ s.on_times \in SUBSET Nat /\ s.off_times \in SUBSET Nat
           /\ s.passthrough \in BOOLEAN
           /\ s.kind \in {"delay", "loss", "switch", "meter"}
           /\ MaxWait \in Nat /\ MaxTime \in Nat /\ MaxPackets \in Nat /\ MaxSteps \in Nat
  BY DEF FerryAssumption

LEMMA DelayIsNat ==
    ASSUME FerryAssumption, NEW s \in Setups, s.kind = "delay", NEW t \in Nat
    PROVE  delay(s, t) \in Nat
  <1>1. Len(s.delays) \in Nat /\ Len(s.delays) > 0
    BY SetupFacts, EmptySeq, LenProperties
  <1>2. t \div s.interval \in Nat
    <2>1. \A b \in Nat : b > 0 => t \div b \in Nat
      BY SMT
    <2> QED
      BY SetupFacts, <2>1
  <1>3. ((t \div s.interval) % Len(s.delays)) + 1 \in 1 .. Len(s.delays)
    BY <1>1, <1>2, SMT
  <1> QED
    BY <1>3, SetupFacts, ElementOfSeq DEF delay

\* A packet that is read is added to the queue, or dropped.
LEMMA WhatIsRead ==
    ASSUME FerryAssumption, NEW s \in Setups, NEW q \in Queues, NEW id \in Nat, NEW t \in Nat,
           NEW r \in read_packet(s, q, id, t)
    PROVE  LET key == IF s.kind = "delay" THEN t + delay(s, t) ELSE id
           IN  /\ key \in Nat
               /\ r \in Queues
               /\ r.link_is_on = q.link_is_on /\ r.next_switch_time = q.next_switch_time
               /\ r = q \/ r.packet_queue = q.packet_queue \cup {[id |-> id, key |-> key]}
               /\ s.kind = "switch" =>
                     r = IF q.link_is_on
                         THEN [q EXCEPT !.packet_queue = @ \cup {[id |-> id, key |-> key]}] ELSE q
  <1> DEFINE key == IF s.kind = "delay" THEN t + delay(s, t) ELSE id
             p == [id |-> id, key |-> key]
             taken == [q EXCEPT !.packet_queue = @ \cup {p}]
  <1>1. key \in Nat
    BY DelayIsNat
  <1>2. PICK drop \in dropped_packet(s, q) : r = IF drop THEN q ELSE taken
    BY DEF read_packet, Packet
  <1> HIDE DEF key
  <1>3. p \in Packets
    BY <1>1 DEF Packets
  <1> HIDE DEF p
  <1>4. /\ taken \in Queues /\ taken.packet_queue = q.packet_queue \cup {p}
        /\ taken.link_is_on = q.link_is_on /\ taken.next_switch_time = q.next_switch_time
    BY <1>3 DEF Queues
  <1>5. s.kind = "switch" => drop = ~q.link_is_on
    BY DEF dropped_packet
  <1>6. s.kind = "switch" => r = IF q.link_is_on THEN taken ELSE q
    BY <1>2, <1>5
  <1>7. /\ r \in Queues /\ r.link_is_on = q.link_is_on
        /\ r.next_switch_time = q.next_switch_time
        /\ r = q \/ r.packet_queue = q.packet_queue \cup {p}
    BY <1>2, <1>4
  <1> QED
    BY <1>1, <1>6, <1>7 DEF p, key

-----------------------------------------------------------------------------
(* Switching and waiting                                                    *)

\* What the switches that are due do not lead out of, wait_time does not; and the next
\* switch is not due.
LEMMA SwitchesStayIn ==
    ASSUME NEW s, NEW t \in Nat, NEW G \in SUBSET Queues, NEW q \in G,
           \A p \in G : p.next_switch_time <= t => Switch(s, p) \subseteq G,
           NEW r \in Switched(s, q, t)
    PROVE  r \in G /\ (s.kind = "switch" => r.next_switch_time > t)
  <1> DEFINE last == 2 * (t - q.next_switch_time + 1)
             Turn(S) == UNION {IF p.next_switch_time > t THEN {p} ELSE Switch(s, p) : p \in S}
             Is(f) == f = [n \in 0 .. last |-> IF n = 0 THEN {q} ELSE Turn(f[n - 1])]
             turns == CHOOSE f : Is(f)
  <1>1. CASE s.kind # "switch" \/ q.next_switch_time > t
    BY <1>1 DEF Switched
  <1>2. CASE s.kind = "switch" /\ ~(q.next_switch_time > t)
    <2>1. r \in turns[last] /\ r.next_switch_time > t
      BY <1>2, Zenon DEF Switched
    <2>2. last \in Nat
      BY <1>2 DEF Queues
    <2>3. ASSUME NEW S \in SUBSET G PROVE Turn(S) \in SUBSET G
      <3>1. ASSUME NEW p \in S
            PROVE  (IF p.next_switch_time > t THEN {p} ELSE Switch(s, p)) \subseteq G
        <4>1. p \in G /\ p.next_switch_time \in Nat
          BY DEF Queues
        <4>2. CASE p.next_switch_time > t
          BY <4>1, <4>2
        <4>3. CASE ~(p.next_switch_time > t)
          <5>1. p.next_switch_time <= t
            BY <4>1, <4>3
          <5> QED
            BY <4>1, <4>3, <5>1
        <4> QED
          BY <4>2, <4>3
      <3> QED
        BY <3>1
    <2> HIDE DEF last, Turn
    <2> DEFINE Runs(f, m) == f[0] = {q} /\ \A k \in 1 .. m : f[k] = Turn(f[k - 1])
               T == {m \in Nat : \E f : Runs(f, m)}
    <2>4. 0 \in T
      <3>1. Runs([k \in {0} |-> {q}], 0)
        BY SMT
      <3> QED
        BY <3>1
    <2>5. ASSUME NEW m \in Nat, m \in T PROVE m + 1 \in T
      <3>1. PICK f : Runs(f, m)
        BY <2>5
      <3> DEFINE h == [k \in 0 .. m + 1 |-> IF k = m + 1 THEN Turn(f[m]) ELSE f[k]]
      <3>2. Runs(h, m + 1) /\ m + 1 \in Nat
        BY <3>1, SMT
      <3> HIDE DEF Runs
      <3> QED
        BY <3>2
    <2>6. T = Nat
      <3> HIDE DEF T
      <3>1. T \in SUBSET Nat
        BY DEF T
      <3> QED
        BY <2>4, <2>5, <3>1, NatSet
    <2>7. PICK f : Runs(f, last)
      BY <2>2, <2>6
    <2> DEFINE g == [k \in 0 .. last |-> f[k]]
    <2>8. Is(g)
      <3>1. \A n \in 0 .. last : g[n] = f[n]
        OBVIOUS
      <3>2. \A n \in 0 .. last : n = 0 \/ (n \in 1 .. last /\ n - 1 \in 0 .. last)
        BY <2>2
      <3>3. 0 \in 0 .. last
        BY <2>2
      <3> HIDE DEF g
      <3>4. \A n \in 0 .. last : g[n] = IF n = 0 THEN {q} ELSE Turn(g[n - 1])
        BY <2>7, <3>1, <3>2, <3>3, Zenon
      <3>5. g = [n \in 0 .. last |-> g[n]]
        BY DEF g
      <3>6. [n \in 0 .. last |-> g[n]]
                = [n \in 0 .. last |-> IF n = 0 THEN {q} ELSE Turn(g[n - 1])]
        BY <3>4, Zenon
      <3> QED
        BY <3>5, <3>6, Zenon
    <2>9. Is(turns)
      <3> HIDE DEF Is
      <3> QED
        BY <2>8, Zenon
    <2> HIDE DEF turns
    <2> DEFINE U == {m \in Nat : m <= last => turns[m] \in SUBSET G}
    <2>10. 0 \in U
      <3>1. turns[0] = {q}
        BY <2>2, <2>9, SMT
      <3> QED
        BY <3>1
    <2>11. ASSUME NEW m \in Nat, m \in U PROVE m + 1 \in U
      <3>1. m + 1 \in Nat
        OBVIOUS
      <3>2. SUFFICES ASSUME m + 1 <= last PROVE turns[m + 1] \in SUBSET G
        BY <3>1, Zenon
      <3>3. m + 1 \in 0 .. last /\ m + 1 # 0 /\ (m + 1) - 1 = m /\ m <= last
        BY <2>2, <3>2, SMT
      <3>4. turns[m + 1] = Turn(turns[m])
        BY <2>9, <3>3, Zenon
      <3> QED
        BY <2>3, <2>11, <3>3, <3>4, Zenon
    <2>12. U = Nat
      <3> HIDE DEF U
      <3>1. U \in SUBSET Nat
        BY DEF U
      <3> QED
        BY <2>10, <2>11, <3>1, NatSet
    <2>13. last \in U /\ last <= last
      BY <2>2, <2>12, SMT
    <2> QED
      BY <2>1, <2>13
  <1> QED
    BY <1>1, <1>2

\* A switch changes no packet.
LEMMA SwitchKeeps ==
    ASSUME FerryAssumption, NEW s \in Setups, NEW q \in Queues, NEW r \in Switch(s, q)
    PROVE  /\ r \in Queues /\ r.packet_queue = q.packet_queue
           /\ r.link_is_on = ~q.link_is_on
           /\ \E d \in IF r.link_is_on THEN s.on_times ELSE s.off_times :
                 d \in Nat /\ r.next_switch_time = q.next_switch_time + d
  <1>1. PICK d \in IF ~q.link_is_on THEN s.on_times ELSE s.off_times :
            r = [q EXCEPT !.link_is_on = ~q.link_is_on, !.next_switch_time = @ + d]
    BY DEF Switch
  <1>2. d \in Nat
    BY <1>1, SetupFacts
  <1> DEFINE on == ~q.link_is_on
             next == q.next_switch_time + d
  <1>3. q.next_switch_time \in Nat /\ on \in BOOLEAN /\ next \in Nat
    BY <1>2 DEF Queues
  <1>4. r = [q EXCEPT !.link_is_on = on, !.next_switch_time = next]
    BY <1>1, Zenon
  <1> HIDE DEF on, next
  <1>5. /\ r \in Queues /\ r.packet_queue = q.packet_queue
        /\ r.link_is_on = on /\ r.next_switch_time = next
    BY <1>3, <1>4 DEF Queues
  <1> QED
    BY <1>1, <1>2, <1>5, Zenon DEF on, next

LEMMA SwitchedKeepsPackets ==
    ASSUME FerryAssumption, NEW s \in Setups, NEW q \in Queues, NEW t \in Nat,
           NEW r \in Switched(s, q, t)
    PROVE  /\ r \in Queues /\ r.packet_queue = q.packet_queue
           /\ s.kind = "switch" => r.next_switch_time > t
  <1> DEFINE G == {p \in Queues : p.packet_queue = q.packet_queue}
  <1>1. \A p \in G : Switch(s, p) \subseteq G
    BY SwitchKeeps
  <1>2. G \in SUBSET Queues /\ q \in G
    OBVIOUS
  <1>3. r \in G /\ (s.kind = "switch" => r.next_switch_time > t)
    <2> HIDE DEF G
    <2> QED
      BY <1>1, <1>2, SwitchesStayIn
  <1> QED
    BY <1>3

\* How long the ferry sleeps: not beyond the release of a packet, nor, if the tool is a
\* switching link, beyond its next switch.
LEMMA WaitIsShort ==
    ASSUME FerryAssumption, NEW s \in Setups, NEW q \in Queues, NEW t \in Nat,
           s.kind = "switch" => q.next_switch_time > t
    PROVE  /\ wait_time(s, q, t) \in Nat
           /\ s.kind = "switch" => t + wait_time(s, q, t) <= q.next_switch_time
           /\ \A p \in q.packet_queue :
                 IF s.kind = "delay" THEN p.key >= t => t + wait_time(s, q, t) <= p.key
                 ELSE wait_time(s, q, t) = 0
  <1> DEFINE u == wait_time_until_output(s, q, t)
             keys == {p.key : p \in top(q)}
  <1>1. /\ u \in Nat
        /\ \A p \in q.packet_queue :
              IF s.kind = "delay" THEN p.key >= t => t + u <= p.key ELSE u = 0
    <2>1. CASE q.packet_queue = {}
      BY <2>1, SetupFacts DEF wait_time_until_output
    <2>2. CASE q.packet_queue # {} /\ s.kind # "delay"
      BY <2>2 DEF wait_time_until_output
    <2>3. CASE q.packet_queue # {} /\ s.kind = "delay"
      <3>1. u = Max({0, Min(keys) - t})
        BY <2>3 DEF wait_time_until_output
      <3>2. q.packet_queue \in SUBSET Packets
        BY DEF Queues
      <3>3. \A p \in q.packet_queue : p.key \in Nat
        BY <3>2 DEF Packets
      <3>4. keys \in SUBSET Nat /\ keys # {}
        BY <2>3, <3>3, TopOfQueue
      <3>5. Min(keys) \in keys
        BY <3>4, MinOfNat
      <3>6. Min(keys) \in Nat /\ \A p \in q.packet_queue : Min(keys) <= p.key
        BY <2>3, <3>4, <3>5, TopOfQueue
      <3> DEFINE m == Min(keys)
      <3> HIDE DEF m, keys
      <3>7. u = IF 0 >= m - t THEN 0 ELSE m - t
        <4>1. m - t \in Int /\ 0 \in Int
          BY <3>6 DEF m
        <4> QED
          BY <3>1, <4>1, MaxOfTwo DEF m
      <3> HIDE DEF u
      <3> QED
        BY <2>3, <3>3, <3>6, <3>7 DEF m
    <2> QED
      BY <2>1, <2>2, <2>3
  <1> HIDE DEF u
  <1>2. CASE s.kind # "switch"
    BY <1>1, <1>2 DEF wait_time, u
  <1>3. CASE s.kind = "switch"
    <2> DEFINE rest == q.next_switch_time - t
    <2>1. rest \in Nat
      BY <1>3 DEF Queues
    <2>2. wait_time(s, q, t) = Min({u, rest})
      BY <1>3 DEF wait_time, u
    <2>3. wait_time(s, q, t) = IF u <= rest THEN u ELSE rest
      <3> HIDE DEF rest
      <3> QED
        BY <1>1, <2>1, <2>2, MinOfTwo
    <2>4. q.next_switch_time \in Nat
      BY DEF Queues
    <2> QED
      BY <1>1, <1>3, <2>1, <2>3, <2>4
  <1> QED
    BY <1>2, <1>3

-----------------------------------------------------------------------------
(* Types, and what the steps do                                             *)

Stamped == [id : Nat, time : Nat]
Entries == [taken : BOOLEAN, due : Nat, at : Nat]
Reports == [revents : SUBSET (1 .. 3), hung : {{}}]

TypeInv ==
    /\ setup \in Setups
    /\ now \in Nat /\ now <= MaxTime
    /\ steps \in Nat /\ arrived \in Nat /\ timeout \in Nat
    /\ tun \in Seq(Stamped) /\ sent \in Seq(Stamped) /\ known \in Seq(Entries)
    /\ queue \in Queues
    /\ passthrough \in BOOLEAN
    /\ loop \in {"wait_time", "events", "poll", "serve", "exit", "thrown"}
    /\ report \in Reports

\* What was reported of the tun device stays true until it is served.
ReportInv ==
    /\ loop = "poll" => {1, 3} \subseteq report.revents
    /\ loop = "serve" /\ 1 \in report.revents => tun # <<>>

\* Packets are counted as they arrive, and read in this order; the queue holds packets
\* that have been read, each with its key, and none in passthrough.
KeyOf(id) == IF setup.kind = "delay" THEN known[id].due ELSE id

FlowInv ==
    /\ arrived = Len(known) + Len(tun)
    /\ \A i \in 1 .. Len(tun) : tun[i].id = Len(known) + i
    /\ \A p \in queue.packet_queue : p.id \in 1 .. Len(known) /\ p.key = KeyOf(p.id)
    /\ \A i \in 1 .. Len(sent) : sent[i].id \in 1 .. Len(known)
    /\ passthrough => queue.packet_queue = {}

\* An action that is served was reported, and is served once.
LEMMA ServedOnce ==
    ASSUME TypeInv, NEW i \in 1 .. 3, Serve(i)
    PROVE  /\ loop = "serve" /\ i \in report.revents
           /\ report' \in Reports /\ report'.revents = report.revents \ {i}
  <1>1. report \in Reports /\ Reported(report) = report.revents /\ report.hung = {}
    BY DEF TypeInv, Reports, Reported
  <1>2. report.revents \in SUBSET (1 .. 3) /\ report.revents # {} /\ Min(report.revents) = i
    BY <1>1 DEF Serve, Serves, At, Reports
  <1>3. i \in report.revents
    <2>1. \A x \in 1 .. 3 : x \in Nat
      OBVIOUS
    <2>2. report.revents \in SUBSET Nat
      BY <1>2, <2>1
    <2> QED
      BY <1>2, <2>2, MinOfNat
  <1>4. report' = [report EXCEPT !.revents = report.revents \ {i}]
    BY <1>1, <1>2 DEF Serve, Served, At
  <1>5. report' \in Reports /\ report'.revents = report.revents \ {i}
    BY <1>1, <1>4 DEF Reports
  <1> QED
    BY <1>3, <1>5 DEF Serve

\* What the poller asks for.
LEMMA EventsOfFerry ==
    /\ Events(actions) \in SUBSET (1 .. 3)
    /\ {1, 3} \subseteq Events(actions)
    /\ 2 \in Events(actions) <=> (~passthrough /\ pending_output(setup, queue, now))
  <1> DEFINE out == ~passthrough /\ pending_output(setup, queue, now)
  <1>1. actions = <<[direction |-> "In", active |-> TRUE, interested |-> TRUE, eof |-> FALSE],
                    [direction |-> "Out", active |-> TRUE, interested |-> out, eof |-> FALSE],
                    [direction |-> "In", active |-> TRUE, interested |-> TRUE, eof |-> FALSE]>>
    BY DEF actions, Action
  <1> HIDE DEF out
  <1>2. /\ DOMAIN actions = 1 .. 3
        /\ actions[1].active /\ actions[1].interested /\ ~actions[1].eof
        /\ actions[2].active /\ actions[2].interested = out /\ ~actions[2].eof
        /\ actions[3].active /\ actions[3].interested /\ ~actions[3].eof
    BY <1>1
  <1>3. \A i \in 1 .. 3 : actions[i].active /\ ~actions[i].eof
    <2>1. \A i \in 1 .. 3 : i = 1 \/ i = 2 \/ i = 3
      OBVIOUS
    <2> QED
      BY <1>2, <2>1
  <1>4. Events(actions) = {i \in 1 .. 3 : actions[i].interested}
    BY <1>2, <1>3 DEF Events
  <1>5. 1 \in Events(actions) /\ 3 \in Events(actions) /\ (2 \in Events(actions) <=> out)
    BY <1>2, <1>4
  <1> QED
    BY <1>4, <1>5 DEF out

\* The packet that is read is the next that had arrived.
LEMMA WhatReadTunDoes ==
    ASSUME FerryAssumption, TypeInv, ReportInv, FlowInv, ReadTun
    PROVE  LET n == Len(known) + 1
           IN  /\ loop = "serve" /\ 1 \in report.revents
               /\ report' \in Reports /\ report'.revents = report.revents \ {1}
               /\ tun # <<>> /\ Head(tun) \in Stamped /\ Head(tun).id = n
               /\ Len(known) \in Nat
               /\ \E e \in Entries :
                     /\ known' = Append(known, e) /\ e.at = Head(tun).time
                     /\ \/ /\ passthrough /\ e.taken /\ e.due = now
                           /\ sent' = Append(sent, [id |-> n, time |-> now]) /\ queue' = queue
                        \/ /\ ~passthrough /\ sent' = sent
                           /\ queue' \in read_packet(setup, queue, n, now)
                           /\ e.taken = (queue' # queue)
                           /\ e.due = IF setup.kind = "delay" THEN now + delay(setup, now)
                                      ELSE now
  <1> DEFINE n == Len(known) + 1
             p == Head(tun)
             due == IF setup.kind = "delay" THEN now + delay(setup, now) ELSE now
  <1>1. /\ loop = "serve" /\ 1 \in report.revents
        /\ report' \in Reports /\ report'.revents = report.revents \ {1}
    BY ServedOnce DEF ReadTun
  <1>2. tun # <<>>
    BY <1>1 DEF ReportInv
  <1>3. Len(tun) \in Nat /\ Len(tun) >= 1 /\ p = tun[1] /\ p \in Stamped
    <2>1. Len(tun) \in Nat /\ Len(tun) >= 1
      BY <1>2, EmptySeq, LenProperties DEF TypeInv
    <2>2. p = tun[1]
      BY <1>2 DEF TypeInv
    <2>3. tun[1] \in Stamped
      BY <2>1, ElementOfSeq DEF TypeInv
    <2> QED
      BY <2>1, <2>2, <2>3
  <1>4. p.id = n /\ Len(known) \in Nat
    BY <1>3, LenProperties DEF FlowInv, TypeInv
  <1>5. due \in Nat
    BY DelayIsNat DEF TypeInv
  <1>6. p.time \in Nat
    BY <1>3 DEF Stamped
  <1>7. CASE /\ passthrough
             /\ Written(<<p.id>>)
             /\ known' = Append(known, [taken |-> TRUE, due |-> now, at |-> p.time])
             /\ UNCHANGED queue
    <2> DEFINE e == [taken |-> TRUE, due |-> now, at |-> p.time]
               one == <<n>>
    <2>1. e \in Entries /\ e.at = p.time /\ e.taken /\ e.due = now
      BY <1>6 DEF Entries, TypeInv
    <2>2. sent' = Append(sent, [id |-> n, time |-> now])
      <3>1. sent' = sent \o [i \in DOMAIN one |-> [id |-> one[i], time |-> now]]
        BY <1>4, <1>7 DEF Written
      <3>2. DOMAIN one = 1 .. 1 /\ one[1] = n
        OBVIOUS
      <3>3. [i \in DOMAIN one |-> [id |-> one[i], time |-> now]] = <<[id |-> n, time |-> now]>>
        BY <3>2
      <3>4. sent \in Seq(Stamped)
        BY DEF TypeInv
      <3>5. [id |-> n, time |-> now] \in Stamped
        BY <1>4 DEF TypeInv, Stamped
      <3> QED
        BY <3>1, <3>3, <3>4, <3>5
    <2>3. known' = Append(known, e)
      BY <1>7
    <2> HIDE DEF e
    <2> QED
      BY <1>1, <1>2, <1>3, <1>4, <1>7, <2>1, <2>2, <2>3
  <1>8. CASE /\ ~passthrough
             /\ queue' \in read_packet(setup, queue, p.id, now)
             /\ known' = Append(known, [taken |-> queue' # queue, at |-> p.time, due |-> due])
             /\ UNCHANGED sent
    <2> DEFINE e == [taken |-> queue' # queue, at |-> p.time, due |-> due]
    <2>1. e \in Entries /\ e.at = p.time /\ e.taken = (queue' # queue) /\ e.due = due
      BY <1>5, <1>6 DEF Entries
    <2>2. known' = Append(known, e)
      BY <1>8
    <2> HIDE DEF e
    <2> QED
      BY <1>1, <1>2, <1>3, <1>4, <1>8, <2>1, <2>2
  <1> QED
    BY <1>7, <1>8 DEF ReadTun

\* What is written comes after what was.
LEMMA WhatWriteSiblingDoes ==
    ASSUME TypeInv, WriteSibling
    PROVE  /\ loop = "serve" /\ 2 \in report.revents
           /\ report' \in Reports /\ report'.revents = report.revents \ {2}
           /\ \E w \in Writes(setup, queue, now) :
                 /\ w \in Seq(queue.packet_queue) /\ Len(w) \in Nat
                 /\ sent' \in Seq(Stamped) /\ Len(sent') = Len(sent) + Len(w)
                 /\ \A i \in 1 .. Len(sent) : sent'[i] = sent[i]
                 /\ \A i \in 1 .. Len(w) :
                       sent'[Len(sent) + i] = [id |-> w[i].id, time |-> now]
                 /\ queue' = without(queue, {w[i] : i \in 1 .. Len(w)})
                 /\ loop' = IF w = <<>> THEN "thrown" ELSE "serve"
  <1>1. PICK w \in Writes(setup, queue, now) :
            /\ Written([i \in DOMAIN w |-> w[i].id])
            /\ queue' = without(queue, {w[i] : i \in DOMAIN w})
            /\ loop' = IF w = <<>> THEN "thrown" ELSE "serve"
    BY DEF WriteSibling
  <1>2. w \in Seq(queue.packet_queue) /\ queue.packet_queue \in SUBSET Packets
    BY WhatIsWritten DEF TypeInv, Queues
  <1> DEFINE n == Len(w)
  <1>3. n \in Nat /\ DOMAIN w = 1 .. n /\ \A i \in 1 .. n : w[i].id \in Nat
    <2>1. n \in Nat /\ DOMAIN w = 1 .. n
      BY <1>2, LenProperties
    <2>2. \A i \in 1 .. n : w[i] \in Packets
      BY <1>2, <2>1, ElementOfSeq
    <2> QED
      BY <2>1, <2>2 DEF Packets
  <1> DEFINE t == [i \in 1 .. n |-> [id |-> w[i].id, time |-> now]]
  <1>4. sent' = sent \o t
    <2> DEFINE ids == [i \in DOMAIN w |-> w[i].id]
    <2>1. DOMAIN ids = 1 .. n /\ \A i \in 1 .. n : ids[i] = w[i].id
      BY <1>3
    <2>2. sent' = sent \o [i \in DOMAIN ids |-> [id |-> ids[i], time |-> now]]
      BY <1>1 DEF Written
    <2> HIDE DEF ids
    <2>3. [i \in DOMAIN ids |-> [id |-> ids[i], time |-> now]] = t
      BY <2>1
    <2> QED
      BY <2>2, <2>3
  <1>5. t \in Seq(Stamped) /\ Len(t) = n /\ \A i \in 1 .. n : t[i] = [id |-> w[i].id, time |-> now]
    <2>1. \A i \in 1 .. n : [id |-> w[i].id, time |-> now] \in Stamped
      BY <1>3 DEF Stamped, TypeInv
    <2>2. t \in [1 .. n -> Stamped]
      BY <2>1
    <2> HIDE DEF n
    <2>3. t \in Seq(Stamped) /\ Len(t) = n
      BY <1>3, <2>2
    <2> QED
      BY <2>3
  <1> HIDE DEF t
  <1>6. sent \in Seq(Stamped)
    BY DEF TypeInv
  <1> HIDE DEF n
  <1>7. /\ sent' \in Seq(Stamped) /\ Len(sent') = Len(sent) + n
        /\ \A i \in 1 .. Len(sent) : sent'[i] = sent[i]
        /\ \A i \in 1 .. n : sent'[Len(sent) + i] = t[i]
    <2>1. /\ sent' \in Seq(Stamped) /\ Len(sent') = Len(sent) + Len(t)
          /\ \A i \in 1 .. Len(sent) + Len(t) :
                sent'[i] = IF i <= Len(sent) THEN sent[i] ELSE t[i - Len(sent)]
      BY <1>4, <1>5, <1>6, ConcatProperties
    <2> DEFINE m == Len(sent)
    <2>2. m \in Nat
      BY <1>6, LenProperties
    <2> HIDE DEF m
    <2>3. \A i \in 1 .. m : i \in 1 .. m + n /\ i <= m
      BY <1>3, <2>2
    <2>4. \A i \in 1 .. n : m + i \in 1 .. m + n /\ ~(m + i <= m) /\ (m + i) - m = i
      BY <1>3, <2>2
    <2> QED
      BY <1>5, <2>1, <2>3, <2>4 DEF m
  <1>8. /\ loop = "serve" /\ 2 \in report.revents
        /\ report' \in Reports /\ report'.revents = report.revents \ {2}
    BY ServedOnce DEF WriteSibling
  <1> QED
    BY <1>1, <1>2, <1>3, <1>5, <1>7, <1>8 DEF n

\* A wait changes no packet.
LEMMA WhatWaitTimeDoes ==
    ASSUME FerryAssumption, TypeInv, WaitTime
    PROVE  /\ queue' \in Queues /\ queue'.packet_queue = queue.packet_queue
           /\ timeout' \in Nat
           /\ setup.kind = "switch" => queue'.next_switch_time > now
                                       /\ now + timeout' <= queue'.next_switch_time
           /\ \A p \in queue.packet_queue :
                 IF setup.kind = "delay" THEN p.key >= now => now + timeout' <= p.key
                 ELSE timeout' = 0
  <1>1. queue' \in Switched(setup, queue, now) /\ timeout' = wait_time(setup, queue', now)
    BY DEF WaitTime
  <1>2. /\ queue' \in Queues /\ queue'.packet_queue = queue.packet_queue
        /\ setup.kind = "switch" => queue'.next_switch_time > now
    BY <1>1, SwitchedKeepsPackets DEF TypeInv
  <1>3. \A q \in Queues : (setup.kind = "switch" => q.next_switch_time > now) =>
            /\ wait_time(setup, q, now) \in Nat
            /\ setup.kind = "switch" => now + wait_time(setup, q, now) <= q.next_switch_time
            /\ \A p \in q.packet_queue :
                  IF setup.kind = "delay"
                  THEN p.key >= now => now + wait_time(setup, q, now) <= p.key
                  ELSE wait_time(setup, q, now) = 0
    BY WaitIsShort DEF TypeInv
  <1> QED
    BY <1>1, <1>2, <1>3, Zenon

\* Entries that are made stay as they are.
LEMMA KnownGrows ==
    ASSUME TypeInv, setup' = setup, NEW e \in Entries, known' = Append(known, e)
    PROVE  /\ known' \in Seq(Entries) /\ Len(known) \in Nat /\ Len(known') = Len(known) + 1
           /\ known'[Len(known) + 1] = e
           /\ \A id \in 1 .. Len(known) : known'[id] = known[id] /\ KeyOf(id)' = KeyOf(id)
           /\ \A id : id = Len(known) + 1 =>
                 KeyOf(id)' = IF setup.kind = "delay" THEN e.due ELSE id
  <1>1. known \in Seq(Entries)
    BY DEF TypeInv
  <1>2. /\ known' \in Seq(Entries) /\ Len(known) \in Nat /\ Len(known') = Len(known) + 1
        /\ known'[Len(known) + 1] = e
        /\ \A id \in 1 .. Len(known) : known'[id] = known[id]
    BY <1>1, AppendProperties, LenProperties
  <1>3. \A id : KeyOf(id)' = IF setup.kind = "delay" THEN known'[id].due ELSE id
    BY Zenon DEF KeyOf
  <1>4. \A id \in 1 .. Len(known) : KeyOf(id)' = KeyOf(id)
    BY <1>2, <1>3, Zenon DEF KeyOf
  <1>5. \A id : id = Len(known) + 1 =>
            KeyOf(id)' = IF setup.kind = "delay" THEN e.due ELSE id
    BY <1>2, <1>3, Zenon
  <1> QED
    BY <1>2, <1>4, <1>5

LEMMA InitIsTyped ==
    ASSUME FerryAssumption, Init
    PROVE  TypeInv /\ ReportInv /\ FlowInv
  <1>1. /\ setup \in Setups /\ now = 0 /\ tun = <<>> /\ passthrough = setup.passthrough
        /\ loop = "wait_time" /\ timeout = 0 /\ report = [revents |-> {}, hung |-> {}]
        /\ arrived = 0 /\ known = <<>> /\ sent = <<>> /\ steps = 0
        /\ queue = [packet_queue |-> {}, link_is_on |-> FALSE, next_switch_time |-> 0]
    BY DEF Init, NewQueue, NoReport, Report
  <1>2. queue \in Queues /\ queue.packet_queue = {}
    BY <1>1 DEF Queues
  <1>3. report \in Reports
    BY <1>1 DEF Reports
  <1>4. setup.passthrough \in BOOLEAN /\ MaxTime \in Nat
    BY <1>1, SetupFacts
  <1>5. <<>> \in Seq(Stamped) /\ <<>> \in Seq(Entries) /\ Len(<<>>) = 0
    BY EmptySeq
  <1>6. TypeInv
    BY <1>1, <1>2, <1>3, <1>4, <1>5 DEF TypeInv
  <1>7. ReportInv
    BY <1>1 DEF ReportInv
  <1>8. FlowInv
    BY <1>1, <1>2, <1>5 DEF FlowInv
  <1> QED
    BY <1>6, <1>7, <1>8

BaseInv == TypeInv /\ ReportInv /\ FlowInv

\* Packets stay where they are, and what the ferry knows of them.
PacketsRest ==
    /\ setup' = setup /\ known' = known /\ sent' = sent
    /\ queue' \in Queues /\ queue'.packet_queue = queue.packet_queue

LEMMA FlowRests ==
    ASSUME FlowInv, PacketsRest, tun' = tun, arrived' = arrived,
           passthrough' => passthrough
    PROVE  FlowInv'
  <1> USE DEF FlowInv, PacketsRest
  <1>1. \A id : KeyOf(id)' = KeyOf(id)
    BY DEF KeyOf
  <1>2. \A p \in queue'.packet_queue : p.id \in 1 .. Len(known') /\ p.key = KeyOf(p.id)'
    BY <1>1
  <1> QED
    BY <1>2

\* The steps that leave the packets.
LEMMA LoopIsTyped ==
    ASSUME FerryAssumption, BaseInv,
           WaitTime \/ PollBegins \/ PollReturns \/ ReadSignal \/ PollEnds
    PROVE  BaseInv' /\ PacketsRest
  <1> USE DEF BaseInv
  <1>1. CASE WaitTime
    <2>1. PacketsRest /\ timeout' \in Nat
      BY <1>1, WhatWaitTimeDoes DEF WaitTime, PacketsRest
    <2>2. TypeInv'
      BY <1>1, <2>1 DEF TypeInv, WaitTime, PacketsRest
    <2>3. ReportInv'
      BY <1>1 DEF ReportInv, WaitTime
    <2> QED
      BY <1>1, <2>1, <2>2, <2>3, FlowRests DEF WaitTime
  <1>2. CASE PollBegins
    <2>1. PacketsRest
      BY <1>2 DEF PollBegins, PacketsRest, TypeInv
    <2>2. report' \in Reports /\ {1, 3} \subseteq report'.revents
      BY <1>2, EventsOfFerry DEF PollBegins, Report, Reports
    <2>3. TypeInv'
      BY <1>2, <2>2 DEF TypeInv, PollBegins
    <2>4. ReportInv'
      BY <1>2, <2>2 DEF ReportInv, PollBegins
    <2> QED
      BY <1>2, <2>1, <2>3, <2>4, FlowRests DEF PollBegins
  <1>3. CASE PollReturns
    <2>1. PacketsRest
      BY <1>3 DEF PollReturns, PacketsRest, TypeInv
    <2>2. Ready \in SUBSET (1 .. 3) /\ (1 \in Ready => tun # <<>>)
      BY DEF Ready, TypeInv, Reports
    <2>3. report' \in Reports /\ report'.revents = Ready
      BY <1>3, <2>2 DEF PollReturns, Report, Reports
    <2>4. TypeInv'
      BY <1>3, <2>3 DEF TypeInv, PollReturns
    <2>5. ReportInv'
      BY <1>3, <2>2, <2>3 DEF ReportInv, PollReturns
    <2> QED
      BY <1>3, <2>1, <2>4, <2>5, FlowRests DEF PollReturns
  <1>4. CASE ReadSignal
    <2>1. PacketsRest
      BY <1>4 DEF ReadSignal, PacketsRest, TypeInv
    <2>2. report' \in Reports /\ report'.revents \subseteq report.revents /\ loop = "serve"
      BY <1>4, ServedOnce DEF ReadSignal
    <2>3. /\ loop' \in {"exit", "serve"} /\ passthrough' \in BOOLEAN
          /\ passthrough' => passthrough
          /\ UNCHANGED <<setup, now, tun, queue, timeout, arrived, known, sent, steps>>
      BY <1>4 DEF ReadSignal
    <2>4. TypeInv'
      BY <2>2, <2>3 DEF TypeInv
    <2>5. ReportInv'
      BY <2>2, <2>3 DEF ReportInv
    <2> QED
      BY <2>1, <2>3, <2>4, <2>5, FlowRests
  <1>5. CASE PollEnds
    <2>1. PacketsRest
      BY <1>5 DEF PollEnds, PacketsRest, TypeInv
    <2>2. TypeInv'
      BY <1>5 DEF TypeInv, PollEnds
    <2>3. ReportInv'
      BY <1>5 DEF ReportInv, PollEnds
    <2> QED
      BY <1>5, <2>1, <2>2, <2>3, FlowRests DEF PollEnds
  <1> QED
    BY <1>1, <1>2, <1>3, <1>4, <1>5

LEMMA EnvironmentIsTyped ==
    ASSUME FerryAssumption, BaseInv,
           \/ Tick \/ StepBack \/ Arrive
           \/ Signal("SIGUSR1") \/ Signal("SIGTERM") \/ UNCHANGED vars
    PROVE  BaseInv' /\ PacketsRest
  <1> USE DEF BaseInv
  <1>0. MaxTime \in Nat
    BY SetupFacts DEF TypeInv
  <1>1. CASE Tick
    <2>1. PacketsRest
      BY <1>1 DEF Tick, PacketsRest, TypeInv
    <2>2. now' \in Nat /\ now' <= MaxTime /\ timeout' \in Nat
      <3>1. now' = Min({now + 1, MaxTime}) /\ timeout' \in {timeout, Max({0, timeout - 1})}
        BY <1>1 DEF Tick
      <3>2. now + 1 \in Int /\ timeout - 1 \in Int /\ now \in Nat /\ timeout \in Nat
        BY DEF TypeInv
      <3>3. now' = IF now + 1 <= MaxTime THEN now + 1 ELSE MaxTime
        BY <1>0, <3>1, <3>2, MinOfTwo
      <3>4. Max({0, timeout - 1}) = IF 0 >= timeout - 1 THEN 0 ELSE timeout - 1
        BY <3>2, MaxOfTwo
      <3> QED
        BY <1>0, <3>1, <3>2, <3>3, <3>4
    <2>3. TypeInv'
      BY <1>1, <2>2 DEF TypeInv, Tick
    <2>4. ReportInv'
      BY <1>1 DEF ReportInv, Tick
    <2> QED
      BY <1>1, <2>1, <2>3, <2>4, FlowRests DEF Tick
  <1>2. CASE StepBack
    <2>1. PacketsRest
      BY <1>2 DEF StepBack, PacketsRest, TypeInv
    <2>2. TypeInv'
      BY <1>0, <1>2 DEF TypeInv, StepBack
    <2>3. ReportInv'
      BY <1>2 DEF ReportInv, StepBack
    <2> QED
      BY <1>2, <2>1, <2>2, <2>3, FlowRests DEF StepBack
  <1>3. CASE Arrive
    <2> DEFINE p == [id |-> arrived + 1, time |-> now]
    <2>1. PacketsRest
      BY <1>3 DEF Arrive, PacketsRest, TypeInv
    <2>2. p \in Stamped /\ tun' = Append(tun, p) /\ arrived' = arrived + 1 /\ p.id = arrived + 1
      BY <1>3 DEF Arrive, Stamped, TypeInv
    <2> HIDE DEF p
    <2>3. /\ tun' \in Seq(Stamped) /\ Len(tun) \in Nat /\ Len(tun') = Len(tun) + 1
          /\ tun'[Len(tun) + 1] = p
          /\ \A i \in 1 .. Len(tun) : tun'[i] = tun[i]
      BY <2>2, AppendProperties, LenProperties DEF TypeInv
    <2>4. tun' # <<>>
      BY <2>3, EmptySeq
    <2>5. TypeInv'
      BY <1>3, <2>2, <2>3 DEF TypeInv, Arrive
    <2>6. ReportInv'
      BY <1>3, <2>4 DEF ReportInv, Arrive
    <2>7. FlowInv'
      <3>1. Len(known) \in Nat
        BY LenProperties DEF TypeInv
      <3>2. \A i \in 1 .. Len(tun') : tun'[i].id = Len(known) + i
        <4>1. \A i \in 1 .. Len(tun) : tun'[i].id = Len(known) + i
          BY <2>3 DEF FlowInv
        <4>2. tun'[Len(tun) + 1].id = Len(known) + (Len(tun) + 1)
          BY <2>2, <2>3, <3>1 DEF FlowInv
        <4>3. \A i \in 1 .. Len(tun') : i \in 1 .. Len(tun) \/ i = Len(tun) + 1
          BY <2>3
        <4> QED
          BY <4>1, <4>2, <4>3
      <3>3. arrived' = Len(known) + Len(tun')
        BY <2>2, <2>3, <3>1 DEF FlowInv
      <3>4. \A id : KeyOf(id)' = KeyOf(id)
        BY <2>1 DEF KeyOf, PacketsRest
      <3>5. passthrough' = passthrough
        BY <1>3 DEF Arrive
      <3> QED
        BY <2>1, <3>2, <3>3, <3>4, <3>5 DEF FlowInv, PacketsRest
    <2> QED
      BY <2>1, <2>5, <2>6, <2>7
  <1>4. CASE Signal("SIGUSR1") \/ Signal("SIGTERM") \/ UNCHANGED vars
    <2>1. UNCHANGED <<setup, now, tun, queue, passthrough, loop, timeout, report, arrived, known,
                      sent, steps>>
      BY <1>4 DEF Signal, vars
    <2>2. PacketsRest
      BY <2>1 DEF PacketsRest, TypeInv
    <2>3. TypeInv'
      BY <2>1 DEF TypeInv
    <2>4. ReportInv'
      BY <2>1 DEF ReportInv
    <2> QED
      BY <2>1, <2>2, <2>3, <2>4, FlowRests
  <1> QED
    BY <1>1, <1>2, <1>3, <1>4

\* After a packet is read it is the last of those known; it is in the queue, has been
\* sent or was dropped, and the others stay where they are.
LEMMA AfterReadTun ==
    ASSUME FerryAssumption, BaseInv, ReadTun
    PROVE  LET n == Len(known) + 1
           IN  /\ n \in Nat /\ setup' = setup /\ now' = now
               /\ known' \in Seq(Entries) /\ Len(known') = n
               /\ known'[n] \in Entries /\ known'[n].at = Head(tun).time
               /\ \A id \in 1 .. Len(known) : known'[id] = known[id] /\ KeyOf(id)' = KeyOf(id)
               /\ \A id : id = n => KeyOf(id)' = IF setup.kind = "delay" THEN known'[n].due ELSE id
               /\ queue' \in Queues
               /\ queue'.link_is_on = queue.link_is_on
               /\ queue'.next_switch_time = queue.next_switch_time
               /\ \A p \in queue'.packet_queue :
                     p \in queue.packet_queue \/ (p.id = n /\ p.key = KeyOf(p.id)')
               /\ queue.packet_queue \subseteq queue'.packet_queue
               /\ \/ /\ passthrough /\ queue' = queue /\ known'[n].due = now
                     /\ sent' = Append(sent, [id |-> n, time |-> now])
                  \/ /\ ~passthrough /\ sent' = sent
                     /\ known'[n].due = IF setup.kind = "delay" THEN now + delay(setup, now)
                                        ELSE now
                     /\ setup.kind = "switch" => known'[n].taken = queue.link_is_on
  <1> DEFINE n == Len(known) + 1
             key == IF setup.kind = "delay" THEN now + delay(setup, now) ELSE n
             due == IF setup.kind = "delay" THEN now + delay(setup, now) ELSE now
             p == [id |-> n, key |-> key]
  <1> USE DEF BaseInv
  <1>1. setup' = setup /\ now' = now /\ Len(known) \in Nat
    BY LenProperties DEF ReadTun, TypeInv
  <1>2. PICK e \in Entries :
            /\ known' = Append(known, e) /\ e.at = Head(tun).time
            /\ \/ /\ passthrough /\ e.taken /\ e.due = now
                  /\ sent' = Append(sent, [id |-> n, time |-> now]) /\ queue' = queue
               \/ /\ ~passthrough /\ sent' = sent
                  /\ queue' \in read_packet(setup, queue, n, now)
                  /\ e.taken = (queue' # queue)
                  /\ e.due = due
    BY WhatReadTunDoes
  <1>3. /\ known' \in Seq(Entries) /\ Len(known') = n /\ known'[n] = e
        /\ \A id \in 1 .. Len(known) : known'[id] = known[id] /\ KeyOf(id)' = KeyOf(id)
        /\ \A id : id = n => KeyOf(id)' = IF setup.kind = "delay" THEN e.due ELSE id
    BY <1>1, <1>2, KnownGrows
  <1>4. CASE passthrough /\ e.due = now /\ sent' = Append(sent, [id |-> n, time |-> now])
             /\ queue' = queue
    <2>1. queue' \in Queues
      BY <1>4 DEF TypeInv
    <2> QED
      BY <1>1, <1>2, <1>3, <1>4, <2>1
  <1>5. CASE /\ ~passthrough /\ sent' = sent
             /\ queue' \in read_packet(setup, queue, n, now)
             /\ e.taken = (queue' # queue)
             /\ e.due = due
    <2>0. n \in Nat /\ queue \in Queues
      BY <1>1 DEF TypeInv
    <2>1. /\ queue' \in Queues
          /\ queue'.link_is_on = queue.link_is_on
          /\ queue'.next_switch_time = queue.next_switch_time
          /\ queue' = queue \/ queue'.packet_queue = queue.packet_queue \cup {p}
          /\ setup.kind = "switch" =>
                queue' = IF queue.link_is_on
                         THEN [queue EXCEPT !.packet_queue = @ \cup {p}] ELSE queue
      <3>1. setup \in Setups /\ now \in Nat
        BY DEF TypeInv
      <3> DEFINE Read(r) ==
                    /\ r \in Queues
                    /\ r.link_is_on = queue.link_is_on
                    /\ r.next_switch_time = queue.next_switch_time
                    /\ r = queue \/ r.packet_queue = queue.packet_queue \cup {p}
                    /\ setup.kind = "switch" =>
                          r = IF queue.link_is_on
                              THEN [queue EXCEPT !.packet_queue = @ \cup {p}] ELSE queue
      <3>2. \A r \in read_packet(setup, queue, n, now) : Read(r)
        <4> HIDE DEF n
        <4> QED
          BY <2>0, <3>1, WhatIsRead
      <3> HIDE DEF p, n
      <3> QED
        BY <1>5, <3>2, Zenon
    <2>2. p.id = n /\ \A id : id = n => p.key = KeyOf(id)'
      BY <1>3, <1>5
    <2>3. \A o \in queue'.packet_queue :
              o \in queue.packet_queue \/ (o.id = n /\ o.key = KeyOf(o.id)')
      <3> HIDE DEF p, n
      <3> QED
        BY <2>1, <2>2
    <2>4. queue.packet_queue \subseteq queue'.packet_queue
      BY <2>1
    <2>5. ASSUME setup.kind = "switch" PROVE e.taken = queue.link_is_on
      <3>1. p \notin queue.packet_queue
        <4>1. n \notin 1 .. Len(known)
          BY <1>1
        <4> QED
          BY <2>2, <4>1 DEF FlowInv
      <3> DEFINE r == [queue EXCEPT !.packet_queue = @ \cup {p}]
      <3>2. r # queue
        <4>1. r.packet_queue = queue.packet_queue \cup {p}
          BY <2>0 DEF Queues
        <4> HIDE DEF r
        <4> QED
          BY <3>1, <4>1
      <3>3. queue.link_is_on \in BOOLEAN /\ e.taken \in BOOLEAN
        BY <2>0 DEF Queues, Entries
      <3>4. queue' = IF queue.link_is_on THEN r ELSE queue
        BY <2>1, <2>5, Zenon
      <3> HIDE DEF r
      <3> QED
        BY <1>5, <3>2, <3>3, <3>4
    <2> HIDE DEF p, key
    <2> QED
      BY <1>1, <1>2, <1>3, <1>5, <2>0, <2>1, <2>3, <2>4, <2>5
  <1> QED
    BY <1>2, <1>4, <1>5

LEMMA ReadTunIsTyped ==
    ASSUME FerryAssumption, BaseInv, ReadTun
    PROVE  BaseInv'
  <1> USE DEF BaseInv
  <1> DEFINE n == Len(known) + 1
  <1>1. /\ n \in Nat /\ Len(known) \in Nat /\ known' \in Seq(Entries) /\ Len(known') = n
        /\ \A id \in 1 .. Len(known) : KeyOf(id)' = KeyOf(id)
        /\ queue' \in Queues
        /\ \A p \in queue'.packet_queue :
              p \in queue.packet_queue \/ (p.id = n /\ p.key = KeyOf(p.id)')
        /\ \/ passthrough /\ queue' = queue /\ sent' = Append(sent, [id |-> n, time |-> now])
           \/ ~passthrough /\ sent' = sent
    BY AfterReadTun, LenProperties DEF TypeInv
  <1>2. /\ loop = "serve" /\ report' \in Reports /\ report'.revents = report.revents \ {1}
        /\ tun # <<>>
    BY WhatReadTunDoes
  <1>3. /\ tun' = Tail(tun)
        /\ UNCHANGED <<setup, now, signals, passthrough, loop, timeout, arrived, steps>>
    BY DEF ReadTun
  <1> DEFINE m == Len(tun)
  <1>4. /\ tun' \in Seq(Stamped) /\ m \in Nat /\ Len(tun') = m - 1 /\ m >= 1
        /\ \A i \in 1 .. m - 1 : tun'[i] = tun[i + 1]
    <2>1. tun \in Seq(Stamped)
      BY DEF TypeInv
    <2>2. Tail(tun) \in Seq(Stamped) /\ Len(Tail(tun)) = m - 1 /\ m \in Nat /\ m >= 1
      BY <1>2, <2>1, HeadTailProperties, LenProperties, EmptySeq
    <2>3. \A i \in 1 .. Len(Tail(tun)) : Tail(tun)[i] = tun[i + 1]
      BY <1>2, <2>1, HeadTailProperties
    <2> QED
      BY <1>3, <2>2, <2>3
  <1> HIDE DEF n, m
  <1>5. /\ sent' \in Seq(Stamped)
        /\ \A i \in 1 .. Len(sent') : sent'[i].id \in 1 .. n
    <2>1. \A i \in 1 .. Len(sent) : sent[i].id \in 1 .. n
      BY <1>1 DEF FlowInv, n
    <2>2. CASE sent' = sent
      BY <2>1, <2>2 DEF TypeInv
    <2>3. CASE sent' = Append(sent, [id |-> n, time |-> now])
      <3> DEFINE s == [id |-> n, time |-> now]
      <3>1. s \in Stamped /\ s.id = n
        BY <1>1 DEF Stamped, TypeInv
      <3> HIDE DEF s
      <3>2. /\ sent' \in Seq(Stamped) /\ Len(sent) \in Nat /\ Len(sent') = Len(sent) + 1
            /\ sent'[Len(sent) + 1] = s
            /\ \A i \in 1 .. Len(sent) : sent'[i] = sent[i]
        BY <2>3, <3>1, AppendProperties, LenProperties DEF TypeInv, s
      <3>3. \A i \in 1 .. Len(sent') : i \in 1 .. Len(sent) \/ i = Len(sent) + 1
        BY <3>2
      <3>4. n \in 1 .. n
        BY <1>1 DEF n
      <3> QED
        BY <2>1, <3>1, <3>2, <3>3, <3>4
    <2> QED
      BY <1>1, <2>2, <2>3
  <1>6. TypeInv'
    BY <1>1, <1>2, <1>3, <1>4, <1>5 DEF TypeInv
  <1>7. ReportInv'
    BY <1>2, <1>3 DEF ReportInv
  <1>8. FlowInv'
    <2>1. arrived' = Len(known') + Len(tun')
      BY <1>1, <1>3, <1>4 DEF FlowInv, n, m
    <2>2. \A i \in 1 .. Len(tun') : tun'[i].id = Len(known') + i
      <3>1. \A i \in 1 .. m - 1 : i + 1 \in 1 .. m /\ tun[i + 1].id = Len(known) + (i + 1)
        BY <1>4 DEF FlowInv, m
      <3> QED
        BY <1>1, <1>4, <3>1 DEF n
    <2>3. \A p \in queue'.packet_queue : p.id \in 1 .. Len(known') /\ p.key = KeyOf(p.id)'
      <3>1. \A id \in 1 .. Len(known) : id \in 1 .. n
        BY <1>1 DEF n
      <3>2. n \in 1 .. n
        BY <1>1 DEF n
      <3> QED
        BY <1>1, <3>1, <3>2 DEF FlowInv
    <2>4. passthrough' => queue'.packet_queue = {}
      BY <1>1, <1>3 DEF FlowInv
    <2> QED
      BY <1>1, <1>5, <2>1, <2>2, <2>3, <2>4 DEF FlowInv
  <1> QED
    BY <1>6, <1>7, <1>8

LEMMA WriteSiblingIsTyped ==
    ASSUME FerryAssumption, BaseInv, WriteSibling
    PROVE  BaseInv'
  <1> USE DEF BaseInv
  <1>1. PICK w \in Writes(setup, queue, now) :
            /\ w \in Seq(queue.packet_queue) /\ Len(w) \in Nat
            /\ sent' \in Seq(Stamped) /\ Len(sent') = Len(sent) + Len(w)
            /\ \A i \in 1 .. Len(sent) : sent'[i] = sent[i]
            /\ \A i \in 1 .. Len(w) :
                  sent'[Len(sent) + i] = [id |-> w[i].id, time |-> now]
            /\ queue' = without(queue, {w[i] : i \in 1 .. Len(w)})
            /\ loop' = IF w = <<>> THEN "thrown" ELSE "serve"
    BY WhatWriteSiblingDoes
  <1>2. /\ loop = "serve" /\ report' \in Reports /\ report'.revents = report.revents \ {2}
    BY WhatWriteSiblingDoes
  <1>3. UNCHANGED <<setup, now, tun, signals, passthrough, timeout, arrived, known, steps>>
    BY DEF WriteSibling
  <1>4. queue' \in Queues /\ queue'.packet_queue \subseteq queue.packet_queue
    <2>1. queue \in Queues
      BY DEF TypeInv
    <2> QED
      BY <1>1, <2>1, WithoutTyped
  <1>5. TypeInv'
    BY <1>1, <1>2, <1>3, <1>4 DEF TypeInv
  <1>6. ReportInv'
    BY <1>1, <1>2, <1>3 DEF ReportInv
  <1>7. FlowInv'
    <2>1. \A id : KeyOf(id)' = KeyOf(id)
      BY <1>3 DEF KeyOf
    <2>2. \A i \in 1 .. Len(w) : sent'[Len(sent) + i].id \in 1 .. Len(known)
      <3>1. \A i \in 1 .. Len(w) : w[i] \in queue.packet_queue
        BY <1>1, ElementOfSeq
      <3>2. \A i \in 1 .. Len(w) : w[i].id \in 1 .. Len(known)
        BY <3>1 DEF FlowInv
      <3>3. ASSUME NEW i \in 1 .. Len(w) PROVE sent'[Len(sent) + i].id = w[i].id
        <4>1. sent'[Len(sent) + i] = [id |-> w[i].id, time |-> now]
          BY <1>1, Zenon
        <4> QED
          BY <4>1
      <3> QED
        BY <3>2, <3>3
    <2>3. \A i \in 1 .. Len(sent') : i \in 1 .. Len(sent)
              \/ \E j \in 1 .. Len(w) : i = Len(sent) + j
      <3>1. Len(sent) \in Nat
        BY LenProperties DEF TypeInv
      <3>2. \A i \in 1 .. Len(sent') : ~(i \in 1 .. Len(sent)) =>
                i - Len(sent) \in 1 .. Len(w) /\ i = Len(sent) + (i - Len(sent))
        BY <1>1, <3>1
      <3> QED
        BY <3>2
    <2>4. \A i \in 1 .. Len(sent') : sent'[i].id \in 1 .. Len(known)
      BY <1>1, <2>2, <2>3 DEF FlowInv
    <2> QED
      BY <1>3, <1>4, <2>1, <2>4 DEF FlowInv
  <1> QED
    BY <1>5, <1>6, <1>7

\* The types and the flow of the packets, whatever step is taken.
LEMMA BaseInvNext ==
    ASSUME FerryAssumption, BaseInv, [Next]_vars
    PROVE  BaseInv'
  BY LoopIsTyped, EnvironmentIsTyped, ReadTunIsTyped, WriteSiblingIsTyped DEF Next, Loop

LEMMA BaseInvariant ==
    ASSUME FerryAssumption
    PROVE  Init /\ [][Next]_vars => []BaseInv
  <1>1. Init => BaseInv
    BY InitIsTyped DEF BaseInv
  <1>2. BaseInv /\ [Next]_vars => BaseInv'
    BY BaseInvNext
  <1> QED
    BY <1>1, <1>2, PTL

-----------------------------------------------------------------------------
(* The order in which packets leave                                         *)

\* The packet a may leave before the packet b.
MayLeadTo(a, b) == a > b => setup.kind = "delay" /\ known[a].due <= known[b].due

\* So it is with packets that have been sent, and with those still in the queue.
OrderInv ==
    /\ \A i \in 1 .. Len(sent) : \A p \in queue.packet_queue : MayLeadTo(sent[i].id, p.id)
    /\ \A i, j \in 1 .. Len(sent) : i < j => MayLeadTo(sent[i].id, sent[j].id)

LEMMA OrderRests ==
    ASSUME OrderInv, PacketsRest
    PROVE  OrderInv'
  <1>1. \A a, b : MayLeadTo(a, b)' <=> MayLeadTo(a, b)
    BY DEF MayLeadTo, PacketsRest
  <1> QED
    BY <1>1 DEF OrderInv, PacketsRest

\* The packet that is read is the last of all.
LEMMA OrderWhenRead ==
    ASSUME FerryAssumption, BaseInv, OrderInv, ReadTun
    PROVE  OrderInv'
  <1> DEFINE Later(x, y) == x > y => setup'.kind = "delay" /\ known'[x].due <= known'[y].due
  <1>1. PICK n : n = Len(known) + 1
    OBVIOUS
  <1>2. PICK m : m = Len(sent)
    OBVIOUS
  <1>3. /\ n \in Nat /\ m \in Nat /\ setup' = setup
        /\ \A id \in 1 .. n - 1 : known'[id] = known[id]
        /\ \A p \in queue'.packet_queue : p \in queue.packet_queue \/ p.id = n
        /\ \/ queue' = queue /\ sent' = Append(sent, [id |-> n, time |-> now])
           \/ sent' = sent
    <2>1. Len(known) \in Nat /\ m \in Nat
      BY <1>2, LenProperties DEF BaseInv, TypeInv
    <2>2. n - 1 = Len(known)
      BY <1>1, <2>1
    <2> QED
      BY <1>1, <2>1, <2>2, AfterReadTun
  <1>4. /\ \A i \in 1 .. m : sent[i].id \in 1 .. n - 1
        /\ \A p \in queue.packet_queue : p.id \in 1 .. n - 1
    <2>1. Len(known) = n - 1
      BY <1>1, LenProperties DEF BaseInv, TypeInv
    <2> QED
      BY <1>2, <2>1 DEF BaseInv, FlowInv
  <1>5. \A a, b \in 1 .. n - 1 : Later(a, b) <=> MayLeadTo(a, b)
    BY <1>3 DEF MayLeadTo
  <1>6. \A a \in 1 .. n - 1 : Later(a, n)
    BY <1>3
  <1> HIDE DEF Later
  <1>7. /\ \A i \in 1 .. m : \A p \in queue.packet_queue : MayLeadTo(sent[i].id, p.id)
        /\ \A i, j \in 1 .. m : i < j => MayLeadTo(sent[i].id, sent[j].id)
    BY <1>2 DEF OrderInv
  <1>8. CASE sent' = sent
    <2>1. \A i \in 1 .. m : \A p \in queue'.packet_queue : Later(sent'[i].id, p.id)
      BY <1>3, <1>4, <1>5, <1>6, <1>7, <1>8
    <2>2. \A i, j \in 1 .. m : i < j => Later(sent'[i].id, sent'[j].id)
      BY <1>4, <1>5, <1>7, <1>8
    <2>3. Len(sent') = m
      BY <1>2, <1>8
    <2> QED
      BY <2>1, <2>2, <2>3 DEF OrderInv, MayLeadTo, Later
  <1>9. CASE queue' = queue /\ sent' = Append(sent, [id |-> n, time |-> now]) /\ passthrough
    <2>1. /\ Len(sent') = m + 1 /\ sent'[m + 1].id = n
          /\ \A i \in 1 .. m : sent'[i] = sent[i]
      <3>1. sent \in Seq(Stamped) /\ [id |-> n, time |-> now] \in Stamped
        BY <1>3 DEF BaseInv, TypeInv, Stamped
      <3> DEFINE s == [id |-> n, time |-> now]
      <3>2. s.id = n
        OBVIOUS
      <3> HIDE DEF s
      <3> QED
        BY <1>2, <1>9, <3>1, <3>2, AppendProperties DEF s
    <2>2. queue'.packet_queue = {}
      BY <1>9 DEF BaseInv, FlowInv
    <2>3. \A i, j \in 1 .. m + 1 : i < j => Later(sent'[i].id, sent'[j].id)
      <3>1. \A i, j \in 1 .. m : i < j => Later(sent'[i].id, sent'[j].id)
        BY <1>4, <1>5, <1>7, <2>1
      <3>2. \A i \in 1 .. m : Later(sent'[i].id, sent'[m + 1].id)
        BY <1>4, <1>6, <2>1
      <3>3. \A i, j \in 1 .. m + 1 : i < j => i \in 1 .. m /\ (j \in 1 .. m \/ j = m + 1)
        BY <1>3
      <3> QED
        BY <3>1, <3>2, <3>3
    <2> QED
      BY <2>1, <2>2, <2>3 DEF OrderInv, MayLeadTo, Later
  <1>10. sent' = sent \/ (queue' = queue /\ sent' = Append(sent, [id |-> n, time |-> now])
                                         /\ passthrough)
    BY <1>1, AfterReadTun
  <1> QED
    BY <1>8, <1>9, <1>10

\* What is written has keys that are no larger than those of what stays.
LEMMA OrderWhenWritten ==
    ASSUME FerryAssumption, BaseInv, OrderInv, WriteSibling
    PROVE  OrderInv'
  <1>1. PICK w \in Writes(setup, queue, now) :
            /\ w \in Seq(queue.packet_queue) /\ Len(w) \in Nat
            /\ Len(sent') = Len(sent) + Len(w)
            /\ \A i \in 1 .. Len(sent) : sent'[i] = sent[i]
            /\ \A i \in 1 .. Len(w) :
                  sent'[Len(sent) + i] = [id |-> w[i].id, time |-> now]
            /\ queue' = without(queue, {w[i] : i \in 1 .. Len(w)})
    BY WhatWriteSiblingDoes DEF BaseInv
  <1>2. PICK m : m = Len(sent)
    OBVIOUS
  <1>3. PICK n : n = Len(w)
    OBVIOUS
  <1>4. m \in Nat /\ n \in Nat /\ queue \in Queues /\ now \in Nat
    BY <1>1, <1>2, <1>3, LenProperties DEF BaseInv, TypeInv
  <1>5. \A i \in 1 .. n : w[i] \in queue.packet_queue
    BY <1>1, <1>3, ElementOfSeq
  <1>6. /\ \A i, j \in 1 .. n : i < j => w[i].key <= w[j].key
        /\ \A i \in 1 .. n : \A p \in queue.packet_queue :
              (\A j \in 1 .. n : p # w[j]) => w[i].key <= p.key
    <2>1. now \in Int
      BY <1>4
    <2>2. /\ \A i, j \in 1 .. Len(w) : i < j => w[i].key <= w[j].key
          /\ \A i \in 1 .. Len(w) : \A p \in queue.packet_queue :
                (\A j \in 1 .. Len(w) : p # w[j]) => w[i].key <= p.key
      BY <1>4, <2>1, WhatIsWritten, Zenon
    <2> QED
      BY <1>3, <2>2
  <1>7. \A i \in 1 .. n : sent'[m + i].id = w[i].id
    <2>1. ASSUME NEW i \in 1 .. n PROVE sent'[m + i].id = w[i].id
      <3>1. sent'[m + i] = [id |-> w[i].id, time |-> now]
        BY <1>1, <1>2, <1>3, Zenon
      <3> QED
        BY <3>1
    <2> QED
      BY <2>1
  <1>8. UNCHANGED <<setup, known>>
    BY DEF WriteSibling
  <1>9. \A a, b : MayLeadTo(a, b)' <=> MayLeadTo(a, b)
    BY <1>8 DEF MayLeadTo
  <1>10. \A p, o \in queue.packet_queue : p.key <= o.key => MayLeadTo(p.id, o.id)
    <2>1. \A p \in queue.packet_queue : p.id \in 1 .. Len(known) /\ p.key = KeyOf(p.id)
      BY DEF BaseInv, FlowInv
    <2>2. CASE setup.kind = "delay"
      BY <2>1, <2>2 DEF KeyOf, MayLeadTo
    <2>3. CASE setup.kind # "delay"
      <3>1. \A p \in queue.packet_queue : p.id \in Nat /\ p.key = p.id
        BY <2>1, <2>3 DEF KeyOf
      <3> QED
        BY <3>1 DEF MayLeadTo
    <2> QED
      BY <2>2, <2>3
  <1>11. \A p \in queue'.packet_queue :
             p \in queue.packet_queue /\ \A j \in 1 .. n : p # w[j]
    <2>1. queue'.packet_queue = queue.packet_queue \ {w[i] : i \in 1 .. n}
      BY <1>1, <1>3, <1>4, WithoutTyped
    <2> QED
      BY <2>1
  <1>12. Len(sent') = m + n /\ \A i \in 1 .. m : sent'[i].id = sent[i].id
    BY <1>1, <1>2, <1>3
  <1>13. \A i \in 1 .. m + n : i \in 1 .. m \/ (i - m \in 1 .. n /\ i = m + (i - m))
    BY <1>4
  <1>14. ASSUME NEW i \in 1 .. m + n, NEW p \in queue'.packet_queue
         PROVE  MayLeadTo(sent'[i].id, p.id)
    <2>1. CASE i \in 1 .. m
      BY <1>2, <1>11, <1>12, <2>1 DEF OrderInv
    <2>2. CASE i - m \in 1 .. n /\ i = m + (i - m)
      <3>1. sent'[i].id = w[i - m].id
        BY <1>7, <2>2
      <3> QED
        BY <1>5, <1>6, <1>10, <1>11, <2>2, <3>1
    <2> QED
      BY <1>13, <2>1, <2>2
  <1>15. ASSUME NEW i \in 1 .. m + n, NEW j \in 1 .. m + n, i < j
         PROVE  MayLeadTo(sent'[i].id, sent'[j].id)
    <2>1. CASE j \in 1 .. m
      <3>1. i \in 1 .. m
        BY <1>4, <1>15, <2>1
      <3> QED
        BY <1>2, <1>12, <1>15, <2>1, <3>1 DEF OrderInv
    <2>2. CASE j - m \in 1 .. n /\ j = m + (j - m)
      <3>1. sent'[j].id = w[j - m].id /\ w[j - m] \in queue.packet_queue
        BY <1>5, <1>7, <2>2
      <3>2. CASE i \in 1 .. m
        BY <1>2, <1>12, <3>1, <3>2 DEF OrderInv
      <3>3. CASE i - m \in 1 .. n /\ i = m + (i - m)
        <4>1. sent'[i].id = w[i - m].id /\ w[i - m] \in queue.packet_queue
          BY <1>5, <1>7, <3>3
        <4>2. i - m < j - m
          BY <1>4, <1>15
        <4>3. w[i - m].key <= w[j - m].key
          BY <1>6, <2>2, <3>3, <4>2
        <4> QED
          BY <1>10, <3>1, <4>1, <4>3
      <3> QED
        BY <1>13, <3>2, <3>3
    <2> QED
      BY <1>13, <2>1, <2>2
  <1> QED
    BY <1>9, <1>12, <1>14, <1>15 DEF OrderInv

\* Whatever the delays and however the wall clock is stepped back: a packet overtakes
\* another only in mm-delay, and only if it was due no later (packetshell.cc 168-199, the
\* loop of the ferry; delay_queue.cc 40-58, the heap and what leaves it).
THEOREM PacketsLeaveInOrder ==
    ASSUME FerryAssumption
    PROVE  Init /\ [][Next]_vars => []LeaveInOrder
  <1>1. Init => OrderInv
    <2> SUFFICES ASSUME Init PROVE OrderInv
      OBVIOUS
    <2>1. sent = <<>>
      BY DEF Init
    <2> QED
      BY <2>1 DEF OrderInv
  <1>2. BaseInv /\ OrderInv /\ [Next]_vars => OrderInv'
    BY LoopIsTyped, EnvironmentIsTyped, OrderRests, OrderWhenRead, OrderWhenWritten
    DEF Next, Loop
  <1>3. BaseInv /\ OrderInv => LeaveInOrder
    <2> SUFFICES ASSUME BaseInv, OrderInv PROVE LeaveInOrder
      OBVIOUS
    <2>1. DOMAIN sent = 1 .. Len(sent)
      BY DEF BaseInv, TypeInv
    <2> QED
      BY <2>1 DEF OrderInv, MayLeadTo, LeaveInOrder
  <1> QED
    BY <1>1, <1>2, <1>3, BaseInvariant, PTL

-----------------------------------------------------------------------------
(* The poller never calls back in vain                                      *)

\* Until the clock is stepped back, a packet for which the ferry has asked for the
\* sibling is due, and stays due until the sibling is served.
IsDue == ~passthrough /\ \E p \in queue.packet_queue : Due(setup, p, now)

BusyInv ==
    steps = 0 => /\ loop # "thrown"
                 /\ loop \in {"poll", "serve"} /\ 2 \in report.revents => IsDue

LEMMA DueRests ==
    ASSUME BaseInv, PacketsRest, now' \in Nat, now <= now', passthrough' => passthrough, IsDue
    PROVE  IsDue'
  <1>1. PICK p \in queue.packet_queue : Due(setup, p, now)
    BY DEF IsDue
  <1>2. queue.packet_queue \in SUBSET Packets /\ now \in Nat
    BY DEF BaseInv, TypeInv, Queues
  <1>3. p.key \in Nat
    BY <1>2 DEF Packets
  <1>4. Due(setup', p, now')
    BY <1>1, <1>2, <1>3 DEF Due, PacketsRest
  <1>5. passthrough = FALSE /\ passthrough' = FALSE
    BY DEF IsDue, BaseInv, TypeInv
  <1> QED
    BY <1>4, <1>5 DEF IsDue, PacketsRest

LEMMA LoopIsBusy ==
    ASSUME FerryAssumption, BaseInv, BusyInv, Loop
    PROVE  BusyInv'
  <1>0. steps' = steps /\ now' = now /\ now \in Nat /\ now <= now'
    BY DEF Loop, WaitTime, PollBegins, PollReturns, ReadTun, WriteSibling, ReadSignal, PollEnds,
           BaseInv, TypeInv
  <1>1. CASE WaitTime \/ PollEnds
    BY <1>1 DEF BusyInv, WaitTime, PollEnds
  <1>2. CASE PollBegins
    <2>1. report'.revents = Events(actions) /\ loop' = "poll"
      BY <1>2 DEF PollBegins, Report
    <2>2. 2 \in report'.revents => IsDue
      <3>1. queue \in Queues /\ now \in Int
        BY DEF BaseInv, TypeInv
      <3>2. 2 \in report'.revents <=> (~passthrough /\ pending_output(setup, queue, now))
        BY <2>1, EventsOfFerry
      <3> QED
        BY <3>1, <3>2, PendingOutput DEF IsDue
    <2>3. IsDue => IsDue'
      BY <1>0, <1>2, LoopIsTyped, DueRests DEF PollBegins
    <2> QED
      BY <2>1, <2>2, <2>3 DEF BusyInv
  <1>3. CASE PollReturns
    <2>1. report'.revents \subseteq report.revents /\ loop = "poll" /\ loop' # "thrown"
      BY <1>3 DEF PollReturns, Report, Ready
    <2>2. IsDue => IsDue'
      BY <1>0, <1>3, LoopIsTyped, DueRests DEF PollReturns
    <2> QED
      BY <1>0, <2>1, <2>2 DEF BusyInv
  <1>4. CASE ReadSignal
    <2>1. /\ report'.revents \subseteq report.revents /\ loop = "serve" /\ loop' # "thrown"
          /\ passthrough' => passthrough
      <3>1. Serve(3) /\ 3 \in 1 .. 3 /\ TypeInv
        BY <1>4 DEF ReadSignal, BaseInv
      <3>2. report'.revents = report.revents \ {3} /\ loop = "serve"
        BY <3>1, ServedOnce
      <3>3. loop' # "thrown" /\ (passthrough' => passthrough)
        BY <1>4 DEF ReadSignal
      <3> QED
        BY <3>2, <3>3
    <2>2. IsDue => IsDue'
      BY <1>0, <1>4, <2>1, LoopIsTyped, DueRests
    <2> QED
      BY <1>0, <2>1, <2>2 DEF BusyInv
  <1>5. CASE ReadTun
    <2>1. /\ report'.revents \subseteq report.revents /\ loop = "serve"
          /\ setup' = setup /\ queue.packet_queue \subseteq queue'.packet_queue
      BY <1>5, WhatReadTunDoes, AfterReadTun DEF BaseInv
    <2>2. loop' = loop /\ passthrough' = passthrough
      BY <1>5 DEF ReadTun
    <2>3. IsDue => IsDue'
      BY <1>0, <2>1, <2>2 DEF IsDue
    <2> QED
      BY <1>0, <2>1, <2>2, <2>3 DEF BusyInv
  <1>6. CASE WriteSibling
    <2>1. /\ loop = "serve" /\ 2 \in report.revents
          /\ report'.revents = report.revents \ {2}
          /\ \E w \in Writes(setup, queue, now) :
                loop' = IF w = <<>> THEN "thrown" ELSE "serve"
      BY <1>6, WhatWriteSiblingDoes DEF BaseInv
    <2>2. PICK w \in Writes(setup, queue, now) :
              loop' = IF w = <<>> THEN "thrown" ELSE "serve"
      BY <2>1
    <2>3. IsDue => w # <<>>
      <3>1. queue \in Queues /\ now \in Int
        BY DEF BaseInv, TypeInv
      <3>2. pending_output(setup, queue, now) => w # <<>>
        BY <2>2, <3>1, WhatIsWritten
      <3> QED
        BY <3>1, <3>2, PendingOutput DEF IsDue
    <2> QED
      BY <1>0, <2>1, <2>2, <2>3 DEF BusyInv
  <1> QED
    BY <1>1, <1>2, <1>3, <1>4, <1>5, <1>6 DEF Loop

LEMMA EnvironmentIsBusy ==
    ASSUME FerryAssumption, BaseInv, BusyInv,
           \/ Tick \/ StepBack \/ Arrive
           \/ Signal("SIGUSR1") \/ Signal("SIGTERM") \/ UNCHANGED vars
    PROVE  BusyInv'
  <1>1. CASE StepBack
    <2>1. steps' # 0
      BY <1>1 DEF StepBack, BaseInv, TypeInv
    <2> QED
      BY <2>1 DEF BusyInv
  <1>2. CASE Tick \/ Arrive \/ Signal("SIGUSR1") \/ Signal("SIGTERM") \/ UNCHANGED vars
    <2>1. UNCHANGED <<passthrough, loop, report, steps>>
      BY <1>2 DEF Tick, Arrive, Signal, vars
    <2>2. now' \in Nat /\ now <= now'
      <3>1. CASE Tick
        <4>1. now \in Nat /\ now <= MaxTime /\ MaxTime \in Nat /\ now' = Min({now + 1, MaxTime})
          BY <3>1, SetupFacts DEF Tick, BaseInv, TypeInv
        <4>2. now' = IF now + 1 <= MaxTime THEN now + 1 ELSE MaxTime
          BY <4>1, MinOfTwo
        <4> QED
          BY <4>1, <4>2
      <3>2. CASE Arrive \/ Signal("SIGUSR1") \/ Signal("SIGTERM") \/ UNCHANGED vars
        BY <3>2 DEF Arrive, Signal, vars, BaseInv, TypeInv
      <3> QED
        BY <1>2, <3>1, <3>2
    <2>3. IsDue => IsDue'
      BY <1>2, <2>1, <2>2, EnvironmentIsTyped, DueRests
    <2> QED
      BY <2>1, <2>3 DEF BusyInv
  <1> QED
    BY <1>1, <1>2

\* As long as the wall clock is not stepped back the sibling is called only when a packet
\* can leave, at that moment and not just when the poll began: the check of the poller
\* that a callback has used its descriptor never fails (poller.cc 55-75, packetshell.cc
\* 183-189, delay_queue.cc 51-58 and delay_queue.hh 37).
THEOREM NoCallIsInVain ==
    ASSUME FerryAssumption
    PROVE  Init /\ [][Next]_vars => []NoBusyWait
  <1>1. Init => BusyInv
    BY DEF Init, BusyInv, NoReport, Report
  <1>2. BaseInv /\ BusyInv /\ [Next]_vars => BusyInv'
    BY LoopIsBusy, EnvironmentIsBusy DEF Next
  <1>3. BusyInv => NoBusyWait
    BY DEF BusyInv, NoBusyWait
  <1> QED
    BY <1>1, <1>2, <1>3, BaseInvariant, PTL

-----------------------------------------------------------------------------
(* The times at which packets leave                                         *)

\* What a prompt ferry keeps until the clock is stepped back: what awaits a read has just
\* arrived, nothing in the queue is overdue, the ferry does not sleep beyond the release
\* of a packet, and what was sent left when it was due.
DueIn(p, t) ==
    /\ t <= known[p.id].due /\ known[p.id].at <= known[p.id].due
    /\ setup.kind # "delay" => known[p.id].due <= t

WakesFor(p) ==
    IF setup.kind = "delay" THEN now + timeout <= known[p.id].due ELSE timeout = 0

LeftInTime(s) == s.time = known[s.id].due /\ known[s.id].at <= known[s.id].due

PromptInv ==
    setup.prompt /\ steps = 0 =>
        /\ \A i \in 1 .. Len(tun) : tun[i].time = now
        /\ \A p \in queue.packet_queue : DueIn(p, now)
        /\ loop \in {"events", "poll"} => \A p \in queue.packet_queue : WakesFor(p)
        /\ \A i \in 1 .. Len(sent) : LeftInTime(sent[i])

LEMMA EntriesAreNumbers ==
    ASSUME BaseInv
    PROVE  /\ \A id \in 1 .. Len(known) : known[id].due \in Nat /\ known[id].at \in Nat
           /\ \A p \in queue.packet_queue : /\ p.id \in 1 .. Len(known)
                                            /\ setup.kind = "delay" => p.key = known[p.id].due
           /\ \A i \in 1 .. Len(sent) : sent[i].id \in 1 .. Len(known)
  <1>1. \A id \in 1 .. Len(known) : known[id] \in Entries
    BY ElementOfSeq DEF BaseInv, TypeInv
  <1> QED
    BY <1>1 DEF Entries, BaseInv, FlowInv, KeyOf

\* The steps that change neither a packet nor the clock.
LEMMA PromptRests ==
    ASSUME BaseInv, PromptInv, PacketsRest, UNCHANGED <<now, tun, steps>>,
           \/ loop' \notin {"events", "poll"}
           \/ loop \in {"events", "poll"} /\ timeout' = timeout
    PROVE  PromptInv'
  <1>1. \A p : (DueIn(p, now)' <=> DueIn(p, now))
    BY DEF DueIn, PacketsRest
  <1>2. \A s : (LeftInTime(s)' <=> LeftInTime(s))
    BY DEF LeftInTime, PacketsRest
  <1>3. timeout' = timeout => \A p : (WakesFor(p)' <=> WakesFor(p))
    BY DEF WakesFor, PacketsRest
  <1> QED
    BY <1>1, <1>2, <1>3 DEF PromptInv, PacketsRest

\* The ferry asks its queue how long it may sleep.
LEMMA PromptWhenWaiting ==
    ASSUME FerryAssumption, BaseInv, PromptInv, WaitTime
    PROVE  PromptInv'
  <1> SUFFICES ASSUME setup.prompt, steps = 0
               PROVE  PromptInv'
    BY DEF PromptInv, WaitTime
  <1>1. PacketsRest /\ UNCHANGED <<setup, now, tun, known, sent, steps>>
    BY LoopIsTyped DEF WaitTime
  <1>2. \A p \in queue.packet_queue :
            IF setup.kind = "delay" THEN p.key >= now => now + timeout' <= p.key
            ELSE timeout' = 0
    BY WhatWaitTimeDoes DEF BaseInv
  <1>3. \A p \in queue.packet_queue : WakesFor(p)'
    <2> SUFFICES ASSUME NEW p \in queue.packet_queue PROVE WakesFor(p)'
      BY Zenon
    <2>1. DueIn(p, now) /\ p.id \in 1 .. Len(known) /\ known[p.id].due \in Nat /\ now \in Nat
      BY EntriesAreNumbers DEF PromptInv, BaseInv, TypeInv
    <2>2. CASE setup.kind = "delay"
      <3>1. p.key = known[p.id].due
        BY <2>2, EntriesAreNumbers
      <3> QED
        BY <1>1, <1>2, <2>1, <2>2, <3>1 DEF WakesFor, DueIn
    <2>3. CASE setup.kind # "delay"
      BY <1>1, <1>2, <2>3 DEF WakesFor
    <2> QED
      BY <2>2, <2>3
  <1>4. \A p : (DueIn(p, now)' <=> DueIn(p, now))
    BY <1>1 DEF DueIn
  <1>5. \A s : (LeftInTime(s)' <=> LeftInTime(s))
    BY <1>1 DEF LeftInTime
  <1> QED
    BY <1>1, <1>3, <1>4, <1>5 DEF PromptInv, PacketsRest

\* A prompt ferry lets time pass only asleep, when it has read all that had arrived.
LEMMA PromptWhenTicking ==
    ASSUME FerryAssumption, BaseInv, PromptInv, Tick
    PROVE  PromptInv'
  <1> SUFFICES ASSUME setup.prompt, steps = 0
               PROVE  PromptInv'
    BY DEF PromptInv, Tick
  <1>1. /\ loop = "poll" /\ timeout > 0 /\ Ready = {}
        /\ now' = Min({now + 1, MaxTime}) /\ timeout' = Max({0, timeout - 1})
        /\ UNCHANGED <<setup, tun, queue, loop, known, sent, steps>>
    BY DEF Tick, Sleeps
  <1>2. now \in Nat /\ MaxTime \in Nat /\ timeout \in Nat /\ now <= MaxTime
    BY SetupFacts DEF BaseInv, TypeInv
  <1>3. now' \in {now, now + 1}
    <2>1. now' = IF now + 1 <= MaxTime THEN now + 1 ELSE MaxTime
      BY <1>1, <1>2, MinOfTwo
    <2> QED
      BY <1>2, <2>1
  <1>4. timeout' = timeout - 1
    <2>1. timeout' = IF 0 >= timeout - 1 THEN 0 ELSE timeout - 1
      BY <1>1, <1>2, MaxOfTwo
    <2> QED
      BY <1>1, <1>2, <2>1
  <1>5. tun = <<>>
    <2>1. 1 \in report.revents
      BY <1>1 DEF BaseInv, ReportInv
    <2> QED
      BY <1>1, <2>1 DEF Ready
  <1>6. ASSUME NEW p \in queue.packet_queue
        PROVE  DueIn(p, now)' /\ WakesFor(p)'
    <2>1. DueIn(p, now) /\ WakesFor(p) /\ known[p.id].due \in Nat
      BY <1>1, EntriesAreNumbers DEF PromptInv
    <2>2. setup.kind = "delay" /\ now + timeout <= known[p.id].due
      BY <1>1, <2>1 DEF WakesFor
    <2>3. now' <= known[p.id].due /\ now' + timeout' <= known[p.id].due
      BY <1>1, <1>2, <1>3, <1>4, <2>1, <2>2
    <2> QED
      BY <1>1, <2>1, <2>2, <2>3 DEF DueIn, WakesFor
  <1>7. \A s : (LeftInTime(s)' <=> LeftInTime(s))
    BY <1>1 DEF LeftInTime
  <1>8. 1 .. Len(tun') = {}
    BY <1>1, <1>5
  <1>9. \A i \in 1 .. Len(sent') : LeftInTime(sent[i])'
    <2>1. \A i \in 1 .. Len(sent) : LeftInTime(sent[i])
      BY DEF PromptInv
    <2> QED
      BY <1>1, <2>1 DEF LeftInTime
  <1>10. \A p \in queue'.packet_queue : DueIn(p, now)' /\ WakesFor(p)'
    BY <1>1, <1>6
  <1> QED
    BY <1>8, <1>9, <1>10 DEF PromptInv

LEMMA PromptWhenArriving ==
    ASSUME FerryAssumption, BaseInv, PromptInv, Arrive
    PROVE  PromptInv'
  <1>1. PacketsRest /\ UNCHANGED <<setup, now, queue, loop, timeout, known, sent, steps>>
    BY EnvironmentIsTyped DEF Arrive
  <1>2. \A p : (DueIn(p, now)' <=> DueIn(p, now))
    BY <1>1 DEF DueIn
  <1>3. \A s : (LeftInTime(s)' <=> LeftInTime(s))
    BY <1>1 DEF LeftInTime
  <1>4. \A p : (WakesFor(p)' <=> WakesFor(p))
    BY <1>1 DEF WakesFor
  <1> DEFINE p == [id |-> arrived + 1, time |-> now]
  <1>5. p \in Stamped /\ tun' = Append(tun, p) /\ p.time = now
    BY DEF Arrive, Stamped, BaseInv, TypeInv
  <1> HIDE DEF p
  <1>6. /\ Len(tun) \in Nat /\ Len(tun') = Len(tun) + 1
        /\ tun'[Len(tun) + 1] = p
        /\ \A i \in 1 .. Len(tun) : tun'[i] = tun[i]
    BY <1>5, AppendProperties, LenProperties DEF BaseInv, TypeInv
  <1>7. ASSUME \A i \in 1 .. Len(tun) : tun[i].time = now
        PROVE  \A i \in 1 .. Len(tun') : tun'[i].time = now
    <2>1. \A i \in 1 .. Len(tun') : i \in 1 .. Len(tun) \/ i = Len(tun) + 1
      BY <1>6
    <2> QED
      BY <1>5, <1>6, <1>7, <2>1
  <1> QED
    BY <1>1, <1>2, <1>3, <1>4, <1>7 DEF PromptInv

\* What is read has just arrived, and is due now or later.
LEMMA PromptWhenReading ==
    ASSUME FerryAssumption, BaseInv, PromptInv, ReadTun
    PROVE  PromptInv'
  <1> SUFFICES ASSUME setup.prompt, steps = 0
               PROVE  PromptInv'
    BY DEF PromptInv, ReadTun
  <1>1. PICK n : n = Len(known) + 1
    OBVIOUS
  <1>2. PICK m : m = Len(sent)
    OBVIOUS
  <1>3. /\ n \in Nat /\ setup' = setup /\ now' = now
        /\ known'[n].at = Head(tun).time
        /\ \A id \in 1 .. Len(known) : known'[id] = known[id]
        /\ \A p \in queue'.packet_queue : p \in queue.packet_queue \/ p.id = n
        /\ \/ /\ passthrough /\ queue' = queue /\ known'[n].due = now
              /\ sent' = Append(sent, [id |-> n, time |-> now])
           \/ /\ ~passthrough /\ sent' = sent
              /\ known'[n].due = IF setup.kind = "delay" THEN now + delay(setup, now) ELSE now
    BY <1>1, AfterReadTun
  <1>4. /\ loop' = "serve" /\ steps' = steps /\ tun' = Tail(tun) /\ tun # <<>> /\ now \in Nat
        /\ m \in Nat
    BY <1>2, WhatReadTunDoes, LenProperties DEF ReadTun, BaseInv, TypeInv
  <1>5. /\ Len(tun) \in Nat /\ Len(tun) >= 1 /\ Head(tun) = tun[1]
        /\ Len(tun') = Len(tun) - 1 /\ \A i \in 1 .. Len(tun') : tun'[i] = tun[i + 1]
    <2>1. tun \in Seq(Stamped)
      BY DEF BaseInv, TypeInv
    <2>2. Len(tun) \in Nat /\ Len(tun) >= 1 /\ Head(tun) = tun[1]
      BY <1>4, <2>1, LenProperties, EmptySeq
    <2>3. /\ Len(Tail(tun)) = Len(tun) - 1
          /\ \A i \in 1 .. Len(Tail(tun)) : Tail(tun)[i] = tun[i + 1]
      BY <1>4, <2>1, HeadTailProperties
    <2> QED
      BY <1>4, <2>2, <2>3
  <1>6. \A i \in 1 .. Len(tun) : tun[i].time = now
    BY DEF PromptInv
  <1>7. \A i \in 1 .. Len(tun') : tun'[i].time = now'
    <2>1. \A i \in 1 .. Len(tun') : i + 1 \in 1 .. Len(tun)
      BY <1>5
    <2> QED
      BY <1>3, <1>5, <1>6, <2>1
  <1>8. /\ known'[n].at = now /\ now <= known'[n].due
        /\ setup.kind # "delay" => known'[n].due = now
    <2>1. known'[n].at = now
      BY <1>3, <1>5, <1>6
    <2>2. setup.kind = "delay" => delay(setup, now) \in Nat
      BY <1>4, DelayIsNat DEF BaseInv, TypeInv
    <2> QED
      BY <1>3, <1>4, <2>1, <2>2
  <1>9. ASSUME NEW p \in queue'.packet_queue PROVE DueIn(p, now)'
    <2>1. CASE p \in queue.packet_queue
      <3>1. DueIn(p, now) /\ p.id \in 1 .. Len(known)
        BY <2>1, EntriesAreNumbers DEF PromptInv
      <3> QED
        BY <1>3, <3>1 DEF DueIn
    <2>2. CASE p.id = n
      BY <1>3, <1>4, <1>8, <2>2 DEF DueIn
    <2> QED
      BY <1>3, <2>1, <2>2
  <1>10. \A i \in 1 .. Len(sent') : LeftInTime(sent[i])'
    <2>1. \A i \in 1 .. m : LeftInTime(sent[i]) /\ sent[i].id \in 1 .. Len(known)
      BY <1>2, EntriesAreNumbers DEF PromptInv
    <2>2. CASE sent' = sent
      BY <1>2, <1>3, <2>1, <2>2 DEF LeftInTime
    <2>3. CASE known'[n].due = now /\ sent' = Append(sent, [id |-> n, time |-> now])
      <3> DEFINE s == [id |-> n, time |-> now]
      <3>1. s \in Stamped /\ s.id = n /\ s.time = now
        BY <1>3, <1>4 DEF Stamped
      <3> HIDE DEF s
      <3>2. /\ Len(sent') = m + 1 /\ sent'[m + 1] = s
            /\ \A i \in 1 .. m : sent'[i] = sent[i]
        BY <1>2, <2>3, <3>1, AppendProperties DEF BaseInv, TypeInv, s
      <3>3. \A i \in 1 .. m + 1 : i \in 1 .. m \/ i = m + 1
        BY <1>4
      <3> QED
        BY <1>3, <1>4, <1>8, <2>1, <2>3, <3>1, <3>2, <3>3 DEF LeftInTime
    <2> QED
      BY <1>3, <2>2, <2>3
  <1> QED
    BY <1>4, <1>7, <1>9, <1>10 DEF PromptInv

\* What is written is due, and not overdue.
LEMMA PromptWhenWriting ==
    ASSUME FerryAssumption, BaseInv, PromptInv, WriteSibling
    PROVE  PromptInv'
  <1> SUFFICES ASSUME setup.prompt, steps = 0
               PROVE  PromptInv'
    BY DEF PromptInv, WriteSibling
  <1>1. PICK w \in Writes(setup, queue, now) :
            /\ w \in Seq(queue.packet_queue) /\ Len(w) \in Nat
            /\ Len(sent') = Len(sent) + Len(w)
            /\ \A i \in 1 .. Len(sent) : sent'[i] = sent[i]
            /\ \A i \in 1 .. Len(w) :
                  sent'[Len(sent) + i] = [id |-> w[i].id, time |-> now]
            /\ queue' = without(queue, {w[i] : i \in 1 .. Len(w)})
            /\ loop' = IF w = <<>> THEN "thrown" ELSE "serve"
    BY WhatWriteSiblingDoes DEF BaseInv
  <1>2. PICK m : m = Len(sent)
    OBVIOUS
  <1>3. PICK n : n = Len(w)
    OBVIOUS
  <1>4. m \in Nat /\ n \in Nat /\ queue \in Queues /\ now \in Nat
    BY <1>1, <1>2, <1>3, LenProperties DEF BaseInv, TypeInv
  <1>5. UNCHANGED <<setup, now, tun, known, steps>>
    BY DEF WriteSibling
  <1>6. loop' \notin {"events", "poll"}
    BY <1>1
  <1>7. queue'.packet_queue \subseteq queue.packet_queue
    BY <1>1, <1>4, WithoutTyped
  <1>8. ASSUME NEW i \in 1 .. n PROVE LeftInTime([id |-> w[i].id, time |-> now])
    <2>1. w[i] \in queue.packet_queue
      BY <1>1, <1>3, ElementOfSeq
    <2>2. Due(setup, w[i], now)
      <3>0. now \in Int
        BY <1>4
      <3>1. \A j \in 1 .. Len(w) : Due(setup, w[j], now)
        BY <1>4, <3>0, WhatIsWritten, Zenon
      <3> QED
        BY <1>3, <3>1
    <2>3. DueIn(w[i], now) /\ known[w[i].id].due \in Nat
      BY <2>1, EntriesAreNumbers DEF PromptInv
    <2>4. known[w[i].id].due <= now
      <3>1. setup.kind = "delay" => w[i].key = known[w[i].id].due
        BY <2>1, EntriesAreNumbers
      <3> QED
        BY <2>2, <2>3, <3>1 DEF Due, DueIn
    <2>5. now = known[w[i].id].due /\ known[w[i].id].at <= known[w[i].id].due
      BY <1>4, <2>3, <2>4 DEF DueIn
    <2> QED
      BY <2>5 DEF LeftInTime
  <1>9. \A i \in 1 .. n : sent'[m + i] = [id |-> w[i].id, time |-> now]
    BY <1>1, <1>2, <1>3, Zenon
  <1>10. \A s : (LeftInTime(s)' <=> LeftInTime(s))
    BY <1>5 DEF LeftInTime
  <1>11. ASSUME NEW i \in 1 .. m + n PROVE LeftInTime(sent[i])'
    <2>1. i \in 1 .. m \/ (i - m \in 1 .. n /\ i = m + (i - m))
      BY <1>4
    <2>2. CASE i \in 1 .. m
      <3>1. LeftInTime(sent[i]) /\ sent'[i] = sent[i]
        BY <1>1, <1>2, <2>2 DEF PromptInv
      <3> QED
        BY <1>5, <3>1 DEF LeftInTime
    <2>3. CASE i - m \in 1 .. n /\ i = m + (i - m)
      <3>1. PICK s : s = [id |-> w[i - m].id, time |-> now]
        OBVIOUS
      <3>2. sent'[i] = s /\ LeftInTime(s)
        BY <1>8, <1>9, <2>3, <3>1, Zenon
      <3> QED
        BY <1>5, <3>2 DEF LeftInTime
    <2> QED
      BY <2>1, <2>2, <2>3
  <1>12. Len(sent') = m + n
    BY <1>1, <1>2, <1>3
  <1>13. \A p \in queue'.packet_queue : DueIn(p, now)'
    BY <1>5, <1>7 DEF PromptInv, DueIn
  <1>14. \A i \in 1 .. Len(tun') : tun'[i].time = now'
    BY <1>5 DEF PromptInv
  <1> QED
    BY <1>6, <1>11, <1>12, <1>13, <1>14 DEF PromptInv

LEMMA PromptInvInit ==
    ASSUME Init
    PROVE  PromptInv
  <1>1. sent = <<>> /\ tun = <<>> /\ loop = "wait_time" /\ queue = NewQueue(now)
    BY DEF Init
  <1>2. queue.packet_queue = {} /\ Len(sent) = 0 /\ Len(tun) = 0
    BY <1>1 DEF NewQueue
  <1> QED
    BY <1>1, <1>2 DEF PromptInv

LEMMA PromptInvNext ==
    ASSUME FerryAssumption, BaseInv, PromptInv, [Next]_vars
    PROVE  PromptInv'
  <1>1. CASE PollBegins \/ PollReturns \/ ReadSignal \/ PollEnds
    <2>1. PacketsRest /\ UNCHANGED <<now, tun, steps>>
      BY <1>1, LoopIsTyped DEF PollBegins, PollReturns, ReadSignal, PollEnds
    <2>2. \/ loop' \notin {"events", "poll"}
          \/ loop \in {"events", "poll"} /\ timeout' = timeout
      BY <1>1 DEF PollBegins, PollReturns, ReadSignal, PollEnds
    <2> QED
      BY <2>1, <2>2, PromptRests
  <1>2. CASE Signal("SIGUSR1") \/ Signal("SIGTERM") \/ UNCHANGED vars
    <2>1. PacketsRest /\ UNCHANGED <<now, tun, steps, loop, timeout>>
      BY <1>2, EnvironmentIsTyped DEF Signal, vars
    <2> QED
      BY <2>1, PromptRests
  <1>3. CASE StepBack
    <2>1. steps' # 0
      BY <1>3 DEF StepBack, BaseInv, TypeInv
    <2> QED
      BY <2>1 DEF PromptInv
  <1> QED
    BY <1>1, <1>2, <1>3, PromptWhenWaiting, PromptWhenTicking, PromptWhenArriving,
       PromptWhenReading, PromptWhenWriting DEF Next, Loop

\* Whatever the trace of delays: from a ferry that is scheduled promptly, and as long as
\* the wall clock is not stepped back, each packet leaves in the millisecond in which it
\* is due, or has arrived if that is later (delay_queue.cc 51-73; packetshell.cc 168-199).
THEOREM PacketsLeaveOnTime ==
    ASSUME FerryAssumption
    PROVE  Init /\ [][Next]_vars => []LeaveOnTime
  <1>1. Init => PromptInv
    BY PromptInvInit
  <1>2. BaseInv /\ PromptInv /\ [Next]_vars => PromptInv'
    BY PromptInvNext
  <1>3. BaseInv /\ PromptInv => LeaveOnTime
    <2> SUFFICES ASSUME BaseInv, PromptInv, setup.prompt, steps = 0,
                        NEW i \in DOMAIN sent
                 PROVE  sent[i].time = Max({known[sent[i].id].due, known[sent[i].id].at})
      BY DEF LeaveOnTime
    <2>1. i \in 1 .. Len(sent)
      BY DEF BaseInv, TypeInv
    <2>2. /\ LeftInTime(sent[i])
          /\ known[sent[i].id].due \in Nat /\ known[sent[i].id].at \in Nat
      BY <2>1, EntriesAreNumbers DEF PromptInv
    <2> QED
      BY <2>2, MaxOfTwo DEF LeftInTime
  <1> QED
    BY <1>1, <1>2, <1>3, BaseInvariant, PTL

-----------------------------------------------------------------------------
(* A link that switches periodically                                        *)

\* At t the link is in its phase: it was switched on at a multiple of the period, or off
\* when it had been on for a, and switches next when that phase ends.  A link that has
\* not been on yet is due to switch at 0.
InPhase(q, t, a, period) ==
    IF q.link_is_on THEN \E k \in Nat : k * period <= t /\ q.next_switch_time = k * period + a
    ELSE \/ q.next_switch_time = 0
         \/ \E k \in Nat : k * period + a <= t /\ q.next_switch_time = k * period + period

\* It is not in a phase that takes no time.
LongPhase(q, a, period) ==
    IF q.link_is_on THEN a > 0 ELSE q.next_switch_time = 0 \/ a < period

LEMMA Multiples ==
    ASSUME NEW k \in Nat, NEW period \in Nat
    PROVE  k * period \in Nat /\ (k + 1) * period = k * period + period /\ 0 * period = 0
  <1>1. \A x, y \in Nat : x * y \in Nat
    BY SMT
  <1>2. (k + 1) * period = k * period + period
    BY SMT
  <1>3. 0 * period = 0
    BY SMT
  <1> QED
    BY <1>1, <1>2, <1>3

\* wait_time leaves a link in its phase.
LEMMA SwitchedInPhase ==
    ASSUME FerryAssumption, NEW s \in Setups, s.kind = "switch", NEW a \in Nat, NEW b \in Nat,
           s.on_times = {a}, s.off_times = {b}, NEW t \in Nat,
           NEW q \in Queues, InPhase(q, t, a, a + b), NEW r \in Switched(s, q, t)
    PROVE  /\ r \in Queues /\ InPhase(r, t, a, a + b) /\ LongPhase(r, a, a + b)
           /\ r.next_switch_time > t
  <1> DEFINE period == a + b
             G == {p \in Queues : InPhase(p, t, a, period)}
  <1>0. period \in Nat /\ a <= period
    OBVIOUS
  <1>1. ASSUME NEW p \in G, p.next_switch_time <= t, NEW o \in Switch(s, p)
        PROVE  o \in G
    <2>1. /\ o \in Queues /\ o.link_is_on = ~p.link_is_on
          /\ \E d \in IF o.link_is_on THEN s.on_times ELSE s.off_times :
                d \in Nat /\ o.next_switch_time = p.next_switch_time + d
      BY SwitchKeeps
    <2>2. p.link_is_on \in BOOLEAN /\ p.next_switch_time \in Nat
      BY DEF Queues
    <2>3. InPhase(p, t, a, period)
      OBVIOUS
    <2> HIDE DEF period, G
    <2>4. CASE p.link_is_on
      <3>1. PICK k \in Nat : k * period <= t /\ p.next_switch_time = k * period + a
        BY <2>3, <2>4 DEF InPhase
      <3>2. ~o.link_is_on /\ o.next_switch_time = (k * period + a) + b
        BY <2>1, <2>4, <3>1
      <3>3. k * period \in Nat
        BY <1>0, Multiples
      <3>4. o.next_switch_time = k * period + period /\ k * period + a <= t
        BY <1>1, <3>1, <3>2, <3>3 DEF period
      <3>5. InPhase(o, t, a, period)
        BY <3>2, <3>4 DEF InPhase
      <3> QED
        BY <2>1, <3>5 DEF G
    <2>5. CASE ~p.link_is_on
      <3>1. o.link_is_on /\ o.next_switch_time = p.next_switch_time + a
        BY <2>1, <2>5
      <3>2. PICK k \in Nat : p.next_switch_time = k * period
        <4>1. CASE p.next_switch_time = 0
          <5>1. 0 * period = 0
            BY <1>0, Multiples
          <5> QED
            BY <4>1, <5>1
        <4>2. ASSUME NEW k \in Nat, p.next_switch_time = k * period + period
              PROVE  \E j \in Nat : p.next_switch_time = j * period
          <5>1. (k + 1) * period = k * period + period /\ k + 1 \in Nat
            BY <1>0, Multiples
          <5> QED
            BY <4>2, <5>1
        <4> QED
          BY <2>3, <2>5, <4>1, <4>2 DEF InPhase
      <3>3. InPhase(o, t, a, period)
        BY <1>1, <3>1, <3>2 DEF InPhase
      <3> QED
        BY <2>1, <3>3 DEF G
    <2> QED
      BY <2>2, <2>4, <2>5
  <1>2. G \in SUBSET Queues /\ q \in G
    OBVIOUS
  <1>3. \A p \in G : p.next_switch_time <= t => Switch(s, p) \subseteq G
    <2> HIDE DEF G
    <2> QED
      BY <1>1
  <1>4. r \in G /\ r.next_switch_time > t
    <2> HIDE DEF G
    <2> QED
      BY <1>2, <1>3, SwitchesStayIn
  <1>5. r \in Queues /\ InPhase(r, t, a, period) /\ r.next_switch_time > t
    BY <1>4
  <1> HIDE DEF G, period
  <1>6. LongPhase(r, a, period)
    <2>1. CASE r.link_is_on
      <3>1. PICK k \in Nat : k * period <= t /\ r.next_switch_time = k * period + a
        BY <1>5, <2>1 DEF InPhase
      <3>2. k * period \in Nat
        BY <1>0, Multiples
      <3> QED
        BY <1>5, <2>1, <3>1, <3>2 DEF LongPhase
    <2>2. CASE ~r.link_is_on /\ r.next_switch_time # 0
      <3>1. PICK k \in Nat : k * period + a <= t /\ r.next_switch_time = k * period + period
        BY <1>5, <2>2 DEF InPhase
      <3>2. k * period \in Nat
        BY <1>0, Multiples
      <3> QED
        BY <1>0, <1>5, <2>2, <3>1, <3>2 DEF LongPhase
    <2> QED
      BY <2>1, <2>2 DEF LongPhase
  <1> QED
    BY <1>5, <1>6 DEF period

\* A link in its phase is on or off as it should be, or was a millisecond ago.
LEMMA PhaseOfLink ==
    ASSUME NEW q \in Queues, NEW t \in Nat, NEW a \in Nat, NEW period \in Nat, a <= period,
           period > 0, InPhase(q, t, a, period), LongPhase(q, a, period),
           t <= q.next_switch_time
    PROVE  q.link_is_on \in {t % period < a, t > 0 /\ (t - 1) % period < a}
  <1>0. q.link_is_on \in BOOLEAN
    BY DEF Queues
  <1>1. CASE q.link_is_on
    <2>1. PICK k \in Nat : k * period <= t /\ q.next_switch_time = k * period + a
      BY <1>1 DEF InPhase
    <2>2. PICK x \in Nat : x = k * period
      BY Multiples
    <2>3. a > 0 /\ x <= t /\ t <= x + a
      BY <1>1, <2>1, <2>2 DEF LongPhase
    <2>4. \A r \in Nat : r < period => (x + r) % period = r
      BY <2>2, PlaceInPeriod
    <2>5. CASE t < x + a
      <3>1. t - x \in Nat /\ t - x < period /\ t = x + (t - x) /\ t - x < a
        BY <2>3, <2>5
      <3>2. t % period = t - x
        BY <2>4, <3>1
      <3>3. t % period < a
        BY <3>1, <3>2
      <3> QED
        BY <1>0, <1>1, <3>3
    <2>6. CASE t = x + a
      <3>1. a - 1 \in Nat /\ a - 1 < period /\ t - 1 = x + (a - 1) /\ t > 0 /\ a - 1 < a
        BY <2>3, <2>6
      <3>2. (t - 1) % period = a - 1
        BY <2>4, <3>1
      <3>3. t > 0 /\ (t - 1) % period < a
        BY <3>1, <3>2
      <3> QED
        BY <1>0, <1>1, <3>3
    <2> QED
      BY <2>3, <2>5, <2>6
  <1>2. CASE ~q.link_is_on /\ q.next_switch_time = 0
    <2>1. ~(t > 0)
      BY <1>2
    <2> QED
      BY <1>0, <1>2, <2>1
  <1>3. CASE ~q.link_is_on /\ q.next_switch_time # 0
    <2>1. PICK k \in Nat : k * period + a <= t /\ q.next_switch_time = k * period + period
      BY <1>3 DEF InPhase
    <2>2. PICK x \in Nat : x = k * period
      BY Multiples
    <2>3. a < period /\ x + a <= t /\ t <= x + period
      BY <1>3, <2>1, <2>2 DEF LongPhase
    <2>4. \A r \in Nat : r < period => (x + r) % period = r
      BY <2>2, PlaceInPeriod
    <2>5. CASE t < x + period
      <3>1. t - x \in Nat /\ t - x < period /\ t = x + (t - x) /\ ~(t - x < a)
        BY <2>3, <2>5
      <3>2. t % period = t - x
        BY <2>4, <3>1
      <3>3. ~(t % period < a)
        BY <3>1, <3>2
      <3> QED
        BY <1>0, <1>3, <3>3
    <2>6. CASE t = x + period
      <3>1. /\ period - 1 \in Nat /\ period - 1 < period /\ t - 1 = x + (period - 1)
            /\ ~(period - 1 < a)
        BY <2>3, <2>6
      <3>2. (t - 1) % period = period - 1
        BY <2>4, <3>1
      <3>3. ~((t - 1) % period < a)
        BY <3>1, <3>2
      <3> QED
        BY <1>0, <1>3, <3>3
    <2> QED
      BY <2>3, <2>5, <2>6
  <1> QED
    BY <1>0, <1>1, <1>2, <1>3

\* What a prompt ferry of a periodic link keeps until the clock is stepped back: the link
\* is in its phase, its next switch is not overdue and the ferry does not sleep beyond it,
\* and what was read was taken as the link was.
Steady ==
    /\ setup.kind = "switch" /\ setup.periodic /\ setup.prompt /\ ~setup.passthrough
    /\ steps = 0

On == Min(setup.on_times)
Period == Min(setup.on_times) + Min(setup.off_times)

RightlyTaken(e) == e.taken \in {OnAt(e.at), e.at > 0 /\ OnAt(e.at - 1)}

SwitchInv ==
    Steady =>
        /\ InPhase(queue, now, On, Period) /\ LongPhase(queue, On, Period)
        /\ now <= queue.next_switch_time
        /\ loop \in {"events", "poll"} => now + timeout <= queue.next_switch_time
        /\ ~passthrough
        /\ \A i \in 1 .. Len(known) : RightlyTaken(known[i])

LEMMA PeriodOfLink ==
    ASSUME FerryAssumption, setup \in Setups, setup.periodic
    PROVE  /\ On \in Nat /\ Min(setup.off_times) \in Nat
           /\ Period = On + Min(setup.off_times) /\ Period \in Nat /\ Period > 0 /\ On <= Period
           /\ setup.on_times = {On} /\ setup.off_times = {Min(setup.off_times)}
  <1>1. PICK a \in setup.on_times, b \in setup.off_times :
            setup.on_times = {a} /\ setup.off_times = {b}
    BY DEF FerryAssumption
  <1>2. a \in Nat /\ b \in Nat /\ a + b > 0
    BY <1>1 DEF FerryAssumption
  <1>3. Min({a}) \in {a} /\ Min({b}) \in {b}
    <2>1. {a} \in SUBSET Nat /\ {b} \in SUBSET Nat /\ {a} # {} /\ {b} # {}
      BY <1>2
    <2> QED
      BY <2>1, MinOfNat
  <1>4. On = a /\ Min(setup.off_times) = b
    BY <1>1, <1>3 DEF On
  <1>5. Period = On + Min(setup.off_times)
    BY DEF Period, On
  <1>6. On \in Nat /\ Period \in Nat /\ Period > 0 /\ On <= Period
    BY <1>2, <1>4, <1>5
  <1> QED
    BY <1>1, <1>2, <1>4, <1>5, <1>6

\* The steps that change neither the link nor the clock.
LEMMA SwitchRests ==
    ASSUME SwitchInv, UNCHANGED <<setup, now, steps, known>>,
           queue'.link_is_on = queue.link_is_on,
           queue'.next_switch_time = queue.next_switch_time,
           passthrough' => passthrough,
           \/ loop' \notin {"events", "poll"}
           \/ loop \in {"events", "poll"} /\ timeout' = timeout
    PROVE  SwitchInv'
  <1>1. On' = On /\ Period' = Period /\ (Steady' <=> Steady)
    BY DEF On, Period, Steady
  <1>2. \A e : (RightlyTaken(e)' <=> RightlyTaken(e))
    BY DEF RightlyTaken, OnAt
  <1>3. InPhase(queue, now, On, Period) => InPhase(queue, now, On, Period)'
    BY <1>1 DEF InPhase
  <1>4. LongPhase(queue, On, Period) => LongPhase(queue, On, Period)'
    BY <1>1 DEF LongPhase
  <1>5. (\A i \in 1 .. Len(known) : RightlyTaken(known[i]))
            => \A i \in 1 .. Len(known') : RightlyTaken(known[i])'
    BY <1>2 DEF RightlyTaken, OnAt
  <1> QED
    BY <1>1, <1>3, <1>4, <1>5 DEF SwitchInv

LEMMA SwitchWhenWaiting ==
    ASSUME FerryAssumption, BaseInv, SwitchInv, WaitTime
    PROVE  SwitchInv'
  <1>1. UNCHANGED <<setup, now, passthrough, known, steps>> /\ queue' \in Switched(setup, queue, now)
    BY DEF WaitTime
  <1>2. On' = On /\ Period' = Period /\ (Steady' <=> Steady)
    BY <1>1 DEF On, Period, Steady
  <1> SUFFICES ASSUME Steady
               PROVE  SwitchInv'
    BY <1>2 DEF SwitchInv
  <1>3. setup \in Setups /\ now \in Nat /\ queue \in Queues /\ setup.kind = "switch"
    BY DEF BaseInv, TypeInv, Steady
  <1>4. /\ On \in Nat /\ Min(setup.off_times) \in Nat
        /\ Period = On + Min(setup.off_times)
        /\ setup.on_times = {On} /\ setup.off_times = {Min(setup.off_times)}
    BY <1>3, PeriodOfLink DEF Steady
  <1>5. InPhase(queue, now, On, Period)
    BY DEF SwitchInv
  <1>6. \A q \in Switched(setup, queue, now) :
            InPhase(q, now, On, Period) /\ LongPhase(q, On, Period) /\ q.next_switch_time > now
    <2> DEFINE a == On
               b == Min(setup.off_times)
    <2>1. a \in Nat /\ b \in Nat /\ setup.on_times = {a} /\ setup.off_times = {b}
          /\ InPhase(queue, now, a, a + b) /\ Period = a + b
      BY <1>4, <1>5
    <2> HIDE DEF a, b
    <2>2. \A q \in Switched(setup, queue, now) :
              InPhase(q, now, a, a + b) /\ LongPhase(q, a, a + b) /\ q.next_switch_time > now
      BY <1>3, <2>1, SwitchedInPhase
    <2> QED
      BY <2>1, <2>2 DEF a
  <1>7. /\ InPhase(queue', now, On, Period) /\ LongPhase(queue', On, Period)
        /\ queue'.next_switch_time > now
    BY <1>1, <1>6
  <1>8. queue' \in Queues /\ now + timeout' <= queue'.next_switch_time
    BY <1>3, WhatWaitTimeDoes DEF BaseInv
  <1>9. now' <= queue'.next_switch_time
    BY <1>1, <1>3, <1>7, <1>8 DEF Queues
  <1>10. \A i \in 1 .. Len(known') : RightlyTaken(known[i])'
    <2>1. \A i \in 1 .. Len(known) : RightlyTaken(known[i])
      BY DEF SwitchInv
    <2> QED
      BY <1>1, <2>1 DEF RightlyTaken, OnAt
  <1>11. InPhase(queue, now, On, Period)' /\ LongPhase(queue, On, Period)'
    BY <1>1, <1>2, <1>7 DEF InPhase, LongPhase
  <1> QED
    BY <1>1, <1>8, <1>9, <1>10, <1>11 DEF SwitchInv

LEMMA SwitchWhenTicking ==
    ASSUME FerryAssumption, BaseInv, SwitchInv, Tick
    PROVE  SwitchInv'
  <1>1. UNCHANGED <<setup, queue, passthrough, loop, known, steps>>
    BY DEF Tick
  <1>2. On' = On /\ Period' = Period /\ (Steady' <=> Steady)
    BY <1>1 DEF On, Period, Steady
  <1> SUFFICES ASSUME Steady
               PROVE  SwitchInv'
    BY <1>2 DEF SwitchInv
  <1>3. /\ loop = "poll" /\ timeout > 0
        /\ now' = Min({now + 1, MaxTime}) /\ timeout' = Max({0, timeout - 1})
    BY DEF Tick, Sleeps, Steady
  <1>4. now \in Nat /\ MaxTime \in Nat /\ timeout \in Nat /\ now <= MaxTime /\ queue \in Queues
    BY SetupFacts DEF BaseInv, TypeInv
  <1>5. now' \in {now, now + 1}
    <2>1. now' = IF now + 1 <= MaxTime THEN now + 1 ELSE MaxTime
      BY <1>3, <1>4, MinOfTwo
    <2> QED
      BY <1>4, <2>1
  <1>6. timeout' = timeout - 1
    <2>1. timeout' = IF 0 >= timeout - 1 THEN 0 ELSE timeout - 1
      BY <1>3, <1>4, MaxOfTwo
    <2> QED
      BY <1>3, <1>4, <2>1
  <1>7. now + timeout <= queue.next_switch_time /\ queue.next_switch_time \in Nat
    BY <1>3, <1>4 DEF SwitchInv, Queues
  <1>8. now' <= queue.next_switch_time /\ now' + timeout' <= queue.next_switch_time
    BY <1>3, <1>4, <1>5, <1>6, <1>7
  <1>9. InPhase(queue, now, On, Period)'
    <2>1. InPhase(queue, now, On, Period) /\ now <= now'
      BY <1>4, <1>5 DEF SwitchInv
    <2>2. \A x \in Int : x <= now => x <= now'
      BY <1>4, <1>5
    <2>3. On \in Nat /\ Period \in Nat
      BY PeriodOfLink DEF Steady, BaseInv, TypeInv
    <2>4. \A k \in Nat : k * Period \in Int /\ k * Period + On \in Int
      BY <2>3, Multiples
    <2> QED
      BY <1>1, <1>2, <2>1, <2>2, <2>4 DEF InPhase
  <1>10. LongPhase(queue, On, Period)'
    BY <1>1, <1>2 DEF LongPhase, SwitchInv
  <1>11. \A i \in 1 .. Len(known') : RightlyTaken(known[i])'
    <2>1. \A i \in 1 .. Len(known) : RightlyTaken(known[i])
      BY DEF SwitchInv
    <2> QED
      BY <1>1, <2>1 DEF RightlyTaken, OnAt
  <1>12. ~passthrough'
    BY <1>1 DEF SwitchInv
  <1> QED
    BY <1>1, <1>8, <1>9, <1>10, <1>11, <1>12 DEF SwitchInv

\* What is read has just arrived; it is taken if the link is on now.
LEMMA SwitchWhenReading ==
    ASSUME FerryAssumption, BaseInv, PromptInv, SwitchInv, ReadTun
    PROVE  SwitchInv'
  <1>1. /\ UNCHANGED <<setup, now, passthrough, steps>> /\ loop' = "serve"
        /\ tun # <<>> /\ now \in Nat /\ queue \in Queues /\ setup \in Setups
    BY WhatReadTunDoes DEF ReadTun, BaseInv, TypeInv
  <1>2. On' = On /\ Period' = Period /\ (Steady' <=> Steady)
    BY <1>1 DEF On, Period, Steady
  <1> SUFFICES ASSUME Steady
               PROVE  SwitchInv'
    BY <1>2 DEF SwitchInv
  <1>3. PICK n : n = Len(known) + 1
    OBVIOUS
  <1>4. /\ n \in Nat /\ Len(known') = n
        /\ queue'.link_is_on = queue.link_is_on
        /\ queue'.next_switch_time = queue.next_switch_time
        /\ known'[n].at = Head(tun).time
        /\ \A id \in 1 .. Len(known) : known'[id] = known[id]
    BY <1>3, AfterReadTun
  <1>5. known'[n].taken = queue.link_is_on
    BY <1>3, AfterReadTun DEF SwitchInv, Steady
  <1>6. known'[n].at = now
    <2>1. \A i \in 1 .. Len(tun) : tun[i].time = now
      BY DEF PromptInv, Steady
    <2>2. Len(tun) \in Nat /\ Len(tun) >= 1 /\ Head(tun) = tun[1]
      BY <1>1, LenProperties, EmptySeq DEF BaseInv, TypeInv
    <2> QED
      BY <1>4, <2>1, <2>2
  <1>7. queue.link_is_on \in {now % Period < On, now > 0 /\ (now - 1) % Period < On}
    <2>1. On \in Nat /\ Period \in Nat /\ Period > 0 /\ On <= Period
      BY <1>1, PeriodOfLink DEF Steady
    <2>2. /\ InPhase(queue, now, On, Period) /\ LongPhase(queue, On, Period)
          /\ now <= queue.next_switch_time
      BY DEF SwitchInv
    <2> QED
      BY <1>1, <2>1, <2>2, PhaseOfLink
  <1>8. \A t : OnAt(t)' = (t % Period < On)
    BY <1>1 DEF OnAt, Period, On
  <1>9. known'[n].taken \in {OnAt(now), now > 0 /\ OnAt(now - 1)}
    BY <1>5, <1>7 DEF OnAt, Period, On
  <1>10. \A i \in 1 .. Len(known') : RightlyTaken(known[i])'
    <2>1. \A i \in 1 .. Len(known) : RightlyTaken(known[i])
      BY DEF SwitchInv
    <2>2. \A e : (RightlyTaken(e) <=> e.taken \in {e.at % Period < On,
                                                   e.at > 0 /\ (e.at - 1) % Period < On})
      BY DEF RightlyTaken, OnAt, Period, On
    <2>3. known'[n].taken \in {known'[n].at % Period < On,
                               known'[n].at > 0 /\ (known'[n].at - 1) % Period < On}
      BY <1>5, <1>6, <1>7
    <2>4. \A i \in 1 .. n : i \in 1 .. Len(known) \/ i = n
      BY <1>3, <1>4, LenProperties DEF BaseInv, TypeInv
    <2>5. \A i \in 1 .. n : known'[i].taken \in {known'[i].at % Period < On,
                                 known'[i].at > 0 /\ (known'[i].at - 1) % Period < On}
      BY <1>4, <2>1, <2>2, <2>3, <2>4
    <2> QED
      BY <1>1, <1>4, <2>5 DEF RightlyTaken, OnAt, Period, On
  <1>11. InPhase(queue, now, On, Period)' /\ LongPhase(queue, On, Period)'
    BY <1>1, <1>2, <1>4 DEF InPhase, LongPhase, SwitchInv
  <1>12. now' <= queue'.next_switch_time /\ ~passthrough'
    BY <1>1, <1>4 DEF SwitchInv
  <1> QED
    BY <1>1, <1>10, <1>11, <1>12 DEF SwitchInv

LEMMA SwitchInvNext ==
    ASSUME FerryAssumption, BaseInv, PromptInv, SwitchInv, [Next]_vars
    PROVE  SwitchInv'
  <1>1. CASE PollBegins \/ PollReturns \/ ReadSignal \/ PollEnds
    <2>1. UNCHANGED <<setup, now, queue, steps, known>> /\ (passthrough' => passthrough)
      <3>1. CASE ReadSignal
        BY <3>1 DEF ReadSignal
      <3>2. CASE PollBegins \/ PollReturns \/ PollEnds
        BY <3>2 DEF PollBegins, PollReturns, PollEnds
      <3> QED
        BY <1>1, <3>1, <3>2
    <2>2. CASE PollBegins
      BY <2>1, <2>2, SwitchRests DEF PollBegins
    <2>3. CASE PollReturns \/ ReadSignal \/ PollEnds
      <3>1. loop' \notin {"events", "poll"}
        BY <2>3 DEF PollReturns, ReadSignal, PollEnds
      <3> QED
        BY <2>1, <3>1, SwitchRests
    <2> QED
      BY <1>1, <2>2, <2>3
  <1>2. CASE Arrive \/ Signal("SIGUSR1") \/ Signal("SIGTERM") \/ UNCHANGED vars
    <2>1. UNCHANGED <<setup, now, queue, steps, known, loop, timeout, passthrough>>
      BY <1>2 DEF Arrive, Signal, vars
    <2> QED
      BY <2>1, SwitchRests
  <1>3. CASE StepBack
    <2>1. steps' # 0
      BY <1>3 DEF StepBack, BaseInv, TypeInv
    <2> QED
      BY <2>1 DEF SwitchInv, Steady
  <1>4. CASE WriteSibling
    <2>1. UNCHANGED <<setup, now, steps, known, passthrough>>
      BY <1>4 DEF WriteSibling
    <2>2. /\ loop' \notin {"events", "poll"}
          /\ queue'.link_is_on = queue.link_is_on
          /\ queue'.next_switch_time = queue.next_switch_time
      <3>1. TypeInv /\ queue \in Queues
        BY DEF BaseInv, TypeInv
      <3>2. PICK w \in Writes(setup, queue, now) :
                /\ queue' = without(queue, {w[i] : i \in 1 .. Len(w)})
                /\ loop' = IF w = <<>> THEN "thrown" ELSE "serve"
        BY <1>4, <3>1, WhatWriteSiblingDoes
      <3> QED
        BY <3>1, <3>2, WithoutTyped
    <2> QED
      BY <2>1, <2>2, SwitchRests
  <1> QED
    BY <1>1, <1>2, <1>3, <1>4, SwitchWhenWaiting, SwitchWhenTicking, SwitchWhenReading
    DEF Next, Loop

\* Whatever the times of the link: a packet that reaches a prompt ferry is taken exactly
\* if it arrives while the periodic link is on, up to the millisecond of a switch; no
\* phase is skipped or drifts, however late the next packet comes (loss_queue.cc 58-78 and
\* 96-104, wait_time; 15-20, read_packet).
THEOREM PacketsAreTakenWhileOn ==
    ASSUME FerryAssumption
    PROVE  Init /\ [][Next]_vars => []TakenWhileOn
  <1>1. Init => PromptInv
    BY PromptInvInit
  <1>2. Init => SwitchInv
    <2> SUFFICES ASSUME Init, Steady PROVE SwitchInv
      BY DEF SwitchInv
    <2>1. /\ queue.link_is_on = FALSE /\ queue.next_switch_time = 0 /\ now = 0
          /\ loop = "wait_time" /\ ~passthrough /\ known = <<>>
      BY DEF Init, NewQueue, Steady
    <2>2. Len(known) = 0
      BY <2>1
    <2> QED
      BY <2>1, <2>2 DEF SwitchInv, InPhase, LongPhase
  <1>3. BaseInv /\ PromptInv /\ [Next]_vars => PromptInv'
    BY PromptInvNext
  <1>4. BaseInv /\ PromptInv /\ SwitchInv /\ [Next]_vars => SwitchInv'
    BY SwitchInvNext
  <1>5. BaseInv /\ SwitchInv => TakenWhileOn
    <2> SUFFICES ASSUME BaseInv, SwitchInv, Steady, NEW i \in DOMAIN known
                 PROVE  known[i].taken \in {OnAt(known[i].at),
                                            known[i].at > 0 /\ OnAt(known[i].at - 1)}
      BY DEF TakenWhileOn, Steady
    <2>1. i \in 1 .. Len(known)
      BY DEF BaseInv, TypeInv
    <2> QED
      BY <2>1 DEF SwitchInv, RightlyTaken
  <1> QED
    BY <1>1, <1>2, <1>3, <1>4, <1>5, BaseInvariant, PTL
=============================================================================
