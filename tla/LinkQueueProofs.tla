---------------------------- MODULE LinkQueueProofs ----------------------------
(***************************************************************************)
(* What mm-link's queue keeps, for every trace, every queue type and any   *)
(* number of packets: the order of the packets, all of them as long as there*)
(* is room, the limits, and what its assertions say of the packet under way;*)
(* and that a link which looks at its trace only when it is asked sends what*)
(* one would that serves each opportunity in its millisecond (EagerLink).  *)
(* The loops are functions over the rounds; that such a function exists, and*)
(* what holds after each round, is shown by the least round for which it   *)
(* would not.                                                              *)
(***************************************************************************)
EXTENDS LinkQueue, SequenceTheorems, FiniteSetTheorems, WellFoundedInduction, TLAPS

-----------------------------------------------------------------------------
(* Induction and sequences                                                  *)

\* A set of natural numbers that is not empty has a least element.
LEMMA LeastNat ==
    ASSUME NEW S \in SUBSET Nat, S # {}
    PROVE  \E n \in S : \A k \in Nat : k < n => k \notin S
  <1> DEFINE R == OpToRel(<, Nat)
  <1>1. IsWellFoundedOn(R, Nat)
    BY NatLessThanWellFounded
  <1>2. PICK n \in S : \A k \in S : ~(<<k, n>> \in R)
    BY <1>1, WFMin, Zenon
  <1>3. ASSUME NEW k \in Nat, k < n, k \in S PROVE FALSE
    BY <1>2, <1>3, Zenon DEF OpToRel
  <1> QED
    BY <1>3

\* Induction, for a set in the place of a predicate.
LEMMA NatSet ==
    ASSUME NEW T \in SUBSET Nat, 0 \in T, \A n \in Nat : n \in T => n + 1 \in T
    PROVE  T = Nat
  <1> SUFFICES ASSUME NEW m \in Nat, m \notin T PROVE FALSE
    OBVIOUS
  <1> DEFINE U == Nat \ T
  <1>1. PICK n \in U : \A k \in Nat : k < n => k \notin U
    BY LeastNat
  <1>2. n # 0 /\ n - 1 \in Nat /\ n - 1 < n /\ (n - 1) + 1 = n
    BY <1>1
  <1> QED
    BY <1>1, <1>2

-----------------------------------------------------------------------------
(* Sequences of packets                                                     *)

\* The ids of the packets in s increase, from above lo up to at most hi.
Ordered(s, lo, hi) ==
    /\ lo \in Nat /\ hi \in Nat /\ lo <= hi
    /\ \A i \in 1 .. Len(s) : lo < s[i].id /\ s[i].id <= hi
    /\ \A i, j \in 1 .. Len(s) : i < j => s[i].id < s[j].id

\* r is what is left of s when some of its first elements are gone.
SuffixOf(r, s) == \E k \in 1 .. Len(s) + 1 : r = SubSeq(s, k, Len(s))

\* A sequence is a suffix of itself, and so is its tail.
LEMMA SuffixFacts ==
    ASSUME NEW S, NEW s \in Seq(S)
    PROVE  /\ SuffixOf(s, s)
           /\ s # <<>> => SuffixOf(Tail(s), s)
           /\ \A r : SuffixOf(r, s) => r \in Seq(S) /\ Len(r) <= Len(s)
  <1>1. Len(s) \in Nat /\ s = SubSeq(s, 1, Len(s))
    BY SubSeqFull, LenProperties
  <1>2. ASSUME s # <<>> PROVE Tail(s) = SubSeq(s, 2, Len(s)) /\ Len(s) >= 1
    BY <1>2, TailIsSubSeq, LenProperties, EmptySeq, SMT
  <1>3. ASSUME NEW k \in 1 .. Len(s) + 1
        PROVE  SubSeq(s, k, Len(s)) \in Seq(S) /\ Len(SubSeq(s, k, Len(s))) <= Len(s)
    BY <1>1, SubSeqProperties, SMT
  <1>4. SuffixOf(s, s)
    <2>1. 1 \in 1 .. Len(s) + 1
      BY <1>1, SMT
    <2> QED
      BY <1>1, <2>1, Zenon DEF SuffixOf
  <1>5. ASSUME s # <<>> PROVE SuffixOf(Tail(s), s)
    <2>1. 2 \in 1 .. Len(s) + 1
      BY <1>1, <1>2, <1>5, SMT
    <2> QED
      BY <1>2, <1>5, <2>1, Zenon DEF SuffixOf
  <1>6. ASSUME NEW r, SuffixOf(r, s) PROVE r \in Seq(S) /\ Len(r) <= Len(s)
    <2>1. PICK k \in 1 .. Len(s) + 1 : r = SubSeq(s, k, Len(s))
      BY <1>6, Zenon DEF SuffixOf
    <2> QED
      BY <1>3, <2>1
  <1> QED
    BY <1>4, <1>5, <1>6

\* What is left of what is left.
LEMMA SuffixTail ==
    ASSUME NEW S, NEW s \in Seq(S), NEW r, SuffixOf(r, s), r # <<>>
    PROVE  SuffixOf(Tail(r), s)
  <1>1. PICK k \in 1 .. Len(s) + 1 : r = SubSeq(s, k, Len(s))
    BY DEF SuffixOf
  <1>2. Len(s) \in Nat
    BY LenProperties
  <1>3. k <= Len(s)
    <2>1. k = Len(s) + 1 => r = <<>>
      BY <1>1, <1>2, SMT
    <2> QED
      BY <1>2, <2>1, SMT
  <1>4. Tail(r) = SubSeq(s, k + 1, Len(s))
    BY <1>1, <1>2, <1>3, SMT
  <1>5. k + 1 \in 1 .. Len(s) + 1
    BY <1>2, <1>3, SMT
  <1> QED
    BY <1>4, <1>5, Zenon DEF SuffixOf

LEMMA SuffixOfSuffix ==
    ASSUME NEW S, NEW s \in Seq(S), NEW r, SuffixOf(r, s), NEW q, SuffixOf(q, r)
    PROVE  SuffixOf(q, s)
  <1>1. PICK k \in 1 .. Len(s) + 1 : r = SubSeq(s, k, Len(s))
    BY DEF SuffixOf
  <1>2. PICK j \in 1 .. Len(r) + 1 : q = SubSeq(r, j, Len(r))
    BY DEF SuffixOf
  <1>3. Len(s) \in Nat
    BY LenProperties
  <1>4. Len(r) = Len(s) - k + 1
    BY <1>1, <1>3, SMT
  <1>5. q = SubSeq(s, k + j - 1, Len(s))
    BY <1>1, <1>2, <1>3, <1>4, SMT
  <1>6. k + j - 1 \in 1 .. Len(s) + 1
    BY <1>3, <1>4, SMT
  <1> QED
    BY <1>5, <1>6, Zenon DEF SuffixOf

\* An id is a natural number.
LEMMA PacketId ==
    ASSUME NEW s \in Seq(Packet), NEW i \in 1 .. Len(s)
    PROVE  s[i] \in Packet /\ s[i].id \in Nat
  <1>1. s[i] \in Packet
    BY ElementOfSeq
  <1>2. s[i].id \in 1 .. setup.packets
    BY <1>1, Zenon DEF Packet
  <1> QED
    BY <1>1, <1>2, SMT

\* The order of a suffix, a concatenation, a head and its tail.
LEMMA SuffixOrdered ==
    ASSUME NEW s \in Seq(Packet), NEW r, SuffixOf(r, s), NEW lo, NEW hi, Ordered(s, lo, hi)
    PROVE  Ordered(r, lo, hi)
  <1>1. PICK k \in 1 .. Len(s) + 1 : r = SubSeq(s, k, Len(s))
    BY DEF SuffixOf
  <1>2. Len(s) \in Nat
    BY LenProperties
  <1>3. Len(r) = Len(s) - k + 1 /\ \A i \in 1 .. Len(r) : r[i] = s[k + i - 1]
    BY <1>1, <1>2, SMT
  <1>4. \A i \in 1 .. Len(r) : k + i - 1 \in 1 .. Len(s)
    BY <1>2, <1>3, SMT
  <1>5. ASSUME NEW i \in 1 .. Len(r), NEW j \in 1 .. Len(r), i < j
        PROVE  r[i].id < r[j].id
    <2>1. k + i - 1 < k + j - 1
      BY <1>5, SMT
    <2> QED
      BY <1>3, <1>4, <2>1 DEF Ordered
  <1> QED
    BY <1>3, <1>4, <1>5 DEF Ordered

LEMMA ConcatOrdered ==
    ASSUME NEW s \in Seq(Packet), NEW t \in Seq(Packet), NEW lo, NEW mid, NEW hi,
           Ordered(s, lo, mid), Ordered(t, mid, hi)
    PROVE  Ordered(s \o t, lo, hi)
  <1> DEFINE c == s \o t
             m == Len(s)
  <1>1. m \in Nat /\ Len(t) \in Nat /\ Len(c) = m + Len(t)
    BY ConcatProperties, LenProperties
  <1>2. \A i \in 1 .. Len(c) : c[i] = IF i <= m THEN s[i] ELSE t[i - m]
    BY ConcatProperties
  <1> HIDE DEF c, m
  <1>3. /\ lo \in Nat /\ mid \in Nat /\ hi \in Nat /\ lo <= mid /\ mid <= hi
        /\ \A i \in 1 .. m : lo < s[i].id /\ s[i].id <= mid
        /\ \A i, j \in 1 .. m : i < j => s[i].id < s[j].id
        /\ \A i \in 1 .. Len(t) : mid < t[i].id /\ t[i].id <= hi
        /\ \A i, j \in 1 .. Len(t) : i < j => t[i].id < t[j].id
    BY DEF Ordered, m
  <1>4. \A i \in 1 .. m : s[i].id \in Nat
    BY PacketId DEF m
  <1>5. \A i \in 1 .. Len(t) : t[i].id \in Nat
    BY PacketId
  <1>6. ASSUME NEW i \in 1 .. Len(c) PROVE lo < c[i].id /\ c[i].id <= hi
    <2>1. CASE i <= m
      BY <1>1, <1>2, <1>3, <1>4, <2>1, SMT
    <2>2. CASE i > m
      <3>1. i - m \in 1 .. Len(t) /\ c[i] = t[i - m]
        BY <1>1, <1>2, <2>2, SMT
      <3> QED
        BY <1>3, <1>5, <3>1, SMT
    <2> QED
      BY <1>1, <2>1, <2>2, SMT
  <1>7. ASSUME NEW i \in 1 .. Len(c), NEW j \in 1 .. Len(c), i < j PROVE c[i].id < c[j].id
    <2>1. CASE j <= m
      BY <1>1, <1>2, <1>3, <1>7, <2>1, SMT
    <2>2. CASE i > m
      <3>1. /\ i - m \in 1 .. Len(t) /\ c[i] = t[i - m] /\ j - m \in 1 .. Len(t)
            /\ c[j] = t[j - m] /\ i - m < j - m
        BY <1>1, <1>2, <1>7, <2>2, SMT
      <3> QED
        BY <1>3, <3>1
    <2>3. CASE i <= m /\ j > m
      <3>1. i \in 1 .. m /\ j - m \in 1 .. Len(t) /\ c[i] = s[i] /\ c[j] = t[j - m]
        BY <1>1, <1>2, <2>3, SMT
      <3> QED
        BY <1>3, <1>4, <1>5, <3>1, SMT
    <2> QED
      BY <1>1, <2>1, <2>2, <2>3, SMT
  <1> QED
    BY <1>3, <1>6, <1>7, SMT DEF Ordered, c

\* Wider bounds, and a packet with an id of its own at the end.
LEMMA WiderOrdered ==
    ASSUME NEW s \in Seq(Packet), NEW lo, NEW hi, Ordered(s, lo, hi),
           NEW a \in Nat, NEW b \in Nat, a <= lo, hi <= b
    PROVE  Ordered(s, a, b)
  <1>1. lo \in Nat /\ hi \in Nat /\ lo <= hi
    BY DEF Ordered
  <1>2. ASSUME NEW i \in 1 .. Len(s) PROVE a < s[i].id /\ s[i].id <= b
    <2>1. s[i].id \in Nat
      BY PacketId
    <2>2. lo < s[i].id /\ s[i].id <= hi
      BY DEF Ordered
    <2> QED
      BY <1>1, <2>1, <2>2, SMT
  <1>3. a <= b
    BY <1>1, SMT
  <1> QED
    BY <1>2, <1>3, Zenon DEF Ordered

LEMMA AppendOrdered ==
    ASSUME NEW s \in Seq(Packet), NEW lo, NEW hi, Ordered(s, lo, hi),
           NEW p \in Packet, p.id = hi + 1
    PROVE  Append(s, p) \in Seq(Packet) /\ Ordered(Append(s, p), lo, hi + 1)
  <1>1. hi \in Nat /\ hi + 1 \in Nat
    BY DEF Ordered
  <1>2. <<p>> \in Seq(Packet) /\ Len(<<p>>) = 1 /\ <<p>>[1] = p
    OBVIOUS
  <1>3. Ordered(<<p>>, hi, hi + 1)
    BY <1>1, <1>2, SMT DEF Ordered
  <1>4. Append(s, p) = s \o <<p>>
    BY SMT
  <1>5. Append(s, p) \in Seq(Packet)
    BY AppendProperties
  <1> QED
    BY <1>2, <1>3, <1>4, <1>5, ConcatOrdered

LEMMA HeadOrdered ==
    ASSUME NEW s \in Seq(Packet), s # <<>>, NEW lo, NEW hi, Ordered(s, lo, hi)
    PROVE  /\ Head(s) \in Packet /\ Tail(s) \in Seq(Packet)
           /\ Ordered(<<Head(s)>>, lo, Head(s).id) /\ Ordered(Tail(s), Head(s).id, hi)
  <1>1. Len(s) \in Nat /\ Len(s) >= 1
    BY LenProperties, EmptySeq, SMT
  <1>2. /\ Head(s) = s[1] /\ s[1] \in Packet /\ Tail(s) \in Seq(Packet)
        /\ Len(Tail(s)) = Len(s) - 1 /\ \A i \in 1 .. Len(Tail(s)) : Tail(s)[i] = s[i + 1]
    BY <1>1, HeadTailProperties, ElementOfSeq, SMT
  <1>3. s[1].id \in Nat /\ lo < s[1].id /\ s[1].id <= hi /\ lo \in Nat /\ hi \in Nat
    BY <1>1, <1>2, SMT DEF Ordered, Packet
  <1>4. Ordered(<<s[1]>>, lo, s[1].id)
    BY <1>3, SMT DEF Ordered
  <1> DEFINE t == Tail(s)
  <1>5. Ordered(t, s[1].id, hi)
    <2>1. Len(t) = Len(s) - 1 /\ \A i \in 1 .. Len(t) : t[i] = s[i + 1]
      BY <1>2
    <2> HIDE DEF t
    <2>2. \A i \in 1 .. Len(t) : i + 1 \in 1 .. Len(s) /\ 1 < i + 1
      BY <1>1, <2>1, SMT
    <2>3. \A i \in 1 .. Len(t) : s[1].id < t[i].id /\ t[i].id <= hi
      <3>1. 1 \in 1 .. Len(s)
        BY <1>1, SMT
      <3> QED
        BY <2>1, <2>2, <3>1 DEF Ordered
    <2>4. ASSUME NEW i \in 1 .. Len(t), NEW j \in 1 .. Len(t), i < j PROVE t[i].id < t[j].id
      <3>1. i + 1 < j + 1
        BY <2>4, SMT
      <3> QED
        BY <2>1, <2>2, <3>1 DEF Ordered
    <2> QED
      BY <1>3, <2>3, <2>4 DEF Ordered
  <1> QED
    BY <1>2, <1>4, <1>5

-----------------------------------------------------------------------------
(* The bytes of a sequence of packets                                       *)

\* The function that size_bytes takes its result from.
LEMMA SizeFunction ==
    ASSUME NEW ps \in Seq(Packet), setup.sizes \subseteq Nat
    PROVE  \E f \in [0 .. Len(ps) -> Nat] :
              /\ f[0] = 0
              /\ \A n \in 1 .. Len(ps) : f[n] = f[n - 1] + ps[n].size
              /\ size_bytes(ps) = f[Len(ps)]
  <1> DEFINE Sums(f, m) == /\ f \in [0 .. m -> Nat] /\ f[0] = 0
                           /\ \A n \in 1 .. m : f[n] = f[n - 1] + ps[n].size
             T == {m \in Nat : m <= Len(ps) => \E f : Sums(f, m)}
  <1>1. Len(ps) \in Nat /\ \A n \in 1 .. Len(ps) : ps[n].size \in Nat
    <2>1. \A n \in 1 .. Len(ps) : ps[n] \in Packet
      BY ElementOfSeq
    <2>2. \A p \in Packet : p.size \in Nat
      BY Zenon DEF Packet
    <2> QED
      BY <2>1, <2>2, LenProperties
  <1>2. 0 \in T
    <2> DEFINE z == [k \in {0} |-> 0]
    <2>1. 0 .. 0 = {0} /\ 1 .. 0 = {}
      OBVIOUS
    <2>2. z \in [{0} -> Nat] /\ z[0] = 0
      OBVIOUS
    <2> HIDE DEF z
    <2>3. z \in [0 .. 0 -> Nat] /\ \A n \in 1 .. 0 : z[n] = z[n - 1] + ps[n].size
      BY <2>1, <2>2, Zenon
    <2>4. Sums(z, 0)
      BY <2>2, <2>3
    <2> QED
      BY <2>4
  <1>3. ASSUME NEW m \in Nat, m \in T PROVE m + 1 \in T
    <2>0. m + 1 \in Nat
      OBVIOUS
    <2>1. SUFFICES ASSUME m + 1 <= Len(ps) PROVE \E f : Sums(f, m + 1)
      BY <2>0, Zenon
    <2>2. PICK f : Sums(f, m)
      BY <1>1, <1>3, <2>1
    <2> DEFINE h == [k \in 0 .. m + 1 |-> IF k = m + 1 THEN f[m] + ps[m + 1].size ELSE f[k]]
    <2>3. f[m] \in Nat /\ ps[m + 1].size \in Nat
      BY <1>1, <2>1, <2>2, SMT
    <2>4. h \in [0 .. m + 1 -> Nat] /\ h[0] = 0
      BY <2>2, <2>3, SMT
    <2>5. ASSUME NEW n \in 1 .. m + 1 PROVE h[n] = h[n - 1] + ps[n].size
      BY <2>2, <2>3, SMT
    <2> QED
      BY <2>4, <2>5
  <1>4. T = Nat
    <2> HIDE DEF T
    <2>1. T \in SUBSET Nat
      BY DEF T
    <2> QED
      BY <1>2, <1>3, <2>1, NatSet
  <1>5. PICK f : Sums(f, Len(ps))
    BY <1>1, <1>4, SMT
  <1> DEFINE Eq(g) == g = [n \in 0 .. Len(ps) |-> IF n = 0 THEN 0 ELSE g[n - 1] + ps[n].size]
             g == CHOOSE x : Eq(x)
  <1>6. Eq(f)
    BY <1>1, <1>5, SMT
  <1>7. Eq(g)
    <2> HIDE DEF Eq
    <2> QED
      BY <1>6, Zenon
  <1>8. size_bytes(ps) = g[Len(ps)]
    BY Zenon DEF size_bytes
  <1> HIDE DEF g
  <1> DEFINE U == {m \in Nat : m <= Len(ps) => g[m] = f[m]}
  <1>9. 0 \in U
    BY <1>1, <1>5, <1>7, SMT
  <1>10. ASSUME NEW m \in Nat, m \in U PROVE m + 1 \in U
    BY <1>1, <1>5, <1>7, <1>10, SMT
  <1>11. U = Nat
    <2> HIDE DEF U
    <2>1. U \in SUBSET Nat
      BY DEF U
    <2> QED
      BY <1>9, <1>10, <2>1, NatSet
  <1>12. g[Len(ps)] = f[Len(ps)]
    BY <1>1, <1>11, SMT
  <1> QED
    BY <1>5, <1>8, <1>12

LEMMA SizeEmpty ==
    ASSUME setup.sizes \subseteq Nat
    PROVE  size_bytes(<<>>) = 0
  <1>1. <<>> \in Seq(Packet) /\ Len(<<>>) = 0
    BY SMT
  <1> QED
    BY <1>1, SizeFunction

\* Without its first packet a sequence has that packet's bytes less.
LEMMA SizeTail ==
    ASSUME NEW ps \in Seq(Packet), ps # <<>>, setup.sizes \subseteq Nat
    PROVE  /\ size_bytes(ps) \in Nat /\ size_bytes(Tail(ps)) \in Nat
           /\ size_bytes(Tail(ps)) <= size_bytes(ps)
  <1> DEFINE t == Tail(ps)
  <1>1. /\ Len(ps) \in Nat /\ Len(ps) >= 1 /\ t \in Seq(Packet) /\ Len(t) = Len(ps) - 1
        /\ \A n \in 1 .. Len(t) : t[n] = ps[n + 1]
    BY LenProperties, EmptySeq, HeadTailProperties, SMT
  <1> HIDE DEF t
  <1>2. PICK f \in [0 .. Len(ps) -> Nat] :
              /\ f[0] = 0
              /\ \A n \in 1 .. Len(ps) : f[n] = f[n - 1] + ps[n].size
              /\ size_bytes(ps) = f[Len(ps)]
    BY SizeFunction
  <1>3. PICK g \in [0 .. Len(t) -> Nat] :
              /\ g[0] = 0
              /\ \A n \in 1 .. Len(t) : g[n] = g[n - 1] + t[n].size
              /\ size_bytes(t) = g[Len(t)]
    BY <1>1, SizeFunction
  <1>4. ps[1].size \in Nat
    <2>1. ps[1] \in Packet
      BY <1>1, ElementOfSeq, SMT
    <2> QED
      BY <2>1, Zenon DEF Packet
  <1>5. \A n \in 1 .. Len(t) : ps[n + 1].size \in Nat
    <2>1. \A n \in 1 .. Len(t) : ps[n + 1] \in Packet
      BY <1>1, ElementOfSeq, SMT
    <2> QED
      BY <2>1, Zenon DEF Packet
  <1> DEFINE U == {m \in Nat : m <= Len(t) => g[m] + ps[1].size = f[m + 1]}
  <1>6. 0 \in U
    BY <1>1, <1>2, <1>3, <1>4, SMT
  <1>7. ASSUME NEW m \in Nat, m \in U PROVE m + 1 \in U
    <2>1. SUFFICES ASSUME m + 1 <= Len(t) PROVE g[m + 1] + ps[1].size = f[m + 2]
      BY SMT
    <2> DEFINE n == m + 1
    <2>0. /\ n \in 1 .. Len(t) /\ n + 1 \in 1 .. Len(ps) /\ n - 1 = m /\ (n + 1) - 1 = n
          /\ n + 1 = m + 2 /\ m \in 0 .. Len(t) /\ n \in 0 .. Len(ps)
      BY <1>1, <2>1, SMT
    <2> HIDE DEF n
    <2>2. g[n] = g[m] + ps[m + 2].size /\ f[m + 2] = f[n] + ps[m + 2].size
      BY <1>1, <1>2, <1>3, <2>0
    <2>3. g[m] \in Nat /\ f[n] \in Nat /\ ps[m + 2].size \in Nat
      BY <1>5, <2>0
    <2> USE DEF n
    <2>4. g[m] + ps[1].size = f[m + 1]
      BY <1>1, <1>7, <2>1, SMT
    <2> QED
      BY <1>4, <2>2, <2>3, <2>4, SMT
  <1>8. U = Nat
    <2> HIDE DEF U
    <2>1. U \in SUBSET Nat
      BY DEF U
    <2> QED
      BY <1>6, <1>7, <2>1, NatSet
  <1>9. g[Len(t)] + ps[1].size = f[Len(ps)] /\ g[Len(t)] \in Nat /\ f[Len(ps)] \in Nat
    <2>1. Len(t) \in 0 .. Len(t) /\ Len(ps) \in 0 .. Len(ps) /\ Len(t) + 1 = Len(ps)
      BY <1>1, SMT
    <2>2. Len(t) \in U
      BY <1>8, <2>1, SMT
    <2> QED
      BY <2>1, <2>2
  <1> QED
    BY <1>2, <1>3, <1>4, <1>9, SMT DEF t

\* What is left of a sequence has no more bytes than the whole.
LEMMA SizeSuffix ==
    ASSUME NEW ps \in Seq(Packet), NEW r, SuffixOf(r, ps), setup.sizes \subseteq Nat
    PROVE  /\ size_bytes(r) \in Nat /\ size_bytes(ps) \in Nat
           /\ size_bytes(r) <= size_bytes(ps)
  <1> DEFINE From(m) == SubSeq(ps, m + 1, Len(ps))
             U == {m \in Nat : m <= Len(ps) =>
                      /\ From(m) \in Seq(Packet) /\ size_bytes(From(m)) \in Nat
                      /\ size_bytes(From(m)) <= size_bytes(ps)}
  <1>1. Len(ps) \in Nat
    BY LenProperties
  <1>2. size_bytes(ps) \in Nat
    <2>1. CASE ps = <<>>
      BY <2>1, SizeEmpty
    <2>2. CASE ps # <<>>
      BY <2>2, SizeTail
    <2> QED
      BY <2>1, <2>2
  <1>3. 0 \in U
    <2>1. From(0) = ps
      BY <1>1, SubSeqFull
    <2> HIDE DEF From
    <2> QED
      BY <1>2, <2>1, SMT
  <1>4. ASSUME NEW m \in Nat, m \in U PROVE m + 1 \in U
    <2>1. SUFFICES ASSUME m + 1 <= Len(ps)
                   PROVE  /\ From(m + 1) \in Seq(Packet) /\ size_bytes(From(m + 1)) \in Nat
                          /\ size_bytes(From(m + 1)) <= size_bytes(ps)
      BY SMT
    <2>2. /\ From(m) \in Seq(Packet) /\ size_bytes(From(m)) \in Nat
          /\ size_bytes(From(m)) <= size_bytes(ps)
      BY <1>1, <1>4, <2>1, SMT
    <2>3. From(m) # <<>> /\ From(m + 1) = Tail(From(m))
      <3>1. Len(From(m)) = Len(ps) - m
        BY <1>1, <2>1, SMT
      <3>2. From(m) # <<>>
        <4> DEFINE r0 == From(m)
        <4>1. Len(r0) > 0 /\ Len(r0) \in Nat
          BY <1>1, <2>1, <3>1, SMT
        <4> HIDE DEF r0
        <4>2. r0 # <<>>
          BY <4>1, SMT
        <4> QED
          BY <4>2 DEF r0
      <3>3. From(m + 1) = Tail(From(m))
        BY <1>1, <2>1, <3>1, SMT
      <3> QED
        BY <3>2, <3>3
    <2> HIDE DEF From
    <2>4. /\ size_bytes(From(m + 1)) \in Nat /\ From(m + 1) \in Seq(Packet)
          /\ size_bytes(From(m + 1)) <= size_bytes(From(m))
      BY <2>2, <2>3, SizeTail, HeadTailProperties
    <2> QED
      BY <1>2, <2>2, <2>4, SMT
  <1>5. U = Nat
    <2> HIDE DEF U
    <2>1. U \in SUBSET Nat
      BY DEF U
    <2> QED
      BY <1>3, <1>4, <2>1, NatSet
  <1>6. PICK k \in 1 .. Len(ps) + 1 : r = SubSeq(ps, k, Len(ps))
    BY DEF SuffixOf
  <1>7. k - 1 \in Nat /\ k - 1 <= Len(ps) /\ r = From(k - 1)
    BY <1>1, <1>6, SMT
  <1> HIDE DEF From
  <1> QED
    BY <1>2, <1>5, <1>7

\* With one more packet it has that packet's bytes more.
LEMMA SizeAppend ==
    ASSUME NEW ps \in Seq(Packet), NEW p \in Packet, setup.sizes \subseteq Nat
    PROVE  size_bytes(Append(ps, p)) = size_bytes(ps) + p.size /\ p.size \in Nat
  <1> DEFINE a == Append(ps, p)
             n == Len(ps)
  <1>1. /\ n \in Nat /\ a \in Seq(Packet) /\ Len(a) = n + 1 /\ a[n + 1] = p
        /\ \A i \in 1 .. n : a[i] = ps[i]
    BY LenProperties, AppendProperties
  <1>2. p.size \in Nat
    BY Zenon DEF Packet
  <1> HIDE DEF a
  <1>3. PICK f \in [0 .. n -> Nat] :
              /\ f[0] = 0 /\ \A i \in 1 .. n : f[i] = f[i - 1] + ps[i].size
              /\ size_bytes(ps) = f[n]
    BY SizeFunction
  <1>4. PICK g \in [0 .. n + 1 -> Nat] :
              /\ g[0] = 0 /\ \A i \in 1 .. n + 1 : g[i] = g[i - 1] + a[i].size
              /\ size_bytes(a) = g[n + 1]
    BY <1>1, SizeFunction
  <1> HIDE DEF n
  <1> DEFINE U == {m \in Nat : m <= n => g[m] = f[m]}
  <1>5. 0 \in U
    BY <1>3, <1>4
  <1>6. ASSUME NEW m \in Nat, m \in U PROVE m + 1 \in U
    <2>1. SUFFICES ASSUME m + 1 <= n PROVE g[m + 1] = f[m + 1]
      BY SMT
    <2>2. m + 1 \in 1 .. n /\ m + 1 \in 1 .. n + 1 /\ (m + 1) - 1 = m /\ m <= n
      BY <1>1, <2>1, SMT
    <2>3. g[m] = f[m]
      BY <1>6, <2>2
    <2> QED
      BY <1>1, <1>3, <1>4, <2>2, <2>3
  <1>7. U = Nat
    <2> HIDE DEF U
    <2>1. U \in SUBSET Nat
      BY DEF U
    <2> QED
      BY <1>5, <1>6, <2>1, NatSet
  <1>8. g[n] = f[n]
    <2>1. n <= n
      BY <1>1, SMT
    <2> QED
      BY <1>1, <1>7, <2>1
  <1>9. n + 1 \in 1 .. n + 1 /\ (n + 1) - 1 = n
    BY <1>1, SMT
  <1>10. size_bytes(a) = g[n] + a[n + 1].size
    BY <1>4, <1>9
  <1>11. size_bytes(a) = size_bytes(ps) + p.size
    BY <1>1, <1>3, <1>8, <1>10
  <1> QED
    BY <1>2, <1>11 DEF a

-----------------------------------------------------------------------------
(* Queues: their invariant, and what takes a packet out of one              *)

CodelFields(a) ==
    a = [first_above_time |-> a.first_above_time, drop_next |-> a.drop_next,
         count |-> a.count, lastcount |-> a.lastcount, dropping |-> a.dropping]

PieFields(a) ==
    /\ a = [drop_prob |-> a.drop_prob, burst_allowance |-> a.burst_allowance,
            qdelay_old |-> a.qdelay_old, current_qdelay |-> a.current_qdelay,
            dq_count |-> a.dq_count, dq_tstamp |-> a.dq_tstamp,
            avg_dq_rate |-> a.avg_dq_rate, last_update |-> a.last_update]
    /\ a.last_update \in Int

ActiveFits(a) ==
    /\ setup.args.type = "codel" => CodelFields(a)
    /\ setup.args.type = "pie" => PieFields(a)

Within(ps) == setup.args.type # "infinite" => good(setup.args, ps)

\* A queue is an object of its class, its packets are packets, and within the limits.
QueueOK(q) ==
    /\ q = [args |-> setup.args, internal_queue |-> q.internal_queue, active |-> q.active]
    /\ q.internal_queue \in Seq(Packet)
    /\ Within(q.internal_queue)
    /\ ActiveFits(q.active)

LEMMA LinkFacts ==
    ASSUME setup \in Links
    PROVE  /\ setup.sizes \subseteq 1 .. PACKET_SIZE /\ setup.sizes \subseteq Nat
           /\ setup.packets \in Nat /\ ArgsAllowed(setup.args)
           /\ setup.schedule \in Seq(Nat) /\ setup.schedule # <<>> /\ setup.repeat \in BOOLEAN
           /\ PACKET_SIZE \in Nat \ {0} /\ t_update \in Nat \ {0} /\ MaxTime \in Nat
  <1>1. setup.sizes \subseteq 1 .. PACKET_SIZE /\ PACKET_SIZE \in Nat
    BY LinkAssumption
  <1>2. setup.sizes \subseteq Nat
    BY <1>1, SMT
  <1> QED
    BY <1>1, <1>2, LinkAssumption, Zenon

\* What is within the limits is so without its first packet.
LEMMA GoodTail ==
    ASSUME setup \in Links, NEW ps \in Seq(Packet), ps # <<>>, Within(ps)
    PROVE  Tail(ps) \in Seq(Packet) /\ Within(Tail(ps))
  <1>1. /\ size_bytes(ps) \in Nat /\ size_bytes(Tail(ps)) \in Nat
        /\ size_bytes(Tail(ps)) <= size_bytes(ps)
    BY LinkFacts, SizeTail
  <1>2. /\ Len(ps) \in Nat /\ Tail(ps) \in Seq(Packet) /\ Len(Tail(ps)) \in Nat
        /\ Len(Tail(ps)) <= Len(ps)
    BY LenProperties, EmptySeq, HeadTailProperties, SMT
  <1>3. setup.args.byte_limit \in Nat /\ setup.args.packet_limit \in Nat
    BY LinkFacts DEF ArgsAllowed
  <1> QED
    BY <1>1, <1>2, <1>3, SMT DEF Within, good, good_with

\* The empty queue is within the limits.
LEMMA GoodEmpty ==
    ASSUME setup \in Links
    PROVE  Within(<<>>)
  <1>1. size_bytes(<<>>) = 0 /\ Len(<<>>) = 0
    BY LinkFacts, SizeEmpty, EmptySeq
  <1>2. setup.args.byte_limit \in Nat /\ setup.args.packet_limit \in Nat
    BY LinkFacts DEF ArgsAllowed
  <1> QED
    BY <1>1, <1>2, SMT DEF Within, good, good_with

LEMMA NewQueueOK ==
    ASSUME setup \in Links
    PROVE  LET q == NewPacketQueue(setup.args) IN QueueOK(q) /\ q.internal_queue = <<>>
  <1>1. ActiveFits(NewActive(setup.args))
    <2>1. CASE setup.args.type = "codel"
      BY <2>1, SMT DEF ActiveFits, NewActive, CodelFields
    <2>2. CASE setup.args.type = "pie"
      BY <2>2, SMT DEF ActiveFits, NewActive, PieFields
    <2> QED
      BY <2>1, <2>2, Zenon DEF ActiveFits
  <1>2. <<>> \in Seq(Packet)
    BY EmptySeq
  <1> QED
    BY <1>1, <1>2, GoodEmpty, SMT DEF QueueOK, NewPacketQueue

\* New packets.
LEMMA NewPackets ==
    ASSUME NEW q, QueueOK(q), NEW ps
    PROVE  LET r == [q EXCEPT !.internal_queue = ps]
           IN  /\ r.internal_queue = ps /\ r.active = q.active /\ r.args = setup.args
               /\ ps \in Seq(Packet) /\ Within(ps) => QueueOK(r)
  <1> DEFINE r == [q EXCEPT !.internal_queue = ps]
  <1>1. q = [args |-> setup.args, internal_queue |-> q.internal_queue, active |-> q.active]
    BY DEF QueueOK
  <1>2. r = [args |-> setup.args, internal_queue |-> ps, active |-> q.active]
    BY <1>1, SMT
  <1> HIDE DEF r
  <1>3. r.internal_queue = ps /\ r.active = q.active /\ r.args = setup.args
    BY <1>2, SMT
  <1>4. ASSUME ps \in Seq(Packet), Within(ps) PROVE QueueOK(r)
    <2>1. ActiveFits(r.active)
      BY <1>3 DEF QueueOK
    <2> QED
      BY <1>2, <1>3, <1>4, <2>1, Zenon DEF QueueOK
  <1> QED
    BY <1>3, <1>4, Zenon DEF r

\* New memory of the policy.
LEMMA NewMemory ==
    ASSUME NEW q, QueueOK(q), NEW a
    PROVE  LET r == [q EXCEPT !.active = a]
           IN  /\ r.internal_queue = q.internal_queue /\ r.active = a /\ r.args = setup.args
               /\ ActiveFits(a) => QueueOK(r)
  <1> DEFINE r == [q EXCEPT !.active = a]
  <1>1. q = [args |-> setup.args, internal_queue |-> q.internal_queue, active |-> q.active]
    BY DEF QueueOK
  <1>2. r = [args |-> setup.args, internal_queue |-> q.internal_queue, active |-> a]
    BY <1>1, SMT
  <1> HIDE DEF r
  <1>3. r.internal_queue = q.internal_queue /\ r.active = a /\ r.args = setup.args
    BY <1>2, SMT
  <1>4. ASSUME ActiveFits(a) PROVE QueueOK(r)
    BY <1>2, <1>3, <1>4, Zenon DEF QueueOK
  <1> QED
    BY <1>3, <1>4, Zenon DEF r

LEMMA PoppedOK ==
    ASSUME setup \in Links, NEW q, QueueOK(q), q.internal_queue # <<>>
    PROVE  /\ QueueOK(Popped(q)) /\ Popped(q).internal_queue = Tail(q.internal_queue)
           /\ Popped(q).active = q.active
  <1>1. Tail(q.internal_queue) \in Seq(Packet) /\ Within(Tail(q.internal_queue))
    BY GoodTail DEF QueueOK
  <1> QED
    BY <1>1, NewPackets, Zenon DEF Popped

-----------------------------------------------------------------------------
(* CoDel                                                                    *)

\* The memory of CoDel changes, and whether it is dropping perhaps.
KeepsQueue(r, q) == QueueOK(r) /\ r.internal_queue = q.internal_queue
KeepsDropping(r, q) == KeepsQueue(r, q) /\ r.active.dropping = q.active.dropping

LEMMA CodelMemory ==
    ASSUME setup.args.type = "codel", NEW q, QueueOK(q), NEW v
    PROVE  /\ KeepsQueue([q EXCEPT !.active.dropping = v], q)
           /\ [q EXCEPT !.active.dropping = v].active.dropping = v
           /\ KeepsDropping([q EXCEPT !.active.first_above_time = v], q)
           /\ KeepsDropping([q EXCEPT !.active.drop_next = v], q)
           /\ KeepsDropping([q EXCEPT !.active.count = v], q)
           /\ KeepsDropping([q EXCEPT !.active.lastcount = v], q)
  <1> DEFINE a == q.active
             a1 == [a EXCEPT !.dropping = v]
             a2 == [a EXCEPT !.first_above_time = v]
             a3 == [a EXCEPT !.drop_next = v]
             a4 == [a EXCEPT !.count = v]
             a5 == [a EXCEPT !.lastcount = v]
  <1>1. CodelFields(a)
    BY DEF QueueOK, ActiveFits
  <1>2. ASSUME NEW b, CodelFields(b)
        PROVE  /\ KeepsQueue([q EXCEPT !.active = b], q)
               /\ [q EXCEPT !.active = b].active = b
               /\ b.dropping = a.dropping => KeepsDropping([q EXCEPT !.active = b], q)
    <2>1. ActiveFits(b)
      BY <1>2, SMT DEF ActiveFits
    <2> QED
      BY <2>1, NewMemory, Zenon DEF KeepsQueue, KeepsDropping
  <1> HIDE DEF a
  <1>3. CodelFields(a1) /\ a1.dropping = v
    BY <1>1, SMT DEF CodelFields
  <1>4. CodelFields(a2) /\ a2.dropping = a.dropping
    BY <1>1, SMT DEF CodelFields
  <1>5. CodelFields(a3) /\ a3.dropping = a.dropping
    BY <1>1, SMT DEF CodelFields
  <1>6. CodelFields(a4) /\ a4.dropping = a.dropping
    BY <1>1, SMT DEF CodelFields
  <1>7. CodelFields(a5) /\ a5.dropping = a.dropping
    BY <1>1, SMT DEF CodelFields
  <1> HIDE DEF a1, a2, a3, a4, a5
  <1>8. /\ KeepsQueue([q EXCEPT !.active = a1], q) /\ [q EXCEPT !.active = a1].active.dropping = v
        /\ KeepsDropping([q EXCEPT !.active = a2], q) /\ KeepsDropping([q EXCEPT !.active = a3], q)
        /\ KeepsDropping([q EXCEPT !.active = a4], q) /\ KeepsDropping([q EXCEPT !.active = a5], q)
    BY <1>2, <1>3, <1>4, <1>5, <1>6, <1>7
  <1> QED
    BY <1>8, Zenon DEF a, a1, a2, a3, a4, a5

\* CoDel may drop: there is more than a packet of the largest size.
MayDrop(ps) == setup.args.type = "codel" /\ size_bytes(ps) > PACKET_SIZE

LEMMA DodequeueOK ==
    ASSUME setup \in Links, setup.args.type = "codel", NEW q, QueueOK(q),
           q.internal_queue # <<>>, NEW t
    PROVE  LET d == dodequeue(q, t)
           IN  /\ d.packet = Head(q.internal_queue)
               /\ QueueOK(d.queue) /\ d.queue.internal_queue = Tail(q.internal_queue)
               /\ d.ok_to_drop => /\ Tail(q.internal_queue) # <<>>
                                  /\ MayDrop(Tail(q.internal_queue))
  <1> DEFINE rest == Tail(q.internal_queue)
             below == \/ rest = <<>>
                      \/ sojourn_time(Head(q.internal_queue), t) < q.args.delays[1]
                      \/ size_bytes(rest) <= PACKET_SIZE
             first == CASE below -> 0
                        [] ~below /\ q.active.first_above_time = 0 -> t + q.args.delays[2]
                        [] ~below /\ q.active.first_above_time # 0 -> q.active.first_above_time
             ok == ~below /\ q.active.first_above_time # 0 /\ t >= q.active.first_above_time
             r == [Popped(q) EXCEPT !.active.first_above_time = first]
  <1>1. dodequeue(q, t) = [packet |-> Head(q.internal_queue), queue |-> r, ok_to_drop |-> ok]
    BY Zenon DEF dodequeue
  <1>2. ok => rest # <<>> /\ MayDrop(rest)
    <2>1. rest \in Seq(Packet)
      BY GoodTail DEF QueueOK
    <2>2. size_bytes(rest) \in Nat /\ PACKET_SIZE \in Nat
      BY <2>1, SuffixFacts, SizeSuffix, LinkFacts
    <2> HIDE DEF rest
    <2>3. ok => rest # <<>> /\ ~(size_bytes(rest) <= PACKET_SIZE)
      BY Zenon
    <2> QED
      BY <2>2, <2>3, SMT DEF MayDrop
  <1> HIDE DEF below, first
  <1>3. QueueOK(Popped(q)) /\ Popped(q).internal_queue = rest
    BY PoppedOK
  <1>4. KeepsDropping(r, Popped(q))
    BY <1>3, CodelMemory, Zenon
  <1> HIDE DEF r, ok, rest
  <1>5. QueueOK(r) /\ r.internal_queue = rest
    BY <1>3, <1>4 DEF KeepsDropping, KeepsQueue
  <1>6. /\ dodequeue(q, t).packet = Head(q.internal_queue)
        /\ dodequeue(q, t).queue = r /\ dodequeue(q, t).ok_to_drop = ok
    BY <1>1
  <1> QED
    BY <1>2, <1>5, <1>6, Zenon DEF rest

\* A queue with packets left as long as packets are being dropped; it has lost some of
\* s only if s was large.
Drops(q, s) ==
    /\ QueueOK(q) /\ SuffixOf(q.internal_queue, s)
    /\ q.active.dropping => q.internal_queue # <<>> /\ MayDrop(s)
    /\ q.internal_queue = s \/ MayDrop(s)

LEMMA DiscardOK ==
    ASSUME setup \in Links, setup.args.type = "codel", NEW s \in Seq(Packet), NEW q, Drops(q, s),
           q.active.dropping, NEW t
    PROVE  Drops(Discard(q, dodequeue(q, t)), s)
  <1> DEFINE d == dodequeue(q, t)
             o == d.queue
             c == q.active.count + 1
             o1 == [o EXCEPT !.active.count = c]
             o2 == [o1 EXCEPT !.active.dropping = d.ok_to_drop]
             next == IF d.ok_to_drop THEN control_law(q, o2.active.drop_next, c)
                                     ELSE o2.active.drop_next
             o3 == [o2 EXCEPT !.active.drop_next = next]
  <1>1. QueueOK(q) /\ q.internal_queue # <<>> /\ SuffixOf(q.internal_queue, s) /\ MayDrop(s)
    BY DEF Drops
  <1>2. /\ QueueOK(o) /\ o.internal_queue = Tail(q.internal_queue)
        /\ d.ok_to_drop => Tail(q.internal_queue) # <<>>
    BY <1>1, DodequeueOK
  <1>3. Discard(q, d) = o3
    BY Zenon DEF Discard
  <1> HIDE DEF d, o, c
  <1>4. KeepsDropping(o1, o)
    BY <1>2, CodelMemory, Zenon
  <1> HIDE DEF o1
  <1>5. KeepsQueue(o2, o1) /\ o2.active.dropping = d.ok_to_drop
    <2>1. QueueOK(o1)
      BY <1>4 DEF KeepsDropping, KeepsQueue
    <2> QED
      BY <2>1, CodelMemory, Zenon
  <1> HIDE DEF o2, next
  <1>6. KeepsDropping(o3, o2)
    BY <1>5, CodelMemory, Zenon DEF KeepsQueue
  <1> HIDE DEF o3
  <1>7. SuffixOf(Tail(q.internal_queue), s)
    BY <1>1, SuffixTail, Zenon
  <1>8. Drops(o3, s)
    <2>1. QueueOK(o3) /\ o3.internal_queue = o.internal_queue /\ o3.active.dropping = d.ok_to_drop
      BY <1>4, <1>5, <1>6 DEF KeepsDropping, KeepsQueue
    <2> QED
      BY <1>1, <1>2, <1>7, <2>1, Zenon DEF Drops
  <1> QED
    BY <1>3, <1>8, Zenon DEF d

\* The loop of dequeue.
LEMMA DiscardingOK ==
    ASSUME setup \in Links, setup.args.type = "codel", NEW s \in Seq(Packet), NEW q, Drops(q, s),
           NEW t
    PROVE  Drops(Discarding(q, t), s)
  <1> DEFINE Goes(r) == r.active.dropping /\ t >= r.active.drop_next
             Round(r) == IF Goes(r) THEN Discard(r, dodequeue(r, t)) ELSE r
             n == Len(q.internal_queue)
             Is(f) == f = [k \in 0 .. n |-> IF k = 0 THEN q ELSE Round(f[k - 1])]
             after == CHOOSE f : Is(f)
  <1>1. Discarding(q, t) = after[n]
    BY Zenon DEF Discarding
  <1>2. n \in Nat
    BY LenProperties DEF Drops, QueueOK
  <1>3. ASSUME NEW r, Drops(r, s) PROVE Drops(Round(r), s)
    BY <1>3, DiscardOK, Zenon
  <1> HIDE DEF Round, n
  <1> DEFINE Runs(f, m) == f[0] = q /\ \A k \in 1 .. m : f[k] = Round(f[k - 1])
             T == {m \in Nat : \E f : Runs(f, m)}
  <1>4. 0 \in T
    <2>1. Runs([k \in {0} |-> q], 0)
      BY SMT
    <2> QED
      BY <2>1
  <1>5. ASSUME NEW m \in Nat, m \in T PROVE m + 1 \in T
    <2>1. PICK f : Runs(f, m)
      BY <1>5
    <2> DEFINE h == [k \in 0 .. m + 1 |-> IF k = m + 1 THEN Round(f[m]) ELSE f[k]]
    <2>2. Runs(h, m + 1) /\ m + 1 \in Nat
      BY <2>1, SMT
    <2> HIDE DEF Runs
    <2> QED
      BY <2>2
  <1>6. T = Nat
    <2> HIDE DEF T
    <2>1. T \in SUBSET Nat
      BY DEF T
    <2> QED
      BY <1>4, <1>5, <2>1, NatSet
  <1>7. PICK f : Runs(f, n)
    BY <1>2, <1>6
  <1>8. Is([k \in 0 .. n |-> f[k]])
    BY <1>2, <1>7, SMT
  <1>9. Is(after)
    <2> HIDE DEF Is
    <2> QED
      BY <1>8, Zenon
  <1> HIDE DEF after
  <1> DEFINE U == {m \in Nat : m <= n => Drops(after[m], s)}
  <1>10. 0 \in U
    <2>1. after[0] = q
      BY <1>2, <1>9, SMT
    <2> QED
      BY <2>1
  <1>11. ASSUME NEW m \in Nat, m \in U PROVE m + 1 \in U
    <2>1. m + 1 \in Nat
      OBVIOUS
    <2>2. SUFFICES ASSUME m + 1 <= n PROVE Drops(after[m + 1], s)
      BY <2>1, Zenon
    <2>3. after[m + 1] = Round(after[m]) /\ m <= n
      BY <1>2, <1>9, <2>2, SMT
    <2> QED
      BY <1>3, <1>11, <2>3, Zenon
  <1>12. U = Nat
    <2> HIDE DEF U
    <2>1. U \in SUBSET Nat
      BY DEF U
    <2> QED
      BY <1>10, <1>11, <2>1, NatSet
  <1>13. n \in U /\ n <= n
    BY <1>2, <1>12, SMT
  <1> QED
    BY <1>1, <1>13, Zenon

\* One more packet goes, and the memory of the policy changes.
LEMMA StartDroppingOK ==
    ASSUME setup \in Links, setup.args.type = "codel", NEW q, QueueOK(q),
           q.internal_queue # <<>>, NEW t
    PROVE  QueueOK(StartDropping(q, t))
           /\ StartDropping(q, t).internal_queue = Tail(q.internal_queue)
  <1> DEFINE delta == q.active.count - q.active.lastcount
             recent == (t - q.active.drop_next) % Width < 16 * q.args.delays[2]
             c == IF delta > 1 /\ recent THEN delta ELSE 1
             o == dodequeue(q, t).queue
             o1 == [o EXCEPT !.active.dropping = TRUE]
             o2 == [o1 EXCEPT !.active.count = c]
             o3 == [o2 EXCEPT !.active.lastcount = c]
             o4 == [o3 EXCEPT !.active.drop_next = control_law(q, t, c)]
  <1>1. QueueOK(o) /\ o.internal_queue = Tail(q.internal_queue)
    BY DodequeueOK
  <1>2. StartDropping(q, t) = o4
    BY Zenon DEF StartDropping
  <1> HIDE DEF o, c
  <1>3. KeepsQueue(o1, o)
    BY <1>1, CodelMemory, Zenon
  <1> HIDE DEF o1
  <1>4. KeepsDropping(o2, o1)
    BY <1>3, CodelMemory, Zenon DEF KeepsQueue
  <1> HIDE DEF o2
  <1>5. KeepsDropping(o3, o2)
    BY <1>4, CodelMemory, Zenon DEF KeepsQueue, KeepsDropping
  <1> HIDE DEF o3
  <1>6. KeepsDropping(o4, o3)
    BY <1>5, CodelMemory, Zenon DEF KeepsQueue, KeepsDropping
  <1> HIDE DEF o4
  <1>7. QueueOK(o4) /\ o4.internal_queue = o.internal_queue
    BY <1>3, <1>4, <1>5, <1>6 DEF KeepsDropping, KeepsQueue
  <1> QED
    BY <1>1, <1>2, <1>7, Zenon

\* What a call of dequeue returns: the first packet, and a queue that has lost
\* nothing but packets that followed it, and those only if CoDel may drop.
Returns(d, q) ==
    /\ d.packet = Head(q.internal_queue)
    /\ QueueOK(d.queue)
    /\ SuffixOf(d.queue.internal_queue, Tail(q.internal_queue))
    /\ d.queue.internal_queue = Tail(q.internal_queue) \/ MayDrop(Tail(q.internal_queue))

LEMMA CoDelDequeueOK ==
    ASSUME setup \in Links, setup.args.type = "codel", NEW q, QueueOK(q),
           q.internal_queue # <<>>, NEW t
    PROVE  Returns(CoDelDequeue(q, t), q)
  <1> DEFINE d == dodequeue(q, t)
             rest == Tail(q.internal_queue)
             r == [d.queue EXCEPT !.active.dropping = d.ok_to_drop]
             left == IF q.active.dropping THEN Discarding(r, t)
                     ELSE IF d.ok_to_drop THEN StartDropping(d.queue, t)
                     ELSE d.queue
  <1>1. CoDelDequeue(q, t) = [packet |-> d.packet, queue |-> left]
    BY Zenon DEF CoDelDequeue
  <1>2. /\ d.packet = Head(q.internal_queue)
        /\ QueueOK(d.queue) /\ d.queue.internal_queue = rest
        /\ d.ok_to_drop => rest # <<>> /\ MayDrop(rest)
    BY DodequeueOK
  <1>3. rest \in Seq(Packet)
    BY GoodTail DEF QueueOK
  <1> HIDE DEF d, rest
  <1>4. SuffixOf(rest, rest)
    BY <1>3, SuffixFacts
  <1>5. Drops(r, rest)
    <2>1. QueueOK(r) /\ r.internal_queue = rest /\ r.active.dropping = d.ok_to_drop
      BY <1>2, CodelMemory, Zenon DEF KeepsQueue
    <2> HIDE DEF r
    <2> QED
      BY <1>2, <1>4, <2>1, Zenon DEF Drops
  <1> HIDE DEF r
  <1>6. /\ QueueOK(left) /\ SuffixOf(left.internal_queue, rest)
        /\ left.internal_queue = rest \/ MayDrop(rest)
    <2>1. CASE q.active.dropping
      <3>1. Drops(Discarding(r, t), rest)
        BY <1>3, <1>5, DiscardingOK
      <3> QED
        BY <2>1, <3>1, Zenon DEF Drops
    <2>2. CASE ~q.active.dropping /\ d.ok_to_drop
      <3>1. /\ QueueOK(StartDropping(d.queue, t))
            /\ StartDropping(d.queue, t).internal_queue = Tail(rest)
        BY <1>2, <2>2, StartDroppingOK, Zenon
      <3>2. SuffixOf(Tail(rest), rest)
        BY <1>2, <1>3, <2>2, SuffixFacts
      <3> QED
        BY <1>2, <2>2, <3>1, <3>2, Zenon
    <2>3. CASE ~q.active.dropping /\ ~d.ok_to_drop
      BY <1>2, <1>4, <2>3, Zenon
    <2> QED
      BY <2>1, <2>2, <2>3
  <1> HIDE DEF left
  <1>7. CoDelDequeue(q, t).packet = d.packet /\ CoDelDequeue(q, t).queue = left
    BY <1>1
  <1> QED
    BY <1>2, <1>6, <1>7, Zenon DEF Returns, rest

-----------------------------------------------------------------------------
(* PIE                                                                      *)

LEMMA PieMemory ==
    ASSUME setup.args.type = "pie", NEW q, QueueOK(q), NEW a, PieFields(a)
    PROVE  KeepsQueue([q EXCEPT !.active = a], q)
  <1>1. ActiveFits(a)
    BY SMT DEF ActiveFits
  <1> QED
    BY <1>1, NewMemory, Zenon DEF KeepsQueue

LEMMA PieFieldsKept ==
    ASSUME NEW a, PieFields(a), NEW v
    PROVE  /\ PieFields([a EXCEPT !.qdelay_old = v]) /\ PieFields([a EXCEPT !.current_qdelay = v])
           /\ PieFields([a EXCEPT !.drop_prob = v]) /\ PieFields([a EXCEPT !.burst_allowance = v])
           /\ PieFields([a EXCEPT !.dq_count = v]) /\ PieFields([a EXCEPT !.avg_dq_rate = v])
           /\ PieFields([a EXCEPT !.dq_tstamp = v])
           /\ v \in Int => PieFields([a EXCEPT !.last_update = v])
  <1>1. PieFields([a EXCEPT !.qdelay_old = v]) /\ PieFields([a EXCEPT !.current_qdelay = v])
    BY SMT DEF PieFields
  <1>2. PieFields([a EXCEPT !.drop_prob = v]) /\ PieFields([a EXCEPT !.burst_allowance = v])
    BY SMT DEF PieFields
  <1>3. PieFields([a EXCEPT !.dq_count = v]) /\ PieFields([a EXCEPT !.avg_dq_rate = v])
    BY SMT DEF PieFields
  <1>4. PieFields([a EXCEPT !.dq_tstamp = v])
    BY SMT DEF PieFields
  <1>5. v \in Int => PieFields([a EXCEPT !.last_update = v])
    BY SMT DEF PieFields
  <1> QED
    BY <1>1, <1>2, <1>3, <1>4, <1>5

LEMMA UpdateDropProbOK ==
    ASSUME setup \in Links, setup.args.type = "pie", NEW q, QueueOK(q)
    PROVE  KeepsQueue(UpdateDropProb(q), q)
  <1> DEFINE a == q.active
             half == q.args.delays[1] \div 2
             cur == IF a.avg_dq_rate > 0 THEN size_bytes(q.internal_queue) \div a.avg_dq_rate ELSE 0
             prob == NextDropProb(q, cur)
             calm == prob = 0 /\ cur < half /\ a.current_qdelay < half /\ a.avg_dq_rate > 0
             b1 == [a EXCEPT !.qdelay_old = a.current_qdelay]
             b2 == [b1 EXCEPT !.current_qdelay = cur]
             b3 == [b2 EXCEPT !.drop_prob = prob]
             b4 == [b3 EXCEPT !.burst_allowance = IF calm THEN q.args.delays[2]
                                                  ELSE AtLeastZero(@ - t_update)]
             b5 == [b4 EXCEPT !.dq_count = IF calm THEN INVALID ELSE @]
             b6 == [b5 EXCEPT !.avg_dq_rate = IF calm THEN 0 ELSE @]
             b == [b6 EXCEPT !.last_update = @ + t_update]
             all == [a EXCEPT !.qdelay_old = a.current_qdelay, !.current_qdelay = cur,
                              !.drop_prob = prob,
                              !.burst_allowance = IF calm THEN q.args.delays[2]
                                                  ELSE AtLeastZero(@ - t_update),
                              !.dq_count = IF calm THEN INVALID ELSE @,
                              !.avg_dq_rate = IF calm THEN 0 ELSE @,
                              !.last_update = @ + t_update]
             r == [q EXCEPT !.active = all]
  <1>1. UpdateDropProb(q) = r
    BY Zenon DEF UpdateDropProb
  <1>2. PieFields(a) /\ t_update \in Int
    BY LinkFacts DEF QueueOK, ActiveFits
  <1> HIDE DEF a, half, cur, prob, calm
  <1>3. PieFields(b)
    <2>1. PieFields(b1)
      BY <1>2, PieFieldsKept, Zenon
    <2> HIDE DEF b1
    <2>2. PieFields(b2)
      BY <2>1, PieFieldsKept, Zenon
    <2> HIDE DEF b2
    <2>3. PieFields(b3)
      BY <2>2, PieFieldsKept, Zenon
    <2> HIDE DEF b3
    <2>4. PieFields(b4)
      BY <2>3, PieFieldsKept, Zenon
    <2> HIDE DEF b4
    <2>5. PieFields(b5)
      BY <2>4, PieFieldsKept, Zenon
    <2> HIDE DEF b5
    <2>6. PieFields(b6)
      BY <2>5, PieFieldsKept, Zenon
    <2> HIDE DEF b6
    <2>7. b6.last_update + t_update \in Int
      BY <1>2, <2>6 DEF PieFields
    <2> QED
      BY <2>6, <2>7, PieFieldsKept, Zenon
  <1>4. b = all
    BY Zenon
  <1> HIDE DEF b, all
  <1>5. KeepsQueue(r, q)
    BY <1>3, <1>4, PieMemory, Zenon
  <1> QED
    BY <1>1, <1>5, Zenon

LEMMA CalculateDropProbOK ==
    ASSUME setup \in Links, setup.args.type = "pie", NEW q, QueueOK(q), NEW t \in Nat
    PROVE  KeepsQueue(calculate_drop_prob(q, t), q)
  <1> DEFINE n == AtLeastZero(t - q.active.last_update - 1) \div t_update
             Is(f) == f = [k \in 0 .. n |-> IF k = 0 THEN q ELSE UpdateDropProb(f[k - 1])]
             updated == CHOOSE f : Is(f)
  <1>1. calculate_drop_prob(q, t) = updated[n]
    BY Zenon DEF calculate_drop_prob
  <1>2. n \in Nat
    <2>1. q.active.last_update \in Int /\ t_update \in Nat \ {0}
      BY LinkFacts DEF QueueOK, ActiveFits, PieFields
    <2> QED
      BY <2>1, SMT DEF AtLeastZero
  <1>3. KeepsQueue(q, q)
    BY DEF KeepsQueue
  <1>4. ASSUME NEW r, KeepsQueue(r, q) PROVE KeepsQueue(UpdateDropProb(r), q)
    BY <1>4, UpdateDropProbOK, Zenon DEF KeepsQueue
  <1> HIDE DEF n
  <1> DEFINE Runs(f, m) == f[0] = q /\ \A k \in 1 .. m : f[k] = UpdateDropProb(f[k - 1])
             T == {m \in Nat : \E f : Runs(f, m)}
  <1>5. 0 \in T
    <2>1. Runs([k \in {0} |-> q], 0)
      BY SMT
    <2> QED
      BY <2>1
  <1>6. ASSUME NEW m \in Nat, m \in T PROVE m + 1 \in T
    <2>1. PICK f : Runs(f, m)
      BY <1>6
    <2> DEFINE h == [k \in 0 .. m + 1 |-> IF k = m + 1 THEN UpdateDropProb(f[m]) ELSE f[k]]
    <2>2. Runs(h, m + 1) /\ m + 1 \in Nat
      BY <2>1, SMT
    <2> HIDE DEF Runs
    <2> QED
      BY <2>2
  <1>7. T = Nat
    <2> HIDE DEF T
    <2>1. T \in SUBSET Nat
      BY DEF T
    <2> QED
      BY <1>5, <1>6, <2>1, NatSet
  <1>8. PICK f : Runs(f, n)
    BY <1>2, <1>7
  <1>9. Is([k \in 0 .. n |-> f[k]])
    BY <1>2, <1>8, SMT
  <1>10. Is(updated)
    <2> HIDE DEF Is
    <2> QED
      BY <1>9, Zenon
  <1> HIDE DEF updated
  <1> DEFINE U == {m \in Nat : m <= n => KeepsQueue(updated[m], q)}
  <1>11. 0 \in U
    <2>1. updated[0] = q
      BY <1>2, <1>10, SMT
    <2> QED
      BY <1>3, <2>1
  <1>12. ASSUME NEW m \in Nat, m \in U PROVE m + 1 \in U
    <2>1. m + 1 \in Nat
      OBVIOUS
    <2>2. SUFFICES ASSUME m + 1 <= n PROVE KeepsQueue(updated[m + 1], q)
      BY <2>1, Zenon
    <2>3. updated[m + 1] = UpdateDropProb(updated[m]) /\ m <= n
      BY <1>2, <1>10, <2>2, SMT
    <2> QED
      BY <1>4, <1>12, <2>3, Zenon
  <1>13. U = Nat
    <2> HIDE DEF U
    <2>1. U \in SUBSET Nat
      BY DEF U
    <2> QED
      BY <1>11, <1>12, <2>1, NatSet
  <1>14. n \in U /\ n <= n
    BY <1>2, <1>13, SMT
  <1> QED
    BY <1>1, <1>14, Zenon

LEMMA MeasuredOK ==
    ASSUME setup.args.type = "pie", NEW q, QueueOK(q), NEW p, NEW t
    PROVE  KeepsQueue(Measured(q, p, t), q)
  <1> DEFINE a == q.active
             bytes == size_bytes(q.internal_queue)
             begins == bytes >= dq_threshold /\ a.dq_count = INVALID
             started == IF begins THEN t ELSE a.dq_tstamp
             count == (IF begins THEN 0 ELSE a.dq_count) + p.size
             dtime == t - started
             sample == count \div dtime
             rate == IF a.avg_dq_rate = 0 THEN sample
                     ELSE (a.avg_dq_rate - a.avg_dq_rate \div 8) + sample \div 8
             a1 == [a EXCEPT !.dq_count = count]
             a2 == [a1 EXCEPT !.dq_tstamp = started]
             b1 == [a EXCEPT !.avg_dq_rate = rate]
             b2 == [b1 EXCEPT !.dq_count = IF bytes < dq_threshold THEN INVALID ELSE 0]
             b3 == [b2 EXCEPT !.dq_tstamp = IF bytes < dq_threshold THEN started ELSE t]
             b4 == [b3 EXCEPT !.burst_allowance = AtLeastZero(@ - dtime)]
             b == IF ~begins /\ a.dq_count = INVALID THEN a
                  ELSE IF count <= dq_threshold \/ dtime = 0 THEN a2
                  ELSE b4
             all == IF ~begins /\ a.dq_count = INVALID THEN a
                    ELSE IF count <= dq_threshold \/ dtime = 0
                         THEN [a EXCEPT !.dq_count = count, !.dq_tstamp = started]
                    ELSE [a EXCEPT
                             !.avg_dq_rate = rate,
                             !.dq_count = IF bytes < dq_threshold THEN INVALID ELSE 0,
                             !.dq_tstamp = IF bytes < dq_threshold THEN started ELSE t,
                             !.burst_allowance = AtLeastZero(@ - dtime)]
             r == [q EXCEPT !.active = all]
  <1>1. Measured(q, p, t) = r
    BY Zenon DEF Measured
  <1>2. PieFields(a)
    BY DEF QueueOK, ActiveFits
  <1> HIDE DEF a, bytes, begins, started, count, dtime, rate
  <1>3. PieFields(a2)
    <2>1. PieFields(a1)
      BY <1>2, PieFieldsKept, Zenon
    <2> HIDE DEF a1
    <2> QED
      BY <2>1, PieFieldsKept, Zenon
  <1> HIDE DEF a2
  <1>4. PieFields(b4)
    <2>1. PieFields(b1)
      BY <1>2, PieFieldsKept, Zenon
    <2> HIDE DEF b1
    <2>2. PieFields(b2)
      BY <2>1, PieFieldsKept, Zenon
    <2> HIDE DEF b2
    <2>3. PieFields(b3)
      BY <2>2, PieFieldsKept, Zenon
    <2> HIDE DEF b3
    <2> QED
      BY <2>3, PieFieldsKept, Zenon
  <1> HIDE DEF b4
  <1>5. PieFields(b)
    BY <1>2, <1>3, <1>4, Zenon
  <1>6. b = all
    BY Zenon DEF a2, b4
  <1> HIDE DEF b, all
  <1>7. KeepsQueue(r, q)
    BY <1>5, <1>6, PieMemory, Zenon
  <1> QED
    BY <1>1, <1>7, Zenon

LEMMA PieDequeueOK ==
    ASSUME setup \in Links, setup.args.type = "pie", NEW q, QueueOK(q),
           q.internal_queue # <<>>, NEW t \in Nat
    PROVE  Returns(PieDequeue(q, t), q)
  <1> DEFINE rest == Tail(q.internal_queue)
             p == Head(q.internal_queue)
             m == Measured(Popped(q), p, t)
             r == calculate_drop_prob(m, t)
  <1>1. QueueOK(Popped(q)) /\ Popped(q).internal_queue = rest
    BY PoppedOK
  <1>2. QueueOK(m) /\ m.internal_queue = rest
    BY <1>1, MeasuredOK DEF KeepsQueue
  <1> HIDE DEF m
  <1>3. QueueOK(r) /\ r.internal_queue = rest
    BY <1>2, CalculateDropProbOK DEF KeepsQueue
  <1>4. SuffixOf(rest, rest)
    BY GoodTail, SuffixFacts DEF QueueOK
  <1>5. PieDequeue(q, t) = [packet |-> p, queue |-> r]
    BY Zenon DEF PieDequeue, m
  <1> HIDE DEF r, p, rest
  <1>6. PieDequeue(q, t).packet = p /\ PieDequeue(q, t).queue = r
    BY <1>5
  <1> QED
    BY <1>3, <1>4, <1>6, Zenon DEF Returns, p, rest

-----------------------------------------------------------------------------
(* What the link calls                                                      *)

\* The packets leave no room for one of the largest size, or PIE may drop one.
Refuses(ps) ==
    \/ ~good_with(setup.args, size_bytes(ps) + PACKET_SIZE, Len(ps) + 1)
    \/ setup.args.type = "pie" /\ size_bytes(ps) > PACKET_SIZE

\* A packet came: it is in the queue or not, and others at the head may be gone; all
\* of them are there unless there was no room.
Takes(r, q, p) ==
    /\ QueueOK(r)
    /\ \/ SuffixOf(r.internal_queue, Append(q.internal_queue, p))
       \/ r.internal_queue = q.internal_queue
    /\ Len(r.internal_queue) = Len(q.internal_queue) + 1 \/ Refuses(q.internal_queue)

\* What is not good with a packet more would not be with one of the largest size.
LEMMA NotGoodRefuses ==
    ASSUME setup \in Links, NEW ps \in Seq(Packet), NEW p \in Packet,
           ~good(setup.args, Append(ps, p))
    PROVE  Refuses(ps)
  <1>1. /\ setup.args.byte_limit \in Nat /\ setup.args.packet_limit \in Nat
        /\ PACKET_SIZE \in Nat
    BY LinkFacts DEF ArgsAllowed
  <1>2. p.size \in 1 .. PACKET_SIZE
    <2>1. p.size \in setup.sizes
      BY Zenon DEF Packet
    <2> QED
      BY <2>1, LinkFacts
  <1>3. size_bytes(Append(ps, p)) = size_bytes(ps) + p.size /\ size_bytes(ps) \in Nat
    BY LinkFacts, SizeAppend, SuffixFacts, SizeSuffix
  <1>4. Len(Append(ps, p)) = Len(ps) + 1 /\ Len(ps) \in Nat
    BY AppendProperties, LenProperties
  <1>5. ~good_with(setup.args, size_bytes(ps) + p.size, Len(ps) + 1)
    BY <1>3, <1>4 DEF good
  <1>6. ~good_with(setup.args, size_bytes(ps) + PACKET_SIZE, Len(ps) + 1)
    BY <1>1, <1>2, <1>3, <1>4, <1>5, SMT DEF good_with
  <1> QED
    BY <1>6 DEF Refuses

\* A packet that PIE drops finds at least two of the largest size in the queue.
LEMMA DropEarlyRefuses ==
    ASSUME setup \in Links, setup.args.type = "pie", NEW u, QueueOK(u), TRUE \in drop_early(u)
    PROVE  Refuses(u.internal_queue)
  <1>1. ~(size_bytes(u.internal_queue) < 2 * PACKET_SIZE)
    BY Zenon DEF drop_early
  <1>2. size_bytes(u.internal_queue) \in Nat /\ PACKET_SIZE \in Nat \ {0}
    BY LinkFacts, SuffixFacts, SizeSuffix DEF QueueOK
  <1> QED
    BY <1>1, <1>2, SMT DEF Refuses

LEMMA AcceptOK ==
    ASSUME NEW q, QueueOK(q), NEW p \in Packet, Within(Append(q.internal_queue, p))
    PROVE  Takes(accept(q, p), q, p)
  <1> DEFINE a == Append(q.internal_queue, p)
  <1>1. a \in Seq(Packet)
    BY AppendProperties DEF QueueOK
  <1>2. SuffixOf(a, a)
    BY <1>1, SuffixFacts
  <1>3. accept(q, p) = [q EXCEPT !.internal_queue = a]
    BY DEF accept
  <1> HIDE DEF a
  <1>4. QueueOK(accept(q, p)) /\ accept(q, p).internal_queue = a
    <2> DEFINE x == [q EXCEPT !.internal_queue = a]
    <2>1. Within(a)
      BY Zenon DEF a
    <2>2. x.internal_queue = a /\ QueueOK(x)
      BY <1>1, <2>1, NewPackets
    <2> QED
      BY <1>3, <2>2, Zenon
  <1>5. Len(a) = Len(q.internal_queue) + 1
    BY AppendProperties DEF QueueOK, a
  <1> QED
    BY <1>2, <1>4, <1>5, Zenon DEF Takes, a

LEMMA DropTailOK ==
    ASSUME setup \in Links, NEW q, QueueOK(q), NEW p \in Packet
    PROVE  Takes(DropTail(q, p), q, p)
  <1> DEFINE a == Append(q.internal_queue, p)
  <1>1. q.args = setup.args
    BY SMT DEF QueueOK
  <1>2. CASE good(q.args, a)
    <2>1. Within(a)
      BY <1>1, <1>2 DEF Within
    <2> QED
      BY <1>2, <2>1, AcceptOK, Zenon DEF DropTail
  <1>3. CASE ~good(q.args, a)
    <2>1. Refuses(q.internal_queue)
      BY <1>1, <1>3, NotGoodRefuses DEF QueueOK
    <2> QED
      BY <1>3, <2>1, Zenon DEF DropTail, Takes
  <1> QED
    BY <1>2, <1>3

LEMMA DropHeadOK ==
    ASSUME setup \in Links, setup.args.type # "infinite", NEW q, QueueOK(q), NEW p \in Packet
    PROVE  Takes(DropHead(q, p), q, p)
  <1> DEFINE a == Append(q.internal_queue, p)
             GoodFrom == {i \in 1 .. Len(a) + 1 : good(q.args, SubSeq(a, i, Len(a)))}
             first == CHOOSE k \in GoodFrom : \A j \in GoodFrom : k <= j
             rest == SubSeq(a, first, Len(a))
  <1>1. q.args = setup.args
    BY SMT DEF QueueOK
  <1>2. a \in Seq(Packet) /\ Len(a) \in Nat
    BY AppendProperties, LenProperties DEF QueueOK
  <1>3. DropHead(q, p) = [q EXCEPT !.internal_queue = rest]
    BY Zenon DEF DropHead
  <1> HIDE DEF a
  <1>4. Len(a) + 1 \in GoodFrom
    <2>1. SubSeq(a, Len(a) + 1, Len(a)) = <<>>
      BY <1>2, SMT
    <2>2. good(setup.args, <<>>)
      BY GoodEmpty DEF Within
    <2>3. Len(a) + 1 \in 1 .. Len(a) + 1
      BY <1>2, SMT
    <2> QED
      BY <1>1, <2>1, <2>2, <2>3
  <1>5. first \in GoodFrom
    <2>1. GoodFrom \in SUBSET Nat
      BY <1>2, SMT
    <2> HIDE DEF GoodFrom
    <2>2. PICK n \in GoodFrom : \A k \in Nat : k < n => k \notin GoodFrom
      BY <1>4, <2>1, LeastNat, Zenon
    <2>3. \A j \in GoodFrom : n <= j
      BY <2>1, <2>2, SMT
    <2> QED
      BY <2>3, Zenon
  <1>6. first \in 1 .. Len(a) + 1 /\ good(q.args, rest)
    BY <1>5
  <1>10. rest = a \/ Refuses(q.internal_queue)
    <2>1. SubSeq(a, 1, Len(a)) = a
      BY <1>2, SubSeqFull
    <2>2. CASE good(q.args, a)
      <3>1. 1 \in GoodFrom /\ \A j \in GoodFrom : j >= 1
        <4>1. 1 \in 1 .. Len(a) + 1 /\ \A j \in 1 .. Len(a) + 1 : j >= 1
          BY <1>2, SMT
        <4> QED
          BY <2>1, <2>2, <4>1
      <3>2. first = 1
        <4>1. GoodFrom \in SUBSET Nat
          BY <1>2, SMT
        <4> HIDE DEF GoodFrom
        <4>2. \A j \in GoodFrom : 1 <= j
          BY <3>1, <4>1, SMT
        <4>3. first \in GoodFrom /\ \A j \in GoodFrom : first <= j
          BY <3>1, <4>2, Zenon
        <4> HIDE DEF first
        <4>4. first \in Nat /\ first <= 1 /\ 1 <= first
          BY <3>1, <4>1, <4>2, <4>3
        <4> QED
          BY <4>4, SMT
      <3> QED
        BY <2>1, <3>2
    <2>3. CASE ~good(q.args, a)
      BY <1>1, <2>3, NotGoodRefuses DEF QueueOK, a
    <2> QED
      BY <2>2, <2>3
  <1> HIDE DEF first
  <1>7. SuffixOf(rest, a) /\ Within(rest)
    BY <1>1, <1>6, Zenon DEF SuffixOf, Within
  <1>8. rest \in Seq(Packet)
    BY <1>2, <1>7, SuffixFacts
  <1> HIDE DEF rest
  <1>9. QueueOK(DropHead(q, p)) /\ DropHead(q, p).internal_queue = rest
    <2> DEFINE x == [q EXCEPT !.internal_queue = rest]
    <2>1. x.internal_queue = rest /\ QueueOK(x)
      BY <1>7, <1>8, NewPackets
    <2> QED
      BY <1>3, <2>1, Zenon
  <1>11. Len(a) = Len(q.internal_queue) + 1
    BY AppendProperties DEF QueueOK, a
  <1> QED
    BY <1>7, <1>9, <1>10, <1>11, Zenon DEF Takes, a

LEMMA EnqueueOK ==
    ASSUME setup \in Links, NEW q, QueueOK(q), NEW p \in Packet, NEW t \in Nat,
           NEW r \in Enqueue(q, p, t)
    PROVE  Takes(r, q, p)
  <1>1. q.args = setup.args
    BY SMT DEF QueueOK
  <1>2. setup.args.type \in {"infinite", "droptail", "drophead", "codel", "pie"}
    BY LinkFacts DEF ArgsAllowed
  <1>3. CASE setup.args.type = "infinite"
    <2>1. r = accept(q, p)
      BY <1>1, <1>3, SMT DEF Enqueue
    <2>2. Within(Append(q.internal_queue, p))
      BY <1>3 DEF Within
    <2> QED
      BY <2>1, <2>2, AcceptOK
  <1>4. CASE setup.args.type \in {"droptail", "codel"}
    <2>1. r = DropTail(q, p)
      BY <1>1, <1>4, SMT DEF Enqueue
    <2> QED
      BY <2>1, DropTailOK
  <1>5. CASE setup.args.type = "drophead"
    <2>1. r = DropHead(q, p)
      BY <1>1, <1>5, SMT DEF Enqueue
    <2> QED
      BY <1>5, <2>1, DropHeadOK
  <1>6. CASE setup.args.type = "pie"
    <2> DEFINE u == calculate_drop_prob(q, t)
    <2>1. r \in PieEnqueue(q, p, t)
      BY <1>1, <1>6, SMT DEF Enqueue
    <2>2. (r = u /\ TRUE \in drop_early(u)) \/ r = DropTail(u, p)
      <3>1. PICK drop \in drop_early(u) : r = IF drop THEN u ELSE DropTail(u, p)
        BY <2>1, Zenon DEF PieEnqueue
      <3>2. drop \in BOOLEAN
        BY <3>1, Zenon DEF drop_early
      <3>3. CASE drop = TRUE
        BY <3>1, <3>3, Zenon
      <3>4. CASE drop = FALSE
        BY <3>1, <3>4, Zenon
      <3> QED
        BY <3>2, <3>3, <3>4, Zenon
    <2>3. QueueOK(u) /\ u.internal_queue = q.internal_queue
      BY <1>6, CalculateDropProbOK DEF KeepsQueue
    <2> HIDE DEF u
    <2>4. Takes(DropTail(u, p), u, p)
      BY <2>3, DropTailOK
    <2>5. TRUE \in drop_early(u) => Refuses(u.internal_queue)
      BY <1>6, <2>3, DropEarlyRefuses
    <2> QED
      BY <2>2, <2>3, <2>4, <2>5, Zenon DEF Takes
  <1> QED
    BY <1>2, <1>3, <1>4, <1>5, <1>6

LEMMA DequeueOK ==
    ASSUME setup \in Links, NEW q, QueueOK(q), q.internal_queue # <<>>, NEW t \in Nat
    PROVE  Returns(Dequeue(q, t), q)
  <1>1. q.args = setup.args
    BY SMT DEF QueueOK
  <1>2. CASE setup.args.type = "codel"
    <2>1. Dequeue(q, t) = CoDelDequeue(q, t)
      BY <1>1, <1>2, SMT DEF Dequeue
    <2> QED
      BY <1>2, <2>1, CoDelDequeueOK
  <1>3. CASE setup.args.type = "pie"
    <2>1. Dequeue(q, t) = PieDequeue(q, t)
      BY <1>1, <1>3, SMT DEF Dequeue
    <2> QED
      BY <1>3, <2>1, PieDequeueOK
  <1>4. CASE setup.args.type \notin {"codel", "pie"}
    <2> DEFINE rest == Tail(q.internal_queue)
    <2>1. Dequeue(q, t) = [packet |-> Head(q.internal_queue), queue |-> Popped(q)]
      BY <1>1, <1>4, SMT DEF Dequeue
    <2>2. /\ Dequeue(q, t).packet = Head(q.internal_queue)
          /\ Dequeue(q, t).queue = Popped(q)
      BY <2>1
    <2>3. QueueOK(Popped(q)) /\ Popped(q).internal_queue = rest
      BY PoppedOK
    <2>4. SuffixOf(rest, rest)
      BY GoodTail, SuffixFacts DEF QueueOK
    <2> HIDE DEF rest
    <2> QED
      BY <2>2, <2>3, <2>4, Zenon DEF Returns, rest
  <1> QED
    BY <1>2, <1>3, <1>4

-----------------------------------------------------------------------------
(* The link: its invariant                                                  *)

\* A link of its parts.
LinkOf(nd, bt, pq, it, bl, oq, fin) ==
    [schedule |-> setup.schedule, repeat |-> setup.repeat, next_delivery |-> nd,
     base_timestamp |-> bt, packet_queue |-> pq, in_transit |-> it,
     bytes_left |-> bl, output_queue |-> oq, finished |-> fin]

\* The packet under way has bytes left, no more than `most` allows.
Clock(nd, bt, fin) ==
    nd \in 0 .. Len(setup.schedule) - 1 /\ bt \in Nat /\ fin \in BOOLEAN

Transit(it, bl) ==
    /\ it \in Seq(Packet) /\ Len(it) <= 1 /\ bl \in Nat
    /\ bl = 0 <=> it = <<>>
    /\ it # <<>> => bl <= it[1].size

\* The ids go up from what is sent to what is queued, between lo and hi.
InSteps(oq, it, ps, lo, hi) ==
    \E b, c \in Nat : Ordered(oq, lo, b) /\ Ordered(it, b, c) /\ Ordered(ps, c, hi)

LinkOK(l, lo, hi) ==
    /\ l = LinkOf(l.next_delivery, l.base_timestamp, l.packet_queue, l.in_transit,
                  l.bytes_left, l.output_queue, l.finished)
    /\ Clock(l.next_delivery, l.base_timestamp, l.finished)
    /\ QueueOK(l.packet_queue)
    /\ Transit(l.in_transit, l.bytes_left)
    /\ l.output_queue \in Seq(Packet)
    /\ InSteps(l.output_queue, l.in_transit, l.packet_queue.internal_queue, lo, hi)

\* Between opportunities the packet under way has lost a byte at least.
LinkRests(l, lo, hi) ==
    /\ LinkOK(l, lo, hi)
    /\ l.in_transit # <<>> => l.bytes_left < l.in_transit[1].size

LEMMA LinkParts ==
    ASSUME NEW nd, NEW bt, NEW pq, NEW it, NEW bl, NEW oq, NEW fin,
           NEW l, l = LinkOf(nd, bt, pq, it, bl, oq, fin)
    PROVE  /\ l.schedule = setup.schedule /\ l.repeat = setup.repeat
           /\ l.next_delivery = nd /\ l.base_timestamp = bt /\ l.packet_queue = pq
           /\ l.in_transit = it /\ l.bytes_left = bl /\ l.output_queue = oq /\ l.finished = fin
  BY SMT DEF LinkOf

LEMMA LinkOfOK ==
    ASSUME NEW nd, NEW bt, NEW pq, NEW it, NEW bl, NEW oq, NEW fin, NEW lo, NEW hi,
           Clock(nd, bt, fin), QueueOK(pq), Transit(it, bl), oq \in Seq(Packet),
           InSteps(oq, it, pq.internal_queue, lo, hi),
           NEW l, l = LinkOf(nd, bt, pq, it, bl, oq, fin)
    PROVE  LinkOK(l, lo, hi)
  <1>1. /\ l.next_delivery = nd /\ l.base_timestamp = bt /\ l.packet_queue = pq
        /\ l.in_transit = it /\ l.bytes_left = bl /\ l.output_queue = oq /\ l.finished = fin
    BY LinkParts
  <1> QED
    BY <1>1, Zenon DEF LinkOK

\* The packets of a link; and m is what l became without loss, but for what CoDel
\* may drop.
Held(l) == Len(l.output_queue) + Len(l.in_transit) + Len(l.packet_queue.internal_queue)

Carries(m, l) ==
    /\ SuffixOf(m.packet_queue.internal_queue, l.packet_queue.internal_queue)
    /\ Held(m) = Held(l) \/ MayDrop(l.packet_queue.internal_queue)

\* What CoDel may drop from is large, and so is all that it is the end of.
LEMMA MayDropMore ==
    ASSUME setup \in Links, NEW ps \in Seq(Packet), NEW r, SuffixOf(r, ps), MayDrop(r)
    PROVE  MayDrop(ps)
  <1>1. /\ size_bytes(r) \in Nat /\ size_bytes(ps) \in Nat /\ size_bytes(r) <= size_bytes(ps)
        /\ PACKET_SIZE \in Nat
    BY SizeSuffix, LinkFacts
  <1> QED
    BY <1>1, SMT DEF MayDrop

LEMMA CarriesOn ==
    ASSUME setup \in Links, NEW l, QueueOK(l.packet_queue)
    PROVE  /\ Carries(l, l)
           /\ \A m, k : Carries(m, l) /\ Carries(k, m) => Carries(k, l)
  <1> DEFINE ps == l.packet_queue.internal_queue
  <1>1. ps \in Seq(Packet)
    BY DEF QueueOK
  <1>2. Carries(l, l)
    <2>1. SuffixOf(ps, ps)
      BY <1>1, SuffixFacts
    <2> QED
      BY <2>1, Zenon DEF Carries
  <1>3. ASSUME NEW m, NEW k, Carries(m, l), Carries(k, m) PROVE Carries(k, l)
    <2> DEFINE r == m.packet_queue.internal_queue
               w == k.packet_queue.internal_queue
    <2>1. SuffixOf(r, ps) /\ SuffixOf(w, r)
      BY <1>3, Zenon DEF Carries
    <2>2. SuffixOf(w, ps)
      BY <1>1, <2>1, SuffixOfSuffix
    <2>3. MayDrop(r) => MayDrop(ps)
      BY <1>1, <2>1, MayDropMore
    <2> QED
      BY <1>3, <2>2, <2>3, Zenon DEF Carries
  <1> QED
    BY <1>2, <1>3, Zenon

\* What an opportunity changes of a link is its clock.
LEMMA UseParts ==
    ASSUME setup \in Links, NEW l, NEW lo, NEW hi, LinkRests(l, lo, hi)
    PROVE  LET u == use_a_delivery_opportunity(l)
               n == (l.next_delivery + 1) % Len(setup.schedule)
           IN  /\ u.next_delivery = n
               /\ u.base_timestamp = l.base_timestamp
                      + IF n = 0 /\ setup.repeat THEN setup.schedule[Len(setup.schedule)] ELSE 0
               /\ u.finished = (l.finished \/ (n = 0 /\ ~setup.repeat))
               /\ u.packet_queue = l.packet_queue /\ u.in_transit = l.in_transit
               /\ u.bytes_left = l.bytes_left /\ u.output_queue = l.output_queue
  <1> DEFINE n == (l.next_delivery + 1) % Len(l.schedule)
             wrapped == n = 0
             bt == l.base_timestamp + IF wrapped /\ l.repeat
                                      THEN l.schedule[Len(l.schedule)] ELSE 0
             fin == l.finished \/ (wrapped /\ ~l.repeat)
             u == use_a_delivery_opportunity(l)
             l1 == [l EXCEPT !.next_delivery = n]
             l2 == [l1 EXCEPT !.base_timestamp = bt]
             l3 == [l2 EXCEPT !.finished = fin]
  <1>1. l = LinkOf(l.next_delivery, l.base_timestamp, l.packet_queue, l.in_transit,
                   l.bytes_left, l.output_queue, l.finished)
    BY DEF LinkRests, LinkOK
  <1>2. l.schedule = setup.schedule /\ l.repeat = setup.repeat
    BY <1>1, LinkParts
  <1>5. u = LinkOf(n, bt, l.packet_queue, l.in_transit, l.bytes_left, l.output_queue, fin)
    <2> DEFINE L(nd, b, f) == LinkOf(nd, b, l.packet_queue, l.in_transit, l.bytes_left,
                                     l.output_queue, f)
    <2>1. u = [l EXCEPT !.next_delivery = n, !.base_timestamp = bt, !.finished = fin]
      BY Zenon DEF use_a_delivery_opportunity
    <2> HIDE DEF n, wrapped, bt, fin, u
    <2>2. l1 = L(n, l.base_timestamp, l.finished)
      BY <1>1, SMT DEF LinkOf
    <2>3. [l EXCEPT !.next_delivery = n, !.base_timestamp = bt, !.finished = fin] = l3
      BY Zenon
    <2> HIDE DEF l1
    <2>4. l2 = L(n, bt, l.finished)
      BY <2>2, SMT DEF LinkOf
    <2> HIDE DEF l2
    <2>5. l3 = L(n, bt, fin)
      BY <2>4, SMT DEF LinkOf
    <2> QED
      BY <2>1, <2>3, <2>5, Zenon
  <1> HIDE DEF n, bt, fin, u
  <1>6. /\ u.next_delivery = n /\ u.base_timestamp = bt /\ u.finished = fin
        /\ u.packet_queue = l.packet_queue /\ u.in_transit = l.in_transit
        /\ u.bytes_left = l.bytes_left /\ u.output_queue = l.output_queue
    BY <1>5, LinkParts
  <1> QED
    BY <1>2, <1>6, Zenon DEF n, bt, fin, u

\* An opportunity is used: the clock of the trace moves on.
LEMMA UseOK ==
    ASSUME setup \in Links, NEW l, NEW lo, NEW hi, LinkRests(l, lo, hi)
    PROVE  /\ LinkRests(use_a_delivery_opportunity(l), lo, hi)
           /\ Carries(use_a_delivery_opportunity(l), l)
  <1> DEFINE n == (l.next_delivery + 1) % Len(l.schedule)
             wrapped == n = 0
             bt == l.base_timestamp + IF wrapped /\ l.repeat
                                      THEN l.schedule[Len(l.schedule)] ELSE 0
             fin == l.finished \/ (wrapped /\ ~l.repeat)
             u == use_a_delivery_opportunity(l)
             l1 == [l EXCEPT !.next_delivery = n]
             l2 == [l1 EXCEPT !.base_timestamp = bt]
             l3 == [l2 EXCEPT !.finished = fin]
  <1>1. l = LinkOf(l.next_delivery, l.base_timestamp, l.packet_queue, l.in_transit,
                   l.bytes_left, l.output_queue, l.finished)
    BY DEF LinkRests, LinkOK
  <1>2. l.schedule = setup.schedule /\ l.repeat = setup.repeat
    BY <1>1, LinkParts
  <1>3. Len(setup.schedule) \in Nat \ {0}
    BY LinkFacts, LenProperties, EmptySeq, SMT
  <1>4. Clock(n, bt, fin)
    <2>1. Clock(l.next_delivery, l.base_timestamp, l.finished)
      BY DEF LinkRests, LinkOK
    <2>2. setup.schedule[Len(setup.schedule)] \in Nat
      BY <1>3, LinkFacts, ElementOfSeq, SMT
    <2>3. n \in 0 .. Len(setup.schedule) - 1
      BY <1>2, <1>3, <2>1, SMT DEF Clock
    <2>4. bt \in Nat
      BY <1>2, <2>1, <2>2, SMT DEF Clock
    <2> QED
      BY <2>3, <2>4, Zenon DEF Clock
  <1>5. u = LinkOf(n, bt, l.packet_queue, l.in_transit, l.bytes_left, l.output_queue, fin)
    <2> DEFINE L(nd, b, f) == LinkOf(nd, b, l.packet_queue, l.in_transit, l.bytes_left,
                                     l.output_queue, f)
    <2>1. u = [l EXCEPT !.next_delivery = n, !.base_timestamp = bt, !.finished = fin]
      BY Zenon DEF use_a_delivery_opportunity
    <2> HIDE DEF n, wrapped, bt, fin, u
    <2>2. l1 = L(n, l.base_timestamp, l.finished)
      BY <1>1, SMT DEF LinkOf
    <2>3. [l EXCEPT !.next_delivery = n, !.base_timestamp = bt, !.finished = fin] = l3
      BY Zenon
    <2> HIDE DEF l1
    <2>4. l2 = L(n, bt, l.finished)
      BY <2>2, SMT DEF LinkOf
    <2> HIDE DEF l2
    <2>5. l3 = L(n, bt, fin)
      BY <2>4, SMT DEF LinkOf
    <2> QED
      BY <2>1, <2>3, <2>5, Zenon
  <1> HIDE DEF n, bt, fin, u
  <1>6. LinkOK(u, lo, hi)
    <2>1. /\ QueueOK(l.packet_queue) /\ Transit(l.in_transit, l.bytes_left)
          /\ l.output_queue \in Seq(Packet)
          /\ InSteps(l.output_queue, l.in_transit, l.packet_queue.internal_queue, lo, hi)
      BY DEF LinkRests, LinkOK
    <2> QED
      BY <1>4, <1>5, <2>1, LinkOfOK
  <1>7. /\ u.in_transit = l.in_transit /\ u.bytes_left = l.bytes_left
        /\ u.packet_queue = l.packet_queue /\ u.output_queue = l.output_queue
    BY <1>5, LinkParts
  <1>8. Carries(u, l)
    <2>1. Carries(l, l)
      BY CarriesOn DEF LinkRests, LinkOK
    <2> QED
      BY <1>7, <2>1, Zenon DEF Carries, Held
  <1> QED
    BY <1>6, <1>7, <1>8, Zenon DEF LinkRests, u

\* A packet that starts is the one the queue returns.
LEMMA StartParts ==
    ASSUME NEW l, l = LinkOf(l.next_delivery, l.base_timestamp, l.packet_queue, l.in_transit,
                             l.bytes_left, l.output_queue, l.finished),
           l.bytes_left = 0, l.packet_queue.internal_queue # <<>>,
           NEW t, NEW d, d = Dequeue(l.packet_queue, t)
    PROVE  Start(l, t) = LinkOf(l.next_delivery, l.base_timestamp, d.queue, <<d.packet>>,
                                d.packet.size, l.output_queue, l.finished)
  <1> DEFINE p == d.packet
             m1 == [l EXCEPT !.in_transit = <<p>>]
             m2 == [m1 EXCEPT !.packet_queue = d.queue]
             m3 == [m2 EXCEPT !.bytes_left = p.size]
             L(pq, it, bl) == LinkOf(l.next_delivery, l.base_timestamp, pq, it, bl,
                                     l.output_queue, l.finished)
  <1>1. Start(l, t) = [l EXCEPT !.in_transit = <<p>>, !.packet_queue = d.queue,
                                !.bytes_left = p.size]
    BY Zenon DEF Start
  <1> HIDE DEF p
  <1>2. m1 = L(l.packet_queue, <<p>>, l.bytes_left)
    BY SMT DEF LinkOf
  <1>3. [l EXCEPT !.in_transit = <<p>>, !.packet_queue = d.queue, !.bytes_left = p.size] = m3
    BY Zenon
  <1> HIDE DEF m1
  <1>4. m2 = L(d.queue, <<p>>, l.bytes_left)
    BY <1>2, SMT DEF LinkOf
  <1> HIDE DEF m2
  <1>5. m3 = L(d.queue, <<p>>, p.size)
    BY <1>4, SMT DEF LinkOf
  <1> QED
    BY <1>1, <1>3, <1>5, Zenon DEF p

\* A packet is taken from the queue when none is under way.
LEMMA StartOK ==
    ASSUME setup \in Links, NEW l, NEW lo, NEW hi, LinkRests(l, lo, hi), NEW t \in Nat
    PROVE  LinkOK(Start(l, t), lo, hi) /\ Carries(Start(l, t), l)
  <1> DEFINE q == l.packet_queue
             oq == l.output_queue
             d == Dequeue(q, t)
             p == d.packet
             starts == l.bytes_left = 0 /\ q.internal_queue # <<>>
  <1>1. /\ l = LinkOf(l.next_delivery, l.base_timestamp, q, l.in_transit, l.bytes_left, oq,
                      l.finished)
        /\ Clock(l.next_delivery, l.base_timestamp, l.finished)
        /\ QueueOK(q) /\ Transit(l.in_transit, l.bytes_left) /\ oq \in Seq(Packet)
        /\ InSteps(oq, l.in_transit, q.internal_queue, lo, hi)
    BY DEF LinkRests, LinkOK
  <1>2. CASE ~starts
    <2>1. Start(l, t) = l
      BY <1>2, Zenon DEF Start
    <2>2. Carries(l, l)
      BY <1>1, CarriesOn
    <2> QED
      BY <2>1, <2>2, Zenon DEF LinkRests
  <1>3. CASE starts
    <2> DEFINE m == Start(l, t)
    <2>1. /\ p = Head(q.internal_queue) /\ QueueOK(d.queue)
          /\ SuffixOf(d.queue.internal_queue, Tail(q.internal_queue))
          /\ \/ d.queue.internal_queue = Tail(q.internal_queue)
             \/ MayDrop(Tail(q.internal_queue))
      BY <1>1, <1>3, DequeueOK, Zenon DEF Returns
    <2>2. m = LinkOf(l.next_delivery, l.base_timestamp, d.queue, <<p>>, p.size, oq, l.finished)
      BY <1>1, <1>3, StartParts, Zenon
    <2>3. q.internal_queue \in Seq(Packet) /\ q.internal_queue # <<>>
      BY <1>1, <1>3 DEF QueueOK
    <2>4. PICK b \in Nat, c \in Nat : /\ Ordered(oq, lo, b) /\ Ordered(l.in_transit, b, c)
                                     /\ Ordered(q.internal_queue, c, hi)
      BY <1>1 DEF InSteps
    <2> HIDE DEF p, q, oq, d
    <2> HIDE DEF m
    <2>6. /\ p \in Packet /\ Tail(q.internal_queue) \in Seq(Packet)
          /\ Ordered(<<p>>, c, p.id) /\ Ordered(Tail(q.internal_queue), p.id, hi)
      BY <2>1, <2>3, <2>4, HeadOrdered
    <2>7. Ordered(d.queue.internal_queue, p.id, hi)
      BY <2>1, <2>6, SuffixOrdered
    <2>8. InSteps(oq, <<p>>, d.queue.internal_queue, lo, hi)
      <3>1. p.id \in Nat
        BY <2>6 DEF Ordered
      <3>2. lo \in Nat /\ lo <= lo /\ b <= c
        BY <2>4, SMT DEF Ordered
      <3>3. Ordered(oq, lo, c)
        BY <1>1, <2>4, <3>2, WiderOrdered
      <3> QED
        BY <2>6, <2>7, <3>1, <3>3, Zenon DEF InSteps
    <2>9. Transit(<<p>>, p.size)
      <3>1. p.size \in setup.sizes
        BY <2>6, Zenon DEF Packet
      <3>2. p.size \in 1 .. PACKET_SIZE
        BY <3>1, LinkFacts
      <3> QED
        BY <2>6, <3>2, SMT DEF Transit
    <2>10. LinkOK(m, lo, hi)
      BY <1>1, <2>1, <2>2, <2>8, <2>9, LinkOfOK
    <2>11. Carries(m, l)
      <3> DEFINE ps == q.internal_queue
                 rest == d.queue.internal_queue
      <3>1. /\ m.packet_queue = d.queue /\ m.in_transit = <<p>> /\ m.output_queue = oq
            /\ l.packet_queue = q /\ l.output_queue = oq
        BY <2>2, LinkParts DEF q, oq
      <3>2. /\ Len(Tail(ps)) = Len(ps) - 1 /\ Len(ps) \in Nat /\ Tail(ps) \in Seq(Packet)
            /\ SuffixOf(Tail(ps), ps)
        BY <2>3, SuffixFacts, HeadTailProperties, LenProperties
      <3>3. Len(oq) \in Nat /\ Len(<<p>>) = 1 /\ Len(l.in_transit) = 0
        <4>1. l.in_transit = <<>>
          BY <1>1, <1>3, Zenon DEF Transit
        <4> QED
          BY <1>1, <4>1, LenProperties, EmptySeq, SMT
      <3> HIDE DEF ps, rest
      <3>4. SuffixOf(rest, ps)
        BY <2>1, <2>3, <3>2, SuffixOfSuffix DEF ps, rest
      <3>5. MayDrop(Tail(ps)) => MayDrop(ps)
        BY <2>3, <3>2, MayDropMore DEF ps
      <3>6. rest = Tail(ps) => Held(m) = Held(l)
        <4>1. Held(m) = Len(oq) + 1 + Len(rest) /\ Held(l) = Len(oq) + 0 + Len(ps)
          BY <3>1, <3>3, Zenon DEF Held, ps, rest
        <4> QED
          BY <3>2, <3>3, <4>1, SMT
      <3> QED
        BY <2>1, <3>1, <3>4, <3>5, <3>6, Zenon DEF Carries, ps, rest
    <2> QED
      BY <2>10, <2>11 DEF m
  <1> QED
    BY <1>2, <1>3

\* What is sent of a link, and what is left of the room.
LEMMA SendIs ==
    ASSUME NEW o, NEW t, NEW l, l = Start(o.link, t),
           l = LinkOf(l.next_delivery, l.base_timestamp, l.packet_queue, l.in_transit,
                      l.bytes_left, l.output_queue, l.finished),
           NEW amount, amount = IF o.room <= l.bytes_left THEN o.room ELSE l.bytes_left,
           NEW done, done = (amount > 0 /\ amount = l.bytes_left)
    PROVE  Send(o, t) =
               [room |-> IF amount = 0 THEN 0 ELSE o.room - amount,
                link |-> LinkOf(l.next_delivery, l.base_timestamp, l.packet_queue,
                                IF done THEN <<>> ELSE l.in_transit, l.bytes_left - amount,
                                IF done THEN l.output_queue \o l.in_transit ELSE l.output_queue,
                                l.finished)]
  <1> DEFINE left == l.bytes_left - amount
             it == IF done THEN <<>> ELSE l.in_transit
             oq == IF done THEN l.output_queue \o l.in_transit ELSE l.output_queue
             m == [l EXCEPT !.bytes_left = left, !.in_transit = it, !.output_queue = oq]
             room == IF amount = 0 THEN 0 ELSE o.room - amount
             m1 == [l EXCEPT !.bytes_left = left]
             m2 == [m1 EXCEPT !.in_transit = it]
             m3 == [m2 EXCEPT !.output_queue = oq]
             L(i, b, out) == LinkOf(l.next_delivery, l.base_timestamp, l.packet_queue, i, b,
                                    out, l.finished)
  <1>1. Send(o, t) = [room |-> room, link |-> m]
    BY Zenon DEF Send
  <1> HIDE DEF left, it, oq, room
  <1>2. m1 = L(l.in_transit, left, l.output_queue)
    BY SMT DEF LinkOf
  <1>3. m = m3
    BY Zenon
  <1> HIDE DEF m1
  <1>4. m2 = L(it, left, l.output_queue)
    BY <1>2, SMT DEF LinkOf
  <1> HIDE DEF m2
  <1>5. m3 = L(it, left, oq)
    BY <1>4, SMT DEF LinkOf
  <1>6. Send(o, t) = [room |-> room, link |-> L(it, left, oq)]
    BY <1>1, <1>3, <1>5, Zenon
  <1> QED
    BY <1>6, Zenon DEF left, it, oq, room

\* Bytes are sent: some of those left, or all and the packet is out.
LEMMA SendOK ==
    ASSUME setup \in Links, NEW o, NEW lo, NEW hi, LinkRests(o.link, lo, hi),
           o.room \in Nat, o.room > 0, NEW t \in Nat
    PROVE  /\ LinkRests(Send(o, t).link, lo, hi) /\ Send(o, t).room \in Nat
           /\ Carries(Send(o, t).link, o.link)
  <1> DEFINE l == Start(o.link, t)
             amount == IF o.room <= l.bytes_left THEN o.room ELSE l.bytes_left
             done == amount > 0 /\ amount = l.bytes_left
             left == l.bytes_left - amount
             it == IF done THEN <<>> ELSE l.in_transit
             oq == IF done THEN l.output_queue \o l.in_transit ELSE l.output_queue
             m == LinkOf(l.next_delivery, l.base_timestamp, l.packet_queue, it, left, oq,
                         l.finished)
             room == IF amount = 0 THEN 0 ELSE o.room - amount
  <1>1. LinkOK(l, lo, hi) /\ Carries(l, o.link)
    BY StartOK
  <1> HIDE DEF l
  <1>3. /\ l = LinkOf(l.next_delivery, l.base_timestamp, l.packet_queue, l.in_transit,
                      l.bytes_left, l.output_queue, l.finished)
        /\ Clock(l.next_delivery, l.base_timestamp, l.finished)
        /\ QueueOK(l.packet_queue) /\ Transit(l.in_transit, l.bytes_left)
        /\ l.output_queue \in Seq(Packet)
        /\ InSteps(l.output_queue, l.in_transit, l.packet_queue.internal_queue, lo, hi)
    BY <1>1 DEF LinkOK
  <1>4. /\ l.in_transit \in Seq(Packet) /\ Len(l.in_transit) <= 1 /\ l.bytes_left \in Nat
        /\ l.bytes_left = 0 <=> l.in_transit = <<>>
        /\ l.in_transit # <<>> => l.bytes_left <= l.in_transit[1].size
    BY <1>3 DEF Transit
  <1>5. /\ amount \in Nat /\ left \in Nat /\ (left = 0 <=> amount = l.bytes_left)
        /\ l.bytes_left # 0 => amount > 0 /\ left < l.bytes_left /\ room \in Nat
        /\ room \in Nat /\ (l.bytes_left = 0 => left = 0)
    BY <1>4, SMT
  <1>6. done <=> l.bytes_left # 0 /\ left = 0
    BY <1>4, <1>5, SMT
  <1>7. l.in_transit # <<>> => l.in_transit[1].size \in Nat
    <2>1. ASSUME l.in_transit # <<>> PROVE 1 \in 1 .. Len(l.in_transit)
      BY <1>4, <2>1, LenProperties, EmptySeq, SMT
    <2>2. ASSUME l.in_transit # <<>> PROVE l.in_transit[1].size \in setup.sizes
      <3>1. l.in_transit[1] \in Packet
        BY <1>4, <2>1, <2>2, ElementOfSeq
      <3> QED
        BY <3>1, Zenon DEF Packet
    <2> QED
      BY <2>2, LinkFacts
  <1>2. Send(o, t) = [room |-> room, link |-> m]
    <2>1. l = Start(o.link, t)
      BY DEF l
    <2>2. amount = IF o.room <= l.bytes_left THEN o.room ELSE l.bytes_left
      OBVIOUS
    <2>3. done = (amount > 0 /\ amount = l.bytes_left)
      OBVIOUS
    <2> HIDE DEF amount, done
    <2> QED
      BY <1>3, <2>1, <2>2, <2>3, SendIs
  <1> HIDE DEF done, left, amount, room, m
  <1>9. Transit(it, left) /\ (it # <<>> => left < it[1].size)
    <2>1. CASE done
      <3>1. it = <<>> /\ left = 0
        BY <1>6, <2>1
      <3> HIDE DEF it
      <3>2. it \in Seq(Packet) /\ Len(it) <= 1
        BY <3>1, EmptySeq, SMT
      <3> QED
        BY <3>1, <3>2, SMT DEF Transit
    <2>2. CASE ~done
      <3>1. it = l.in_transit /\ (left = 0 <=> l.bytes_left = 0)
        BY <1>5, <1>6, <2>2
      <3> HIDE DEF it
      <3>2. ASSUME it # <<>> PROVE left < it[1].size /\ left <= it[1].size
        <4> DEFINE z == l.in_transit[1].size
        <4>1. z \in Nat /\ l.bytes_left <= z /\ left < l.bytes_left
          BY <1>4, <1>5, <1>7, <3>1, <3>2, Zenon
        <4>2. it[1].size = z
          BY <3>1
        <4> HIDE DEF z
        <4> QED
          BY <1>4, <1>5, <4>1, <4>2, SMT
      <3>3. it \in Seq(Packet) /\ Len(it) <= 1 /\ (left = 0 <=> it = <<>>)
        BY <1>4, <3>1, Zenon
      <3> QED
        BY <1>5, <3>2, <3>3, Zenon DEF Transit
    <2> QED
      BY <2>1, <2>2
  <1>10. oq \in Seq(Packet) /\ InSteps(oq, it, l.packet_queue.internal_queue, lo, hi)
    <2>1. CASE done
      <3>1. PICK b \in Nat, c \in Nat :
                /\ Ordered(l.output_queue, lo, b) /\ Ordered(l.in_transit, b, c)
                /\ Ordered(l.packet_queue.internal_queue, c, hi)
        BY <1>3 DEF InSteps
      <3>2. oq = l.output_queue \o l.in_transit /\ it = <<>>
        BY <2>1
      <3>3. oq \in Seq(Packet) /\ Ordered(oq, lo, c)
        BY <1>3, <1>4, <3>1, <3>2, ConcatOrdered, ConcatProperties
      <3>4. Ordered(it, c, c)
        BY <3>2, SMT DEF Ordered
      <3> QED
        BY <3>1, <3>3, <3>4, Zenon DEF InSteps
    <2>2. CASE ~done
      BY <1>3, <2>2
    <2> QED
      BY <2>1, <2>2
  <1>15. Len(oq) + Len(it) = Len(l.output_queue) + Len(l.in_transit)
    <2>1. CASE done
      <3>1. oq = l.output_queue \o l.in_transit /\ it = <<>>
        BY <2>1
      <3> HIDE DEF oq, it
      <3>2. Len(oq) = Len(l.output_queue) + Len(l.in_transit)
        BY <1>3, <1>4, <3>1, ConcatProperties
      <3>3. Len(oq) \in Nat
        BY <1>10, LenProperties
      <3>4. Len(it) = 0
        BY <3>1, EmptySeq
      <3> QED
        BY <3>2, <3>3, <3>4, SMT
    <2>2. CASE ~done
      BY <2>2
    <2> QED
      BY <2>1, <2>2
  <1> HIDE DEF it, oq
  <1>11. LinkOK(m, lo, hi)
    BY <1>3, <1>9, <1>10, LinkOfOK DEF m
  <1>12. /\ m.in_transit = it /\ m.bytes_left = left
         /\ m.packet_queue = l.packet_queue /\ m.output_queue = oq
    BY LinkParts DEF m
  <1>16. Carries(m, o.link)
    <2>1. Carries(l, l)
      BY <1>3, CarriesOn
    <2>2. Held(m) = Held(l)
      BY <1>12, <1>15, Zenon DEF Held
    <2>3. Carries(m, l)
      BY <1>12, <2>1, <2>2, Zenon DEF Carries
    <2>4. QueueOK(o.link.packet_queue)
      BY DEF LinkRests, LinkOK
    <2> QED
      BY <1>1, <2>3, <2>4, CarriesOn, Zenon
  <1>13. LinkRests(m, lo, hi)
    BY <1>9, <1>11, <1>12, Zenon DEF LinkRests
  <1>14. Send(o, t).link = m /\ Send(o, t).room = room
    BY <1>2
  <1> QED
    BY <1>5, <1>13, <1>14, <1>16, Zenon

-----------------------------------------------------------------------------
(* The loops of the link, as the sequence of what their rounds make         *)

\* The rounds of one opportunity.
OpportunityRuns(f, l, t) ==
    /\ f[0] = [room |-> PACKET_SIZE, link |-> use_a_delivery_opportunity(l)]
    /\ \A k \in 1 .. PACKET_SIZE + 1 :
          f[k] = IF f[k - 1].room > 0 THEN Send(f[k - 1], t) ELSE f[k - 1]

\* There are such rounds, and an opportunity ends with the last.
LEMMA OpportunityRounds ==
    ASSUME setup \in Links, NEW l, NEW t
    PROVE  \E f : OpportunityRuns(f, l, t) /\ Opportunity(l, t) = f[PACKET_SIZE + 1].link
  <1> DEFINE R(o) == IF o.room > 0 THEN Send(o, t) ELSE o
             s == [room |-> PACKET_SIZE, link |-> use_a_delivery_opportunity(l)]
             n == PACKET_SIZE + 1
             Is(g) == g = [k \in 0 .. n |-> IF k = 0 THEN {s} ELSE {R(r) : r \in g[k - 1]}]
             after == CHOOSE g : Is(g)
  <1>1. Opportunity(l, t) = (CHOOSE r \in after[n] : TRUE).link
    BY Zenon DEF Opportunity, Repeat
  <1>2. n \in Nat
    BY LinkFacts
  <1> HIDE DEF R, s, n
  <1> DEFINE Runs(f, m) == f[0] = s /\ \A k \in 1 .. m : f[k] = R(f[k - 1])
             T == {m \in Nat : \E f : Runs(f, m)}
  <1>3. 0 \in T
    <2>1. Runs([k \in {0} |-> s], 0)
      BY SMT
    <2> QED
      BY <2>1
  <1>4. ASSUME NEW m \in Nat, m \in T PROVE m + 1 \in T
    <2>1. PICK f : Runs(f, m)
      BY <1>4
    <2> DEFINE h == [k \in 0 .. m + 1 |-> IF k = m + 1 THEN R(f[m]) ELSE f[k]]
    <2>2. Runs(h, m + 1) /\ m + 1 \in Nat
      BY <2>1, SMT
    <2> HIDE DEF Runs
    <2> QED
      BY <2>2
  <1>5. T = Nat
    <2> HIDE DEF T
    <2>1. T \in SUBSET Nat
      BY DEF T
    <2> QED
      BY <1>3, <1>4, <2>1, NatSet
  <1>6. PICK f : Runs(f, n)
    BY <1>2, <1>5
  <1> DEFINE w == [k \in 0 .. n |-> {f[k]}]
  <1>7. Is(w)
    <2>1. ASSUME NEW k \in 0 .. n
          PROVE  w[k] = IF k = 0 THEN {s} ELSE {R(r) : r \in w[k - 1]}
      <3>1. CASE k = 0
        BY <1>6, <3>1
      <3>2. CASE k # 0
        <4>1. k - 1 \in 0 .. n /\ k \in 1 .. n
          BY <1>2, <3>2, SMT
        <4>2. w[k - 1] = {f[k - 1]} /\ w[k] = {f[k]} /\ f[k] = R(f[k - 1])
          BY <1>6, <4>1
        <4> QED
          BY <3>2, <4>2
      <3> QED
        BY <3>1, <3>2
    <2> QED
      BY <2>1
  <1>8. Is(after)
    <2> HIDE DEF Is
    <2> QED
      BY <1>7, Zenon
  <1> HIDE DEF after
  <1> DEFINE U == {m \in Nat : m <= n => after[m] = {f[m]}}
  <1>9. 0 \in U
    <2>1. 0 \in 0 .. n
      BY <1>2, SMT
    <2>2. after[0] = {s}
      BY <1>8, <2>1
    <2> QED
      BY <1>6, <2>2
  <1>10. ASSUME NEW m \in Nat, m \in U PROVE m + 1 \in U
    <2>1. m + 1 \in Nat /\ m + 1 # 0 /\ (m + 1) - 1 = m
      OBVIOUS
    <2>2. SUFFICES ASSUME m + 1 <= n PROVE after[m + 1] = {f[m + 1]}
      BY <2>1, Zenon
    <2>3. m <= n /\ m + 1 \in 0 .. n /\ m + 1 \in 1 .. n
      BY <1>2, <2>2, SMT
    <2>4. after[m] = {f[m]}
      BY <1>10, <2>3, Zenon
    <2>5. after[m + 1] = {R(r) : r \in after[m]}
      BY <1>8, <2>1, <2>3
    <2>6. after[m + 1] = {R(f[m])}
      BY <2>4, <2>5
    <2>7. f[m + 1] = R(f[m])
      BY <1>6, <2>1, <2>3
    <2> QED
      BY <2>6, <2>7, Zenon
  <1>11. U = Nat
    <2> HIDE DEF U
    <2>1. U \in SUBSET Nat
      BY DEF U
    <2> QED
      BY <1>9, <1>10, <2>1, NatSet
  <1>12. after[n] = {f[n]}
    <2>1. n \in U /\ n <= n
      BY <1>2, <1>11, SMT
    <2> QED
      BY <2>1, Zenon
  <1>13. (CHOOSE r \in after[n] : TRUE) = f[n]
    BY <1>12
  <1> QED
    BY <1>1, <1>6, <1>13, Zenon DEF OpportunityRuns, R, s, n

\* The rounds of rationalize.
Rounds == (MaxTime + 1) * Len(setup.schedule)

RationalizeRuns(f, l, t) ==
    /\ f[0] = l
    /\ \A k \in 1 .. Rounds :
          f[k] = IF Due(f[k - 1], t) THEN Opportunity(f[k - 1], t) ELSE f[k - 1]

\* There are such rounds, and rationalize ends with the last.
LEMMA RationalizeRounds ==
    ASSUME setup \in Links, NEW l, l.schedule = setup.schedule, NEW t
    PROVE  /\ Rounds \in Nat
           /\ \E f : RationalizeRuns(f, l, t) /\ rationalize(l, t) = f[Rounds]
  <1> DEFINE R(o) == IF Due(o, t) THEN Opportunity(o, t) ELSE o
             s == l
             n == Rounds
             Is(g) == g = [k \in 0 .. n |-> IF k = 0 THEN {s} ELSE {R(r) : r \in g[k - 1]}]
             after == CHOOSE g : Is(g)
  <1>1. rationalize(l, t) = CHOOSE r \in after[n] : TRUE
    BY Zenon DEF rationalize, Repeat, Rounds
  <1>2. n \in Nat
    <2>1. Len(setup.schedule) \in Nat /\ MaxTime + 1 \in Nat
      BY LinkFacts, LenProperties
    <2>2. \A a, b \in Nat : a * b \in Nat
      BY SMT
    <2> QED
      BY <2>1, <2>2, Zenon DEF Rounds
  <1> HIDE DEF R, s, n
  <1> DEFINE Runs(f, m) == f[0] = s /\ \A k \in 1 .. m : f[k] = R(f[k - 1])
             T == {m \in Nat : \E f : Runs(f, m)}
  <1>3. 0 \in T
    <2>1. Runs([k \in {0} |-> s], 0)
      BY SMT
    <2> QED
      BY <2>1
  <1>4. ASSUME NEW m \in Nat, m \in T PROVE m + 1 \in T
    <2>1. PICK f : Runs(f, m)
      BY <1>4
    <2> DEFINE h == [k \in 0 .. m + 1 |-> IF k = m + 1 THEN R(f[m]) ELSE f[k]]
    <2>2. Runs(h, m + 1) /\ m + 1 \in Nat
      BY <2>1, SMT
    <2> HIDE DEF Runs
    <2> QED
      BY <2>2
  <1>5. T = Nat
    <2> HIDE DEF T
    <2>1. T \in SUBSET Nat
      BY DEF T
    <2> QED
      BY <1>3, <1>4, <2>1, NatSet
  <1>6. PICK f : Runs(f, n)
    BY <1>2, <1>5
  <1> DEFINE w == [k \in 0 .. n |-> {f[k]}]
  <1>7. Is(w)
    <2>1. ASSUME NEW k \in 0 .. n
          PROVE  w[k] = IF k = 0 THEN {s} ELSE {R(r) : r \in w[k - 1]}
      <3>1. CASE k = 0
        BY <1>6, <3>1
      <3>2. CASE k # 0
        <4>1. k - 1 \in 0 .. n /\ k \in 1 .. n
          BY <1>2, <3>2, SMT
        <4>2. w[k - 1] = {f[k - 1]} /\ w[k] = {f[k]} /\ f[k] = R(f[k - 1])
          BY <1>6, <4>1
        <4> QED
          BY <3>2, <4>2
      <3> QED
        BY <3>1, <3>2
    <2> QED
      BY <2>1
  <1>8. Is(after)
    <2> HIDE DEF Is
    <2> QED
      BY <1>7, Zenon
  <1> HIDE DEF after
  <1> DEFINE U == {m \in Nat : m <= n => after[m] = {f[m]}}
  <1>9. 0 \in U
    <2>1. 0 \in 0 .. n
      BY <1>2, SMT
    <2>2. after[0] = {s}
      BY <1>8, <2>1
    <2> QED
      BY <1>6, <2>2
  <1>10. ASSUME NEW m \in Nat, m \in U PROVE m + 1 \in U
    <2>1. m + 1 \in Nat /\ m + 1 # 0 /\ (m + 1) - 1 = m
      OBVIOUS
    <2>2. SUFFICES ASSUME m + 1 <= n PROVE after[m + 1] = {f[m + 1]}
      BY <2>1, Zenon
    <2>3. m <= n /\ m + 1 \in 0 .. n /\ m + 1 \in 1 .. n
      BY <1>2, <2>2, SMT
    <2>4. after[m] = {f[m]}
      BY <1>10, <2>3, Zenon
    <2>5. after[m + 1] = {R(r) : r \in after[m]}
      BY <1>8, <2>1, <2>3
    <2>6. after[m + 1] = {R(f[m])}
      BY <2>4, <2>5
    <2>7. f[m + 1] = R(f[m])
      BY <1>6, <2>1, <2>3
    <2> QED
      BY <2>6, <2>7, Zenon
  <1>11. U = Nat
    <2> HIDE DEF U
    <2>1. U \in SUBSET Nat
      BY DEF U
    <2> QED
      BY <1>9, <1>10, <2>1, NatSet
  <1>12. after[n] = {f[n]}
    <2>1. n \in U /\ n <= n
      BY <1>2, <1>11, SMT
    <2> QED
      BY <2>1, Zenon
  <1>13. (CHOOSE r \in after[n] : TRUE) = f[n]
    BY <1>12
  <1> QED
    BY <1>1, <1>2, <1>6, <1>13, Zenon DEF RationalizeRuns, R, s, n

\* One opportunity, whatever number of packets it has room for.
LEMMA OpportunityOK ==
    ASSUME setup \in Links, NEW l, NEW lo, NEW hi, LinkRests(l, lo, hi), NEW t \in Nat
    PROVE  LinkRests(Opportunity(l, t), lo, hi) /\ Carries(Opportunity(l, t), l)
  <1> DEFINE P == PACKET_SIZE
             Holds(o) == /\ LinkRests(o.link, lo, hi) /\ o.room \in Nat
                         /\ Carries(o.link, l)
  <1>1. PICK f : OpportunityRuns(f, l, t) /\ Opportunity(l, t) = f[P + 1].link
    BY OpportunityRounds
  <1> DEFINE U == {k \in Nat : k <= P + 1 => Holds(f[k])}
  <1>2. P \in Nat
    BY LinkFacts
  <1>3. 0 \in U
    <2>1. f[0].room = P /\ f[0].link = use_a_delivery_opportunity(l)
      BY <1>1 DEF OpportunityRuns
    <2> QED
      BY <1>2, <2>1, UseOK
  <1> HIDE DEF P
  <1>4. ASSUME NEW k \in Nat, k \in U PROVE k + 1 \in U
    <2> DEFINE o == f[k]
    <2>1. SUFFICES ASSUME k + 1 <= P + 1 PROVE Holds(f[k + 1])
      BY SMT
    <2>2. Holds(o)
      <3>1. k <= P + 1
        BY <1>2, <2>1, SMT
      <3> QED
        BY <1>4, <3>1
    <2>3. f[k + 1] = IF o.room > 0 THEN Send(o, t) ELSE o
      <3>1. k + 1 \in 1 .. P + 1 /\ (k + 1) - 1 = k
        BY <1>2, <2>1, SMT
      <3> QED
        BY <1>1, <3>1 DEF OpportunityRuns, P
    <2>4. QueueOK(l.packet_queue)
      BY DEF LinkRests, LinkOK
    <2> HIDE DEF o
    <2>5. CASE o.room > 0
      BY <2>2, <2>3, <2>4, <2>5, SendOK, CarriesOn, Zenon
    <2>6. CASE ~(o.room > 0)
      BY <2>2, <2>3, <2>6, Zenon
    <2> QED
      BY <2>5, <2>6
  <1>5. U = Nat
    <2> HIDE DEF U
    <2>1. U \in SUBSET Nat
      BY DEF U
    <2> QED
      BY <1>3, <1>4, <2>1, NatSet
  <1>6. Holds(f[P + 1])
    <2>1. P + 1 \in Nat /\ P + 1 <= P + 1
      BY <1>2, SMT
    <2> QED
      BY <1>5, <2>1
  <1> QED
    BY <1>1, <1>6

\* Every opportunity up to time t.
LEMMA RationalizeOK ==
    ASSUME setup \in Links, NEW l, NEW lo, NEW hi, LinkRests(l, lo, hi), NEW t \in Nat
    PROVE  LinkRests(rationalize(l, t), lo, hi) /\ Carries(rationalize(l, t), l)
  <1> DEFINE Holds(m) == LinkRests(m, lo, hi) /\ Carries(m, l)
  <1>1. l.schedule = setup.schedule /\ QueueOK(l.packet_queue)
    BY LinkParts DEF LinkRests, LinkOK
  <1>2. Rounds \in Nat
    BY <1>1, RationalizeRounds
  <1>3. PICK f : RationalizeRuns(f, l, t) /\ rationalize(l, t) = f[Rounds]
    BY <1>1, RationalizeRounds
  <1> DEFINE U == {k \in Nat : k <= Rounds => Holds(f[k])}
  <1>4. 0 \in U
    <2>1. f[0] = l
      BY <1>3 DEF RationalizeRuns
    <2> QED
      BY <1>1, <2>1, CarriesOn
  <1>5. ASSUME NEW k \in Nat, k \in U PROVE k + 1 \in U
    <2> DEFINE m == f[k]
    <2>1. SUFFICES ASSUME k + 1 <= Rounds PROVE Holds(f[k + 1])
      OBVIOUS
    <2>2. Holds(m)
      <3>1. k <= Rounds
        BY <1>2, <2>1, SMT
      <3> QED
        BY <1>5, <3>1
    <2>3. f[k + 1] = IF Due(m, t) THEN Opportunity(m, t) ELSE m
      <3>1. k + 1 \in 1 .. Rounds /\ (k + 1) - 1 = k
        BY <1>2, <2>1, SMT
      <3> QED
        BY <1>3, <3>1 DEF RationalizeRuns
    <2> HIDE DEF m
    <2>4. CASE Due(m, t)
      <3>1. LinkRests(Opportunity(m, t), lo, hi) /\ Carries(Opportunity(m, t), m)
        BY <2>2, OpportunityOK
      <3>2. Carries(Opportunity(m, t), l)
        BY <1>1, <2>2, <3>1, CarriesOn, Zenon
      <3> QED
        BY <2>3, <2>4, <3>1, <3>2, Zenon
    <2>5. CASE ~Due(m, t)
      BY <2>2, <2>3, <2>5, Zenon
    <2> QED
      BY <2>4, <2>5
  <1>6. U = Nat
    <2> HIDE DEF U
    <2>1. U \in SUBSET Nat
      BY DEF U
    <2> QED
      BY <1>4, <1>5, <2>1, NatSet
  <1>7. Holds(f[Rounds])
    <2>1. Rounds <= Rounds
      BY <1>2, SMT
    <2> QED
      BY <1>2, <1>6, <2>1
  <1> QED
    BY <1>3, <1>7

-----------------------------------------------------------------------------
(* The calls of the event loop                                              *)

LEMMA InitialLinkOK ==
    ASSUME setup \in Links
    PROVE  LinkRests(InitialLink(setup), 0, 0)
  <1> DEFINE q == NewPacketQueue(setup.args)
             l == InitialLink(setup)
  <1>1. QueueOK(q) /\ q.internal_queue = <<>>
    BY NewQueueOK
  <1>2. l = LinkOf(0, 0, q, <<>>, 0, <<>>, FALSE)
    BY Zenon DEF InitialLink, LinkOf
  <1>3. Len(setup.schedule) \in Nat \ {0}
    BY LinkFacts, LenProperties, EmptySeq, SMT
  <1>4. Clock(0, 0, FALSE)
    BY <1>3, SMT DEF Clock
  <1>5. <<>> \in Seq(Packet) /\ Len(<<>>) = 0
    BY EmptySeq
  <1>6. Transit(<<>>, 0)
    BY <1>5, SMT DEF Transit
  <1>7. Ordered(<<>>, 0, 0)
    BY <1>5, SMT DEF Ordered
  <1>8. InSteps(<<>>, <<>>, q.internal_queue, 0, 0)
    BY <1>1, <1>7 DEF InSteps
  <1> HIDE DEF l, q
  <1>9. LinkOK(l, 0, 0)
    BY <1>1, <1>2, <1>4, <1>5, <1>6, <1>8, LinkOfOK
  <1>10. l.in_transit = <<>>
    BY <1>2, SMT DEF LinkOf
  <1> QED
    BY <1>9, <1>10 DEF LinkRests, l

\* A packet with the next id comes.
LEMMA ReadOK ==
    ASSUME setup \in Links, NEW u, NEW lo, NEW n, LinkRests(u, lo, n),
           NEW p \in Packet, p.id = n + 1, NEW q, Takes(q, u.packet_queue, p)
    PROVE  LinkRests([u EXCEPT !.packet_queue = q], lo, n + 1)
  <1> DEFINE l == [u EXCEPT !.packet_queue = q]
             ps == u.packet_queue.internal_queue
             r == q.internal_queue
  <1>1. /\ u = LinkOf(u.next_delivery, u.base_timestamp, u.packet_queue, u.in_transit,
                      u.bytes_left, u.output_queue, u.finished)
        /\ Clock(u.next_delivery, u.base_timestamp, u.finished)
        /\ QueueOK(u.packet_queue) /\ Transit(u.in_transit, u.bytes_left)
        /\ u.output_queue \in Seq(Packet)
        /\ InSteps(u.output_queue, u.in_transit, ps, lo, n)
    BY DEF LinkRests, LinkOK
  <1>2. l = LinkOf(u.next_delivery, u.base_timestamp, q, u.in_transit, u.bytes_left,
                   u.output_queue, u.finished)
    BY <1>1, SMT DEF LinkOf
  <1>3. PICK b \in Nat, c \in Nat :
            Ordered(u.output_queue, lo, b) /\ Ordered(u.in_transit, b, c) /\ Ordered(ps, c, n)
    BY <1>1 DEF InSteps
  <1>4. ps \in Seq(Packet)
    BY <1>1 DEF QueueOK
  <1>5. QueueOK(q) /\ (SuffixOf(r, Append(ps, p)) \/ r = ps)
    BY Zenon DEF Takes
  <1> HIDE DEF l, ps, r
  <1>6. Ordered(r, c, n + 1)
    <2>1. CASE SuffixOf(r, Append(ps, p))
      <3>1. Append(ps, p) \in Seq(Packet) /\ Ordered(Append(ps, p), c, n + 1)
        BY <1>3, <1>4, AppendOrdered
      <3> QED
        BY <2>1, <3>1, SuffixOrdered
    <2>2. CASE r = ps
      <3>1. n \in Nat /\ n + 1 \in Nat /\ n <= n + 1 /\ c <= c
        BY <1>3, SMT DEF Ordered
      <3> QED
        BY <1>3, <1>4, <2>2, <3>1, WiderOrdered
    <2> QED
      BY <1>5, <2>1, <2>2
  <1>7. InSteps(u.output_queue, u.in_transit, r, lo, n + 1)
    BY <1>3, <1>6, Zenon DEF InSteps
  <1>8. LinkOK(l, lo, n + 1)
    BY <1>1, <1>2, <1>5, <1>7, LinkOfOK DEF r
  <1>9. l.in_transit = u.in_transit /\ l.bytes_left = u.bytes_left
    BY <1>2, LinkParts
  <1> QED
    BY <1>8, <1>9, Zenon DEF LinkRests, l

\* What is sent goes to the other side.
LEMMA WriteOK ==
    ASSUME setup \in Links, NEW l, NEW lo, NEW hi, LinkRests(l, lo, hi),
           NEW d \in Seq(Packet), Ordered(d, 0, lo)
    PROVE  /\ d \o l.output_queue \in Seq(Packet)
           /\ \E b \in Nat : /\ Ordered(d \o l.output_queue, 0, b)
                           /\ LinkRests([l EXCEPT !.output_queue = <<>>], b, hi)
  <1> DEFINE m == [l EXCEPT !.output_queue = <<>>]
             ps == l.packet_queue.internal_queue
  <1>1. /\ l = LinkOf(l.next_delivery, l.base_timestamp, l.packet_queue, l.in_transit,
                      l.bytes_left, l.output_queue, l.finished)
        /\ Clock(l.next_delivery, l.base_timestamp, l.finished)
        /\ QueueOK(l.packet_queue) /\ Transit(l.in_transit, l.bytes_left)
        /\ l.output_queue \in Seq(Packet)
        /\ InSteps(l.output_queue, l.in_transit, ps, lo, hi)
    BY DEF LinkRests, LinkOK
  <1>2. m = LinkOf(l.next_delivery, l.base_timestamp, l.packet_queue, l.in_transit,
                   l.bytes_left, <<>>, l.finished)
    BY <1>1, SMT DEF LinkOf
  <1>3. PICK b \in Nat, c \in Nat :
            Ordered(l.output_queue, lo, b) /\ Ordered(l.in_transit, b, c) /\ Ordered(ps, c, hi)
    BY <1>1 DEF InSteps
  <1> HIDE DEF m, ps
  <1>4. d \o l.output_queue \in Seq(Packet) /\ Ordered(d \o l.output_queue, 0, b)
    BY <1>1, <1>3, ConcatOrdered, ConcatProperties
  <1>5. <<>> \in Seq(Packet) /\ Len(<<>>) = 0
    BY EmptySeq
  <1>6. Ordered(<<>>, b, b)
    BY <1>5, SMT DEF Ordered
  <1>7. InSteps(<<>>, l.in_transit, ps, b, hi)
    BY <1>3, <1>6, Zenon DEF InSteps
  <1>8. LinkOK(m, b, hi)
    BY <1>1, <1>2, <1>5, <1>7, LinkOfOK DEF ps
  <1>9. m.in_transit = l.in_transit /\ m.bytes_left = l.bytes_left
    BY <1>2, LinkParts
  <1>10. LinkRests(m, b, hi)
    BY <1>8, <1>9, Zenon DEF LinkRests
  <1> QED
    BY <1>4, <1>10 DEF m

-----------------------------------------------------------------------------
(* The theorems                                                             *)

\* The invariant: everything delivered, then the link, in the order of arrival.
LinkInv ==
    /\ setup \in Links /\ now \in 0 .. MaxTime
    /\ arrived \in 0 .. setup.packets
    /\ delivered \in Seq(Packet)
    /\ aborted \in BOOLEAN
    /\ \E a \in Nat : Ordered(delivered, 0, a) /\ LinkRests(link, a, arrived)

LEMMA LinkInvInit == Init => LinkInv
  <1> SUFFICES ASSUME Init PROVE LinkInv
    OBVIOUS
  <1>1. setup \in Links /\ link = InitialLink(setup)
    BY DEF Init
  <1>2. /\ now = 0 /\ arrived = 0 /\ delivered = <<>> /\ aborted = FALSE
        /\ MaxTime \in Nat /\ setup.packets \in Nat
    BY <1>1, LinkFacts DEF Init
  <1>3. delivered \in Seq(Packet) /\ Ordered(delivered, 0, 0)
    BY <1>2, EmptySeq, SMT DEF Ordered
  <1>4. LinkRests(link, 0, arrived)
    BY <1>1, <1>2, InitialLinkOK
  <1>5. now \in 0 .. MaxTime /\ arrived \in 0 .. setup.packets
    BY <1>2, SMT
  <1>6. aborted \in BOOLEAN
    BY <1>2
  <1> QED
    BY <1>1, <1>3, <1>4, <1>5, <1>6 DEF LinkInv

\* The packets, and what holds of them, do not change as long as the set-up does not.
LEMMA SameSetup ==
    ASSUME setup' = setup
    PROVE  /\ Packet' = Packet
           /\ \A q : QueueOK(q) => QueueOK(q)'
           /\ \A l, lo, hi : LinkRests(l, lo, hi) => LinkRests(l, lo, hi)'
  <1>1. Packet' = Packet
    BY DEF Packet
  <1>2. \A q : QueueOK(q) => QueueOK(q)'
    BY <1>1, Zenon DEF QueueOK, Within, ActiveFits
  <1>3. ASSUME NEW l, NEW lo, NEW hi, LinkRests(l, lo, hi) PROVE LinkRests(l, lo, hi)'
    BY <1>1, <1>2, <1>3, Zenon DEF LinkRests, LinkOK, LinkOf, Clock, Transit
  <1> QED
    BY <1>1, <1>2, <1>3

\* One packet is read, on a link that is up to date or not.
LEMMA ReadsKeepInv ==
    ASSUME LinkInv, NEW l, NEW a \in Nat, Ordered(delivered, 0, a), LinkRests(l, a, arrived),
           NEW size \in setup.sizes, Reads(l, size)
    PROVE  LinkInv'
  <1> DEFINE p == [id |-> arrived + 1, size |-> size, arrival_time |-> now]
  <1>1. /\ setup \in Links /\ now \in 0 .. MaxTime /\ arrived \in 0 .. setup.packets
        /\ delivered \in Seq(Packet)
    BY DEF LinkInv
  <1>2. /\ arrived < setup.packets /\ arrived' = arrived + 1
        /\ setup' = setup /\ now' = now /\ delivered' = delivered
        /\ aborted' = EnqueueAborts(l.packet_queue, p)
    BY Zenon DEF Reads
  <1>3. PICK q \in Enqueue(l.packet_queue, p, now) : link' = [l EXCEPT !.packet_queue = q]
    BY Zenon DEF Reads
  <1>4. setup.packets \in Nat /\ MaxTime \in Nat
    BY <1>1, LinkFacts
  <1>5. arrived + 1 \in 1 .. setup.packets /\ now \in Nat
    BY <1>1, <1>2, <1>4, SMT
  <1>6. p \in Packet /\ p.id = arrived + 1
    BY <1>1, <1>5, Zenon DEF Packet
  <1> HIDE DEF p
  <1>7. Takes(q, l.packet_queue, p)
    BY <1>1, <1>5, <1>6, EnqueueOK DEF LinkRests, LinkOK
  <1>8. LinkRests(link', a, arrived + 1)
    BY <1>1, <1>3, <1>6, <1>7, ReadOK
  <1>9. LinkRests(link, a, arrived)'
    BY <1>2, <1>8, SameSetup, Zenon DEF LinkRests, LinkOK, LinkOf, Clock, Transit
  <1>10. aborted' \in BOOLEAN
    BY <1>2, SMT DEF EnqueueAborts
  <1>11. arrived' \in 0 .. setup'.packets
    BY <1>1, <1>2, <1>4, SMT
  <1> QED
    BY <1>1, <1>2, <1>9, <1>10, <1>11, SameSetup, Zenon DEF LinkInv, Ordered

LEMMA LinkInvNext == LinkInv /\ [Next]_vars => LinkInv'
  <1> SUFFICES ASSUME LinkInv, [Next]_vars PROVE LinkInv'
    OBVIOUS
  <1>1. /\ setup \in Links /\ now \in 0 .. MaxTime /\ now \in Nat /\ MaxTime \in Nat
        /\ arrived \in 0 .. setup.packets
        /\ delivered \in Seq(Packet) /\ aborted \in BOOLEAN
    <2>1. setup \in Links /\ now \in 0 .. MaxTime
      BY DEF LinkInv
    <2>2. now \in Nat
      BY <2>1, LinkFacts, SMT
    <2> QED
      BY <2>1, <2>2, LinkFacts DEF LinkInv
  <1>2. PICK a \in Nat : Ordered(delivered, 0, a) /\ LinkRests(link, a, arrived)
    BY DEF LinkInv
  <1>3. LinkRests(rationalize(link, now), a, arrived)
    BY <1>1, <1>2, RationalizeOK
  <1>4. ASSUME NEW size \in setup.sizes, read_packet(size) PROVE LinkInv'
    BY <1>2, <1>3, <1>4, ReadsKeepInv, Zenon DEF read_packet
  <1>5. CASE wait_time
    <2>1. /\ setup' = setup /\ now' = now /\ arrived' = arrived /\ delivered' = delivered
          /\ aborted' = aborted
      BY <1>5 DEF wait_time
    <2>2. LinkRests(link', a, arrived)
      BY <1>3, <1>5, Zenon DEF wait_time
    <2>3. LinkRests(link, a, arrived)'
      BY <2>1, <2>2, SameSetup, Zenon DEF LinkRests, LinkOK, LinkOf, Clock, Transit
    <2> QED
      BY <1>1, <1>2, <2>1, <2>3, SameSetup, Zenon DEF LinkInv, Ordered
  <1>6. CASE write_packets
    <2>1. /\ setup' = setup /\ now' = now /\ arrived' = arrived /\ aborted' = aborted
          /\ delivered' = delivered \o link.output_queue
          /\ link' = [link EXCEPT !.output_queue = <<>>]
      BY <1>6 DEF write_packets
    <2>2. PICK b \in Nat : Ordered(delivered', 0, b) /\ LinkRests(link', b, arrived)
      BY <1>1, <1>2, <2>1, WriteOK
    <2>3. LinkRests(link, b, arrived)'
      BY <2>1, <2>2, SameSetup, Zenon DEF LinkRests, LinkOK, LinkOf, Clock, Transit
    <2>4. delivered' \in Seq(Packet)
      BY <1>1, <1>2, <2>1, WriteOK
    <2> QED
      BY <1>1, <2>1, <2>2, <2>3, <2>4, SameSetup, Zenon DEF LinkInv, Ordered
  <1>7. CASE Tick \/ UNCHANGED vars
    <2>1. /\ setup' = setup /\ link' = link /\ arrived' = arrived /\ delivered' = delivered
          /\ aborted' = aborted
      BY <1>7 DEF Tick, vars
    <2>2. now' \in 0 .. MaxTime
      BY <1>1, <1>7, SMT DEF Tick, vars
    <2>3. LinkRests(link, a, arrived)'
      BY <1>2, <2>1, SameSetup, Zenon DEF LinkRests, LinkOK, LinkOf, Clock, Transit
    <2> QED
      BY <1>1, <1>2, <2>1, <2>2, <2>3, SameSetup, Zenon DEF LinkInv, Ordered
  <1> QED
    BY <1>4, <1>5, <1>6, <1>7 DEF Next

LEMMA LinkInvariant == Spec => []LinkInv
  BY LinkInvInit, LinkInvNext, PTL DEF Spec

\* What is in the link and beyond it is one sequence, in the order of arrival.
LEMMA InOrderIsOrdered ==
    ASSUME LinkInv
    PROVE  Ordered(InOrder, 0, arrived) /\ InOrder \in Seq(Packet)
  <1>1. delivered \in Seq(Packet)
    BY DEF LinkInv
  <1>2. PICK a \in Nat : Ordered(delivered, 0, a) /\ LinkRests(link, a, arrived)
    BY DEF LinkInv
  <1> DEFINE oq == link.output_queue
             it == link.in_transit
             ps == link.packet_queue.internal_queue
  <1>3. /\ oq \in Seq(Packet) /\ it \in Seq(Packet) /\ ps \in Seq(Packet)
        /\ InSteps(oq, it, ps, a, arrived)
    BY <1>2 DEF LinkRests, LinkOK, Transit, QueueOK
  <1>4. InOrder = ((delivered \o oq) \o it) \o ps
    BY DEF InOrder
  <1> HIDE DEF oq, it, ps
  <1>5. PICK b \in Nat, c \in Nat :
            Ordered(oq, a, b) /\ Ordered(it, b, c) /\ Ordered(ps, c, arrived)
    BY <1>3 DEF InSteps
  <1>6. delivered \o oq \in Seq(Packet) /\ Ordered(delivered \o oq, 0, b)
    BY <1>1, <1>2, <1>3, <1>5, ConcatOrdered, ConcatProperties
  <1>7. (delivered \o oq) \o it \in Seq(Packet) /\ Ordered((delivered \o oq) \o it, 0, c)
    BY <1>3, <1>5, <1>6, ConcatOrdered, ConcatProperties
  <1> QED
    BY <1>3, <1>4, <1>5, <1>7, ConcatOrdered, ConcatProperties

\* Packets leave mm-link in the order in which they came and none leaves twice, for
\* every trace, every one of the five queues, and whatever is dropped, at enqueue or
\* at dequeue (link_queue.cc:228-268, codel_packet_queue.cc:27-94).
THEOREM PacketsKeepTheirOrder == Spec => []FirstInFirstOut
  <1>1. LinkInv => FirstInFirstOut
    <2> SUFFICES ASSUME LinkInv PROVE FirstInFirstOut
      OBVIOUS
    <2>1. Ordered(InOrder, 0, arrived) /\ DOMAIN InOrder = 1 .. Len(InOrder)
      BY InOrderIsOrdered, LenProperties
    <2> QED
      BY <2>1, Zenon DEF FirstInFirstOut, Ordered
  <1> QED
    BY <1>1, LinkInvariant, PTL

\* How many packets there are in all.
LEMMA InOrderLength ==
    ASSUME LinkInv
    PROVE  /\ Len(InOrder) = Len(delivered) + Held(link)
           /\ Len(delivered) \in Nat /\ Len(link.output_queue) \in Nat
           /\ Len(link.in_transit) \in Nat /\ Len(link.packet_queue.internal_queue) \in Nat
  <1> DEFINE oq == link.output_queue
             it == link.in_transit
             ps == link.packet_queue.internal_queue
  <1>1. /\ delivered \in Seq(Packet) /\ oq \in Seq(Packet) /\ it \in Seq(Packet)
        /\ ps \in Seq(Packet)
    BY Zenon DEF LinkInv, LinkRests, LinkOK, Transit, QueueOK
  <1>2. InOrder = ((delivered \o oq) \o it) \o ps
    BY DEF InOrder
  <1>3. Held(link) = Len(oq) + Len(it) + Len(ps)
    BY DEF Held
  <1> HIDE DEF oq, it, ps
  <1>4. delivered \o oq \in Seq(Packet) /\ Len(delivered \o oq) = Len(delivered) + Len(oq)
    BY <1>1, ConcatProperties
  <1>5. /\ (delivered \o oq) \o it \in Seq(Packet)
        /\ Len((delivered \o oq) \o it) = Len(delivered) + Len(oq) + Len(it)
    BY <1>1, <1>4, ConcatProperties
  <1>6. Len(InOrder) = Len(delivered) + Len(oq) + Len(it) + Len(ps)
    BY <1>1, <1>2, <1>5, ConcatProperties
  <1>7. Len(delivered) \in Nat /\ Len(oq) \in Nat /\ Len(it) \in Nat /\ Len(ps) \in Nat
    BY <1>1, LenProperties
  <1>8. Len(InOrder) = Len(delivered) + Held(link)
    BY <1>3, <1>6, <1>7, SMT
  <1> QED
    BY <1>7, <1>8 DEF oq, it, ps

\* A packet is lost only when the queue, with every opportunity due served, cannot take
\* one more of the largest size; CoDel and PIE, which drop by the delay as well, do so only
\* when there is more in it than such a packet (drop_tail_packet_queue.hh:20-28,
\* drop_head_packet_queue.hh:20-29, codel_packet_queue.cc:27-54, pie_packet_queue.cc:35-77).
THEOREM NothingIsLostWhileThereIsRoom == Spec => DropsOnlyWhenFull
  <1> DEFINE queued == link.packet_queue.internal_queue
             u == rationalize(link, now)
             rest == u.packet_queue.internal_queue
             Full == \/ ~good_with(setup.args, size_bytes(rest) + PACKET_SIZE, Len(rest) + 1)
                     \/ setup.args.type \in {"codel", "pie"} /\ size_bytes(queued) > PACKET_SIZE
  <1>1. LinkInv /\ LinkInv' /\ [Next]_vars => (Lost' > Lost => Full)
    <2> SUFFICES ASSUME LinkInv, LinkInv', [Next]_vars, Lost' > Lost PROVE Full
      OBVIOUS
    <2>1. /\ setup \in Links /\ now \in Nat /\ arrived \in Nat
      <3>1. setup \in Links /\ now \in 0 .. MaxTime /\ arrived \in 0 .. setup.packets
        BY DEF LinkInv
      <3> QED
        BY <3>1, LinkFacts, SMT
    <2>2. PICK a \in Nat : LinkRests(link, a, arrived)
      BY DEF LinkInv
    <2>3. LinkRests(u, a, arrived) /\ Carries(u, link)
      BY <2>1, <2>2, RationalizeOK
    <2>4. /\ queued \in Seq(Packet) /\ SuffixOf(rest, queued)
          /\ Held(u) = Held(link) \/ MayDrop(queued)
      BY <2>2, <2>3, Zenon DEF Carries, LinkRests, LinkOK, QueueOK
    <2>5. /\ size_bytes(rest) <= size_bytes(queued) /\ size_bytes(rest) \in Nat
          /\ size_bytes(queued) \in Nat /\ PACKET_SIZE \in Nat
      BY <2>1, <2>4, SizeSuffix, LinkFacts
    <2> SUFFICES ASSUME Held(u) = Held(link), ~Refuses(rest) PROVE FALSE
      <3>1. CASE MayDrop(queued)
        BY <3>1, SMT DEF MayDrop
      <3>2. CASE Refuses(rest)
        BY <2>5, <3>2, SMT DEF Refuses
      <3> QED
        BY <2>4, <3>1, <3>2
    <2> DEFINE out == link.output_queue
               there == Len(delivered) + Held(link)
    <2>6. /\ Lost = arrived - there
          /\ Len(delivered) \in Nat /\ Len(out) \in Nat /\ Len(link.in_transit) \in Nat
          /\ Len(queued) \in Nat /\ Held(link) \in Nat
      <3>1. Lost = arrived - there
        BY InOrderLength DEF Lost
      <3>2. Held(link) = Len(out) + Len(link.in_transit) + Len(queued)
        BY DEF Held
      <3> HIDE DEF out, queued
      <3>3. /\ Len(delivered) \in Nat /\ Len(out) \in Nat /\ Len(link.in_transit) \in Nat
            /\ Len(queued) \in Nat
        BY InOrderLength DEF out, queued
      <3> QED
        BY <3>1, <3>2, <3>3, SMT
    <2>7. Lost' = arrived' - (Len(delivered') + Held(link'))
      <3>1. (Len(InOrder) = Len(delivered) + Held(link))'
        BY InOrderLength, PTL
      <3> QED
        BY <3>1 DEF Lost, Held
    <2>8. ASSUME NEW size \in setup.sizes, read_packet(size) PROVE FALSE
      <3> DEFINE p == [id |-> arrived + 1, size |-> size, arrival_time |-> now]
      <3>1. /\ arrived < setup.packets /\ arrived' = arrived + 1 /\ delivered' = delivered
        BY <2>8, Zenon DEF read_packet, Reads
      <3>2. PICK q \in Enqueue(u.packet_queue, p, now) : link' = [u EXCEPT !.packet_queue = q]
        BY <2>8, Zenon DEF read_packet, Reads
      <3>3. p \in Packet
        <4>1. setup.packets \in Nat /\ now \in 0 .. MaxTime /\ arrived + 1 \in 1 .. setup.packets
          BY <2>1, <3>1, LinkFacts, SMT DEF LinkInv
        <4> QED
          BY <4>1, Zenon DEF Packet
      <3> HIDE DEF p, u
      <3>4. Takes(q, u.packet_queue, p)
        BY <2>1, <2>3, <3>2, <3>3, EnqueueOK DEF LinkRests, LinkOK
      <3>5. Len(q.internal_queue) = Len(rest) + 1
        BY <3>4, Zenon DEF Takes
      <3>6. u = LinkOf(u.next_delivery, u.base_timestamp, u.packet_queue, u.in_transit,
                       u.bytes_left, u.output_queue, u.finished)
        BY <2>3 DEF LinkRests, LinkOK
      <3>7. link' = LinkOf(u.next_delivery, u.base_timestamp, q, u.in_transit,
                           u.bytes_left, u.output_queue, u.finished)
        BY <3>2, <3>6, SMT DEF LinkOf
      <3>8. Held(link') = Len(u.output_queue) + Len(u.in_transit) + Len(q.internal_queue)
        <4>1. /\ link'.output_queue = u.output_queue /\ link'.in_transit = u.in_transit
              /\ link'.packet_queue = q
          BY <3>7, LinkParts
        <4> QED
          BY <4>1 DEF Held
      <3>9. Len(u.output_queue) \in Nat /\ Len(u.in_transit) \in Nat /\ Len(rest) \in Nat
        BY <2>3, LenProperties, Zenon DEF LinkRests, LinkOK, Transit, QueueOK
      <3>10. Held(link') = Held(link) + 1
        <4>1. Held(u) = Len(u.output_queue) + Len(u.in_transit) + Len(rest)
          BY DEF Held
        <4>2. Held(u) = Held(link)
          OBVIOUS
        <4> DEFINE i == Len(u.output_queue)
                   j == Len(u.in_transit)
                   k == Len(rest)
                   new == Held(link')
        <4>3. new = i + j + (k + 1) /\ Held(link) = i + j + k
          BY <3>5, <3>8, <4>1, <4>2
        <4>4. i \in Nat /\ j \in Nat /\ k \in Nat
          BY <3>9
        <4> HIDE DEF i, j, k, new
        <4>5. new = Held(link) + 1
          BY <4>3, <4>4, SMT
        <4> QED
          BY <4>5 DEF new
      <3> QED
        BY <2>1, <2>6, <2>7, <3>1, <3>10, SMT
    <2>9. ASSUME wait_time PROVE FALSE
      <3>1. link' = u /\ arrived' = arrived /\ delivered' = delivered
        BY <2>9 DEF wait_time
      <3> HIDE DEF u
      <3> QED
        BY <2>1, <2>6, <2>7, <3>1, SMT
    <2>10. ASSUME write_packets PROVE FALSE
      <3>1. /\ link' = [link EXCEPT !.output_queue = <<>>] /\ arrived' = arrived
            /\ delivered' = delivered \o out
        BY <2>10 DEF write_packets
      <3>2. delivered \in Seq(Packet) /\ out \in Seq(Packet)
        BY <2>2, Zenon DEF LinkInv, LinkRests, LinkOK
      <3>3. Len(delivered') = Len(delivered) + Len(out)
        BY <3>1, <3>2, ConcatProperties
      <3>4. Held(link') = Len(link.in_transit) + Len(queued)
        <4>1. link = LinkOf(link.next_delivery, link.base_timestamp, link.packet_queue,
                            link.in_transit, link.bytes_left, link.output_queue, link.finished)
          BY <2>2 DEF LinkRests, LinkOK
        <4>2. link' = LinkOf(link.next_delivery, link.base_timestamp, link.packet_queue,
                             link.in_transit, link.bytes_left, <<>>, link.finished)
          BY <3>1, <4>1, SMT DEF LinkOf
        <4>3. Held(link') = Len(<<>>) + Len(link.in_transit) + Len(queued)
          <5>1. /\ link'.output_queue = <<>> /\ link'.in_transit = link.in_transit
                /\ link'.packet_queue = link.packet_queue
            BY <4>2, LinkParts
          <5> QED
            BY <5>1 DEF Held
        <4> HIDE DEF queued, out
        <4>4. Len(<<>>) = 0
          OBVIOUS
        <4> QED
          BY <2>6, <4>3, <4>4, SMT
      <3>5. Held(link) = Len(out) + Len(link.in_transit) + Len(queued)
        BY DEF Held
      <3> HIDE DEF queued, out
      <3> QED
        BY <2>1, <2>6, <2>7, <3>1, <3>3, <3>4, <3>5, SMT
    <2>11. ASSUME Tick \/ UNCHANGED vars PROVE FALSE
      <3>1. link' = link /\ arrived' = arrived /\ delivered' = delivered
        BY <2>11 DEF Tick, vars
      <3> QED
        BY <2>1, <2>6, <2>7, <3>1, SMT
    <2> QED
      BY <2>8, <2>9, <2>10, <2>11 DEF Next
  <1>2. LinkInv /\ LinkInv' /\ [Next]_vars =>
            [Lost' > Lost
               => LET before == link.packet_queue.internal_queue
                      served == rationalize(link, now).packet_queue.internal_queue
                  IN  \/ ~good_with(setup.args, size_bytes(served) + PACKET_SIZE, Len(served) + 1)
                      \/ setup.args.type \in {"codel", "pie"} /\ size_bytes(before) > PACKET_SIZE]_vars
    BY <1>1, Zenon
  <1> QED
    BY <1>2, LinkInvariant, PTL DEF Spec, DropsOnlyWhenFull

\* The types; and that a packet is under way exactly while it has bytes left, fewer
\* than it had, and that the queue is within its limits between any two calls, as the
\* assertions of rationalize and of the dropping queues say (link_queue.cc:246-249,
\* dropping_packet_queue.cc:20-59).
THEOREM LinkIsTyped == Spec => []TypeOK
  <1>1. LinkInv => TypeOK
    <2> SUFFICES ASSUME LinkInv PROVE TypeOK
      OBVIOUS
    <2>1. PICK a \in Nat : LinkRests(link, a, arrived)
      BY DEF LinkInv
    <2>2. /\ QueueOK(link.packet_queue) /\ Transit(link.in_transit, link.bytes_left)
          /\ Clock(link.next_delivery, link.base_timestamp, link.finished)
          /\ link.output_queue \in Seq(Packet)
          /\ link.in_transit # <<>> => link.bytes_left < link.in_transit[1].size
          /\ link.schedule = setup.schedule
      BY <2>1, LinkParts DEF LinkRests, LinkOK
    <2>3. TransitConsistent
      BY <2>2, Zenon DEF TransitConsistent, Transit
    <2>4. WithinLimits
      BY <2>2, Zenon DEF WithinLimits, QueueOK, Within
    <2>5. link.bytes_left \in 0 .. PACKET_SIZE
      <3>1. link.bytes_left \in Nat /\ link.in_transit \in Seq(Packet) /\ PACKET_SIZE \in Nat
            /\ (link.bytes_left = 0 <=> link.in_transit = <<>>)
            /\ setup.sizes \subseteq 1 .. PACKET_SIZE
        BY <2>2, LinkFacts, Zenon DEF Transit, LinkInv
      <3>2. CASE link.in_transit # <<>>
        <4>1. 1 \in 1 .. Len(link.in_transit)
          BY <3>1, <3>2, LenProperties, EmptySeq, SMT
        <4>2. link.in_transit[1] \in Packet
          BY <3>1, <4>1, ElementOfSeq
        <4>3. link.in_transit[1].size \in 1 .. PACKET_SIZE
          BY <3>1, <4>2, Zenon DEF Packet
        <4> QED
          BY <2>2, <3>1, <3>2, <4>3, SMT
      <3> QED
        BY <3>1, <3>2, SMT
    <2> QED
      BY <2>2, <2>3, <2>4, <2>5, Zenon DEF TypeOK, LinkInv, QueueOK, Transit, Clock
  <1> QED
    BY <1>1, LinkInvariant, PTL

-----------------------------------------------------------------------------
(* What some bytes make of a sequence of packets                            *)

\* The bytes of a queue are a natural number.
LEMMA SizeIsNat ==
    ASSUME setup \in Links, NEW s \in Seq(Packet)
    PROVE  size_bytes(s) \in Nat
  BY LinkFacts, SuffixFacts, SizeSuffix

\* The elements of a concatenation.
LEMMA ConcatAt ==
    ASSUME NEW S, NEW s \in Seq(S), NEW t \in Seq(S), NEW w, w = s \o t
    PROVE  /\ w \in Seq(S) /\ Len(w) = Len(s) + Len(t)
           /\ \A i \in 1 .. Len(w) : w[i] = IF i <= Len(s) THEN s[i] ELSE t[i - Len(s)]
  <1>1. /\ s \o t \in Seq(S) /\ Len(s \o t) = Len(s) + Len(t)
        /\ \A i \in 1 .. Len(s) + Len(t) :
              (s \o t)[i] = IF i <= Len(s) THEN s[i] ELSE t[i - Len(s)]
    BY ConcatProperties, Zenon
  <1> QED
    BY <1>1, Zenon

\* A sequence, cut in two.
LEMMA CutInTwo ==
    ASSUME NEW S, NEW s \in Seq(S), NEW n \in 0 .. Len(s)
    PROVE  /\ SubSeq(s, 1, n) \in Seq(S) /\ SubSeq(s, n + 1, Len(s)) \in Seq(S)
           /\ Len(SubSeq(s, 1, n)) = n /\ Len(SubSeq(s, n + 1, Len(s))) = Len(s) - n
           /\ s = SubSeq(s, 1, n) \o SubSeq(s, n + 1, Len(s))
  <1>1. Len(s) \in Nat /\ n \in Nat /\ n <= Len(s)
    BY LenProperties, SMT
  <1>2. 1 \in 1 .. Len(s) + 1 /\ n \in 1 - 1 .. Len(s) /\ Len(s) \in n .. Len(s)
    BY <1>1, SMT
  <1>3. s = SubSeq(s, 1, n) \o SubSeq(s, n + 1, Len(s))
    BY <1>2, ConcatAdjacentSubSeq, SubSeqFull
  <1>4. SubSeq(s, 1, n) \in Seq(S) /\ SubSeq(s, n + 1, Len(s)) \in Seq(S)
    BY <1>1, SMT
  <1>5. Len(SubSeq(s, 1, n)) = n /\ Len(SubSeq(s, n + 1, Len(s))) = Len(s) - n
    BY <1>1, SMT
  <1> QED
    BY <1>3, <1>4, <1>5

\* The bytes of a concatenation.
LEMMA SizeConcat ==
    ASSUME setup \in Links, NEW s \in Seq(Packet), NEW t \in Seq(Packet)
    PROVE  size_bytes(s \o t) = size_bytes(s) + size_bytes(t)
  <1> DEFINE First(m) == SubSeq(t, 1, m)
             U == {m \in Nat : m <= Len(t) =>
                      /\ First(m) \in Seq(Packet)
                      /\ size_bytes(s \o First(m)) = size_bytes(s) + size_bytes(First(m))}
  <1>1. Len(t) \in Nat /\ First(Len(t)) = t /\ First(0) = <<>>
    BY LenProperties, SubSeqFull, SMT
  <1>2. 0 \in U
    <2>1. s \o <<>> = s /\ <<>> \in Seq(Packet)
      BY ConcatEmptySeq, EmptySeq
    <2>2. size_bytes(<<>>) = 0 /\ size_bytes(s) \in Nat
      BY SizeEmpty, LinkFacts, SizeIsNat
    <2>3. size_bytes(s) = size_bytes(s) + 0
      BY <2>2, SMT
    <2> HIDE DEF First
    <2> QED
      BY <1>1, <2>1, <2>2, <2>3
  <1>3. ASSUME NEW m \in Nat, m \in U PROVE m + 1 \in U
    <2>1. SUFFICES ASSUME m + 1 <= Len(t)
                   PROVE  /\ First(m + 1) \in Seq(Packet)
                          /\ size_bytes(s \o First(m + 1))
                                 = size_bytes(s) + size_bytes(First(m + 1))
      BY SMT
    <2>2. /\ First(m) \in Seq(Packet) /\ t[m + 1] \in Packet
          /\ size_bytes(s \o First(m)) = size_bytes(s) + size_bytes(First(m))
      BY <1>1, <1>3, <2>1, ElementOfSeq, SMT
    <2>3. First(m + 1) = Append(First(m), t[m + 1])
      BY <1>1, <2>1, SMT
    <2> DEFINE p == t[m + 1]
               x == First(m)
    <2>4. p \in Packet /\ x \in Seq(Packet)
      BY <2>2
    <2> HIDE DEF First, x, p
    <2>5. s \o Append(x, p) = Append(s \o x, p)
      BY <2>4, SMT
    <2>6. /\ s \o x \in Seq(Packet) /\ Append(x, p) \in Seq(Packet)
      BY <2>4, ConcatProperties, AppendProperties
    <2>7. /\ size_bytes(Append(x, p)) = size_bytes(x) + p.size
          /\ size_bytes(Append(s \o x, p)) = size_bytes(s \o x) + p.size
          /\ p.size \in Nat
      BY <2>4, <2>6, SizeAppend, LinkFacts
    <2>8. size_bytes(x) \in Nat /\ size_bytes(s) \in Nat
      BY <2>4, SizeIsNat
    <2>9. size_bytes(s \o Append(x, p)) = size_bytes(s) + size_bytes(Append(x, p))
      BY <2>2, <2>5, <2>7, <2>8, SMT DEF x, p
    <2> QED
      BY <2>3, <2>6, <2>9 DEF x, p
  <1>4. U = Nat
    <2> HIDE DEF U
    <2>1. U \in SUBSET Nat
      BY DEF U
    <2> QED
      BY <1>2, <1>3, <2>1, NatSet
  <1>5. Len(t) \in U /\ Len(t) <= Len(t)
    BY <1>1, <1>4, SMT
  <1> HIDE DEF First
  <1> QED
    BY <1>1, <1>5

\* The bytes of one packet are its size.
LEMMA SizeOne ==
    ASSUME setup \in Links, NEW p \in Packet
    PROVE  <<p>> \in Seq(Packet) /\ size_bytes(<<p>>) = p.size /\ p.size \in Nat
  <1>1. <<>> \in Seq(Packet) /\ Append(<<>>, p) = <<p>>
    BY EmptySeq, SMT
  <1>2. size_bytes(<<p>>) = size_bytes(<<>>) + p.size /\ p.size \in Nat
    BY <1>1, SizeAppend, LinkFacts
  <1>3. size_bytes(<<>>) = 0
    BY SizeEmpty, LinkFacts
  <1> QED
    BY <1>2, <1>3, SMT

\* Of the packets w, s bytes of whose first are gone, `bytes` more bytes send o, and
\* leave x, r bytes of whose first are gone.
Serves(w, s, bytes, o, x, r) ==
    /\ o \in Seq(Packet) /\ x \in Seq(Packet) /\ w = o \o x
    /\ r \in Nat
    /\ IF x = <<>> THEN r = 0 /\ size_bytes(o) <= s + bytes
       ELSE r < x[1].size /\ size_bytes(o) + r = s + bytes

\* What is sent first is sent whole before more is.
LEMMA ServesNoMore ==
    ASSUME setup \in Links, NEW w, NEW s \in Nat, NEW b \in Nat,
           NEW o, NEW x, NEW r, Serves(w, s, b, o, x, r),
           NEW o2, NEW x2, NEW r2, Serves(w, s, b, o2, x2, r2)
    PROVE  ~(Len(o) < Len(o2))
  <1> SUFFICES ASSUME Len(o) < Len(o2) PROVE FALSE
    OBVIOUS
  <1>1. /\ o \in Seq(Packet) /\ x \in Seq(Packet) /\ w = o \o x /\ r \in Nat
        /\ o2 \in Seq(Packet) /\ x2 \in Seq(Packet) /\ w = o2 \o x2 /\ r2 \in Nat
    BY DEF Serves
  <1>2. /\ Len(o) \in Nat /\ Len(x) \in Nat /\ Len(o2) \in Nat /\ Len(x2) \in Nat
        /\ Len(w) = Len(o) + Len(x) /\ Len(w) = Len(o2) + Len(x2)
    BY <1>1, ConcatProperties, LenProperties
  <1>3. x # <<>> /\ Len(x) > 0
    <2>1. Len(x) > 0
      BY <1>2, SMT
    <2> QED
      BY <1>1, <2>1, EmptySeq, SMT
  <1>4. x[1] \in Packet
    BY <1>1, <1>2, <1>3, ElementOfSeq, SMT
  <1> DEFINE n == Len(o) + 1
             y == SubSeq(o2, n + 1, Len(o2))
  <1>5. y \in Seq(Packet) /\ o2 = (o \o <<x[1]>>) \o y
    <2>1. n \in 1 .. Len(o2)
      BY <1>2, SMT
    <2>0. \A i \in 1 .. Len(w) : w[i] = IF i <= Len(o) THEN o[i] ELSE x[i - Len(o)]
      <3>1. o \in Seq(Packet) /\ x \in Seq(Packet) /\ w = o \o x
        BY <1>1
      <3> QED
        BY <3>1, ConcatAt
    <2>8. \A i \in 1 .. Len(w) : w[i] = IF i <= Len(o2) THEN o2[i] ELSE x2[i - Len(o2)]
      BY <1>1, ConcatAt
    <2>2. \A i \in 1 .. Len(o2) : o2[i] = w[i]
      <3>1. \A i \in 1 .. Len(o2) : i \in 1 .. Len(w) /\ i <= Len(o2)
        BY <1>2, SMT
      <3> QED
        BY <2>0, <2>8, <3>1
    <2>3. \A i \in 1 .. Len(o) : o[i] = w[i]
      <3>1. \A i \in 1 .. Len(o) : i \in 1 .. Len(w) /\ i <= Len(o)
        BY <1>2, SMT
      <3> QED
        BY <2>0, <2>8, <3>1
    <2>4. w[n] = x[1]
      <3>1. n \in 1 .. Len(w) /\ ~(n <= Len(o)) /\ n - Len(o) = 1
        BY <1>2, <1>3, SMT
      <3> QED
        BY <2>0, <2>8, <3>1
    <2>5. SubSeq(o2, 1, n) = o \o <<x[1]>>
      <3> DEFINE l == SubSeq(o2, 1, n)
                 e == o \o <<x[1]>>
      <3>1. l \in Seq(Packet) /\ Len(l) = n /\ \A i \in 1 .. n : l[i] = o2[i]
        BY <1>1, <1>2, <2>1, SubSeqProperties, SMT
      <3>2. e \in Seq(Packet) /\ Len(e) = n
            /\ \A i \in 1 .. n : e[i] = IF i <= Len(o) THEN o[i] ELSE x[1]
        <4> DEFINE z == <<x[1]>>
        <4>1. z \in Seq(Packet) /\ Len(z) = 1 /\ z[1] = x[1]
          BY <1>4
        <4> HIDE DEF z
        <4>2. /\ e \in Seq(Packet) /\ Len(e) = Len(o) + Len(z)
              /\ \A i \in 1 .. Len(e) : e[i] = IF i <= Len(o) THEN o[i] ELSE z[i - Len(o)]
          BY <1>1, <4>1, ConcatAt DEF z
        <4>3. \A i \in 1 .. Len(o) + 1 : ~(i <= Len(o)) => i - Len(o) = 1
          BY <1>2, SMT
        <4> HIDE DEF e
        <4> QED
          BY <4>1, <4>2, <4>3
      <3>3. \A i \in 1 .. n : l[i] = e[i]
        <4> HIDE DEF l, e
        <4>1. \A i \in 1 .. n : i \in 1 .. Len(o2) /\ (i <= Len(o) => i \in 1 .. Len(o))
                 /\ (~(i <= Len(o)) => i = n)
          BY <1>2, <2>1, SMT
        <4> QED
          BY <2>2, <2>3, <2>4, <3>1, <3>2, <4>1
      <3> HIDE DEF l, e, n
      <3>4. l = e
        BY <3>1, <3>2, <3>3, SeqEqual
      <3> QED
        BY <3>4 DEF l, e
    <2>6. o2 = SubSeq(o2, 1, n) \o SubSeq(o2, n + 1, Len(o2))
      <3>1. n \in 0 .. Len(o2)
        BY <1>2, <2>1, SMT
      <3> QED
        BY <1>1, <3>1, CutInTwo
    <2>7. y \in Seq(Packet)
      BY <1>1, <1>2, <2>1, SubSeqProperties, SMT
    <2> QED
      BY <2>5, <2>6, <2>7
  <1> HIDE DEF y, n
  <1>6. size_bytes(o2) = size_bytes(o) + x[1].size + size_bytes(y)
    <2>1. <<x[1]>> \in Seq(Packet) /\ size_bytes(<<x[1]>>) = x[1].size
      BY <1>4, SizeOne
    <2>2. o \o <<x[1]>> \in Seq(Packet)
      BY <1>1, <2>1, ConcatProperties
    <2>3. /\ size_bytes(o2) = size_bytes(o \o <<x[1]>>) + size_bytes(y)
          /\ size_bytes(o \o <<x[1]>>) = size_bytes(o) + size_bytes(<<x[1]>>)
      BY <1>1, <1>5, <2>1, <2>2, SizeConcat, Zenon
    <2> QED
      BY <2>1, <2>3
  <1>7. /\ size_bytes(o) \in Nat /\ size_bytes(o2) \in Nat /\ size_bytes(y) \in Nat
        /\ x[1].size \in Nat
    BY <1>1, <1>4, <1>5, SizeIsNat, SizeOne
  <1>8. size_bytes(o) + r = s + b /\ r < x[1].size
    BY <1>3 DEF Serves
  <1>9. size_bytes(o2) <= s + b
    BY <1>1, <1>7, SMT DEF Serves
  <1> DEFINE z == x[1].size
             a == size_bytes(o)
             a2 == size_bytes(o2)
             c == size_bytes(y)
  <1>10. /\ a2 = a + z + c /\ a \in Nat /\ a2 \in Nat /\ c \in Nat /\ z \in Nat
         /\ r \in Nat /\ a + r = s + b /\ r < z /\ a2 <= s + b
    BY <1>1, <1>6, <1>7, <1>8, <1>9, Zenon
  <1> HIDE DEF z, a, a2, c
  <1> QED
    BY <1>10, SMT

\* There is one outcome.
LEMMA ServesUnique ==
    ASSUME setup \in Links, NEW w, NEW s \in Nat, NEW b \in Nat,
           NEW o, NEW x, NEW r, Serves(w, s, b, o, x, r),
           NEW o2, NEW x2, NEW r2, Serves(w, s, b, o2, x2, r2)
    PROVE  o = o2 /\ x = x2 /\ r = r2
  <1>1. /\ o \in Seq(Packet) /\ x \in Seq(Packet) /\ w = o \o x /\ r \in Nat
        /\ o2 \in Seq(Packet) /\ x2 \in Seq(Packet) /\ w = o2 \o x2 /\ r2 \in Nat
    BY DEF Serves
  <1>2. Len(o) = Len(o2) /\ Len(o) \in Nat
    <2>1. ~(Len(o) < Len(o2)) /\ ~(Len(o2) < Len(o))
      BY ServesNoMore
    <2>2. Len(o) \in Nat /\ Len(o2) \in Nat
      BY <1>1, LenProperties
    <2> QED
      BY <2>1, <2>2, SMT
  <1>3. /\ Len(x) \in Nat /\ Len(x2) = Len(x)
        /\ Len(w) = Len(o) + Len(x) /\ \A i \in 1 .. Len(w) :
              /\ w[i] = IF i <= Len(o) THEN o[i] ELSE x[i - Len(o)]
              /\ w[i] = IF i <= Len(o) THEN o2[i] ELSE x2[i - Len(o)]
    <2>1. Len(x) \in Nat /\ Len(x2) \in Nat
      BY <1>1, LenProperties
    <2>2. /\ Len(w) = Len(o) + Len(x) /\ Len(w) = Len(o2) + Len(x2)
      BY <1>1, ConcatProperties
    <2>3. \A i \in 1 .. Len(w) : w[i] = IF i <= Len(o) THEN o[i] ELSE x[i - Len(o)]
      <3>1. o \in Seq(Packet) /\ x \in Seq(Packet) /\ w = o \o x
        BY <1>1
      <3> QED
        BY <3>1, ConcatAt
    <2>5. \A i \in 1 .. Len(w) : w[i] = IF i <= Len(o2) THEN o2[i] ELSE x2[i - Len(o2)]
      BY <1>1, ConcatAt
    <2>4. Len(x2) = Len(x)
      BY <1>2, <2>1, <2>2, SMT
    <2> QED
      BY <1>2, <2>1, <2>2, <2>3, <2>4, <2>5
  <1>4. \A i \in 1 .. Len(o) : o[i] = o2[i]
    <2>1. \A i \in 1 .. Len(o) : i \in 1 .. Len(w) /\ i <= Len(o)
      BY <1>2, <1>3, SMT
    <2> QED
      BY <1>3, <2>1
  <1>5. \A i \in 1 .. Len(x) : x[i] = x2[i]
    <2>1. \A i \in 1 .. Len(x) :
             /\ i + Len(o) \in 1 .. Len(w) /\ ~(i + Len(o) <= Len(o))
             /\ (i + Len(o)) - Len(o) = i
      BY <1>2, <1>3, SMT
    <2> QED
      BY <1>3, <2>1
  <1>6. o = o2 /\ x = x2
    BY <1>1, <1>2, <1>3, <1>4, <1>5, SeqEqual
  <1>7. r = r2
    <2>1. size_bytes(o) \in Nat
      BY <1>1, SizeIsNat
    <2> QED
      BY <1>1, <1>6, <2>1, SMT DEF Serves
  <1> QED
    BY <1>6, <1>7

\* No bytes send nothing.
LEMMA ServesNothing ==
    ASSUME setup \in Links, NEW w \in Seq(Packet), NEW s \in Nat,
           w = <<>> => s = 0, w # <<>> => s < w[1].size
    PROVE  Serves(w, s, 0, <<>>, w, s)
  <1>1. <<>> \in Seq(Packet) /\ w = <<>> \o w
    BY EmptySeq, ConcatEmptySeq
  <1>2. size_bytes(<<>>) = 0
    BY SizeEmpty, LinkFacts
  <1>3. size_bytes(<<>>) <= s + 0 /\ size_bytes(<<>>) + s = s + 0
    BY <1>2, SMT
  <1> QED
    BY <1>1, <1>3, Zenon DEF Serves

\* Bytes after bytes.
LEMMA ServesMore ==
    ASSUME setup \in Links, NEW w, NEW s \in Nat, NEW b \in Nat, NEW c \in Nat,
           NEW o, NEW x, NEW r, Serves(w, s, b, o, x, r),
           NEW o2, NEW x2, NEW r2, Serves(x, r, c, o2, x2, r2)
    PROVE  Serves(w, s, b + c, o \o o2, x2, r2)
  <1>1. o \in Seq(Packet) /\ x \in Seq(Packet) /\ w = o \o x /\ r \in Nat
    BY DEF Serves
  <1>2. o2 \in Seq(Packet) /\ x2 \in Seq(Packet) /\ x = o2 \o x2 /\ r2 \in Nat
    BY DEF Serves
  <1>3. o \o o2 \in Seq(Packet) /\ w = (o \o o2) \o x2
    <2>1. o \o o2 \in Seq(Packet)
      BY <1>1, <1>2, ConcatProperties
    <2>2. (o \o o2) \o x2 = o \o (o2 \o x2)
      <3>1. o \in Seq(Packet) /\ o2 \in Seq(Packet) /\ x2 \in Seq(Packet)
        BY <1>1, <1>2
      <3> QED
        BY <3>1, SMT
    <2> QED
      BY <1>1, <1>2, <2>1, <2>2, Zenon
  <1> DEFINE a == size_bytes(o)
             a2 == size_bytes(o2)
             z == x2[1].size
  <1>4. size_bytes(o \o o2) = a + a2 /\ a \in Nat /\ a2 \in Nat
    BY <1>1, <1>2, SizeConcat, SizeIsNat
  <1>5. CASE x = <<>>
    <2>1. o2 = <<>> /\ x2 = <<>>
      <3>1. Len(x) = Len(o2) + Len(x2) /\ Len(o2) \in Nat /\ Len(x2) \in Nat /\ Len(x) = 0
        BY <1>2, <1>5, ConcatProperties, LenProperties, EmptySeq
      <3>2. Len(o2) = 0 /\ Len(x2) = 0
        BY <3>1, SMT
      <3> QED
        BY <1>2, <3>2, EmptySeq
    <2>2. a <= s + b /\ r2 = 0 /\ a2 = 0
      BY <1>5, <2>1, SizeEmpty, LinkFacts, Zenon DEF Serves
    <2> HIDE DEF a, a2
    <2>3. size_bytes(o \o o2) <= s + (b + c)
      BY <1>4, <2>2, SMT
    <2> QED
      BY <1>2, <1>3, <2>1, <2>2, <2>3, Zenon DEF Serves
  <1>6. CASE x # <<>>
    <2>1. a + r = s + b
      BY <1>6, Zenon DEF Serves
    <2>2. CASE x2 = <<>>
      <3>1. r2 = 0 /\ a2 <= r + c
        BY <2>2, Zenon DEF Serves
      <3> HIDE DEF a, a2
      <3>2. size_bytes(o \o o2) <= s + (b + c)
        BY <1>1, <1>4, <2>1, <3>1, SMT
      <3> QED
        BY <1>2, <1>3, <2>2, <3>1, <3>2, Zenon DEF Serves
    <2>3. CASE x2 # <<>>
      <3>1. r2 < z /\ a2 + r2 = r + c
        BY <2>3, Zenon DEF Serves
      <3> HIDE DEF a, a2
      <3>2. size_bytes(o \o o2) + r2 = s + (b + c)
        BY <1>1, <1>2, <1>4, <2>1, <3>1, SMT
      <3> QED
        BY <1>2, <1>3, <2>3, <3>1, <3>2, Zenon DEF Serves
    <2> QED
      BY <2>2, <2>3
  <1> QED
    BY <1>5, <1>6

\* It is the outcome that the eager link has.
LEMMA EagerServe ==
    ASSUME setup \in Links, NEW w, NEW s \in Nat, NEW b \in Nat,
           NEW o, NEW x, NEW r, Serves(w, s, b, o, x, r)
    PROVE  Eager!Serve(w, s, b) = [output |-> o, waiting |-> x, sent |-> r]
  <1> DEFINE used(k) == Eager!size_bytes(SubSeq(w, 1, k))
             room == s + b
             Fits(k) == used(k) <= room /\ (k < Len(w) => used(k + 1) > room)
             whole == CHOOSE k \in 0 .. Len(w) : Fits(k)
             rest(k) == IF k = Len(w) THEN 0 ELSE room - used(k)
  <1>1. o \in Seq(Packet) /\ x \in Seq(Packet) /\ w = o \o x /\ r \in Nat
    BY DEF Serves
  <1>2. w \in Seq(Packet) /\ Len(w) = Len(o) + Len(x) /\ Len(o) \in Nat /\ Len(x) \in Nat
    BY <1>1, ConcatAt, LenProperties
  <1>3. ASSUME NEW k \in 0 .. Len(w)
        PROVE  /\ SubSeq(w, 1, k) \in Seq(Packet) /\ SubSeq(w, k + 1, Len(w)) \in Seq(Packet)
               /\ w = SubSeq(w, 1, k) \o SubSeq(w, k + 1, Len(w))
               /\ Len(SubSeq(w, k + 1, Len(w))) = Len(w) - k
               /\ used(k) = size_bytes(SubSeq(w, 1, k)) /\ used(k) \in Nat
    <2>1. \A ps : Eager!size_bytes(ps) = size_bytes(ps)
      BY Zenon DEF Eager!size_bytes, size_bytes
    <2>2. /\ SubSeq(w, 1, k) \in Seq(Packet) /\ SubSeq(w, k + 1, Len(w)) \in Seq(Packet)
          /\ w = SubSeq(w, 1, k) \o SubSeq(w, k + 1, Len(w))
          /\ Len(SubSeq(w, k + 1, Len(w))) = Len(w) - k
      BY <1>2, CutInTwo
    <2>3. size_bytes(SubSeq(w, 1, k)) \in Nat
      BY <2>2, SizeIsNat
    <2> QED
      BY <2>1, <2>2, <2>3, Zenon
  <1>4. ASSUME NEW k \in 0 .. Len(w), k < Len(w)
        PROVE  /\ used(k + 1) = used(k) + w[k + 1].size /\ w[k + 1].size \in Nat
               /\ SubSeq(w, k + 1, Len(w))[1] = w[k + 1]
    <2>1. k + 1 \in 0 .. Len(w) /\ k + 1 \in 1 .. Len(w) /\ k \in Nat
      BY <1>2, <1>4, SMT
    <2>2. SubSeq(w, 1, k + 1) = Append(SubSeq(w, 1, k), w[k + 1])
      BY <1>2, <1>4, SMT
    <2>3. w[k + 1] \in Packet
      BY <1>2, <2>1, ElementOfSeq
    <2>4. size_bytes(SubSeq(w, 1, k + 1)) = size_bytes(SubSeq(w, 1, k)) + w[k + 1].size
          /\ w[k + 1].size \in Nat
      BY <1>3, <2>2, <2>3, SizeAppend, LinkFacts
    <2>5. SubSeq(w, k + 1, Len(w))[1] = w[k + 1]
      BY <1>2, <1>4, SMT
    <2> QED
      BY <1>3, <2>1, <2>4, <2>5, Zenon
  <1> HIDE DEF used
  <1>5. ASSUME NEW k \in 0 .. Len(w), Fits(k)
        PROVE  Serves(w, s, b, SubSeq(w, 1, k), SubSeq(w, k + 1, Len(w)), rest(k))
    <2> DEFINE y == SubSeq(w, k + 1, Len(w))
    <2>1. CASE k = Len(w)
      <3>1. Len(y) = 0
        BY <1>2, <1>3, <2>1, SMT
      <3>2. y = <<>>
        BY <1>3, <3>1, EmptySeq
      <3>3. size_bytes(SubSeq(w, 1, k)) <= s + b
        BY <1>3, <1>5
      <3> HIDE DEF y
      <3>4. rest(k) = 0 /\ 0 \in Nat
        BY <2>1
      <3> QED
        BY <1>3, <3>2, <3>3, <3>4, Zenon DEF Serves, y
    <2>2. CASE k # Len(w)
      <3>1. k < Len(w)
        BY <1>2, <2>2, SMT
      <3>2. Len(y) > 0 /\ y # <<>>
        <4>1. Len(y) > 0
          BY <1>2, <1>3, <3>1, SMT
        <4> HIDE DEF y
        <4> QED
          BY <4>1, EmptySeq, SMT
      <3> DEFINE a == used(k)
                 z == w[k + 1].size
                 a2 == used(k + 1)
                 rr == rest(k)
      <3>3. /\ a2 = a + z /\ z \in Nat /\ y[1] = w[k + 1] /\ a \in Nat
            /\ a <= room /\ a2 > room /\ rr = room - a
        BY <1>3, <1>4, <1>5, <2>2, <3>1
      <3>4. rr \in Nat /\ rr < z /\ a + rr = s + b
        <4> HIDE DEF a, z, a2, rr
        <4> QED
          BY <3>3, SMT
      <3>5. a = size_bytes(SubSeq(w, 1, k)) /\ z = y[1].size
        BY <1>3, <3>3
      <3> HIDE DEF y, rr, a, z
      <3> QED
        BY <1>3, <3>2, <3>4, <3>5, Zenon DEF Serves, y, rr
    <2> QED
      BY <2>1, <2>2
  <1>6. Len(o) \in 0 .. Len(w) /\ Fits(Len(o))
    <2>1. Len(o) \in 0 .. Len(w)
      BY <1>2, SMT
    <2>2. SubSeq(w, 1, Len(o)) = o
      <3>1. Len(SubSeq(w, 1, Len(o))) = Len(o) /\ SubSeq(w, 1, Len(o)) \in Seq(Packet)
        BY <1>2, <2>1, CutInTwo
      <3>2. \A i \in 1 .. Len(o) : SubSeq(w, 1, Len(o))[i] = w[i]
        BY <1>2, SMT
      <3>3. \A i \in 1 .. Len(w) : w[i] = IF i <= Len(o) THEN o[i] ELSE x[i - Len(o)]
        BY <1>1, ConcatAt
      <3>4. \A i \in 1 .. Len(o) : i \in 1 .. Len(w) /\ i <= Len(o)
        BY <1>2, SMT
      <3>5. \A i \in 1 .. Len(o) : SubSeq(w, 1, Len(o))[i] = o[i]
        BY <3>2, <3>3, <3>4
      <3> QED
        BY <1>1, <3>1, <3>5, SeqEqual
    <2>3. used(Len(o)) = size_bytes(o) /\ size_bytes(o) \in Nat
      BY <1>1, <1>3, <2>1, <2>2, SizeIsNat
    <2>4. used(Len(o)) <= room
      <3> DEFINE a == size_bytes(o)
                 z == x[1].size
      <3>1. a <= s + b \/ a + r = s + b
        BY Zenon DEF Serves
      <3> HIDE DEF a
      <3>2. a \in Nat
        BY <2>3 DEF a
      <3>3. a <= room
        BY <1>1, <3>1, <3>2, SMT
      <3> QED
        BY <2>3, <3>3 DEF a
    <2>5. ASSUME Len(o) < Len(w) PROVE used(Len(o) + 1) > room
      <3>1. Len(x) > 0
        BY <1>2, <2>5, SMT
      <3>2. x # <<>>
        BY <1>1, <3>1, EmptySeq, SMT
      <3>3. w[Len(o) + 1] = x[1]
        <4>1. \A i \in 1 .. Len(w) : w[i] = IF i <= Len(o) THEN o[i] ELSE x[i - Len(o)]
          BY <1>1, ConcatAt
        <4>2. /\ Len(o) + 1 \in 1 .. Len(w) /\ ~(Len(o) + 1 <= Len(o))
              /\ (Len(o) + 1) - Len(o) = 1
          BY <1>2, <2>5, SMT
        <4> QED
          BY <4>1, <4>2
      <3> DEFINE a == size_bytes(o)
                 z == x[1].size
                 a2 == used(Len(o) + 1)
      <3>4. r < z /\ a + r = s + b
        BY <3>2, Zenon DEF Serves
      <3>5. a2 = a + z /\ z \in Nat /\ a \in Nat
        BY <1>4, <2>1, <2>3, <2>5, <3>3
      <3> HIDE DEF a, z, a2
      <3>6. a2 > room
        BY <1>1, <3>4, <3>5, SMT
      <3> QED
        BY <3>6 DEF a2
    <2> QED
      BY <2>1, <2>4, <2>5
  <1>7. whole \in 0 .. Len(w) /\ Fits(whole)
    <2> HIDE DEF Fits
    <2> QED
      BY <1>6, Zenon
  <1>8. Eager!Serve(w, s, b) =
            [output |-> SubSeq(w, 1, whole), waiting |-> SubSeq(w, whole + 1, Len(w)),
             sent |-> rest(whole)]
    BY Zenon DEF Eager!Serve, used
  <1> HIDE DEF whole, rest, Fits
  <1>9. Serves(w, s, b, SubSeq(w, 1, whole), SubSeq(w, whole + 1, Len(w)), rest(whole))
    BY <1>5, <1>7
  <1>10. /\ SubSeq(w, 1, whole) = o /\ SubSeq(w, whole + 1, Len(w)) = x
         /\ rest(whole) = r
    <2> DEFINE y == SubSeq(w, 1, whole)
               z == SubSeq(w, whole + 1, Len(w))
               q == rest(whole)
    <2>1. Serves(w, s, b, y, z, q)
      BY <1>9
    <2> HIDE DEF y, z, q
    <2>2. y = o /\ z = x /\ q = r
      BY <2>1, ServesUnique
    <2> QED
      BY <2>2 DEF y, z, q
  <1> QED
    BY <1>8, <1>10

-----------------------------------------------------------------------------
(* The clock of the trace                                                   *)

\* The length of a trace.
LastTime == setup.schedule[Len(setup.schedule)]

\* A trace is sorted, and lasts a millisecond or more.
LEMMA TraceFacts ==
    ASSUME setup \in Links
    PROVE  /\ Len(setup.schedule) \in Nat /\ Len(setup.schedule) > 0
           /\ \A i \in 1 .. Len(setup.schedule) : setup.schedule[i] \in Nat
           /\ \A i, j \in 1 .. Len(setup.schedule) :
                 i <= j => setup.schedule[i] <= setup.schedule[j]
           /\ LastTime \in Nat /\ LastTime > 0
  <1> DEFINE s == setup.schedule
             J == Len(s)
  <1>1. J \in Nat /\ J > 0 /\ \A i \in 1 .. J : s[i] \in Nat
    <2>1. s \in Seq(Nat) /\ s # <<>>
      BY LinkFacts
    <2> HIDE DEF s
    <2> QED
      BY <2>1, LenProperties, EmptySeq, ElementOfSeq, SMT
  <1>2. (\A i \in 1 .. J - 1 : s[i] <= s[i + 1]) /\ s[J] > 0
    BY LinkAssumption, Zenon
  <1> HIDE DEF s, J
  <1>3. ASSUME NEW i \in 1 .. J, NEW j \in 1 .. J, i <= j PROVE s[i] <= s[j]
    <2> DEFINE U == {d \in Nat : i + d <= J => s[i] <= s[i + d]}
    <2>1. 0 \in U
      <3>1. i + 0 = i /\ s[i] \in Nat
        BY <1>1
      <3>2. s[i] <= s[i]
        BY <3>1, SMT
      <3> QED
        BY <3>1, <3>2
    <2>2. ASSUME NEW d \in Nat, d \in U PROVE d + 1 \in U
      <3>1. SUFFICES ASSUME i + (d + 1) <= J PROVE s[i] <= s[i + (d + 1)]
        OBVIOUS
      <3>2. i + d \in 1 .. J - 1 /\ i + d \in 1 .. J /\ i + (d + 1) = (i + d) + 1 /\ i + d <= J
            /\ (i + d) + 1 \in 1 .. J
        BY <1>1, <3>1, SMT
      <3>3. s[i] <= s[i + d] /\ s[i + d] <= s[i + (d + 1)]
        BY <1>2, <2>2, <3>2
      <3>4. s[i] \in Nat /\ s[i + d] \in Nat /\ s[i + (d + 1)] \in Nat
        BY <1>1, <3>2
      <3> QED
        BY <3>3, <3>4, SMT
    <2>3. U = Nat
      <3> HIDE DEF U
      <3>1. U \in SUBSET Nat
        BY DEF U
      <3> QED
        BY <2>1, <2>2, <3>1, NatSet
    <2>4. j - i \in Nat /\ i + (j - i) = j /\ j <= J
      BY <1>1, <1>3, SMT
    <2>5. j - i \in U
      BY <2>3, <2>4
    <2>6. i + (j - i) <= J => s[i] <= s[i + (j - i)]
      BY <2>5
    <2> QED
      BY <2>4, <2>6
  <1>4. J \in 1 .. J
    BY <1>1, SMT
  <1> QED
    BY <1>1, <1>2, <1>3, <1>4 DEF s, J, LastTime

\* Products of natural numbers.
LEMMA Multiples ==
    ASSUME NEW n \in Nat
    PROVE  /\ 0 * n = 0 /\ 1 * n = n
           /\ \A k \in Nat : k * n \in Nat /\ (k + 1) * n = k * n + n
           /\ \A j, k \in Nat : j <= k => j * n <= k * n
           /\ n > 0 => \A k \in Nat : k <= k * n
  BY SMT

\* The index after i, in a trace of J entries.
LEMMA NextIndex ==
    ASSUME NEW J \in Nat, J > 0, NEW i \in 0 .. J - 1
    PROVE  /\ i + 1 < J => (i + 1) % J = i + 1 /\ i + 1 # 0
           /\ i + 1 = J => (i + 1) % J = 0
  BY SMT

\* The opportunities: each is an entry of the trace in a repetition of it.
Slots == (1 .. Len(setup.schedule)) \X (IF setup.repeat THEN Nat ELSE {0})
TimeOf(p) == setup.schedule[p[1]] + p[2] * LastTime
UpTo(t) == {p \in Slots : TimeOf(p) <= t}

\* Where the clock of a link is: in which repetition, if it has not stopped, and
\* which opportunities are over.
ClockAt(l, k) ==
    /\ k \in Nat
    /\ IF setup.repeat THEN ~l.finished /\ l.base_timestamp = k * LastTime
       ELSE /\ l.base_timestamp = 0
            /\ IF l.finished THEN l.next_delivery = 0 /\ k = 1 ELSE k = 0

Past(l, k) ==
    {p \in (1 .. Len(setup.schedule)) \X Nat :
        p[2] < k \/ (p[2] = k /\ p[1] <= l.next_delivery)}

\* There are finitely many opportunities up to a time.
LEMMA UpToFinite ==
    ASSUME setup \in Links, NEW t \in Nat
    PROVE  /\ IsFiniteSet(UpTo(t)) /\ Cardinality(UpTo(t)) \in Nat
           /\ Cardinality(UpTo(t)) <= (t + 1) * Len(setup.schedule)
  <1> DEFINE I == 1 .. Len(setup.schedule)
             K == 0 .. t
             J == Len(setup.schedule)
  <1>0. J \in Nat /\ J > 0
    BY TraceFacts
  <1>1. IsFiniteSet(I) /\ Cardinality(I) = J
    <2> HIDE DEF J
    <2>1. 1 \in Int /\ J \in Int /\ ~(1 > J) /\ J - 1 + 1 = J
      BY <1>0, SMT
    <2>2. /\ IsFiniteSet(1 .. J)
          /\ Cardinality(1 .. J) = IF 1 > J THEN 0 ELSE J - 1 + 1
      BY <2>1, FS_Interval, Zenon
    <2> QED
      BY <2>1, <2>2, Zenon DEF J
  <1>2. IsFiniteSet(K) /\ Cardinality(K) = t + 1
    <2>1. 0 \in Int /\ t \in Int /\ ~(0 > t) /\ t - 0 + 1 = t + 1
      BY SMT
    <2>2. /\ IsFiniteSet(0 .. t)
          /\ Cardinality(0 .. t) = IF 0 > t THEN 0 ELSE t - 0 + 1
      BY <2>1, FS_Interval, Zenon
    <2> QED
      BY <2>1, <2>2, Zenon
  <1>3. /\ IsFiniteSet(I \X K)
        /\ Cardinality(I \X K) = J * (t + 1)
    <2> HIDE DEF I, K, J
    <2>1. IsFiniteSet(I \X K) /\ Cardinality(I \X K) = Cardinality(I) * Cardinality(K)
      BY <1>1, <1>2, FS_Product, Zenon
    <2> QED
      BY <1>1, <1>2, <2>1, Zenon
  <1>4. UpTo(t) \subseteq I \X K
    <2> SUFFICES ASSUME NEW p \in UpTo(t) PROVE p \in I \X K
      OBVIOUS
    <2>1. p \in Slots /\ TimeOf(p) <= t
      BY DEF UpTo
    <2>2. p[1] \in I /\ p[2] \in Nat /\ p = <<p[1], p[2]>>
      BY <2>1 DEF Slots
    <2> DEFINE a == setup.schedule[p[1]]
               b == p[2] * LastTime
    <2>3. a \in Nat /\ b \in Nat /\ p[2] <= b
      BY <2>2, TraceFacts, Multiples
    <2>4. a + b <= t
      BY <2>1 DEF TimeOf
    <2> HIDE DEF a, b
    <2>5. p[2] <= t
      BY <2>2, <2>3, <2>4, SMT
    <2> QED
      BY <2>2, <2>5, SMT
  <1>5. /\ IsFiniteSet(UpTo(t)) /\ Cardinality(UpTo(t)) <= Cardinality(I \X K)
    BY <1>3, <1>4, FS_Subset
  <1>6. Cardinality(UpTo(t)) \in Nat
    BY <1>5, FS_CardinalityType
  <1>7. J * (t + 1) = (t + 1) * J
    <2> HIDE DEF J
    <2> QED
      BY <1>0, SMT
  <1> QED
    BY <1>3, <1>5, <1>6, <1>7, Zenon

\* The opportunity that comes next.
LEMMA NextSlot ==
    ASSUME setup \in Links, NEW l, NEW lo, NEW hi, LinkRests(l, lo, hi),
           NEW k, ClockAt(l, k), ~l.finished
    PROVE  LET p == <<l.next_delivery + 1, k>>
           IN  p \in Slots /\ p \notin Past(l, k) /\ TimeOf(p) = next_delivery_time(l)
  <1> DEFINE nd == l.next_delivery
  <1>1. l.schedule = setup.schedule /\ nd \in 0 .. Len(setup.schedule) - 1
    BY LinkParts DEF LinkRests, LinkOK, Clock
  <1>2. nd + 1 \in 1 .. Len(setup.schedule) /\ nd \in Nat
    BY <1>1, TraceFacts, SMT
  <1>3. k \in Nat /\ (~setup.repeat => k = 0)
    BY DEF ClockAt
  <1>4. l.base_timestamp = k * LastTime
    <2>1. 0 * LastTime = 0
      BY TraceFacts, Multiples
    <2> QED
      BY <2>1 DEF ClockAt
  <1>5. <<nd + 1, k>> \in Slots
    BY <1>2, <1>3 DEF Slots
  <1>6. <<nd + 1, k>> \notin Past(l, k)
    BY <1>2, <1>3, SMT DEF Past
  <1>7. TimeOf(<<nd + 1, k>>) = next_delivery_time(l)
    BY <1>1, <1>4 DEF TimeOf, next_delivery_time
  <1> QED
    BY <1>5, <1>6, <1>7

\* Using it moves the clock on.
LEMMA ClockMoves ==
    ASSUME setup \in Links, NEW l, NEW lo, NEW hi, LinkRests(l, lo, hi),
           NEW k, ClockAt(l, k), ~l.finished,
           NEW u, u.next_delivery = use_a_delivery_opportunity(l).next_delivery,
           u.base_timestamp = use_a_delivery_opportunity(l).base_timestamp,
           u.finished = use_a_delivery_opportunity(l).finished
    PROVE  \E j : /\ ClockAt(u, j)
                  /\ Past(u, j) = Past(l, k) \cup {<<l.next_delivery + 1, k>>}
  <1> DEFINE nd == l.next_delivery
             J == Len(setup.schedule)
             n == (nd + 1) % J
             p == <<nd + 1, k>>
  <1>1. /\ u.next_delivery = n
        /\ u.base_timestamp = l.base_timestamp + IF n = 0 /\ setup.repeat THEN LastTime ELSE 0
        /\ u.finished = (l.finished \/ (n = 0 /\ ~setup.repeat))
    BY UseParts DEF LastTime
  <1>2. /\ nd \in 0 .. J - 1 /\ l.base_timestamp \in Nat /\ setup.repeat \in BOOLEAN
        /\ J \in Nat /\ J > 0
    BY LinkFacts, TraceFacts DEF LinkRests, LinkOK, Clock
  <1>3. k \in Nat /\ LastTime \in Nat
    BY TraceFacts DEF ClockAt
  <1>4. CASE nd + 1 < J
    <2>1. n = nd + 1 /\ n # 0
      BY <1>2, <1>4, NextIndex
    <2>2. u.next_delivery = nd + 1 /\ u.base_timestamp = l.base_timestamp /\ ~u.finished
      <3>1. u.base_timestamp = l.base_timestamp + 0
        BY <1>1, <2>1, Zenon
      <3>2. l.base_timestamp + 0 = l.base_timestamp
        BY <1>2, SMT
      <3> QED
        BY <1>1, <2>1, <3>1, <3>2, Zenon
    <2>3. ClockAt(u, k)
      BY <2>2 DEF ClockAt
    <2>4. Past(u, k) = Past(l, k) \cup {p}
      <3>1. p \in (1 .. J) \X Nat
        BY <1>2, <1>3, SMT
      <3>2. ASSUME NEW q \in (1 .. J) \X Nat PROVE q \in Past(u, k) <=> q \in Past(l, k) \cup {p}
        <4>1. q = <<q[1], q[2]>> /\ q[1] \in 1 .. J /\ q[2] \in Nat
          OBVIOUS
        <4>2. q = p <=> q[1] = nd + 1 /\ q[2] = k
          BY <4>1
        <4>3. q[1] <= nd + 1 <=> q[1] <= nd \/ q[1] = nd + 1
          BY <1>2, <4>1, SMT
        <4> QED
          BY <2>2, <4>2, <4>3 DEF Past
      <3> QED
        BY <3>1, <3>2 DEF Past
    <2> QED
      BY <2>3, <2>4
  <1>5. CASE nd + 1 = J
    <2>1. n = 0
      BY <1>2, <1>5, NextIndex
    <2>2. /\ u.next_delivery = 0
          /\ setup.repeat => u.base_timestamp = l.base_timestamp + LastTime /\ ~u.finished
          /\ ~setup.repeat => u.base_timestamp = l.base_timestamp /\ u.finished
      <3>1. l.base_timestamp + 0 = l.base_timestamp
        BY <1>2, SMT
      <3> QED
        BY <1>1, <2>1, <3>1, Zenon
    <2>3. ClockAt(u, k + 1)
      <3>1. CASE setup.repeat
        <4>1. l.base_timestamp = k * LastTime
          BY <3>1 DEF ClockAt
        <4>2. (k + 1) * LastTime = k * LastTime + LastTime
          BY <1>3, Multiples
        <4> QED
          BY <1>3, <2>2, <3>1, <4>1, <4>2 DEF ClockAt
      <3>2. CASE ~setup.repeat
        <4>1. l.base_timestamp = 0 /\ k = 0
          BY <3>2 DEF ClockAt
        <4> QED
          BY <2>2, <3>2, <4>1 DEF ClockAt
      <3> QED
        BY <3>1, <3>2
    <2>4. Past(u, k + 1) = Past(l, k) \cup {p}
      <3>1. p \in (1 .. J) \X Nat
        BY <1>2, <1>3, SMT
      <3>2. ASSUME NEW q \in (1 .. J) \X Nat
            PROVE  q \in Past(u, k + 1) <=> q \in Past(l, k) \cup {p}
        <4>1. q = <<q[1], q[2]>> /\ q[1] \in 1 .. J /\ q[2] \in Nat
          OBVIOUS
        <4>2. q = p <=> q[1] = nd + 1 /\ q[2] = k
          BY <4>1
        <4>3. /\ q[1] <= nd \/ q[1] = nd + 1
              /\ q[2] < k + 1 <=> q[2] < k \/ q[2] = k
              /\ ~(q[1] <= 0)
          BY <1>2, <1>3, <1>5, <4>1, SMT
        <4> QED
          BY <2>2, <4>2, <4>3 DEF Past
      <3> QED
        BY <3>1, <3>2 DEF Past
    <2> QED
      BY <2>3, <2>4
  <1> QED
    BY <1>2, <1>4, <1>5, SMT

\* A link that has no opportunity due has used exactly those up to the time.
LEMMA NothingDue ==
    ASSUME setup \in Links, NEW l, NEW lo, NEW hi, LinkRests(l, lo, hi),
           NEW k, ClockAt(l, k), NEW t \in Nat, Past(l, k) \subseteq UpTo(t), ~Due(l, t)
    PROVE  Past(l, k) = UpTo(t)
  <1> DEFINE nd == l.next_delivery
             J == Len(setup.schedule)
  <1>1. nd \in 0 .. J - 1 /\ setup.repeat \in BOOLEAN /\ J \in Nat /\ k \in Nat
    BY LinkFacts, TraceFacts DEF LinkRests, LinkOK, Clock, ClockAt
  <1> SUFFICES ASSUME NEW p \in UpTo(t), p \notin Past(l, k) PROVE FALSE
    OBVIOUS
  <1>2. p \in Slots /\ TimeOf(p) <= t
    BY DEF UpTo
  <1>3. p[1] \in 1 .. J /\ p[2] \in Nat /\ p = <<p[1], p[2]>> /\ (~setup.repeat => p[2] = 0)
    BY <1>2 DEF Slots
  <1>4. p[2] > k \/ (p[2] = k /\ p[1] > nd)
    <2>1. ~(p[2] < k \/ (p[2] = k /\ p[1] <= nd))
      BY <1>3 DEF Past
    <2> QED
      BY <1>1, <1>3, <2>1, SMT
  <1>5. ~l.finished
    <2>1. ASSUME l.finished PROVE FALSE
      <3>1. ~setup.repeat /\ k = 1
        BY <2>1 DEF ClockAt
      <3> QED
        BY <1>3, <1>4, <3>1, SMT
    <2> QED
      BY <2>1
  <1> DEFINE q == <<nd + 1, k>>
             c == k * LastTime
             d == p[2] * LastTime
             a == setup.schedule[nd + 1]
             b == setup.schedule[p[1]]
  <1>6. a + c > t /\ ~(a + c <= t)
    <2>1. TimeOf(q) = next_delivery_time(l)
      BY <1>5, NextSlot
    <2>2. ~(a + c <= t)
      BY <1>5, <2>1 DEF Due, TimeOf
    <2>3. a \in Nat /\ c \in Nat
      <3>1. nd + 1 \in 1 .. J
        BY <1>1, SMT
      <3> QED
        BY <1>1, <3>1, TraceFacts, Multiples
    <2> HIDE DEF a, c
    <2> QED
      BY <2>2, <2>3, SMT
  <1>7. b + d <= t
    BY <1>2 DEF TimeOf
  <1>8. /\ a \in Nat /\ b \in Nat /\ c \in Nat /\ d \in Nat /\ nd + 1 \in 1 .. J
        /\ LastTime \in Nat /\ a <= LastTime
    <2>1. nd + 1 \in 1 .. J /\ J \in 1 .. J /\ nd + 1 <= J
      BY <1>1, SMT
    <2> QED
      BY <1>1, <1>3, <2>1, TraceFacts, Multiples DEF LastTime
  <1>9. CASE p[2] = k /\ p[1] > nd
    <2>1. d = c /\ nd + 1 <= p[1]
      BY <1>1, <1>3, <1>9, SMT
    <2>2. a <= b
      BY <1>3, <1>8, <2>1, TraceFacts
    <2> HIDE DEF a, b, c, d
    <2> QED
      BY <1>6, <1>7, <1>8, <2>1, <2>2, SMT
  <1>10. CASE p[2] > k
    <2>1. k + 1 <= p[2] /\ k + 1 \in Nat
      BY <1>1, <1>3, <1>10, SMT
    <2>2. (k + 1) * LastTime = c + LastTime /\ (k + 1) * LastTime <= d
      BY <1>1, <1>3, <1>8, <2>1, Multiples
    <2> HIDE DEF a, b, c, d
    <2>3. c + LastTime <= d
      BY <2>2
    <2> QED
      BY <1>6, <1>7, <1>8, <2>3, SMT
  <1> QED
    BY <1>4, <1>9, <1>10

-----------------------------------------------------------------------------
(* What a link sends                                                        *)

\* The packets that a link has not fully sent, and how much it sent of the first.
Waiting(l) == l.in_transit \o l.packet_queue.internal_queue
SentOf(l) == IF l.in_transit = <<>> THEN 0 ELSE l.in_transit[1].size - l.bytes_left

\* A link becomes m, with some bytes sent, by the clock of l.
Moves(l, m, bytes) ==
    \E o : /\ m.output_queue = l.output_queue \o o
           /\ Serves(Waiting(l), SentOf(l), bytes, o, Waiting(m), SentOf(m))

SameClock(m, l) ==
    /\ m.next_delivery = l.next_delivery /\ m.base_timestamp = l.base_timestamp
    /\ m.finished = l.finished

\* What waits begins with the packet under way, whose bytes are sent or left.
LEMMA WaitingOK ==
    ASSUME setup \in Links, NEW l, NEW lo, NEW hi, LinkOK(l, lo, hi)
    PROVE  /\ Waiting(l) \in Seq(Packet) /\ SentOf(l) \in Nat
           /\ l.in_transit = <<>> =>
                 Waiting(l) = l.packet_queue.internal_queue /\ SentOf(l) = 0
           /\ l.in_transit # <<>> =>
                 /\ l.in_transit[1] \in Packet /\ l.in_transit = <<l.in_transit[1]>>
                 /\ Waiting(l) # <<>> /\ Waiting(l)[1] = l.in_transit[1]
                 /\ SentOf(l) < Waiting(l)[1].size
                 /\ SentOf(l) + l.bytes_left = l.in_transit[1].size
                 /\ l.in_transit[1].size \in Nat /\ l.bytes_left > 0
  <1> DEFINE it == l.in_transit
             ps == l.packet_queue.internal_queue
             w == Waiting(l)
  <1>1. /\ it \in Seq(Packet) /\ Len(it) <= 1 /\ l.bytes_left \in Nat
        /\ l.bytes_left = 0 <=> it = <<>>
        /\ it # <<>> => l.bytes_left <= it[1].size
        /\ ps \in Seq(Packet)
    BY DEF LinkOK, Transit, QueueOK
  <1>2. w \in Seq(Packet) /\ Len(w) = Len(it) + Len(ps)
        /\ \A i \in 1 .. Len(w) : w[i] = IF i <= Len(it) THEN it[i] ELSE ps[i - Len(it)]
    <2>1. w = it \o ps
      BY DEF Waiting
    <2> HIDE DEF w, it, ps
    <2> QED
      BY <1>1, <2>1, ConcatAt
  <1>3. CASE it = <<>>
    <2>1. w = ps /\ SentOf(l) = 0
      BY <1>1, <1>3, ConcatEmptySeq DEF Waiting, SentOf
    <2> QED
      BY <1>2, <1>3, <2>1
  <1>4. CASE it # <<>>
    <2>1. Len(it) = 1 /\ Len(ps) \in Nat
      <3>1. Len(it) \in Nat /\ Len(ps) \in Nat /\ Len(it) # 0
        <4> HIDE DEF it, ps
        <4> QED
          BY <1>1, <1>4, LenProperties, EmptySeq
      <3> DEFINE a == Len(it)
      <3>2. a \in Nat /\ a # 0 /\ a <= 1
        BY <1>1, <3>1
      <3> HIDE DEF a
      <3>3. a = 1
        BY <3>2, SMT
      <3> QED
        BY <3>1, <3>3 DEF a
    <2>2. it[1] \in Packet /\ it = <<it[1]>>
      <3> HIDE DEF it
      <3>1. it[1] \in Packet
        BY <1>1, <2>1, ElementOfSeq, SMT
      <3>2. it = <<it[1]>>
        BY <1>1, <2>1, SMT
      <3> QED
        BY <3>1, <3>2
    <2>3. it[1].size \in Nat
      BY <2>2, SizeOne
    <2>4. 1 \in 1 .. Len(w) /\ 1 <= Len(it)
      BY <1>2, <2>1, SMT
    <2>5. w[1] = it[1] /\ w # <<>>
      <3>1. w[1] = it[1]
        BY <1>2, <2>4
      <3>2. Len(w) # 0
        BY <1>2, <2>1, SMT
      <3> QED
        BY <3>1, <3>2, EmptySeq
    <2>6. SentOf(l) = it[1].size - l.bytes_left
      BY <1>4 DEF SentOf
    <2> DEFINE z == it[1].size
    <2>7. z \in Nat /\ l.bytes_left <= z /\ l.bytes_left # 0 /\ SentOf(l) = z - l.bytes_left
      BY <1>1, <1>4, <2>3, <2>6
    <2> HIDE DEF z
    <2>8. /\ SentOf(l) \in Nat /\ SentOf(l) < z /\ SentOf(l) + l.bytes_left = z
          /\ l.bytes_left > 0
      BY <1>1, <2>7, SMT
    <2> QED
      BY <1>2, <1>4, <2>2, <2>3, <2>5, <2>8 DEF z
  <1> QED
    BY <1>3, <1>4

\* A link that rests has begun to send the packet under way.
LEMMA RestingOK ==
    ASSUME setup \in Links, NEW l, NEW lo, NEW hi, LinkRests(l, lo, hi)
    PROVE  /\ Waiting(l) \in Seq(Packet) /\ SentOf(l) \in Nat
           /\ Waiting(l) = <<>> => SentOf(l) = 0
           /\ Waiting(l) # <<>> => SentOf(l) < Waiting(l)[1].size
           /\ SentOf(l) = 0 <=> l.in_transit = <<>>
           /\ l.packet_queue.internal_queue \in Seq(Packet)
  <1> DEFINE ps == l.packet_queue.internal_queue
  <1>1. LinkOK(l, lo, hi) /\ l.in_transit # <<>> => l.bytes_left < l.in_transit[1].size
    BY DEF LinkRests
  <1>2. ps \in Seq(Packet) /\ l.bytes_left \in Nat
    BY <1>1 DEF LinkOK, QueueOK, Transit, LinkRests
  <1>3. CASE l.in_transit = <<>>
    <2>1. Waiting(l) = ps /\ SentOf(l) = 0 /\ LinkOK(l, lo, hi)
      BY <1>3, WaitingOK DEF LinkRests
    <2>2. ASSUME ps # <<>> PROVE 0 < ps[1].size
      <3> HIDE DEF ps
      <3>1. 1 \in 1 .. Len(ps)
        BY <1>2, <2>2, LenProperties, EmptySeq, SMT
      <3>5. ps[1] \in Packet
        BY <1>2, <3>1, ElementOfSeq
      <3>2. ps[1].size \in setup.sizes
        BY <3>5, Zenon DEF Packet
      <3>3. ps[1].size \in 1 .. PACKET_SIZE
        BY <3>2, LinkFacts
      <3> DEFINE z == ps[1].size
      <3> HIDE DEF z
      <3>4. 0 < z
        BY <3>3, LinkFacts, SMT DEF z
      <3> QED
        BY <3>4 DEF z
    <2> QED
      BY <1>2, <1>3, <2>1, <2>2
  <1>4. CASE l.in_transit # <<>>
    <2> DEFINE z == l.in_transit[1].size
    <2>1. /\ Waiting(l) \in Seq(Packet) /\ SentOf(l) \in Nat /\ Waiting(l) # <<>>
          /\ SentOf(l) < Waiting(l)[1].size /\ SentOf(l) + l.bytes_left = z
          /\ z \in Nat /\ l.bytes_left < z
      BY <1>4, WaitingOK DEF LinkRests
    <2> HIDE DEF z
    <2>2. SentOf(l) # 0
      BY <1>2, <2>1, SMT
    <2> QED
      BY <1>2, <1>4, <2>1, <2>2
  <1> QED
    BY <1>3, <1>4

\* The first packet of those waiting, unless the queue is CoDel's, is the one that starts.
LEMMA StartServes ==
    ASSUME setup \in Links, NEW l, NEW lo, NEW hi, LinkRests(l, lo, hi), NEW t \in Nat
    PROVE  LET m == Start(l, t)
           IN  /\ LinkOK(m, lo, hi) /\ SameClock(m, l)
               /\ setup.args.type # "codel" =>
                     /\ Waiting(m) = Waiting(l) /\ SentOf(m) = SentOf(l)
                     /\ m.output_queue = l.output_queue
                     /\ m.in_transit = <<>> => Waiting(m) = <<>>
  <1> DEFINE m == Start(l, t)
             q == l.packet_queue
             ps == q.internal_queue
             d == Dequeue(q, t)
             starts == l.bytes_left = 0 /\ ps # <<>>
  <1>1. LinkOK(m, lo, hi)
    BY StartOK
  <1>2. LinkOK(l, lo, hi)
    BY DEF LinkRests
  <1>3. CASE ~starts
    <2>1. m = l
      BY <1>3, Zenon DEF Start
    <2>2. l.in_transit = <<>> => Waiting(l) = <<>>
      <3>1. l.bytes_left = 0 <=> l.in_transit = <<>>
        BY <1>2 DEF LinkOK, Transit
      <3> QED
        BY <1>2, <1>3, <3>1, WaitingOK
    <2> HIDE DEF m
    <2> QED
      BY <1>1, <2>1, <2>2 DEF m, SameClock
  <1>4. CASE starts
    <2>1. m = LinkOf(l.next_delivery, l.base_timestamp, d.queue, <<d.packet>>,
                     d.packet.size, l.output_queue, l.finished)
      BY <1>2, <1>4, StartParts, Zenon DEF LinkOK
    <2>2. /\ m.packet_queue = d.queue /\ m.in_transit = <<d.packet>>
          /\ m.bytes_left = d.packet.size /\ m.output_queue = l.output_queue
          /\ SameClock(m, l)
      <3> HIDE DEF m, d
      <3> QED
        BY <2>1, LinkParts DEF SameClock
    <2>3. ASSUME setup.args.type # "codel"
          PROVE  /\ Waiting(m) = Waiting(l) /\ SentOf(m) = SentOf(l)
                 /\ m.in_transit # <<>>
      <3>1. QueueOK(q) /\ ps \in Seq(Packet) /\ l.in_transit = <<>>
        BY <1>2, <1>4 DEF LinkOK, Transit, QueueOK
      <3>2. d.packet = Head(ps) /\ d.queue.internal_queue = Tail(ps)
        BY <1>4, <2>3, <3>1, DequeueOK, Zenon DEF Returns, MayDrop
      <3>3. Waiting(m) = <<Head(ps)>> \o Tail(ps)
        BY <2>2, <3>2, Zenon DEF Waiting
      <3>4. Waiting(l) = ps /\ SentOf(l) = 0
        BY <1>2, <3>1, WaitingOK
      <3>5. ps = <<Head(ps)>> \o Tail(ps) /\ Head(ps) \in Packet
        <4>1. ps \in Seq(Packet) /\ ps # <<>>
          BY <1>4, <3>1
        <4> HIDE DEF ps
        <4> QED
          BY <4>1, SMT
      <3>6. m.in_transit # <<>> /\ m.in_transit[1] = d.packet
        <4>1. <<d.packet>> # <<>> /\ <<d.packet>>[1] = d.packet
          OBVIOUS
        <4> QED
          BY <2>2, <4>1
      <3>7. SentOf(m) = 0
        <4>1. SentOf(m) = d.packet.size - d.packet.size
          BY <2>2, <3>6 DEF SentOf
        <4>2. d.packet.size \in Nat
          BY <3>2, <3>5, SizeOne
        <4> DEFINE z == d.packet.size
        <4> HIDE DEF z
        <4>3. z - z = 0
          BY <4>2, SMT DEF z
        <4> QED
          BY <4>1, <4>3 DEF z
      <3> QED
        BY <3>3, <3>4, <3>5, <3>6, <3>7
    <2> QED
      BY <1>1, <2>2, <2>3
  <1> QED
    BY <1>3, <1>4

\* A link that only its clock tells from another has sent nothing.
LEMMA MovesNothing ==
    ASSUME setup \in Links, NEW l, NEW lo, NEW hi, LinkRests(l, lo, hi),
           NEW m, m.output_queue = l.output_queue, m.in_transit = l.in_transit,
           m.bytes_left = l.bytes_left, m.packet_queue = l.packet_queue
    PROVE  Moves(l, m, 0)
  <1>1. Waiting(m) = Waiting(l) /\ SentOf(m) = SentOf(l)
    BY Zenon DEF Waiting, SentOf
  <1>2. Serves(Waiting(l), SentOf(l), 0, <<>>, Waiting(l), SentOf(l))
    BY RestingOK, ServesNothing
  <1>3. m.output_queue = l.output_queue \o <<>>
    <2>1. l.output_queue \in Seq(Packet)
      BY DEF LinkRests, LinkOK
    <2> QED
      BY <2>1, ConcatEmptySeq
  <1> QED
    BY <1>1, <1>2, <1>3, Zenon DEF Moves

\* Bytes after bytes, of a link.
LEMMA MovesOn ==
    ASSUME setup \in Links, NEW l, NEW lo, NEW hi, LinkRests(l, lo, hi),
           NEW b \in Nat, NEW m, Moves(l, m, b), NEW c \in Nat, NEW k, Moves(m, k, c)
    PROVE  Moves(l, k, b + c)
  <1>1. PICK o : /\ m.output_queue = l.output_queue \o o
                 /\ Serves(Waiting(l), SentOf(l), b, o, Waiting(m), SentOf(m))
    BY DEF Moves
  <1>2. PICK o2 : /\ k.output_queue = m.output_queue \o o2
                  /\ Serves(Waiting(m), SentOf(m), c, o2, Waiting(k), SentOf(k))
    BY DEF Moves
  <1>3. Serves(Waiting(l), SentOf(l), b + c, o \o o2, Waiting(k), SentOf(k))
    <2>1. SentOf(l) \in Nat
      BY RestingOK
    <2> QED
      BY <1>1, <1>2, <2>1, ServesMore
  <1>4. k.output_queue = l.output_queue \o (o \o o2)
    <2> DEFINE q == l.output_queue
    <2>1. q \in Seq(Packet) /\ o \in Seq(Packet) /\ o2 \in Seq(Packet)
      BY <1>1, <1>2 DEF LinkRests, LinkOK, Serves
    <2> HIDE DEF q
    <2>2. (q \o o) \o o2 = q \o (o \o o2)
      BY <2>1, SMT
    <2> QED
      BY <1>1, <1>2, <2>2 DEF q
  <1> QED
    BY <1>3, <1>4, Zenon DEF Moves

\* One Send uses a byte of the room at least, and what it used is served.
LEMMA SendServes ==
    ASSUME setup \in Links, NEW o, NEW lo, NEW hi, LinkRests(o.link, lo, hi),
           o.room \in Nat, o.room > 0, NEW t \in Nat
    PROVE  LET n == Send(o, t)
           IN  /\ SameClock(n.link, o.link)
               /\ n.room \in Nat /\ n.room < o.room
               /\ setup.args.type # "codel" => Moves(o.link, n.link, o.room - n.room)
  <1> DEFINE h == o.link
             l == Start(h, t)
             amount == IF o.room <= l.bytes_left THEN o.room ELSE l.bytes_left
             done == amount > 0 /\ amount = l.bytes_left
             left == l.bytes_left - amount
             it == IF done THEN <<>> ELSE l.in_transit
             oq == IF done THEN l.output_queue \o l.in_transit ELSE l.output_queue
             room == IF amount = 0 THEN 0 ELSE o.room - amount
             n == Send(o, t)
             ps == l.packet_queue.internal_queue
             p == l.in_transit[1]
  <1>1. LinkOK(l, lo, hi) /\ SameClock(l, h)
    BY StartServes
  <1>2. /\ l = LinkOf(l.next_delivery, l.base_timestamp, l.packet_queue, l.in_transit,
                      l.bytes_left, l.output_queue, l.finished)
        /\ l.bytes_left \in Nat /\ (l.bytes_left = 0 <=> l.in_transit = <<>>)
        /\ l.output_queue \in Seq(Packet) /\ l.in_transit \in Seq(Packet)
        /\ ps \in Seq(Packet)
    BY <1>1 DEF LinkOK, Transit, QueueOK
  <1>3. n.room = room /\ n.link = LinkOf(l.next_delivery, l.base_timestamp, l.packet_queue, it,
                                         left, oq, l.finished)
    <2> HIDE DEF l
    <2>1. l = Start(o.link, t)
      BY DEF l
    <2>2. amount = IF o.room <= l.bytes_left THEN o.room ELSE l.bytes_left
      OBVIOUS
    <2>3. done = (amount > 0 /\ amount = l.bytes_left)
      OBVIOUS
    <2> HIDE DEF amount, done
    <2>4. n = [room |-> room, link |-> LinkOf(l.next_delivery, l.base_timestamp,
                                              l.packet_queue, it, left, oq, l.finished)]
      BY <1>2, <2>1, <2>2, <2>3, SendIs
    <2> HIDE DEF n, room, it, left, oq
    <2> QED
      BY <2>4
  <1> HIDE DEF n, l
  <1>4. /\ amount \in Nat /\ left \in Nat /\ amount <= l.bytes_left /\ amount <= o.room
        /\ (amount = 0 <=> l.bytes_left = 0) /\ room \in Nat /\ room < o.room
    BY <1>2, SMT
  <1>5. done <=> l.bytes_left # 0 /\ left = 0
    BY <1>2, <1>4, SMT
  <1> HIDE DEF amount, done, left, it, oq, room
  <1>6. /\ n.link.next_delivery = l.next_delivery
        /\ n.link.base_timestamp = l.base_timestamp /\ n.link.finished = l.finished
        /\ n.link.packet_queue = l.packet_queue /\ n.link.in_transit = it
        /\ n.link.bytes_left = left /\ n.link.output_queue = oq
    BY <1>3, LinkParts
  <1>7. SameClock(n.link, h)
    BY <1>1, <1>6, Zenon DEF SameClock
  <1>8. ASSUME setup.args.type # "codel" PROVE Moves(h, n.link, o.room - n.room)
    <2>1. /\ Waiting(l) = Waiting(h) /\ SentOf(l) = SentOf(h)
          /\ l.output_queue = h.output_queue
          /\ l.in_transit = <<>> => Waiting(l) = <<>>
      BY <1>8, StartServes DEF l
    <2> DEFINE w == Waiting(l)
               s == SentOf(l)
    <2> SUFFICES \E x : /\ oq = l.output_queue \o x
                        /\ Serves(w, s, o.room - room, x, Waiting(n.link), SentOf(n.link))
      BY <1>3, <1>6, <2>1, Zenon DEF Moves
    <2>2. CASE l.in_transit = <<>>
      <3>1. l.bytes_left = 0 /\ amount = 0 /\ room = 0 /\ ~done
        BY <1>2, <1>4, <1>5, <2>2, SMT DEF room
      <3>2. it = <<>> /\ oq = l.output_queue
        BY <2>2, <3>1 DEF it, oq
      <3>3. w = <<>> /\ s = 0 /\ ps = <<>>
        BY <1>1, <2>1, <2>2, WaitingOK
      <3>4. Waiting(n.link) = <<>> \o ps
        BY <1>6, <3>2, Zenon DEF Waiting
      <3>5. Waiting(n.link) = <<>> /\ SentOf(n.link) = 0
        BY <1>6, <3>2, <3>3, <3>4, ConcatEmptySeq, EmptySeq, Zenon DEF SentOf
      <3>6. size_bytes(<<>>) = 0
        BY SizeEmpty, LinkFacts
      <3>7. size_bytes(<<>>) <= 0 + (o.room - room)
        BY <3>1, <3>6, SMT
      <3>8. <<>> \in Seq(Packet) /\ <<>> = <<>> \o <<>> /\ oq = l.output_queue \o <<>>
        BY <1>2, <3>2, ConcatEmptySeq, EmptySeq
      <3>9. Serves(w, s, o.room - room, <<>>, Waiting(n.link), SentOf(n.link))
        <4> HIDE DEF w, s
        <4> QED
          BY <3>3, <3>5, <3>7, <3>8, SMT DEF Serves
      <3> QED
        BY <3>8, <3>9
    <2>3. ASSUME l.in_transit # <<>>
          PROVE  /\ o.room - room = amount /\ amount > 0
                 /\ p \in Packet /\ l.in_transit = <<p>> /\ w # <<>> /\ w[1] = p
                 /\ s \in Nat /\ s + l.bytes_left = p.size /\ p.size \in Nat
                 /\ w \in Seq(Packet) /\ l.bytes_left # 0
      <3>1. l.bytes_left # 0 /\ amount > 0 /\ amount # 0
        BY <1>2, <1>4, <2>3, SMT
      <3>2. o.room - room = amount
        BY <1>4, <3>1, SMT DEF room
      <3> QED
        BY <1>1, <2>3, <3>1, <3>2, WaitingOK
    <2>4. CASE l.in_transit # <<>> /\ done
      <3>1. left = 0 /\ amount = l.bytes_left /\ it = <<>> /\ oq = l.output_queue \o l.in_transit
        BY <1>5, <2>4 DEF it, oq, done
      <3>2. Waiting(n.link) = <<>> \o ps /\ SentOf(n.link) = 0
        BY <1>6, <3>1, Zenon DEF Waiting, SentOf
      <3>3. Waiting(n.link) = ps
        BY <1>2, <3>2, ConcatEmptySeq
      <3>4. w = l.in_transit \o ps
        BY DEF Waiting
      <3>5. size_bytes(l.in_transit) = p.size
        BY <2>3, <2>4, SizeOne
      <3> DEFINE z == p.size
      <3>6. size_bytes(l.in_transit) <= s + amount /\ size_bytes(l.in_transit) + 0 = s + amount
        <4>1. size_bytes(l.in_transit) = z /\ s + amount = z /\ z \in Nat
          BY <2>3, <2>4, <3>1, <3>5
        <4> HIDE DEF z, s
        <4> QED
          BY <4>1, SMT
      <3>7. ASSUME ps # <<>> PROVE 0 < ps[1].size
        <4>1. LinkRests(n.link, lo, hi)
          BY SendOK DEF n
        <4>2. Waiting(n.link) # <<>> => SentOf(n.link) < Waiting(n.link)[1].size
          BY <4>1, RestingOK
        <4> QED
          BY <3>2, <3>3, <3>7, <4>2
      <3>8. Serves(w, s, amount, l.in_transit, ps, 0)
        <4> HIDE DEF w, s, ps
        <4>1. 0 \in Nat
          OBVIOUS
        <4> QED
          BY <1>2, <3>4, <3>6, <3>7, <4>1, Zenon DEF Serves
      <3> QED
        BY <2>3, <2>4, <3>1, <3>2, <3>3, <3>8
    <2>5. CASE l.in_transit # <<>> /\ ~done
      <3>1. it = l.in_transit /\ oq = l.output_queue /\ left # 0
        BY <1>5, <2>3, <2>5 DEF it, oq
      <3>2. Waiting(n.link) = w /\ SentOf(n.link) = p.size - left
        BY <1>6, <2>5, <3>1, Zenon DEF Waiting, SentOf
      <3> DEFINE z == p.size
                 r == z - left
      <3>3. r \in Nat /\ r < z /\ 0 + r = s + amount
        <4>1. s + l.bytes_left = z /\ z \in Nat /\ s \in Nat /\ left = l.bytes_left - amount
          BY <2>3, <2>5 DEF left
        <4> DEFINE b == l.bytes_left
        <4>2. /\ s + b = z /\ left = b - amount /\ b \in Nat /\ amount \in Nat /\ left \in Nat
              /\ left # 0
          BY <1>2, <1>4, <3>1, <4>1
        <4> HIDE DEF z, s, b
        <4>3. r = s + amount
          BY <4>1, <4>2, SMT
        <4>4. r \in Nat /\ 0 + r = s + amount
          BY <4>1, <4>2, <4>3, SMT
        <4>5. r < z
          BY <4>1, <4>2, SMT
        <4> QED
          BY <4>4, <4>5
      <3>4. size_bytes(<<>>) = 0 /\ w = <<>> \o w /\ <<>> \in Seq(Packet)
            /\ oq = l.output_queue \o <<>>
        BY <1>2, <2>3, <2>5, <3>1, SizeEmpty, LinkFacts, ConcatEmptySeq, EmptySeq
      <3>5. size_bytes(<<>>) + r = s + amount /\ w[1].size = z
        BY <2>3, <2>5, <3>3, <3>4
      <3>6. Serves(w, s, amount, <<>>, w, r)
        <4> HIDE DEF w, s, r, z
        <4> QED
          BY <2>3, <2>5, <3>3, <3>4, <3>5, Zenon DEF Serves
      <3> QED
        BY <2>3, <2>5, <3>2, <3>4, <3>6
    <2> QED
      BY <2>2, <2>4, <2>5
  <1> QED
    BY <1>3, <1>4, <1>7, <1>8 DEF n

\* One opportunity serves PACKET_SIZE bytes.
LEMMA OpportunityServes ==
    ASSUME setup \in Links, NEW l, NEW lo, NEW hi, LinkRests(l, lo, hi), NEW t \in Nat
    PROVE  /\ SameClock(Opportunity(l, t), use_a_delivery_opportunity(l))
           /\ setup.args.type # "codel" => Moves(l, Opportunity(l, t), PACKET_SIZE)
  <1> DEFINE P == PACKET_SIZE
             u == use_a_delivery_opportunity(l)
  <1>1. PICK f : OpportunityRuns(f, l, t) /\ Opportunity(l, t) = f[P + 1].link
    BY OpportunityRounds
  <1> DEFINE Holds(o, k) ==
                 /\ LinkRests(o.link, lo, hi) /\ SameClock(o.link, u)
                 /\ o.room \in 0 .. P /\ (o.room = 0 \/ o.room + k <= P)
                 /\ setup.args.type # "codel" => Moves(l, o.link, P - o.room)
             U == {k \in Nat : k <= P + 1 => Holds(f[k], k)}
  <1>2. P \in Nat
    BY LinkFacts
  <1>3. Holds(f[0], 0)
    <2>1. f[0].room = P /\ f[0].link = u
      BY <1>1 DEF OpportunityRuns
    <2>2. LinkRests(u, lo, hi) /\ SameClock(u, u)
      BY UseOK DEF SameClock
    <2>3. Moves(l, u, 0)
      <3>1. /\ u.output_queue = l.output_queue /\ u.in_transit = l.in_transit
            /\ u.bytes_left = l.bytes_left /\ u.packet_queue = l.packet_queue
        BY UseParts
      <3> HIDE DEF u
      <3> QED
        BY <3>1, MovesNothing
    <2>4. P \in 0 .. P /\ P + 0 <= P /\ P - P = 0
      <3> HIDE DEF P
      <3> QED
        BY <1>2, SMT
    <2> QED
      BY <2>1, <2>2, <2>3, <2>4
  <1> HIDE DEF P, u
  <1>4. 0 \in U
    BY <1>3, Zenon
  <1>5. ASSUME NEW k \in Nat, k \in U PROVE k + 1 \in U
    <2> DEFINE o == f[k]
               n == Send(o, t)
    <2>1. SUFFICES ASSUME k + 1 <= P + 1 PROVE Holds(f[k + 1], k + 1)
      BY SMT
    <2>2. Holds(o, k)
      <3>1. k <= P + 1
        BY <1>2, <2>1, SMT
      <3> QED
        BY <1>5, <3>1
    <2>3. f[k + 1] = IF o.room > 0 THEN n ELSE o
      <3>1. k + 1 \in 1 .. P + 1 /\ (k + 1) - 1 = k
        BY <1>2, <2>1, SMT
      <3> QED
        BY <1>1, <3>1 DEF OpportunityRuns, P
    <2> HIDE DEF o
    <2>4. CASE ~(o.room > 0)
      <3>1. o.room = 0
        BY <1>2, <2>2, <2>4, SMT
      <3> QED
        BY <2>2, <2>3, <2>4, <3>1
    <2>5. CASE o.room > 0
      <3>1. o.room \in Nat /\ o.room + k <= P /\ o.room <= P
        BY <1>2, <2>2, <2>5, SMT
      <3>2. LinkRests(n.link, lo, hi)
        BY <2>2, <2>5, <3>1, SendOK
      <3>3. /\ SameClock(n.link, o.link) /\ n.room \in Nat /\ n.room < o.room
            /\ setup.args.type # "codel" => Moves(o.link, n.link, o.room - n.room)
        BY <2>2, <2>5, <3>1, SendServes
      <3>4. SameClock(n.link, u)
        BY <2>2, <3>3, Zenon DEF SameClock
      <3> DEFINE a == o.room
                 b == n.room
      <3>5. /\ b \in 0 .. P /\ b + (k + 1) <= P /\ a - b \in Nat /\ P - a \in Nat
            /\ (P - a) + (a - b) = P - b
        <4>1. a \in Nat /\ a + k <= P /\ a <= P /\ b \in Nat /\ b < a
          BY <3>1, <3>3
        <4> HIDE DEF a, b
        <4> QED
          BY <1>2, <4>1, SMT
      <3>6. ASSUME setup.args.type # "codel" PROVE Moves(l, n.link, P - b)
        <4>1. Moves(l, o.link, P - a) /\ Moves(o.link, n.link, a - b)
          BY <2>2, <3>3, <3>6
        <4> HIDE DEF a, b, n
        <4>2. Moves(l, n.link, (P - a) + (a - b))
          BY <3>5, <4>1, MovesOn
        <4> QED
          BY <3>5, <4>2
      <3> QED
        BY <2>3, <2>5, <3>2, <3>4, <3>5, <3>6
    <2> QED
      BY <2>4, <2>5
  <1>6. U = Nat
    <2> HIDE DEF U
    <2>1. U \in SUBSET Nat
      BY DEF U
    <2> QED
      BY <1>4, <1>5, <2>1, NatSet
  <1>7. Holds(f[P + 1], P + 1)
    <2>1. P + 1 \in Nat /\ P + 1 <= P + 1
      BY <1>2, SMT
    <2> QED
      BY <1>6, <2>1
  <1> DEFINE o == f[P + 1]
             a == o.room
  <1>8. a = 0 /\ P - 0 = P
    <2>1. a \in 0 .. P /\ (a = 0 \/ a + (P + 1) <= P)
      BY <1>7
    <2> HIDE DEF a
    <2> QED
      BY <1>2, <2>1, SMT
  <1> QED
    BY <1>1, <1>7, <1>8 DEF P, u

\* An opportunity that is due is one more of those up to the time.
LEMMA DueSlot ==
    ASSUME setup \in Links, NEW l, NEW lo, NEW hi, LinkRests(l, lo, hi),
           NEW k, ClockAt(l, k), NEW t \in Nat, Past(l, k) \subseteq UpTo(t), Due(l, t)
    PROVE  LET more == Past(l, k) \cup {<<l.next_delivery + 1, k>>}
           IN  /\ more \subseteq UpTo(t)
               /\ Cardinality(Past(l, k)) \in Nat
               /\ Cardinality(more) = Cardinality(Past(l, k)) + 1
               /\ Cardinality(more) <= Cardinality(UpTo(t))
  <1> DEFINE p == <<l.next_delivery + 1, k>>
             S == Past(l, k)
             more == S \cup {p}
  <1>1. ~l.finished /\ next_delivery_time(l) <= t
    BY DEF Due
  <1>2. p \in Slots /\ p \notin S /\ TimeOf(p) = next_delivery_time(l)
    BY <1>1, NextSlot
  <1>3. p \in UpTo(t)
    BY <1>1, <1>2 DEF UpTo
  <1> HIDE DEF p, S
  <1>4. more \subseteq UpTo(t) /\ S \subseteq UpTo(t)
    BY <1>3 DEF S
  <1>5. IsFiniteSet(UpTo(t))
    BY UpToFinite
  <1>6. IsFiniteSet(S) /\ Cardinality(more) <= Cardinality(UpTo(t))
    <2> HIDE DEF more
    <2> QED
      BY <1>4, <1>5, FS_Subset
  <1>7. Cardinality(S) \in Nat
    BY <1>6, FS_CardinalityType
  <1>8. Cardinality(more) = Cardinality(S) + 1
    BY <1>2, <1>6, FS_AddElement
  <1> QED
    BY <1>4, <1>6, <1>7, <1>8 DEF p, S

\* Bringing a link up to date serves the opportunities that were not over yet, each
\* PACKET_SIZE bytes; the rounds of the loop are enough for them.
LEMMA RationalizeServes ==
    ASSUME setup \in Links, NEW l, NEW lo, NEW hi, LinkRests(l, lo, hi),
           NEW t \in 0 .. MaxTime, NEW k, ClockAt(l, k), Past(l, k) \subseteq UpTo(t)
    PROVE  \E j, b : /\ b \in Nat
                     /\ ClockAt(rationalize(l, t), j) /\ Past(rationalize(l, t), j) = UpTo(t)
                     /\ Cardinality(UpTo(t)) = Cardinality(Past(l, k)) + b
                     /\ setup.args.type # "codel" =>
                           Moves(l, rationalize(l, t), b * PACKET_SIZE)
  <1> DEFINE P == PACKET_SIZE
             c == Cardinality(Past(l, k))
             Is(h, j, b) == /\ b \in Nat /\ ClockAt(h, j) /\ Past(h, j) \subseteq UpTo(t)
                            /\ Cardinality(Past(h, j)) = c + b
                            /\ setup.args.type # "codel" => Moves(l, h, b * P)
             Holds(h, i) == /\ LinkRests(h, lo, hi)
                            /\ \E j, b : Is(h, j, b) /\ (~Due(h, t) \/ i <= b)
  <1>0. l.schedule = setup.schedule
    BY LinkParts DEF LinkRests, LinkOK
  <1>1. PICK f : RationalizeRuns(f, l, t) /\ rationalize(l, t) = f[Rounds]
    BY <1>0, RationalizeRounds
  <1>2. Rounds \in Nat /\ t \in Nat /\ P \in Nat
    <2>1. Rounds \in Nat
      BY <1>0, RationalizeRounds
    <2>2. P \in Nat /\ MaxTime \in Nat
      BY LinkFacts
    <2> QED
      BY <2>1, <2>2, SMT
  <1>3. c \in Nat
    <2>1. IsFiniteSet(UpTo(t))
      BY <1>2, UpToFinite
    <2>2. IsFiniteSet(Past(l, k))
      BY <2>1, FS_Subset
    <2> QED
      BY <2>2, FS_CardinalityType
  <1> DEFINE U == {i \in Nat : i <= Rounds => Holds(f[i], i)}
  <1>4. 0 \in U
    <2>1. f[0] = l
      BY <1>1 DEF RationalizeRuns
    <2>2. Moves(l, l, 0) /\ 0 * P = 0
      BY <1>2, MovesNothing, Multiples
    <2>3. Is(l, k, 0) /\ 0 <= 0
      <3>1. c = c + 0 /\ 0 \in Nat /\ 0 <= 0
        <4> HIDE DEF c
        <4> QED
          BY <1>3, SMT
      <3> QED
        BY <2>2, <3>1
    <2> HIDE DEF Is
    <2> QED
      BY <2>1, <2>3
  <1>5. ASSUME NEW h, LinkRests(h, lo, hi), NEW j, NEW b, Is(h, j, b), Due(h, t)
        PROVE  /\ LinkRests(Opportunity(h, t), lo, hi)
               /\ \E i : Is(Opportunity(h, t), i, b + 1)
    <2> DEFINE m == Opportunity(h, t)
               more == Past(h, j) \cup {<<h.next_delivery + 1, j>>}
    <2>1. LinkRests(m, lo, hi)
      BY <1>2, <1>5, OpportunityOK
    <2>2. /\ SameClock(m, use_a_delivery_opportunity(h))
          /\ setup.args.type # "codel" => Moves(h, m, P)
      BY <1>2, <1>5, OpportunityServes
    <2> HIDE DEF m
    <2>3. PICK i : ClockAt(m, i) /\ Past(m, i) = more
      <3>1. ~h.finished
        BY <1>5 DEF Due
      <3> QED
        BY <1>5, <2>2, <3>1, ClockMoves DEF SameClock
    <2>4. more \subseteq UpTo(t) /\ Cardinality(more) = Cardinality(Past(h, j)) + 1
      BY <1>2, <1>5, DueSlot
    <2>5. Cardinality(Past(m, i)) = c + (b + 1) /\ b + 1 \in Nat
      <3>1. Cardinality(Past(m, i)) = (c + b) + 1 /\ b \in Nat
        BY <1>5, <2>3, <2>4
      <3> HIDE DEF c
      <3>2. (c + b) + 1 = c + (b + 1) /\ b + 1 \in Nat
        BY <1>3, <3>1, SMT
      <3> QED
        BY <3>1, <3>2
    <2>6. ASSUME setup.args.type # "codel" PROVE Moves(l, m, (b + 1) * P)
      <3>1. Moves(l, h, b * P) /\ Moves(h, m, P)
        BY <1>5, <2>2, <2>6
      <3>2. b * P \in Nat /\ (b + 1) * P = b * P + P
        BY <1>2, <1>5, Multiples
      <3>3. Moves(l, m, b * P + P)
        BY <1>2, <3>1, <3>2, MovesOn
      <3> QED
        BY <3>2, <3>3, Zenon
    <2>7. Is(m, i, b + 1)
      BY <2>3, <2>4, <2>5, <2>6
    <2> HIDE DEF Is
    <2> QED
      BY <2>1, <2>7 DEF m
  <1>6. ASSUME NEW i \in Nat, i \in U PROVE i + 1 \in U
    <2> DEFINE h == f[i]
    <2>1. SUFFICES ASSUME i + 1 <= Rounds PROVE Holds(f[i + 1], i + 1)
      BY SMT
    <2>2. i <= Rounds /\ i + 1 \in 1 .. Rounds /\ (i + 1) - 1 = i
      BY <1>2, <2>1, SMT
    <2>3. Holds(h, i)
      BY <1>6, <2>2
    <2>4. f[i + 1] = IF Due(h, t) THEN Opportunity(h, t) ELSE h
      BY <1>1, <2>2 DEF RationalizeRuns
    <2> HIDE DEF h, Is
    <2>5. PICK j, b : Is(h, j, b) /\ (~Due(h, t) \/ i <= b)
      BY <2>3
    <2>6. CASE Due(h, t)
      <3>1. i + 1 <= b + 1
        <4>1. b \in Nat /\ i <= b
          BY <2>5, <2>6 DEF Is
        <4> QED
          BY <4>1, SMT
      <3> QED
        BY <1>5, <2>3, <2>4, <2>5, <2>6, <3>1
    <2>7. CASE ~Due(h, t)
      BY <2>3, <2>4, <2>5, <2>7
    <2> QED
      BY <2>6, <2>7
  <1>7. U = Nat
    <2> HIDE DEF U
    <2>1. U \in SUBSET Nat
      BY DEF U
    <2> QED
      BY <1>4, <1>6, <2>1, NatSet
  <1> DEFINE m == f[Rounds]
  <1>8. Holds(m, Rounds)
    <2>1. Rounds <= Rounds
      BY <1>2, SMT
    <2> QED
      BY <1>2, <1>7, <2>1
  <1> HIDE DEF m
  <1>9. PICK j, b : Is(m, j, b) /\ (~Due(m, t) \/ Rounds <= b)
    <2> HIDE DEF Is
    <2> QED
      BY <1>8
  <1>10. ~Due(m, t)
    <2> SUFFICES ASSUME Due(m, t) PROVE FALSE
      OBVIOUS
    <2>1. Rounds <= b
      BY <1>9
    <2> DEFINE more == Past(m, j) \cup {<<m.next_delivery + 1, j>>}
               J == Len(setup.schedule)
               n == Cardinality(more)
               all == Cardinality(UpTo(t))
               most == (t + 1) * J
    <2>2. /\ n = Cardinality(Past(m, j)) + 1 /\ n <= all
          /\ Cardinality(Past(m, j)) = c + b /\ b \in Nat
      BY <1>2, <1>8, <1>9, DueSlot
    <2>3. all \in Nat /\ all <= most
      BY <1>2, UpToFinite
    <2>4. most \in Nat /\ most <= Rounds
      <3>1. J \in Nat /\ MaxTime \in Nat
        BY TraceFacts, LinkFacts
      <3>2. t + 1 \in Nat /\ MaxTime + 1 \in Nat /\ t + 1 <= MaxTime + 1
        BY <3>1, SMT
      <3> QED
        BY <3>1, <3>2, Multiples DEF Rounds
    <2> HIDE DEF n, all, most, c
    <2>5. n = (c + b) + 1
      BY <2>2
    <2> QED
      BY <1>2, <1>3, <2>1, <2>2, <2>3, <2>4, <2>5, SMT
  <1>11. Past(m, j) = UpTo(t)
    BY <1>2, <1>8, <1>9, <1>10, NothingDue
  <1>12. /\ b \in Nat /\ ClockAt(m, j)
         /\ Cardinality(UpTo(t)) = c + b
         /\ setup.args.type # "codel" => Moves(l, m, b * P)
    BY <1>9, <1>11
  <1>13. rationalize(l, t) = m
    BY <1>1 DEF m
  <1> QED
    BY <1>11, <1>12, <1>13

\* The eager link has as many opportunities at a time as come due then.
LEMMA EagerOpportunities ==
    ASSUME setup \in Links, NEW t \in Nat
    PROVE  /\ Eager!Opportunities(t + 1) \in Nat
           /\ Cardinality(UpTo(t + 1)) = Cardinality(UpTo(t)) + Eager!Opportunities(t + 1)
  <1> DEFINE s == setup.schedule
             J == Len(s)
             K == IF setup.repeat THEN 0 .. t + 1 ELSE {0}
             E == {ik \in (1 .. J) \X K : s[ik[1]] + ik[2] * s[J] = t + 1}
             A == UpTo(t + 1)
             B == UpTo(t)
  <1>1. Eager!Opportunities(t + 1) = Cardinality(E)
    <2>1. ASSUME NEW S PROVE Eager!Cardinality(S) = Cardinality(S)
      BY Zenon DEF Eager!Cardinality, Cardinality
    <2> QED
      BY <2>1, Zenon DEF Eager!Opportunities
  <1>2. t + 1 \in Nat
    OBVIOUS
  <1>3. ASSUME NEW p \in Slots
        PROVE  /\ p = <<p[1], p[2]>> /\ p[1] \in 1 .. J /\ p[2] \in Nat
               /\ ~setup.repeat => p[2] = 0
               /\ TimeOf(p) \in Nat /\ p[2] <= TimeOf(p)
    <2>1. /\ p = <<p[1], p[2]>> /\ p[1] \in 1 .. J /\ p[2] \in Nat
          /\ ~setup.repeat => p[2] = 0
      BY <1>3 DEF Slots
    <2> DEFINE a == s[p[1]]
               b == p[2] * LastTime
    <2>2. a \in Nat /\ b \in Nat /\ p[2] <= b
      BY <2>1, TraceFacts, Multiples
    <2>3. TimeOf(p) = a + b
      BY DEF TimeOf
    <2> HIDE DEF a, b
    <2>4. a + b \in Nat /\ p[2] <= a + b
      BY <2>1, <2>2, SMT
    <2> QED
      BY <2>1, <2>3, <2>4
  <1>4. E = A \ B
    <2>1. ASSUME NEW p \in E PROVE p \in A \ B
      <3>1. p \in (1 .. J) \X K /\ TimeOf(p) = t + 1
        BY <2>1 DEF TimeOf, LastTime
      <3>2. p \in Slots
        <4>1. p = <<p[1], p[2]>> /\ p[1] \in 1 .. J /\ p[2] \in K
          BY <3>1
        <4>2. p[2] \in IF setup.repeat THEN Nat ELSE {0}
          BY <4>1, <1>2
        <4> QED
          BY <4>1, <4>2 DEF Slots
      <3>3. t + 1 <= t + 1 /\ ~(t + 1 <= t)
        BY SMT
      <3> QED
        BY <3>1, <3>2, <3>3 DEF UpTo
    <2>2. ASSUME NEW p \in A \ B PROVE p \in E
      <3>1. p \in Slots /\ TimeOf(p) <= t + 1 /\ ~(TimeOf(p) <= t)
        BY <2>2 DEF UpTo
      <3> DEFINE x == TimeOf(p)
                 k == p[2]
      <3>2. x = t + 1 /\ k \in 0 .. t + 1
        <4>1. x \in Nat /\ k \in Nat /\ k <= x /\ x <= t + 1 /\ ~(x <= t)
          BY <1>3, <3>1
        <4> HIDE DEF x, k
        <4> QED
          BY <4>1, SMT
      <3>3. p[2] \in K /\ p[1] \in 1 .. J /\ p = <<p[1], p[2]>>
        BY <1>3, <3>1, <3>2
      <3>4. p \in (1 .. J) \X K
        <4> HIDE DEF J, K
        <4> QED
          BY <3>3
      <3> QED
        BY <3>2, <3>4 DEF TimeOf, LastTime
    <2> HIDE DEF A, B, E
    <2> QED
      BY <2>1, <2>2
  <1>5. B \subseteq A
    <2>1. ASSUME NEW p \in B PROVE p \in A
      <3>1. p \in Slots /\ TimeOf(p) <= t
        BY <2>1 DEF UpTo
      <3> DEFINE x == TimeOf(p)
      <3>2. x <= t + 1
        <4>1. x \in Nat /\ x <= t
          BY <1>3, <3>1
        <4> HIDE DEF x
        <4> QED
          BY <4>1, SMT
      <3> QED
        BY <3>1, <3>2 DEF UpTo
    <2> QED
      BY <2>1
  <1>6. IsFiniteSet(A) /\ IsFiniteSet(B) /\ Cardinality(A) \in Nat /\ Cardinality(B) \in Nat
    BY <1>2, UpToFinite
  <1> HIDE DEF A, B, E
  <1>7. IsFiniteSet(E) /\ Cardinality(E) = Cardinality(A) - Cardinality(A \cap B)
    BY <1>4, <1>6, FS_Difference
  <1>8. A \cap B = B
    BY <1>5
  <1>9. Cardinality(E) \in Nat
    BY <1>7, FS_CardinalityType
  <1> DEFINE a == Cardinality(A)
             b == Cardinality(B)
             e == Cardinality(E)
  <1>10. e = a - b /\ e \in Nat /\ a \in Nat /\ b \in Nat
    BY <1>6, <1>7, <1>8, <1>9
  <1> HIDE DEF a, b, e
  <1>11. a = b + e
    BY <1>10, SMT
  <1> QED
    BY <1>1, <1>9, <1>11 DEF a, b, e, A, B

\* A link with nothing due is left as it is.
LEMMA IdleRounds ==
    ASSUME setup \in Links, NEW l, l.schedule = setup.schedule, NEW t, ~Due(l, t)
    PROVE  rationalize(l, t) = l
  <1>1. Rounds \in Nat
    BY RationalizeRounds
  <1>2. PICK f : RationalizeRuns(f, l, t) /\ rationalize(l, t) = f[Rounds]
    BY RationalizeRounds
  <1> DEFINE U == {i \in Nat : i <= Rounds => f[i] = l}
  <1>3. 0 \in U
    BY <1>2 DEF RationalizeRuns
  <1>4. ASSUME NEW i \in Nat, i \in U PROVE i + 1 \in U
    <2>1. SUFFICES ASSUME i + 1 <= Rounds PROVE f[i + 1] = l
      BY SMT
    <2>2. i <= Rounds /\ i + 1 \in 1 .. Rounds /\ (i + 1) - 1 = i
      BY <1>1, <2>1, SMT
    <2>3. f[i] = l
      BY <1>4, <2>2
    <2> QED
      BY <1>2, <2>2, <2>3 DEF RationalizeRuns
  <1>5. U = Nat
    <2> HIDE DEF U
    <2>1. U \in SUBSET Nat
      BY DEF U
    <2> QED
      BY <1>3, <1>4, <2>1, NatSet
  <1>6. Rounds \in U /\ Rounds <= Rounds
    BY <1>1, <1>5, SMT
  <1> QED
    BY <1>2, <1>6

\* One that has used all opportunities up to the time has nothing due.
LEMMA UpToDateRests ==
    ASSUME setup \in Links, NEW l, NEW lo, NEW hi, LinkRests(l, lo, hi),
           NEW t \in 0 .. MaxTime, NEW k, ClockAt(l, k), Past(l, k) = UpTo(t)
    PROVE  rationalize(l, t) = l
  <1>1. l.schedule = setup.schedule
    BY LinkParts DEF LinkRests, LinkOK
  <1>2. ~Due(l, t)
    <2> SUFFICES ASSUME Due(l, t) PROVE FALSE
      OBVIOUS
    <2> DEFINE more == Past(l, k) \cup {<<l.next_delivery + 1, k>>}
               c == Cardinality(Past(l, k))
               n == Cardinality(more)
    <2>1. t \in Nat
      BY LinkFacts, SMT
    <2>2. c \in Nat /\ n = c + 1 /\ n <= c
      BY <2>1, DueSlot
    <2> HIDE DEF c, n
    <2> QED
      BY <2>2, SMT
  <1> QED
    BY <1>1, <1>2, IdleRounds

\* There is one outcome of some bytes, of a link.
LEMMA MovesUnique ==
    ASSUME setup \in Links, NEW l, NEW lo, NEW hi, LinkRests(l, lo, hi), NEW b \in Nat,
           NEW m, Moves(l, m, b), NEW k, Moves(l, k, b)
    PROVE  m.output_queue = k.output_queue /\ Waiting(m) = Waiting(k) /\ SentOf(m) = SentOf(k)
  <1>1. PICK o : /\ m.output_queue = l.output_queue \o o
                 /\ Serves(Waiting(l), SentOf(l), b, o, Waiting(m), SentOf(m))
    BY DEF Moves
  <1>2. PICK o2 : /\ k.output_queue = l.output_queue \o o2
                  /\ Serves(Waiting(l), SentOf(l), b, o2, Waiting(k), SentOf(k))
    BY DEF Moves
  <1>3. SentOf(l) \in Nat
    BY RestingOK
  <1>4. o = o2 /\ Waiting(m) = Waiting(k) /\ SentOf(m) = SentOf(k)
    BY <1>1, <1>2, <1>3, ServesUnique
  <1> QED
    BY <1>1, <1>2, <1>4

\* Where the clock of the link is between two calls.
ClockInv == \E k : ClockAt(link, k) /\ Past(link, k) \subseteq UpTo(now)

\* What the refinement is about, of a link.
LEMMA EagerSees ==
    /\ UpToDate.in_transit \o UpToDate.packet_queue.internal_queue = Waiting(UpToDate)
    /\ (IF UpToDate.in_transit = <<>> THEN 0
        ELSE UpToDate.in_transit[1].size - UpToDate.bytes_left) = SentOf(UpToDate)
  BY Zenon DEF Waiting, SentOf

\* A packet is taken by the queue of the eager link as by that of the link.
LEMMA EagerEnqueue ==
    ASSUME setup \in Links, Timeless, NEW q, QueueOK(q), NEW p, NEW t,
           NEW r \in Enqueue(q, p, t)
    PROVE  \E e \in Eager!Enqueue([Eager!NewPacketQueue(setup.args)
                                       EXCEPT !.internal_queue = q.internal_queue], p, t) :
               e.internal_queue = r.internal_queue
  <1> DEFINE ps == q.internal_queue
             n == Eager!NewPacketQueue(setup.args)
             v == [n EXCEPT !.internal_queue = ps]
             a == Append(ps, p)
  <1>1. q.args = setup.args /\ q = [args |-> setup.args, internal_queue |-> ps, active |-> q.active]
    BY SMT DEF QueueOK
  <1>2. v.args = setup.args /\ v.internal_queue = ps
        /\ v = [args |-> setup.args, internal_queue |-> ps, active |-> v.active]
    <2>1. n = [args |-> setup.args, internal_queue |-> <<>>,
               active |-> Eager!NewActive(setup.args)]
      BY Zenon DEF Eager!NewPacketQueue
    <2> HIDE DEF n, ps
    <2> QED
      BY <2>1, SMT
  <1>3. \A w : accept(q, w).internal_queue = Append(ps, w)
    <2> TAKE w
    <2> HIDE DEF ps
    <2>1. accept(q, w) = [q EXCEPT !.internal_queue = Append(q.internal_queue, w)]
      BY DEF accept
    <2> QED
      BY <1>1, <2>1, SMT DEF ps
  <1>4. \A w : Eager!accept(v, w).internal_queue = Append(ps, w)
    <2> TAKE w
    <2> HIDE DEF v, ps
    <2>1. Eager!accept(v, w) = [v EXCEPT !.internal_queue = Append(v.internal_queue, w)]
      BY DEF Eager!accept
    <2> QED
      BY <1>2, <2>1, SMT
  <1>5. Eager!good(setup.args, a) <=> good(setup.args, a)
    <2>1. \A s : Eager!size_bytes(s) = size_bytes(s)
      BY Zenon DEF Eager!size_bytes, size_bytes
    <2> QED
      BY <2>1, Zenon DEF Eager!good, good, Eager!good_with, good_with
  <1> HIDE DEF v, ps, a
  <1>6. CASE setup.args.type = "infinite"
    <2>1. Enqueue(q, p, t) = {accept(q, p)}
      BY <1>1, <1>6, SMT DEF Enqueue
    <2>2. Eager!Enqueue(v, p, t) = {Eager!accept(v, p)}
      BY <1>2, <1>6, SMT DEF Eager!Enqueue
    <2>3. Eager!accept(v, p).internal_queue = r.internal_queue
      BY <1>3, <1>4, <2>1
    <2> QED
      BY <2>2, <2>3 DEF v, ps
  <1>7. CASE setup.args.type = "droptail"
    <2>1. Enqueue(q, p, t) = {DropTail(q, p)}
      BY <1>1, <1>7, SMT DEF Enqueue
    <2>2. Eager!Enqueue(v, p, t) = {Eager!DropTail(v, p)}
      BY <1>2, <1>7, SMT DEF Eager!Enqueue
    <2>3. DropTail(q, p) = IF good(setup.args, a) THEN accept(q, p) ELSE q
      BY <1>1, Zenon DEF DropTail, a, ps
    <2>4. Eager!DropTail(v, p) = IF good(setup.args, a) THEN Eager!accept(v, p) ELSE v
      BY <1>2, <1>5, Zenon DEF Eager!DropTail, a
    <2>5. Eager!DropTail(v, p).internal_queue = r.internal_queue
      <3>1. r = DropTail(q, p) /\ ps = q.internal_queue
        BY <2>1 DEF ps
      <3>2. CASE good(setup.args, a)
        BY <1>3, <1>4, <2>3, <2>4, <3>1, <3>2
      <3>3. CASE ~good(setup.args, a)
        BY <1>2, <2>3, <2>4, <3>1, <3>3
      <3> QED
        BY <3>2, <3>3
    <2> QED
      BY <2>2, <2>5 DEF v, ps
  <1> QED
    BY <1>6, <1>7 DEF Timeless

\* Nothing comes of nothing.
LEMMA ServesEmpty ==
    ASSUME NEW s, NEW b, NEW o, NEW x, NEW r, Serves(<<>>, s, b, o, x, r)
    PROVE  o = <<>> /\ x = <<>> /\ r = 0
  <1>1. o \in Seq(Packet) /\ x \in Seq(Packet) /\ <<>> = o \o x
    BY DEF Serves
  <1>2. Len(o) = 0 /\ Len(x) = 0
    <2>1. Len(<<>>) = Len(o) + Len(x) /\ Len(o) \in Nat /\ Len(x) \in Nat /\ Len(<<>>) = 0
      BY <1>1, ConcatProperties, LenProperties, EmptySeq
    <2> QED
      BY <2>1, SMT
  <1>3. o = <<>> /\ x = <<>>
    BY <1>1, <1>2, EmptySeq
  <1> QED
    BY <1>3, Zenon DEF Serves

\* The clock after a step, of a link that is described before it.
LEMMA ClockInvAfter ==
    ASSUME setup' = setup, NEW k, ClockAt(link', k), Past(link', k) \subseteq UpTo(now')
    PROVE  ClockInv'
  <1>1. ClockAt(link, k)'
    BY Zenon DEF ClockAt, LastTime
  <1>2. Past(link, k)' = Past(link', k)
    BY Zenon DEF Past
  <1>3. UpTo(now)' = UpTo(now')
    <2>1. LastTime' = LastTime /\ Slots' = Slots /\ \A p : TimeOf(p)' = TimeOf(p)
      BY Zenon DEF LastTime, Slots, TimeOf
    <2>2. UpTo(now)' = {p \in Slots : TimeOf(p)' <= now'}
          /\ UpTo(now') = {p \in Slots : TimeOf(p) <= now'}
      BY <2>1, Zenon DEF UpTo
    <2> QED
      BY <2>1, <2>2
  <1> QED
    BY <1>1, <1>2, <1>3, Zenon DEF ClockInv

\* A link brought up to date, and how it got there.
LEMMA UpToDateFacts ==
    ASSUME LinkInv, ClockInv
    PROVE  \E a, j, k, b :
              /\ LinkRests(link, a, arrived) /\ LinkRests(UpToDate, a, arrived)
              /\ ClockAt(link, k) /\ Past(link, k) \subseteq UpTo(now)
              /\ ClockAt(UpToDate, j) /\ Past(UpToDate, j) = UpTo(now)
              /\ b \in Nat /\ Cardinality(UpTo(now)) = Cardinality(Past(link, k)) + b
              /\ setup.args.type # "codel" => Moves(link, UpToDate, b * PACKET_SIZE)
  <1>1. setup \in Links /\ now \in 0 .. MaxTime /\ now \in Nat
    <2>1. setup \in Links /\ now \in 0 .. MaxTime
      BY DEF LinkInv
    <2> QED
      BY <2>1, LinkFacts, SMT
  <1>2. PICK a : LinkRests(link, a, arrived)
    BY DEF LinkInv
  <1>3. PICK k : ClockAt(link, k) /\ Past(link, k) \subseteq UpTo(now)
    BY DEF ClockInv
  <1>4. LinkRests(UpToDate, a, arrived)
    BY <1>1, <1>2, RationalizeOK DEF UpToDate
  <1>5. PICK j, b : /\ b \in Nat
                    /\ ClockAt(UpToDate, j) /\ Past(UpToDate, j) = UpTo(now)
                    /\ Cardinality(UpTo(now)) = Cardinality(Past(link, k)) + b
                    /\ setup.args.type # "codel" => Moves(link, UpToDate, b * PACKET_SIZE)
    BY <1>1, <1>2, <1>3, RationalizeServes DEF UpToDate
  <1> QED
    BY <1>2, <1>3, <1>4, <1>5

\* A link begins with none of its opportunities used, as the eager link begins.
LEMMA EagerInit ==
    ASSUME Init
    PROVE  ClockInv /\ (Timeless => Eager!Init)
  <1>0. LinkInv
    BY LinkInvInit
  <1>1. /\ setup \in Links /\ now = 0 /\ link = InitialLink(setup) /\ arrived = 0
        /\ delivered = <<>>
    BY DEF Init
  <1>2. /\ link.next_delivery = 0 /\ link.base_timestamp = 0 /\ link.finished = FALSE
        /\ link.in_transit = <<>> /\ link.output_queue = <<>>
        /\ link.packet_queue = NewPacketQueue(setup.args)
    BY <1>1, SMT DEF InitialLink
  <1>3. ClockInv
    <2>1. ClockAt(link, 0)
      <3>1. 0 * LastTime = 0
        BY <1>1, TraceFacts, Multiples
      <3> QED
        BY <1>2, <3>1 DEF ClockAt
    <2>2. Past(link, 0) = {}
      <3>1. ASSUME NEW p \in Past(link, 0) PROVE FALSE
        <4>1. p[1] \in 1 .. Len(setup.schedule) /\ p[2] \in Nat
              /\ (p[2] < 0 \/ (p[2] = 0 /\ p[1] <= 0))
          BY <1>2, <3>1 DEF Past
        <4>2. Len(setup.schedule) \in Nat
          BY <1>1, TraceFacts
        <4> QED
          BY <4>1, <4>2, SMT
      <3> QED
        BY <3>1
    <2> QED
      BY <2>1, <2>2 DEF ClockInv
  <1>4. ASSUME Timeless PROVE Eager!Init
    <2> DEFINE u == UpToDate
    <2>1. Waiting(link) = <<>> /\ SentOf(link) = 0
      <3>1. link.packet_queue.internal_queue = <<>>
        BY <1>1, <1>2, NewQueueOK
      <3>2. Waiting(link) = <<>> \o <<>>
        BY <1>2, <3>1 DEF Waiting
      <3>3. <<>> \o <<>> = <<>>
        BY ConcatEmptySeq, EmptySeq
      <3> QED
        BY <1>2, <3>2, <3>3 DEF SentOf
    <2>2. PICK b : Moves(link, u, b)
      BY <1>0, <1>3, <1>4, UpToDateFacts DEF Timeless
    <2>3. PICK o : /\ u.output_queue = link.output_queue \o o
                   /\ Serves(<<>>, 0, b, o, Waiting(u), SentOf(u))
      BY <2>1, <2>2 DEF Moves
    <2>4. o = <<>> /\ Waiting(u) = <<>> /\ SentOf(u) = 0
      BY <2>3, ServesEmpty
    <2>5. u.output_queue = <<>>
      <3>1. <<>> \o <<>> = <<>>
        BY ConcatEmptySeq, EmptySeq
      <3> QED
        BY <1>2, <2>3, <2>4, <3>1
    <2>6. Eager!ArgsAllowed(setup.args)
      <3>1. ArgsAllowed(setup.args)
        BY <1>1, LinkFacts
      <3> QED
        BY <3>1, Zenon DEF Eager!ArgsAllowed, ArgsAllowed
    <2> QED
      BY <1>1, <2>4, <2>5, <2>6, EagerSees, Zenon DEF Eager!Init
  <1> QED
    BY <1>3, <1>4

\* A packet is read: the eager link takes it in the same way.
LEMMA ReadRefines ==
    ASSUME LinkInv, ClockInv, LinkInv', NEW size \in setup.sizes, read_packet(size)
    PROVE  ClockInv' /\ (Timeless => Eager!Next)
  <1> DEFINE u == UpToDate
             p == [id |-> arrived + 1, size |-> size, arrival_time |-> now]
             ps == u.packet_queue.internal_queue
  <1>1. /\ arrived < setup.packets /\ arrived' = arrived + 1 /\ setup' = setup /\ now' = now
        /\ delivered' = delivered
    BY Zenon DEF read_packet, Reads
  <1>2. PICK q \in Enqueue(u.packet_queue, p, now) : link' = [u EXCEPT !.packet_queue = q]
    BY Zenon DEF read_packet, Reads, UpToDate
  <1>3. PICK a, j : /\ LinkRests(u, a, arrived) /\ ClockAt(u, j) /\ Past(u, j) = UpTo(now)
    BY UpToDateFacts
  <1>4. setup \in Links /\ now \in 0 .. MaxTime
    BY DEF LinkInv
  <1> HIDE DEF u, p
  <1>5. LinkOK(u, a, arrived)
    BY <1>3 DEF LinkRests
  <1>6. /\ link'.packet_queue = q /\ link'.in_transit = u.in_transit
        /\ link'.bytes_left = u.bytes_left /\ link'.output_queue = u.output_queue
        /\ SameClock(link', u)
    <2>1. link' = LinkOf(u.next_delivery, u.base_timestamp, q, u.in_transit,
                         u.bytes_left, u.output_queue, u.finished)
      <3>1. u = LinkOf(u.next_delivery, u.base_timestamp, u.packet_queue, u.in_transit,
                       u.bytes_left, u.output_queue, u.finished)
        BY <1>5 DEF LinkOK
      <3> QED
        BY <1>2, <3>1, SMT DEF LinkOf
    <2> QED
      BY <2>1, LinkParts DEF SameClock
  <1>7. ClockAt(link', j) /\ Past(link', j) = UpTo(now)
    BY <1>3, <1>6, Zenon DEF SameClock, ClockAt, Past
  <1>8. ClockInv'
    BY <1>1, <1>7, ClockInvAfter
  <1>9. ASSUME Timeless PROVE Eager!Next
    <2>1. UpToDate' = link'
      <3>1. PICK c \in Nat : LinkRests(link, c, arrived)'
        BY DEF LinkInv
      <3>2. LinkRests(link', c, arrived')
        BY <1>1, <3>1, Zenon DEF LinkRests, LinkOK, LinkOf, Clock, QueueOK, Within, ActiveFits,
           CodelFields, PieFields, Transit, Packet, InSteps, Ordered, good
      <3>3. rationalize(link', now) = link'
        BY <1>4, <1>7, <3>2, UpToDateRests
      <3> QED
        BY <1>1, <3>3, Zenon DEF UpToDate
    <2>2. /\ Waiting(u) \in Seq(Packet) /\ SentOf(u) = 0 <=> u.in_transit = <<>>
          /\ ps \in Seq(Packet)
      BY <1>3, <1>4, RestingOK
    <2>3. Eager!Queued = ps /\ Eager!UnderWay = u.in_transit
      <3>1. /\ Eager!Queued = IF SentOf(u) = 0 THEN Waiting(u) ELSE Tail(Waiting(u))
            /\ Eager!UnderWay = IF SentOf(u) = 0 THEN <<>> ELSE <<Head(Waiting(u))>>
        BY EagerSees, Zenon DEF Eager!Queued, Eager!UnderWay, u
      <3>2. CASE u.in_transit = <<>>
        <4>1. Waiting(u) = ps /\ SentOf(u) = 0
          BY <1>4, <1>5, <3>2, WaitingOK
        <4> QED
          BY <3>1, <3>2, <4>1
      <3>3. CASE u.in_transit # <<>>
        <4> DEFINE x == u.in_transit[1]
        <4>1. x \in Packet /\ u.in_transit = <<x>> /\ SentOf(u) # 0
          BY <1>4, <1>5, <2>2, <3>3, WaitingOK
        <4>2. Waiting(u) = <<x>> \o ps
          BY <4>1 DEF Waiting
        <4> HIDE DEF x, ps
        <4>3. Head(Waiting(u)) = x /\ Tail(Waiting(u)) = ps
          BY <2>2, <4>1, <4>2, SMT
        <4> QED
          BY <3>1, <4>1, <4>3, Zenon
      <3> QED
        BY <3>2, <3>3
    <2>4. PICK e \in Eager!Enqueue([Eager!NewPacketQueue(setup.args)
                                        EXCEPT !.internal_queue = ps], p, now) :
              e.internal_queue = q.internal_queue
      <3>1. QueueOK(u.packet_queue)
        BY <1>5 DEF LinkOK
      <3> QED
        BY <1>2, <1>4, <1>9, <3>1, EagerEnqueue
    <2>5. /\ (UpToDate.in_transit \o UpToDate.packet_queue.internal_queue)'
                 = u.in_transit \o q.internal_queue
          /\ (IF UpToDate.in_transit = <<>> THEN 0
              ELSE UpToDate.in_transit[1].size - UpToDate.bytes_left)' = SentOf(u)
          /\ (UpToDate.output_queue)' = u.output_queue
      BY <1>6, <2>1, Zenon DEF SentOf
    <2>6. Eager!Arrive(size)
      BY <1>1, <2>3, <2>4, <2>5, EagerSees, Zenon DEF Eager!Arrive, p, u
    <2> QED
      BY <2>6, Zenon DEF Eager!Next
  <1> QED
    BY <1>8, <1>9

\* The event loop asks for the time to wait: the link comes up to date, which the eager
\* link does not see.
LEMMA WaitRefines ==
    ASSUME LinkInv, ClockInv, wait_time
    PROVE  ClockInv' /\ UNCHANGED Eager!vars
  <1> DEFINE u == UpToDate
  <1>1. /\ setup' = setup /\ now' = now /\ arrived' = arrived /\ delivered' = delivered
        /\ link' = u
    BY DEF wait_time, UpToDate
  <1>2. PICK a, j : /\ LinkRests(u, a, arrived) /\ ClockAt(u, j) /\ Past(u, j) = UpTo(now)
    BY UpToDateFacts
  <1>3. setup \in Links /\ now \in 0 .. MaxTime
    BY DEF LinkInv
  <1>4. ClockInv'
    BY <1>1, <1>2, ClockInvAfter
  <1>5. UpToDate' = u
    <2>1. rationalize(u, now) = u
      BY <1>2, <1>3, UpToDateRests
    <2> HIDE DEF u
    <2> QED
      BY <1>1, <2>1, Zenon DEF UpToDate
  <1> QED
    BY <1>1, <1>4, <1>5, Zenon DEF Eager!vars

\* What a link became of the bytes is known but for what was in its output before.
LEMMA WriteRefines ==
    ASSUME LinkInv, ClockInv, LinkInv', write_packets
    PROVE  ClockInv' /\ (Timeless => Eager!Next)
  <1> DEFINE u == UpToDate
             v == rationalize(link', now)
             out == link.output_queue
  <1>1. /\ setup' = setup /\ now' = now /\ arrived' = arrived
        /\ delivered' = delivered \o out /\ out # <<>>
        /\ link' = [link EXCEPT !.output_queue = <<>>]
    BY DEF write_packets
  <1>2. PICK a, k, b : /\ LinkRests(link, a, arrived)
                       /\ ClockAt(link, k) /\ Past(link, k) \subseteq UpTo(now)
                       /\ b \in Nat /\ Cardinality(UpTo(now)) = Cardinality(Past(link, k)) + b
                       /\ setup.args.type # "codel" => Moves(link, u, b * PACKET_SIZE)
    BY UpToDateFacts
  <1>3. setup \in Links /\ now \in 0 .. MaxTime /\ now \in Nat /\ PACKET_SIZE \in Nat
    <2>1. setup \in Links /\ now \in 0 .. MaxTime
      BY DEF LinkInv
    <2> QED
      BY <2>1, LinkFacts, SMT
  <1>4. LinkOK(link, a, arrived)
    BY <1>2 DEF LinkRests
  <1>5. /\ link'.packet_queue = link.packet_queue /\ link'.in_transit = link.in_transit
        /\ link'.bytes_left = link.bytes_left /\ link'.output_queue = <<>>
        /\ SameClock(link', link)
    <2>1. link' = LinkOf(link.next_delivery, link.base_timestamp, link.packet_queue,
                         link.in_transit, link.bytes_left, <<>>, link.finished)
      <3>1. link = LinkOf(link.next_delivery, link.base_timestamp, link.packet_queue,
                          link.in_transit, link.bytes_left, link.output_queue, link.finished)
        BY <1>4 DEF LinkOK
      <3> QED
        BY <1>1, <3>1, SMT DEF LinkOf
    <2> QED
      BY <2>1, LinkParts DEF SameClock
  <1>6. ClockAt(link', k) /\ Past(link', k) = Past(link, k)
    BY <1>2, <1>5, Zenon DEF SameClock, ClockAt, Past
  <1>7. ClockInv'
    BY <1>1, <1>2, <1>6, ClockInvAfter
  <1>8. ASSUME Timeless PROVE Eager!Next
    <2>1. PICK c : LinkRests(link', c, arrived)
      <3>1. PICK d : LinkRests(link, d, arrived)'
        BY DEF LinkInv
      <3>2. LinkRests(link', d, arrived')
        BY <1>1, <3>1, Zenon DEF LinkRests, LinkOK, LinkOf, Clock, QueueOK, Within, ActiveFits,
           CodelFields, PieFields, Transit, Packet, InSteps, Ordered, good
      <3> QED
        BY <1>1, <3>2
    <2>2. PICK b2 : /\ b2 \in Nat /\ Cardinality(UpTo(now)) = Cardinality(Past(link, k)) + b2
                    /\ Moves(link', v, b2 * PACKET_SIZE)
      BY <1>2, <1>3, <1>6, <1>8, <2>1, RationalizeServes DEF Timeless
    <2>3. b2 = b
      <3>1. Cardinality(Past(link, k)) \in Nat
        <4>1. IsFiniteSet(UpTo(now))
          BY <1>3, UpToFinite
        <4> QED
          BY <1>2, <4>1, FS_Subset, FS_CardinalityType
      <3> DEFINE x == Cardinality(Past(link, k))
      <3>2. x + b2 = x + b /\ x \in Nat
        BY <1>2, <2>2, <3>1
      <3> HIDE DEF x
      <3> QED
        BY <1>2, <2>2, <3>2, SMT
    <2> DEFINE n == b * PACKET_SIZE
    <2>4. n \in Nat
      BY <1>2, <1>3, Multiples
    <2>5. Moves(link, u, n) /\ Moves(link', v, n)
      BY <1>2, <1>8, <2>2, <2>3 DEF Timeless
    <2>6. PICK o : /\ u.output_queue = out \o o
                   /\ Serves(Waiting(link), SentOf(link), n, o, Waiting(u), SentOf(u))
      BY <2>5 DEF Moves
    <2>7. PICK o2 : /\ v.output_queue = <<>> \o o2
                    /\ Serves(Waiting(link), SentOf(link), n, o2, Waiting(v), SentOf(v))
      <3>1. Waiting(link') = Waiting(link) /\ SentOf(link') = SentOf(link)
        BY <1>5, Zenon DEF Waiting, SentOf
      <3> QED
        BY <1>5, <2>5, <3>1 DEF Moves
    <2> HIDE DEF u, v, n, out
    <2>8. o = o2 /\ Waiting(u) = Waiting(v) /\ SentOf(u) = SentOf(v)
      <3>1. SentOf(link) \in Nat
        BY <1>2, <1>3, RestingOK
      <3> QED
        BY <1>3, <2>4, <2>6, <2>7, <3>1, ServesUnique
    <2>9. /\ UpToDate' = v
          /\ (UpToDate.in_transit \o UpToDate.packet_queue.internal_queue)' = Waiting(v)
          /\ (IF UpToDate.in_transit = <<>> THEN 0
              ELSE UpToDate.in_transit[1].size - UpToDate.bytes_left)' = SentOf(v)
      BY <1>1, Zenon DEF UpToDate, v, Waiting, SentOf
    <2> DEFINE q == UpToDate.output_queue
               m == Len(out)
    <2>10. /\ m \in 1 .. Len(q) /\ delivered' = delivered \o SubSeq(q, 1, m)
           /\ q' = SubSeq(q, m + 1, Len(q))
      <3>1. out \in Seq(Packet) /\ o \in Seq(Packet)
        BY <1>4, <2>6 DEF LinkOK, Serves, out
      <3>2. q = out \o o
        BY <2>6 DEF u
      <3>3. q' = o
        <4>1. q' = <<>> \o o2
          BY <2>7, <2>9
        <4> QED
          BY <2>8, <3>1, <4>1, ConcatEmptySeq
      <3> HIDE DEF q
      <3>4. m \in Nat /\ Len(o) \in Nat /\ Len(q) = m + Len(o) /\ m # 0
        BY <1>1, <3>1, <3>2, ConcatProperties, LenProperties, EmptySeq
      <3>5. m \in 1 .. Len(q)
        <4> HIDE DEF m
        <4> QED
          BY <3>4, SMT
      <3>6. SubSeq(q, 1, m) = out /\ SubSeq(q, m + 1, Len(q)) = o
        BY <3>1, <3>2, SMT
      <3> QED
        BY <1>1, <3>3, <3>5, <3>6
    <2>11. Eager!Write
      BY <1>1, <2>8, <2>9, <2>10, EagerSees, Zenon DEF Eager!Write, u
    <2> QED
      BY <2>11, Zenon DEF Eager!Next
  <1> QED
    BY <1>7, <1>8

\* A millisecond passes: the link need not look, and when it does it has served what the
\* eager link served in time.
LEMMA TickRefines ==
    ASSUME LinkInv, ClockInv, Tick
    PROVE  ClockInv' /\ (Timeless => Eager!Next)
  <1> DEFINE u == UpToDate
             v == rationalize(link, now + 1)
             w == rationalize(u, now + 1)
  <1>1. /\ setup' = setup /\ now' = now + 1 /\ arrived' = arrived
        /\ delivered' = delivered /\ link' = link /\ now < MaxTime
    BY DEF Tick
  <1>2. PICK a, j, k, b :
              /\ LinkRests(link, a, arrived) /\ LinkRests(u, a, arrived)
              /\ ClockAt(link, k) /\ Past(link, k) \subseteq UpTo(now)
              /\ ClockAt(u, j) /\ Past(u, j) = UpTo(now)
              /\ b \in Nat /\ Cardinality(UpTo(now)) = Cardinality(Past(link, k)) + b
              /\ setup.args.type # "codel" => Moves(link, u, b * PACKET_SIZE)
    BY UpToDateFacts
  <1>3. /\ setup \in Links /\ now \in Nat /\ now + 1 \in 0 .. MaxTime /\ now + 1 \in Nat
        /\ PACKET_SIZE \in Nat
    <2>1. setup \in Links /\ now \in 0 .. MaxTime
      BY DEF LinkInv
    <2>2. MaxTime \in Nat /\ PACKET_SIZE \in Nat
      BY <2>1, LinkFacts
    <2> QED
      BY <1>1, <2>1, <2>2, SMT
  <1>4. UpTo(now) \subseteq UpTo(now + 1)
    <2>1. ASSUME NEW p \in UpTo(now) PROVE p \in UpTo(now + 1)
      <3> DEFINE x == TimeOf(p)
      <3>1. p \in Slots /\ x <= now
        BY <2>1 DEF UpTo
      <3>2. x \in Nat
        <4>1. p[1] \in 1 .. Len(setup.schedule) /\ p[2] \in Nat
          BY <3>1 DEF Slots
        <4> DEFINE d == setup.schedule[p[1]]
                   e == p[2] * LastTime
        <4>2. d \in Nat /\ e \in Nat
          BY <1>3, <4>1, TraceFacts, Multiples
        <4>3. x = d + e
          BY DEF TimeOf
        <4> HIDE DEF d, e, x
        <4> QED
          BY <4>2, <4>3, SMT
      <3> HIDE DEF x
      <3>3. x <= now + 1
        BY <1>3, <3>1, <3>2, SMT
      <3> QED
        BY <3>1, <3>3 DEF UpTo, x
    <2> QED
      BY <2>1
  <1>5. ClockInv'
    <2>1. Past(link', k) \subseteq UpTo(now')
      BY <1>1, <1>2, <1>4
    <2> QED
      BY <1>1, <1>2, <2>1, ClockInvAfter
  <1>6. ASSUME Timeless PROVE Eager!Next
    <2> DEFINE n == Eager!Opportunities(now + 1)
               all == Cardinality(UpTo(now + 1))
               old == Cardinality(UpTo(now))
               first == Cardinality(Past(link, k))
               P == PACKET_SIZE
    <2>1. n \in Nat /\ all = old + n
      BY <1>3, EagerOpportunities
    <2>2. PICK b2 : b2 \in Nat /\ all = first + b2 /\ Moves(link, v, b2 * P)
      BY <1>2, <1>3, <1>4, <1>6, RationalizeServes DEF Timeless
    <2>3. PICK b3 : b3 \in Nat /\ all = old + b3 /\ Moves(u, w, b3 * P)
      BY <1>2, <1>3, <1>4, <1>6, RationalizeServes DEF Timeless
    <2>4. old = first + b /\ first \in Nat /\ b \in Nat
      <3>1. IsFiniteSet(UpTo(now))
        BY <1>3, UpToFinite
      <3> QED
        BY <1>2, <3>1, FS_Subset, FS_CardinalityType
    <2> HIDE DEF n, all, old, first, u, v, w
    <2>5. b3 = n /\ b2 = b + n
      BY <2>1, <2>2, <2>3, <2>4, SMT
    <2>6. b * P \in Nat /\ n * P \in Nat /\ (b + n) * P = b * P + n * P /\ b2 * P \in Nat
      <3> HIDE DEF P
      <3>1. P \in Nat
        BY <1>3 DEF P
      <3>2. \A x, y, z \in Nat : (x + y) * z = x * z + y * z /\ x * z \in Nat
        BY SMT
      <3> QED
        BY <2>1, <2>2, <2>4, <3>1, <3>2
    <2>7. Moves(link, u, b * P)
      BY <1>2, <1>6 DEF Timeless, u
    <2>8. Moves(u, w, n * P)
      BY <2>3, <2>5
    <2>9. /\ v.output_queue = w.output_queue /\ Waiting(v) = Waiting(w)
          /\ SentOf(v) = SentOf(w)
      <3>1. Moves(link, w, b * P + n * P)
        BY <1>2, <1>3, <2>6, <2>7, <2>8, MovesOn
      <3>2. Moves(link, w, b2 * P)
        BY <2>5, <2>6, <3>1, Zenon
      <3> QED
        BY <1>2, <1>3, <2>2, <2>6, <3>2, MovesUnique
    <2>10. PICK o : /\ w.output_queue = u.output_queue \o o
                    /\ Serves(Waiting(u), SentOf(u), n * P, o, Waiting(w), SentOf(w))
      BY <2>8 DEF Moves
    <2>11. Eager!Serve(Waiting(u), SentOf(u), n * P) =
               [output |-> o, waiting |-> Waiting(w), sent |-> SentOf(w)]
      <3>1. SentOf(u) \in Nat
        BY <1>2, <1>3, RestingOK DEF u
      <3> QED
        BY <1>3, <2>6, <2>10, <3>1, EagerServe
    <2> DEFINE r == Eager!Serve(Waiting(u), SentOf(u), n * P)
    <2>12. r.output = o /\ r.waiting = Waiting(w) /\ r.sent = SentOf(w)
      BY <2>11
    <2>13. /\ UpToDate' = v
           /\ (UpToDate.in_transit \o UpToDate.packet_queue.internal_queue)' = Waiting(v)
           /\ (IF UpToDate.in_transit = <<>> THEN 0
               ELSE UpToDate.in_transit[1].size - UpToDate.bytes_left)' = SentOf(v)
      BY <1>1, Zenon DEF UpToDate, v, Waiting, SentOf
    <2>14. (UpToDate.output_queue)' = UpToDate.output_queue \o o
      BY <2>9, <2>10, <2>13, Zenon DEF u
    <2>15. Eager!Advance
      <3>1. r = Eager!Serve(Waiting(UpToDate), SentOf(UpToDate),
                            Eager!Opportunities(now + 1) * PACKET_SIZE)
        BY DEF u, n
      <3> HIDE DEF r, P
      <3> QED
        BY <1>1, <2>9, <2>12, <2>13, <2>14, <3>1, EagerSees, Zenon DEF Eager!Advance
    <2> QED
      BY <2>15, Zenon DEF Eager!Next
  <1> QED
    BY <1>5, <1>6

\* Every step is one of the eager link, or none.
LEMMA EagerStep ==
    ASSUME LinkInv, ClockInv, LinkInv', [Next]_vars
    PROVE  ClockInv' /\ (Timeless => Eager!Next \/ UNCHANGED Eager!vars)
  <1>1. CASE UNCHANGED vars
    <2>1. ClockInv'
      <3>1. setup' = setup /\ link' = link /\ now' = now
        BY <1>1 DEF vars
      <3>2. PICK k : ClockAt(link, k) /\ Past(link, k) \subseteq UpTo(now)
        BY DEF ClockInv
      <3> QED
        BY <3>1, <3>2, ClockInvAfter
    <2>2. UNCHANGED Eager!vars
      BY <1>1, Zenon DEF vars, Eager!vars, UpToDate
    <2> QED
      BY <2>1, <2>2
  <1> QED
    BY <1>1, ReadRefines, WaitRefines, WriteRefines, TickRefines DEF Next

\* The lazy link implements the eager one.  Whatever the trace, its repetition, the sizes
\* of the packets, the times of their arrival and the calls of the event loop: the link
\* that LinkQueue::rationalize brings up to date only when it is asked (link_queue.cc:228-268)
\* sends the same packets in the same millisecond as one that serves each opportunity of
\* its trace when it comes due.
THEOREM LinkImplementsEager == Spec => ImplementsEagerLink
  <1>1. Init => LinkInv /\ ClockInv /\ (Timeless => Eager!Init)
    BY LinkInvInit, EagerInit
  <1>2. LinkInv /\ ClockInv /\ [Next]_vars => (LinkInv /\ ClockInv)'
    BY LinkInvNext, EagerStep
  <1>3. LinkInv /\ LinkInv' /\ ClockInv /\ [Next]_vars => [Timeless => Eager!Next]_(Eager!vars)
    BY EagerStep
  <1> QED
    BY <1>1, <1>2, <1>3, PTL DEF Spec, ImplementsEagerLink
=============================================================================
