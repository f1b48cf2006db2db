------------------------ MODULE ReconfigCollectorProofs ------------------------
(***************************************************************************)
(* The shared trigger time is either cleared or that of the last detection. *)
(* From this it follows that nothing drops the flag early, and, when         *)
(* reconfigurations are far enough apart, that nothing holds it too long and *)
(* no old sample is used.                                                    *)
(***************************************************************************)
EXTENDS ReconfigCollector, SequenceTheorems, WellFoundedInduction, TLAPS

IInv ==
    /\ now \in Nat /\ detected_at \in Nat
    /\ detected_at <= now
    /\ global_reconfiguration_trigger \in BOOLEAN
    /\ reconfiguration_trigger_time_ms \in {0, detected_at}
    /\ FlagHeldForItsDuration

\* Nothing has been detected when the module is loaded.
LEMMA InitInv == Init => IInv
  <1> SUFFICES ASSUME Init PROVE IInv OBVIOUS
  <1>1. now = 1 /\ detected_at = 0 /\ reconfiguration_trigger_time_ms = 0
    BY DEF Init
  <1>2. global_reconfiguration_trigger \in BOOLEAN
    BY Zenon DEF Init
  <1> QED BY <1>1, <1>2 DEF IInv, FlagHeldForItsDuration

\* The handler, for a detection and for a sample alike, keeps the shared time.
LEMMA ReportInv ==
    ASSUME IInv, UNCHANGED now, NEW rtt, NEW b \in BOOLEAN, netlink_recv_msg(rtt, b)
    PROVE  IInv'
  <1>1. CASE b
    <2>1. detected_at' = now /\ reconfiguration_trigger_time_ms' = now
      BY <1>1 DEF netlink_recv_msg
    <2>2. global_reconfiguration_trigger' = TRUE
      BY <1>1, Zenon DEF netlink_recv_msg
    <2>3. now' = now
      OBVIOUS
    <2> QED
      BY <2>1, <2>2, <2>3 DEF IInv, FlagHeldForItsDuration
  <1>2. CASE ~b
    <2>1. detected_at' = detected_at
      BY <1>2 DEF netlink_recv_msg
    <2>2. reconfiguration_trigger_time_ms' \in {0, reconfiguration_trigger_time_ms}
      BY <1>2 DEF netlink_recv_msg
    <2>3. global_reconfiguration_trigger' = (global_reconfiguration_trigger /\ ~FlagExpires)
      BY <1>2 DEF netlink_recv_msg
    <2>4. FlagExpires => now >= detected_at + TriggerDuration
      BY DEF IInv, FlagExpires
    <2> QED
      BY <2>1, <2>2, <2>3, <2>4, CollectorAssumption DEF IInv, FlagHeldForItsDuration
  <1> QED BY <1>1, <1>2

\* Time alone does not drop the flag.
LEMMA TickInv == IInv /\ Tick => IInv'
  BY CollectorAssumption
  DEF IInv, Tick, kernelVars, historyVars, FlagHeldForItsDuration

\* Every line of ping and every tick preserves the invariant.
LEMMA NextInv == IInv /\ [Next]_vars => IInv'
  <1> SUFFICES ASSUME IInv, [Next]_vars PROVE IInv' OBVIOUS
  <1>1. CASE Tick BY <1>1, TickInv
  <1>2. ASSUME NEW rtt \in Rtts, ReportReconfiguration(rtt) PROVE IInv'
    BY <1>2, ReportInv DEF ReportReconfiguration
  <1>3. ASSUME NEW rtt \in Rtts, ReportSample(rtt) PROVE IInv'
    BY <1>3, ReportInv DEF ReportSample
  <1>4. CASE SkipLine
    BY <1>4 DEF SkipLine, IInv, kernelVars, historyVars, FlagHeldForItsDuration
  <1>5. CASE UNCHANGED vars
    BY <1>5 DEF vars, monitorVars, kernelVars, historyVars, IInv, FlagHeldForItsDuration
  <1> QED BY <1>1, <1>2, <1>3, <1>4, <1>5 DEF Next, PingLine

\* The flag stays up for TriggerDuration after every detection, however detections,
\* samples and the end of a collection follow each other (netlink.h:68-113).
THEOREM FlagIsHeldForItsDuration == Spec => []FlagHeldForItsDuration
  <1>1. IInv => FlagHeldForItsDuration
    BY DEF IInv
  <1> QED BY InitInv, NextInv, <1>1, PTL DEF Spec
-----------------------------------------------------------------------------
(* Sorting                                                                  *)

\* Induction by the least counterexample: TLAPS cannot instantiate an induction
\* theorem that is stated with an operator.
LEMMA LeastNat ==
    ASSUME NEW T, T \subseteq Nat, T # {}
    PROVE  \E x \in T : \A y \in T : x <= y
  <1> DEFINE R == OpToRel(<, Nat)
  <1>1. PICK x \in T : \A y \in T : ~(<<y, x>> \in R)
    <2> HIDE DEF R
    <2>1. IsWellFoundedOn(R, Nat)
      BY NatLessThanWellFounded DEF R
    <2> QED
      BY <2>1, WFMin
  <1>2. ASSUME NEW y \in T PROVE x <= y
    <2>1. ~(<<y, x>> \in R)
      BY <1>1
    <2>2. y \in Nat /\ x \in Nat
      OBVIOUS
    <2>3. ~(y < x)
      BY <2>1, <2>2, Zenon DEF OpToRel
    <2> QED
      BY <2>2, <2>3, SMT
  <1> QED
    BY <1>2

\* The first k positions hold the k smallest samples, in ascending order.
AscendingUpTo(k, p, s) ==
    \A i, j \in 1 .. Len(s) :
        i < j => p[i] # p[j] /\ (i <= k => s[p[i]] <= s[p[j]])

\* One round of a selection sort.
LEMMA SelectNext ==
    ASSUME NEW s \in Seq(Nat), NEW k \in Nat, k < Len(s),
           NEW p \in [1 .. Len(s) -> 1 .. Len(s)], AscendingUpTo(k, p, s)
    PROVE  \E q \in [1 .. Len(s) -> 1 .. Len(s)] : AscendingUpTo(k + 1, q, s)
  <1> DEFINE n == Len(s)
             T == {s[p[i]] : i \in k + 1 .. n}
  <1>1. n \in Nat /\ \A i \in 1 .. n : s[i] \in Nat
    OBVIOUS
  <1> HIDE DEF n
  <1>2. k + 1 \in 1 .. n /\ k + 1 .. n \subseteq 1 .. n
    BY <1>1, SMT DEF n
  <1>3. p \in [1 .. n -> 1 .. n]
    BY DEF n
  <1>4. T \subseteq Nat /\ T # {}
    <2>1. k + 1 \in k + 1 .. n
      BY <1>1, <1>2, SMT
    <2> QED
      BY <1>1, <1>2, <1>3, <2>1, Zenon
  <1>5. PICK m \in k + 1 .. n : \A i \in k + 1 .. n : s[p[m]] <= s[p[i]]
    <2>1. PICK x \in T : \A y \in T : x <= y
      BY <1>4, LeastNat
    <2> QED
      BY <2>1
  <1> DEFINE q == [p EXCEPT ![k + 1] = p[m], ![m] = p[k + 1]]
  <1>6. m \in 1 .. n
    BY <1>2, <1>5
  <1>7. q \in [1 .. n -> 1 .. n]
    BY <1>2, <1>3, <1>6
  <1>8. \A i \in 1 .. n : q[i] = IF i = m THEN p[k + 1] ELSE IF i = k + 1 THEN p[m] ELSE p[i]
    BY <1>2, <1>3, <1>6
  <1> HIDE DEF q
  <1>9. ASSUME NEW i \in 1 .. n, NEW j \in 1 .. n, i < j
        PROVE  q[i] # q[j] /\ (i <= k + 1 => s[q[i]] <= s[q[j]])
    <2>1. \A a, b \in 1 .. n : a < b => p[a] # p[b] /\ (a <= k => s[p[a]] <= s[p[b]])
      BY DEF AscendingUpTo, n
    <2>2. \A a, b \in 1 .. n : a # b => p[a] # p[b]
      BY <2>1, SMT
    <2>3. q[i] # q[j]
      <3>1. i # j
        BY <1>1, <1>9, SMT
      <3>2. CASE i = m
        BY <1>2, <1>6, <1>8, <2>2, <3>1, <3>2, Zenon
      <3>3. CASE i # m /\ i = k + 1
        BY <1>2, <1>6, <1>8, <2>2, <3>1, <3>3, Zenon
      <3>4. CASE i # m /\ i # k + 1
        BY <1>2, <1>6, <1>8, <2>2, <3>1, <3>4, Zenon
      <3> QED
        BY <3>2, <3>3, <3>4
    <2>4. PICK a \in 1 .. n : q[j] = p[a] /\ (i <= k + 1 => a > i \/ (a = i /\ i = k + 1))
                                /\ (i = k + 1 => a \in k + 1 .. n)
      <3>1. CASE j = m
        BY <1>2, <1>5, <1>8, <3>1, SMT
      <3>2. CASE j # m /\ j = k + 1
        BY <1>2, <1>5, <1>6, <1>8, <3>2, SMT
      <3>3. CASE j # m /\ j # k + 1
        <4>1. q[j] = p[j]
          BY <1>8, <3>3, Zenon
        <4>2. (i <= k + 1 => j > i) /\ (i = k + 1 => j \in k + 1 .. n)
          BY <1>1, <1>9, SMT
        <4> QED
          BY <4>1, <4>2, Zenon
      <3> QED
        BY <3>1, <3>2, <3>3
    <2>5. CASE i = k + 1
      <3>1. q[i] = p[m]
        BY <1>8, <2>5, SMT
      <3> QED
        BY <1>5, <2>3, <2>4, <2>5, <3>1
    <2>6. CASE i <= k
      <3>1. q[i] = p[i]
        BY <1>5, <1>8, <2>6, SMT
      <3>2. a > i
        BY <2>4, <2>6, SMT
      <3> QED
        BY <2>1, <2>3, <2>4, <2>6, <3>1, <3>2
    <2>7. CASE i > k + 1
      BY <2>3, <2>7, SMT
    <2> QED
      BY <2>5, <2>6, <2>7, SMT
  <1> QED
    BY <1>7, <1>9 DEF AscendingUpTo, n

\* Every sequence of numbers can be sorted.
LEMMA AscendingExists ==
    ASSUME NEW s \in Seq(Nat)
    PROVE  \E p \in [DOMAIN s -> DOMAIN s] : Ascending(p, s)
  <1> DEFINE n == Len(s)
             P(k) == \E p \in [1 .. n -> 1 .. n] : AscendingUpTo(k, p, s)
             T == {k \in Nat : k <= n /\ ~P(k)}
  <1>1. n \in Nat /\ DOMAIN s = 1 .. n
    OBVIOUS
  <1>2. P(0)
    <2> DEFINE p == [i \in 1 .. n |-> i]
    <2>1. p \in [1 .. n -> 1 .. n] /\ AscendingUpTo(0, p, s)
      BY DEF AscendingUpTo
    <2> QED
      BY <2>1
  <1>3. T = {}
    <2> SUFFICES ASSUME T # {} PROVE FALSE
      OBVIOUS
    <2> HIDE DEF P
    <2>1. PICK k \in T : \A i \in T : k <= i
      BY LeastNat
    <2>2. k # 0 /\ k - 1 \in Nat /\ k - 1 < n /\ k = (k - 1) + 1
      BY <1>1, <1>2, <2>1, SMT
    <2>3. k - 1 \notin T
      BY <2>1, <2>2, SMT
    <2>4. P(k - 1)
      BY <1>1, <2>2, <2>3, SMT
    <2>5. P((k - 1) + 1)
      BY <2>2, <2>4, SelectNext DEF P
    <2>6. P(k)
      BY <2>2, <2>5
    <2> QED
      BY <2>1, <2>6
  <1>4. P(n)
    <2> HIDE DEF P
    <2> QED
      BY <1>1, <1>3, SMT
  <1>5. PICK p \in [1 .. n -> 1 .. n] : AscendingUpTo(n, p, s)
    BY <1>4
  <1>6. Ascending(p, s)
    BY <1>1, <1>5 DEF Ascending, AscendingUpTo
  <1> QED
    BY <1>1, <1>6

\* sort keeps the number of samples and the samples, and puts them in order.
LEMMA SortedProperties ==
    ASSUME NEW S, S \subseteq Nat, NEW s \in Seq(S)
    PROVE  /\ Sorted(s) \in Seq(S) /\ Len(Sorted(s)) = Len(s)
           /\ \A i \in 1 .. Len(s) : Sorted(s)[i] \in ToSet(s)
           /\ \A i, j \in 1 .. Len(s) : i <= j => Sorted(s)[i] <= Sorted(s)[j]
  <1> DEFINE order == CHOOSE p \in [DOMAIN s -> DOMAIN s] : Ascending(p, s)
             n == Len(s)
             t == [i \in 1 .. n |-> s[order[i]]]
  <1>1. n \in Nat /\ DOMAIN s = 1 .. n /\ \A i \in 1 .. n : s[i] \in S /\ s[i] \in Nat
    <2>1. n \in Nat /\ DOMAIN s = 1 .. n /\ \A i \in 1 .. n : s[i] \in S
      OBVIOUS
    <2> QED
      BY <2>1
  <1>2. order \in [DOMAIN s -> DOMAIN s] /\ Ascending(order, s)
    <2>1. s \in Seq(Nat)
      BY <1>1
    <2>2. \E p \in [DOMAIN s -> DOMAIN s] : Ascending(p, s)
      BY <2>1, AscendingExists
    <2> QED
      BY <2>2
  <1> HIDE DEF order
  <1>3. Sorted(s) = t
    BY <1>1 DEF Sorted, order
  <1>4. t \in Seq(S) /\ Len(t) = n
    BY <1>1, <1>2
  <1>5. \A i \in 1 .. n : t[i] \in ToSet(s)
    BY <1>1, <1>2 DEF ToSet
  <1>6. ASSUME NEW i \in 1 .. n, NEW j \in 1 .. n, i <= j
        PROVE  t[i] <= t[j]
    <2>1. t[i] = s[order[i]] /\ t[j] = s[order[j]]
      OBVIOUS
    <2>2. order[i] \in 1 .. n /\ s[order[i]] \in Nat
      BY <1>1, <1>2
    <2>3. CASE i = j
      BY <2>1, <2>2, <2>3
    <2>4. CASE i < j
      BY <1>1, <1>2, <2>1, <2>4 DEF Ascending
    <2> QED
      BY <1>1, <1>6, <2>3, <2>4
  <1> QED
    BY <1>3, <1>4, <1>5, <1>6

-----------------------------------------------------------------------------
(* Types, and where the fluctuation comes from                              *)

\* With a full buffer, both percentiles are samples, the higher one is not below
\* the lower one, and the subtraction does not wrap.
LEMMA FluctuationOf ==
    ASSUME NEW s \in Seq(Rtts), Len(s) >= 1
    PROVE  \E hi, lo \in ToSet(s) :
              hi >= lo /\ Fluctuation(s) = hi - lo /\ Fluctuation(s) \in Nat
  <1> DEFINE n == Len(s)
             u == (n * 95) \div 100 + 1
             l == (n * 5) \div 100 + 1
             t == Sorted(s)
  <1>1. Rtts \subseteq Nat /\ n \in Nat
    BY CollectorAssumption
  <1>2. u \in 1 .. n /\ l \in 1 .. n /\ l <= u
    BY <1>1, SMT
  <1>3. /\ t \in Seq(Rtts) /\ Len(t) = n
        /\ \A i \in 1 .. n : t[i] \in ToSet(s)
        /\ \A i, j \in 1 .. n : i <= j => t[i] <= t[j]
    BY <1>1, SortedProperties
  <1>4. Fluctuation(s) = t[u] - t[l]
    BY <1>3 DEF Fluctuation
  <1> HIDE DEF u, l, t
  <1>5. t[u] \in Nat /\ t[l] \in Nat
    <2>1. t[u] \in Rtts /\ t[l] \in Rtts
      BY <1>2, <1>3, ElementOfSeq
    <2> QED
      BY <1>1, <2>1, Zenon
  <1>6. t[u] >= t[l] /\ t[u] - t[l] \in Nat
    BY <1>2, <1>3, <1>5
  <1> QED
    BY <1>2, <1>3, <1>4, <1>6

\* The samples a report leaves behind.
LEMMA SamplesAfter ==
    ASSUME TypeOK, NEW rtt \in Rtts, NEW b \in BOOLEAN, netlink_recv_msg(rtt, b)
    PROVE  \/ rtt_samples' = rtt_samples
           \/ /\ CollectionStarts
              /\ rtt_samples' = <<rtt>> /\ Len(rtt_samples') = 1
           \/ /\ min_rtt_fluctuation_collection /\ ~BufferFull(rtt_samples)
              /\ rtt_samples' = Append(rtt_samples, rtt)
           \/ /\ min_rtt_fluctuation_collection /\ BufferFull(rtt_samples)
              /\ rtt_samples' = Sorted(rtt_samples)
  <1>1. ~BufferFull(<<>>) /\ RTT_SAMPLE_MAX \in Nat
    BY CollectorAssumption DEF BufferFull
  <1>2. Append(<<>>, rtt) = <<rtt>> /\ Len(<<rtt>>) = 1
    OBVIOUS
  <1>3. CASE CollectionStarts
    BY <1>1, <1>2, <1>3, Zenon DEF netlink_recv_msg
  <1>4. CASE ~CollectionStarts /\ min_rtt_fluctuation_collection /\ BufferFull(rtt_samples)
    BY <1>4, Zenon DEF netlink_recv_msg
  <1>5. CASE ~CollectionStarts /\ min_rtt_fluctuation_collection /\ ~BufferFull(rtt_samples)
    BY <1>5, Zenon DEF netlink_recv_msg
  <1>6. CASE ~CollectionStarts /\ ~min_rtt_fluctuation_collection
    BY <1>6, Zenon DEF netlink_recv_msg
  <1> QED
    BY <1>3, <1>4, <1>5, <1>6

\* The fluctuation changes only when a full buffer is evaluated.
LEMMA FluctuationAfter ==
    ASSUME TypeOK, NEW rtt \in Rtts, NEW b \in BOOLEAN, netlink_recv_msg(rtt, b)
    PROVE  \/ min_rtt_fluctuation' = min_rtt_fluctuation
           \/ /\ min_rtt_fluctuation_collection /\ ~min_rtt_fluctuation_collection'
              /\ BufferFull(rtt_samples)
              /\ min_rtt_fluctuation' = Fluctuation(rtt_samples)
  <1>1. ~BufferFull(<<>>)
    BY CollectorAssumption DEF BufferFull
  <1>2. CASE CollectionStarts
    BY <1>1, <1>2, Zenon DEF netlink_recv_msg
  <1>3. CASE ~CollectionStarts /\ min_rtt_fluctuation_collection /\ BufferFull(rtt_samples)
    BY <1>3, Zenon DEF netlink_recv_msg
  <1>4. CASE ~CollectionStarts /\ ~(min_rtt_fluctuation_collection /\ BufferFull(rtt_samples))
    BY <1>4, Zenon DEF netlink_recv_msg
  <1> QED
    BY <1>2, <1>3, <1>4

\* A full buffer is exactly full, and its fluctuation is a difference of samples.
LEMMA FullBuffer ==
    ASSUME TypeOK, BufferFull(rtt_samples)
    PROVE  /\ Len(rtt_samples) = RTT_SAMPLE_MAX
           /\ \E hi, lo \in ToSet(rtt_samples) :
                 hi >= lo /\ Fluctuation(rtt_samples) = hi - lo
           /\ Fluctuation(rtt_samples) \in Nat
  <1>1. /\ rtt_samples \in Seq(Rtts) /\ Len(rtt_samples) <= RTT_SAMPLE_MAX
        /\ Len(rtt_samples) >= RTT_SAMPLE_MAX /\ RTT_SAMPLE_MAX \in Nat \ {0}
    BY CollectorAssumption DEF TypeOK, BufferFull
  <1>2. Len(rtt_samples) = RTT_SAMPLE_MAX /\ Len(rtt_samples) >= 1
    BY <1>1
  <1> QED
    BY <1>1, <1>2, FluctuationOf

\* Every report keeps the types.
LEMMA ReportType ==
    ASSUME TypeOK, UNCHANGED now, last_time' = now,
           NEW rtt \in Rtts, NEW b \in BOOLEAN, netlink_recv_msg(rtt, b)
    PROVE  TypeOK'
  <1>1. rtt_samples' \in Seq(Rtts) /\ Len(rtt_samples') <= RTT_SAMPLE_MAX
    <2>1. /\ rtt_samples \in Seq(Rtts) /\ Len(rtt_samples) <= RTT_SAMPLE_MAX
          /\ RTT_SAMPLE_MAX \in Nat \ {0} /\ Rtts \subseteq Nat
      BY CollectorAssumption DEF TypeOK
    <2>2. Sorted(rtt_samples) \in Seq(Rtts) /\ Len(Sorted(rtt_samples)) = Len(rtt_samples)
      BY <2>1, SortedProperties
    <2>3. <<rtt>> \in Seq(Rtts)
      OBVIOUS
    <2>4. CASE ~BufferFull(rtt_samples) /\ rtt_samples' = Append(rtt_samples, rtt)
      BY <2>1, <2>4 DEF BufferFull
    <2>5. CASE rtt_samples' = <<rtt>> /\ Len(rtt_samples') = 1
      BY <2>1, <2>3, <2>5
    <2>6. CASE rtt_samples' = Sorted(rtt_samples)
      BY <2>1, <2>2, <2>6
    <2>7. CASE rtt_samples' = rtt_samples
      BY <2>1, <2>7
    <2> QED
      BY <2>4, <2>5, <2>6, <2>7, SamplesAfter, Zenon
  <1>2. min_rtt_fluctuation' \in Nat
    BY FluctuationAfter, FullBuffer DEF TypeOK
  <1>3. rtt \in Nat /\ now \in Nat
    BY CollectorAssumption DEF TypeOK
  <1>4. /\ global_reconfiguration_trigger' \in BOOLEAN
        /\ min_rtt_fluctuation_collection' \in BOOLEAN
    BY Zenon DEF netlink_recv_msg
  <1>5. reconfiguration_trigger_time_ms' \in Nat /\ reconfiguration_rtt_ms' \in Nat
    <2>1. reconfiguration_trigger_time_ms' \in {now, 0, reconfiguration_trigger_time_ms}
      BY DEF netlink_recv_msg
    <2>2. reconfiguration_rtt_ms' \in {rtt, reconfiguration_rtt_ms}
      BY Zenon DEF netlink_recv_msg
    <2> QED
      BY <1>3, <2>1, <2>2 DEF TypeOK
  <1>6. detected_at' \in Nat /\ handled_at' \in Nat /\ first_sample_at' \in Nat
    <2>1. /\ detected_at' \in {now, detected_at} /\ handled_at' = now
          /\ first_sample_at' \in {now, first_sample_at}
      BY Zenon DEF netlink_recv_msg
    <2> QED
      BY <1>3, <2>1 DEF TypeOK, historyVars
  <1> QED
    BY <1>1, <1>2, <1>3, <1>4, <1>5, <1>6 DEF TypeOK, historyVars

\* So do the lines that are not reported, and time.
LEMMA NextType == TypeOK /\ [Next]_vars => TypeOK'
  <1> SUFFICES ASSUME TypeOK, [Next]_vars PROVE TypeOK'
    OBVIOUS
  <1>1. CASE Tick
    BY <1>1 DEF Tick, TypeOK, kernelVars, historyVars
  <1>2. ASSUME NEW rtt \in Rtts, ReportReconfiguration(rtt) PROVE TypeOK'
    BY <1>2, ReportType DEF ReportReconfiguration
  <1>3. ASSUME NEW rtt \in Rtts, ReportSample(rtt) PROVE TypeOK'
    BY <1>3, ReportType DEF ReportSample
  <1>4. CASE SkipLine
    BY <1>4 DEF SkipLine, TypeOK, kernelVars, historyVars
  <1>5. CASE UNCHANGED vars
    BY <1>5 DEF vars, monitorVars, kernelVars, historyVars, TypeOK
  <1> QED
    BY <1>1, <1>2, <1>3, <1>4, <1>5 DEF Next, PingLine

\* The module starts with empty samples and cleared times.
LEMMA InitType == Init => TypeOK
  <1> SUFFICES ASSUME Init PROVE TypeOK
    OBVIOUS
  <1>1. /\ now = 1 /\ last_time = 1 /\ reconfiguration_trigger_time_ms = 0
        /\ reconfiguration_rtt_ms = 0 /\ rtt_samples = <<>> /\ min_rtt_fluctuation = 0
        /\ detected_at = 0 /\ handled_at = 0 /\ first_sample_at = 0
    BY DEF Init
  <1>2. global_reconfiguration_trigger \in BOOLEAN /\ min_rtt_fluctuation_collection \in BOOLEAN
    BY Zenon DEF Init
  <1>3. <<>> \in Seq(Rtts) /\ Len(<<>>) <= RTT_SAMPLE_MAX
    BY CollectorAssumption
  <1> QED
    BY <1>1, <1>2, <1>3 DEF TypeOK, historyVars

\* The buffer never overflows and the fluctuation never wraps below 0, for every
\* size of the buffer and whatever RTTs ping prints (netlink.h:45-56, 85-104).
THEOREM CollectorIsTyped == Spec => []TypeOK
  BY InitType, NextType, PTL DEF Spec

\* The fluctuation changes only when a full buffer has been evaluated, and becomes
\* a difference of two RTTs of that buffer (netlink.h:45-56, 91-100).
THEOREM FluctuationOfTheBuffer == Spec => FluctuationFromAFullBuffer
  <1> DEFINE A == min_rtt_fluctuation' # min_rtt_fluctuation
                    => /\ Len(rtt_samples) = RTT_SAMPLE_MAX
                       /\ min_rtt_fluctuation_collection /\ ~min_rtt_fluctuation_collection'
                       /\ \E hi, lo \in ToSet(rtt_samples) :
                             hi >= lo /\ min_rtt_fluctuation' = hi - lo
  <1>1. TypeOK /\ [Next]_vars => [A]_vars
    <2> SUFFICES ASSUME TypeOK, Next PROVE A
      BY DEF A
    <2>1. ASSUME NEW rtt \in Rtts, NEW b \in BOOLEAN, netlink_recv_msg(rtt, b) PROVE A
      <3>1. ASSUME min_rtt_fluctuation' # min_rtt_fluctuation
            PROVE  /\ min_rtt_fluctuation_collection /\ ~min_rtt_fluctuation_collection'
                   /\ BufferFull(rtt_samples)
                   /\ min_rtt_fluctuation' = Fluctuation(rtt_samples)
        BY <2>1, <3>1, FluctuationAfter
      <3> QED
        BY <3>1, FullBuffer
    <2>2. CASE SkipLine \/ Tick
      BY <2>2 DEF SkipLine, Tick, kernelVars
    <2> QED
      BY <2>1, <2>2 DEF Next, PingLine, ReportReconfiguration, ReportSample
  <1> QED
    BY <1>1, CollectorIsTyped, PTL DEF Spec, FluctuationFromAFullBuffer, A

-----------------------------------------------------------------------------
(* Reconfigurations that come one at a time                                 *)

\* While a trigger is pending, no gap opens: the environment leaves the collection
\* the time it needs.  Every sample of it was stored LineGap after the one before.
ApartInv ==
    /\ last_time <= now
    /\ now - last_time > Threshold => reconfiguration_trigger_time_ms = 0
    /\ reconfiguration_trigger_time_ms \in {0, detected_at}
    /\ min_rtt_fluctuation_collection =>
          /\ reconfiguration_trigger_time_ms > 0
          /\ Len(rtt_samples) >= 1
          /\ first_sample_at >= detected_at + reconfiguration_rtt_ms
          /\ last_time >= first_sample_at + (Len(rtt_samples) - 1) * LineGap

\* The collection ends no earlier than TriggerDuration after the trigger, and that
\* report takes the flag down with the trigger time it clears.
FlagInv ==
    /\ reconfiguration_trigger_time_ms = 0 => ~global_reconfiguration_trigger
    /\ FlagDownAfterItsDuration

\* The collection takes at least as long as the flag is up.  (On the code's side,
\* 100 lines 10 ms apart, and 200 ms.)
CollectionOutlastsFlag == RTT_SAMPLE_MAX * LineGap >= TriggerDuration

\* What a report of a sample does to the trigger, the flag and the collection.
LEMMA SampleStep ==
    ASSUME TypeOK, NEW rtt \in Rtts, netlink_recv_msg(rtt, FALSE)
    PROVE  /\ detected_at' = detected_at /\ handled_at' = now
           /\ reconfiguration_rtt_ms' = reconfiguration_rtt_ms
           /\ global_reconfiguration_trigger' = (global_reconfiguration_trigger /\ ~FlagExpires)
           /\ \/ /\ CollectionStarts
                 /\ min_rtt_fluctuation_collection'
                 /\ rtt_samples' = <<rtt>> /\ first_sample_at' = now
                 /\ reconfiguration_trigger_time_ms' = reconfiguration_trigger_time_ms
              \/ /\ min_rtt_fluctuation_collection /\ ~BufferFull(rtt_samples)
                 /\ rtt_samples' = Append(rtt_samples, rtt)
                 /\ rtt_samples # <<>> => first_sample_at' = first_sample_at
                 /\ reconfiguration_trigger_time_ms' = reconfiguration_trigger_time_ms
              \/ /\ min_rtt_fluctuation_collection /\ BufferFull(rtt_samples)
                 /\ ~min_rtt_fluctuation_collection'
                 /\ reconfiguration_trigger_time_ms' = 0
              \/ /\ ~min_rtt_fluctuation_collection'
                 /\ reconfiguration_trigger_time_ms' = reconfiguration_trigger_time_ms
  <1>1. ~BufferFull(<<>>)
    BY CollectorAssumption DEF BufferFull
  <1>2. Append(<<>>, rtt) = <<rtt>>
    OBVIOUS
  <1>3. /\ detected_at' = detected_at /\ handled_at' = now
        /\ reconfiguration_rtt_ms' = reconfiguration_rtt_ms
        /\ global_reconfiguration_trigger' = (global_reconfiguration_trigger /\ ~FlagExpires)
    BY Zenon DEF netlink_recv_msg
  <1>4. CASE CollectionStarts
    BY <1>1, <1>2, <1>3, <1>4, Zenon DEF netlink_recv_msg
  <1>5. CASE ~CollectionStarts /\ min_rtt_fluctuation_collection /\ BufferFull(rtt_samples)
    BY <1>3, <1>5, Zenon DEF netlink_recv_msg
  <1>6. CASE ~CollectionStarts /\ min_rtt_fluctuation_collection /\ ~BufferFull(rtt_samples)
    BY <1>3, <1>6, Zenon DEF netlink_recv_msg
  <1>7. CASE ~CollectionStarts /\ ~min_rtt_fluctuation_collection
    BY <1>3, <1>7, Zenon DEF netlink_recv_msg
  <1> QED
    BY <1>4, <1>5, <1>6, <1>7

\* A detection finds no collection and no trigger, and starts none.
LEMMA DetectionStep ==
    ASSUME TypeOK, ApartInv, NEW rtt \in Rtts, ReportReconfiguration(rtt)
    PROVE  /\ reconfiguration_trigger_time_ms' = now /\ detected_at' = now
           /\ handled_at' = now /\ ~min_rtt_fluctuation_collection'
  <1>1. reconfiguration_trigger_time_ms = 0
    BY DEF ReportReconfiguration, ApartInv
  <1>2. ~min_rtt_fluctuation_collection /\ ~CollectionStarts
    BY <1>1 DEF ApartInv, CollectionStarts
  <1>3. netlink_recv_msg(rtt, TRUE)
    BY DEF ReportReconfiguration
  <1> QED
    BY <1>2, <1>3, Zenon DEF netlink_recv_msg

\* Ordinary lines keep the samples after the trigger and LineGap apart.
LEMMA SampleApart ==
    ASSUME TypeOK, ApartInv, NEW rtt \in Rtts, ReportSample(rtt),
           now >= last_time + LineGap
    PROVE  ApartInv'
  <1>1. netlink_recv_msg(rtt, FALSE) /\ now' = now /\ last_time' = now
    BY DEF ReportSample
  <1>2. now \in Nat /\ LineGap \in Nat /\ Threshold \in Nat /\ detected_at \in Nat
    BY CollectorAssumption DEF TypeOK, historyVars
  <1>3. last_time' <= now' /\ ~(now' - last_time' > Threshold)
    BY <1>1, <1>2
  <1>4. CASE ~min_rtt_fluctuation_collection'
    BY <1>1, <1>3, <1>4, SampleStep DEF ApartInv
  <1>5. CASE /\ CollectionStarts /\ rtt_samples' = <<rtt>> /\ first_sample_at' = now
             /\ reconfiguration_trigger_time_ms' = reconfiguration_trigger_time_ms
    <2>1. Len(rtt_samples') = 1
      BY <1>5
    <2>2. /\ reconfiguration_trigger_time_ms > 0
          /\ now >= reconfiguration_trigger_time_ms + reconfiguration_rtt_ms
      BY <1>5 DEF CollectionStarts
    <2>3. reconfiguration_trigger_time_ms = detected_at
      BY <2>2 DEF ApartInv
    <2>4. detected_at' = detected_at /\ reconfiguration_rtt_ms' = reconfiguration_rtt_ms
      BY <1>1, SampleStep
    <2> QED
      BY <1>1, <1>2, <1>3, <1>5, <2>1, <2>2, <2>3, <2>4 DEF ApartInv
  <1>6. CASE /\ min_rtt_fluctuation_collection /\ rtt_samples' = Append(rtt_samples, rtt)
             /\ rtt_samples # <<>> => first_sample_at' = first_sample_at
             /\ reconfiguration_trigger_time_ms' = reconfiguration_trigger_time_ms
    <2> DEFINE n == Len(rtt_samples)
    <2>1. n \in Nat /\ n >= 1 /\ Len(rtt_samples') = n + 1 /\ rtt_samples # <<>>
      BY <1>6 DEF TypeOK, ApartInv
    <2>2. /\ first_sample_at >= detected_at + reconfiguration_rtt_ms
          /\ last_time >= first_sample_at + (n - 1) * LineGap
          /\ reconfiguration_trigger_time_ms > 0
      BY <1>6 DEF ApartInv
    <2>3. /\ detected_at' = detected_at /\ reconfiguration_rtt_ms' = reconfiguration_rtt_ms
          /\ first_sample_at' = first_sample_at
      BY <1>1, <1>6, <2>1, SampleStep
    <2> HIDE DEF n
    <2>4. (n - 1) * LineGap + LineGap = n * LineGap
      BY <1>2, <2>1, SMT
    <2>5. (n - 1) * LineGap \in Int /\ n * LineGap \in Int
      BY <1>2, <2>1, SMT
    <2>6. now >= first_sample_at + n * LineGap
      <3> DEFINE a == (n - 1) * LineGap
                 b == n * LineGap
      <3>1. a + LineGap = b /\ a \in Int /\ b \in Int /\ last_time >= first_sample_at + a
        BY <2>2, <2>4, <2>5
      <3>2. first_sample_at \in Nat /\ last_time \in Nat
        BY DEF TypeOK, historyVars
      <3> HIDE DEF a, b
      <3>3. now >= first_sample_at + b
        BY <1>2, <3>1, <3>2, SMT
      <3> QED
        BY <3>3 DEF b
    <2>7. Len(rtt_samples') - 1 = n
      BY <2>1
    <2> QED
      BY <1>1, <1>3, <1>6, <2>1, <2>2, <2>3, <2>6, <2>7 DEF ApartInv
  <1> QED
    BY <1>1, <1>4, <1>5, <1>6, SampleStep

\* All steps, when the environment leaves reconfigurations apart.
LEMMA NextApart ==
    ASSUME ReconfigsApart, TypeOK, ApartInv, [Next]_vars
    PROVE  ApartInv'
  <1>1. now \in Nat /\ last_time \in Nat /\ Threshold \in Nat /\ LineGap \in Nat
    BY CollectorAssumption DEF TypeOK
  <1>2. CASE Tick
    BY <1>1, <1>2 DEF Tick, ApartInv, kernelVars, historyVars
  <1>3. ASSUME NEW rtt \in Rtts, ReportReconfiguration(rtt) PROVE ApartInv'
    <2>1. now' = now /\ last_time' = now
      BY <1>3 DEF ReportReconfiguration
    <2> QED
      BY <1>1, <1>3, <2>1, DetectionStep DEF ApartInv
  <1>4. ASSUME NEW rtt \in Rtts, ReportSample(rtt), now >= last_time + LineGap PROVE ApartInv'
    BY <1>4, SampleApart
  <1>5. CASE SkipLine /\ now >= last_time + LineGap
    <2>1. now' = now /\ last_time' = now /\ UNCHANGED <<kernelVars, historyVars>>
      BY <1>5 DEF SkipLine
    <2>2. now >= last_time
      BY <1>1, <1>5
    <2>3. min_rtt_fluctuation_collection =>
             now >= first_sample_at + (Len(rtt_samples) - 1) * LineGap
      <3> DEFINE a == (Len(rtt_samples) - 1) * LineGap
      <3>1. a \in Int /\ first_sample_at \in Nat
        BY <1>1 DEF TypeOK, historyVars
      <3>2. min_rtt_fluctuation_collection => last_time >= first_sample_at + a
        BY DEF ApartInv
      <3> HIDE DEF a
      <3>3. min_rtt_fluctuation_collection => now >= first_sample_at + a
        BY <1>1, <2>2, <3>1, <3>2, SMT
      <3> QED
        BY <3>3 DEF a
    <2> QED
      BY <1>1, <2>1, <2>3 DEF ApartInv, kernelVars, historyVars
  <1>6. CASE UNCHANGED vars
    BY <1>6 DEF vars, monitorVars, kernelVars, historyVars, ApartInv
  <1> QED
    BY <1>2, <1>3, <1>4, <1>5, <1>6 DEF Next, PingLine

\* The flag, when the collection outlasts it.
LEMMA NextFlag ==
    ASSUME ReconfigsApart, CollectionOutlastsFlag, TypeOK, ApartInv, FlagInv, [Next]_vars
    PROVE  FlagInv'
  <1>1. /\ now \in Nat /\ last_time \in Nat /\ LineGap \in Nat /\ TriggerDuration \in Nat \ {0}
        /\ detected_at \in Nat /\ handled_at \in Nat /\ first_sample_at \in Nat
        /\ reconfiguration_rtt_ms \in Nat /\ RTT_SAMPLE_MAX \in Nat \ {0}
        /\ reconfiguration_trigger_time_ms \in Nat /\ global_reconfiguration_trigger \in BOOLEAN
    BY CollectorAssumption DEF TypeOK, historyVars
  <1>2. CASE Tick \/ SkipLine \/ UNCHANGED vars
    BY <1>2 DEF Tick, SkipLine, vars, monitorVars, kernelVars, historyVars, FlagInv,
                FlagDownAfterItsDuration
  <1>3. ASSUME NEW rtt \in Rtts, ReportReconfiguration(rtt), now > last_time PROVE FlagInv'
    <2>1. /\ reconfiguration_trigger_time_ms' = now /\ detected_at' = now /\ handled_at' = now
      BY <1>3, DetectionStep
    <2> QED
      BY <1>1, <1>3, <2>1 DEF FlagInv, FlagDownAfterItsDuration
  <1>4. ASSUME NEW rtt \in Rtts, ReportSample(rtt), now >= last_time + LineGap PROVE FlagInv'
    <2>1. netlink_recv_msg(rtt, FALSE)
      BY <1>4 DEF ReportSample
    <2>2. /\ detected_at' = detected_at /\ handled_at' = now
          /\ global_reconfiguration_trigger' = (global_reconfiguration_trigger /\ ~FlagExpires)
      BY <2>1, SampleStep
    <2>3. global_reconfiguration_trigger'
             => /\ reconfiguration_trigger_time_ms = detected_at
                /\ reconfiguration_trigger_time_ms > 0
                /\ now < detected_at + TriggerDuration
      <3>1. CASE ~global_reconfiguration_trigger \/ FlagExpires
        BY <2>2, <3>1, Zenon
      <3>2. CASE global_reconfiguration_trigger /\ ~FlagExpires
        BY <1>1, <3>2 DEF FlagInv, FlagExpires, ApartInv
      <3> QED
        BY <3>1, <3>2
    <2>4. FlagDownAfterItsDuration'
      BY <1>1, <2>2, <2>3 DEF FlagDownAfterItsDuration
    <2>5. CASE reconfiguration_trigger_time_ms' = reconfiguration_trigger_time_ms
      BY <2>3, <2>4, <2>5 DEF FlagInv
    <2>6. CASE min_rtt_fluctuation_collection /\ BufferFull(rtt_samples)
      <3> DEFINE a == (RTT_SAMPLE_MAX - 1) * LineGap
                 b == RTT_SAMPLE_MAX * LineGap
      <3>1. Len(rtt_samples) = RTT_SAMPLE_MAX
        BY <2>6, FullBuffer
      <3>2. /\ last_time >= first_sample_at + a
            /\ first_sample_at >= detected_at + reconfiguration_rtt_ms
        BY <2>6, <3>1 DEF ApartInv
      <3>3. a \in Int /\ b \in Int /\ a + LineGap = b
        BY <1>1, SMT
      <3>4. b >= TriggerDuration
        BY DEF CollectionOutlastsFlag
      <3> HIDE DEF a, b
      <3>5. now >= detected_at + TriggerDuration
        BY <1>1, <1>4, <3>2, <3>3, <3>4, SMT
      <3>6. ~global_reconfiguration_trigger'
        BY <1>1, <2>3, <3>5
      <3> QED
        BY <2>4, <3>6 DEF FlagInv
    <2> QED
      BY <2>1, <2>5, <2>6, SampleStep
  <1>5. LineGap > 0
    BY CollectorAssumption
  <1> QED
    BY <1>1, <1>2, <1>3, <1>4, <1>5 DEF Next, PingLine

\* Nothing is pending when the module is loaded.
LEMMA InitApart == Init => ApartInv /\ FlagInv
  <1> SUFFICES ASSUME Init PROVE ApartInv /\ FlagInv
    OBVIOUS
  <1>1. /\ now = 1 /\ last_time = 1 /\ reconfiguration_trigger_time_ms = 0 /\ detected_at = 0
        /\ ~min_rtt_fluctuation_collection /\ ~global_reconfiguration_trigger
    BY DEF Init
  <1> QED
    BY <1>1, CollectorAssumption DEF ApartInv, FlagInv, FlagDownAfterItsDuration

\* Where reconfigurations come one at a time, and if the collection takes longer than
\* the flag is up, the end of the collection, which clears the shared trigger time,
\* does not leave the flag up for ever (netlink.h:68-75, 96-103).
THEOREM FlagComesDown ==
    ASSUME ReconfigsApart, CollectionOutlastsFlag
    PROVE  Spec => []FlagDownAfterItsDuration
  <1>1. TypeOK /\ ApartInv /\ FlagInv /\ [Next]_vars => ApartInv' /\ FlagInv'
    BY NextApart, NextFlag
  <1>2. FlagInv => FlagDownAfterItsDuration
    BY DEF FlagInv
  <1> QED
    BY InitApart, CollectorIsTyped, <1>1, <1>2, PTL DEF Spec
=============================================================================
