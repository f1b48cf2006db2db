---------------------------- MODULE LeoCCSimProofs ----------------------------
(***************************************************************************)
(* A flow of the emulation answers each window of the schedule with one      *)
(* probe at most.  Two things come together: the arithmetic of the schedule, *)
(* which says how long a window can last, wherever the clock and the         *)
(* products computed from it wrap, and what an ACK may do to a flow that has *)
(* been told of the reconfiguration.                                         *)
(***************************************************************************)
EXTENDS LeoCCSim, TLAPS

-----------------------------------------------------------------------------
(* Quotients and remainders                                                 *)

\* The quotient of n by a is q and the remainder y.
LEMMA Division ==
    ASSUME NEW a \in Nat \ {0}, NEW q \in Int, NEW y \in 0 .. a - 1, NEW n \in Int,
           n = a * q + y
    PROVE  n \div a = q /\ n % a = y
  <1> DEFINE p == n \div a
             z == n % a
  <1>1. p \in Int /\ z \in 0 .. a - 1 /\ n = a * p + z
    BY SMT
  <1> HIDE DEF p, z
  <1>2. ASSUME p >= q + 1 PROVE FALSE
    <2>1. a * p >= a * (q + 1)
      BY <1>1, <1>2, SMT
    <2>2. a * (q + 1) = a * q + a
      BY SMT
    <2> QED
      BY <1>1, <2>1, <2>2, SMT
  <1>3. ASSUME p <= q - 1 PROVE FALSE
    <2>1. a * p <= a * (q - 1)
      BY <1>1, <1>3, SMT
    <2>2. a * (q - 1) = a * q - a
      BY SMT
    <2> QED
      BY <1>1, <2>1, <2>2, SMT
  <1>4. p = q
    BY <1>1, <1>2, <1>3, SMT
  <1>5. z = y
    BY <1>1, <1>4, SMT
  <1> QED
    BY <1>4, <1>5 DEF p, z

LEMMA DivMod ==
    ASSUME NEW a \in Nat \ {0}, NEW n \in Nat
    PROVE  /\ n \div a \in Nat /\ n % a \in Nat /\ n % a < a
           /\ n = a * (n \div a) + (n % a)
  <1> DEFINE p == n \div a
             z == n % a
  <1>1. n \in Int
    BY SMT
  <1>2. p \in Int /\ z \in 0 .. a - 1 /\ n = a * p + z
    BY <1>1, SMT
  <1> HIDE DEF p, z
  <1>3. ASSUME p <= -1 PROVE FALSE
    <2>1. a * p <= a * (-1)
      BY <1>2, <1>3, SMT
    <2>2. a * (-1) = -a
      BY SMT
    <2> QED
      BY <1>2, <2>1, <2>2, SMT
  <1>4. p \in Nat /\ z \in Nat /\ z < a
    BY <1>2, <1>3, SMT
  <1> QED
    BY <1>2, <1>4 DEF p, z

LEMMA Times ==
    ASSUME NEW a \in Nat, NEW m \in Int, NEW n \in Int
    PROVE  /\ a * m \in Int /\ (m <= n => a * m <= a * n)
           /\ a * (m + n) = a * m + a * n /\ a * (m + 1) = a * m + a
  BY SMT

-----------------------------------------------------------------------------
(* The schedule, e jiffies after it started                                 *)

Elapsed == 0 .. JiffyMod - 1

\* The product that delta_since_start is computed from, delta_since_start itself,
\* and relative_time.
Product(e) == (e * MsPerSecond) % JiffyMod
Delta(e) == Product(e) \div HZ
Relative(e) == Delta(e) % PERIOD
Window(e) == Relative(e) >= (offset - magic_offset) % JiffyMod /\ Relative(e) <= offset

\* At least h jiffies of the window have passed.
PassedAt(e, h) ==
    Product(e) >= HZ * (Delta(e) - Relative(e) + (offset - magic_offset)) + MsPerSecond * h

LEMMA Constants ==
    /\ JiffyMod \in Nat \ {0} /\ MsPerSecond \in Nat \ {0} /\ HZ \in Nat \ {0}
    /\ PERIOD \in Nat \ {0} /\ offset \in Nat /\ magic_offset \in Nat /\ offset < JiffyMod
    /\ ProbeRttTime \in Nat \ {0} /\ 2 * ProbeRttTime < JiffyMod
  BY ScheduleAssumption, WindowAssumption

LEMMA Schedule ==
    ASSUME NEW e \in Elapsed
    PROVE  /\ Product(e) \in Nat /\ Product(e) < JiffyMod
           /\ Delta(e) \in Nat /\ Relative(e) \in Nat /\ Relative(e) <= Delta(e)
           /\ HZ * Delta(e) <= Product(e) /\ Product(e) < HZ * (Delta(e) + 1)
           /\ Delta(e) = PERIOD * (Delta(e) \div PERIOD) + Relative(e)
           /\ Relative(e) < PERIOD /\ Delta(e) \div PERIOD \in Nat
  <1> DEFINE x == Product(e)
             d == Delta(e)
             n == d \div PERIOD
             r == Relative(e)
  <1>1. x = (e * MsPerSecond) % JiffyMod /\ d = x \div HZ /\ r = d % PERIOD
    BY DEF Product, Delta, Relative
  <1> HIDE DEF x, d, r
  <1>2. e * MsPerSecond \in Nat
    BY Constants, SMT DEF Elapsed
  <1>3. x \in Nat /\ x < JiffyMod
    BY <1>1, <1>2, Constants, DivMod
  <1>4. d \in Nat /\ x % HZ \in Nat /\ x % HZ < HZ /\ x = HZ * d + (x % HZ)
    BY <1>1, <1>3, Constants, DivMod
  <1>5. n \in Nat /\ r \in Nat /\ r < PERIOD /\ d = PERIOD * n + r
    BY <1>1, <1>4, Constants, DivMod
  <1>6. HZ * d <= x /\ x < HZ * (d + 1)
    <2> DEFINE w == HZ * d
               v == x % HZ
    <2>1. HZ * (d + 1) = w + HZ /\ w \in Int
      BY <1>4, Constants, Times
    <2>2. v \in Nat /\ v < HZ /\ x = w + v
      BY <1>4
    <2> HIDE DEF w, v
    <2>3. w <= x /\ x < w + HZ
      BY <1>3, <2>1, <2>2, Constants, SMT
    <2> QED
      BY <2>1, <2>3 DEF w
  <1>7. r <= d
    <2>1. PERIOD * n \in Nat
      BY <1>5, Constants, SMT
    <2> QED
      BY <1>4, <1>5, <2>1, SMT
  <1> QED
    BY <1>3, <1>4, <1>5, <1>6, <1>7 DEF x, d, r

\* The window is an interval, and opens no earlier than a jiffy after the start.
LEMMA WindowInterval ==
    /\ offset - magic_offset \in Nat /\ HZ * (offset - magic_offset) >= MsPerSecond
    /\ \A e \in Elapsed :
         Window(e) <=> Relative(e) >= offset - magic_offset /\ Relative(e) <= offset
  <1> DEFINE o == offset - magic_offset
  <1>1. o \in Int /\ HZ * o >= MsPerSecond
    BY ScheduleAssumption, WindowAssumption, SMT
  <1>2. ASSUME o <= 0 PROVE FALSE
    <2>1. HZ * o <= HZ * 0 /\ HZ * 0 = 0
      BY <1>1, <1>2, Constants, Times
    <2> QED
      BY <1>1, <2>1, Constants, SMT
  <1>3. o \in 0 .. JiffyMod - 1
    BY <1>1, <1>2, Constants, SMT
  <1>4. o % JiffyMod = o
    <2>1. o = JiffyMod * 0 + o
      BY <1>3, Constants, SMT
    <2> QED
      BY <1>3, <2>1, Constants, Division
  <1> QED
    BY <1>1, <1>3, <1>4 DEF Window

\* The schedule starts outside the window.
LEMMA WindowNotAtStart == 0 \in Elapsed /\ ~Window(0)
  <1>1. 0 \in Elapsed
    BY Constants, SMT DEF Elapsed
  <1>2. Relative(0) \in Nat /\ Relative(0) <= Delta(0) /\ Delta(0) \in Nat
        /\ HZ * Delta(0) <= Product(0) /\ Product(0) \in Nat
    BY <1>1, Schedule
  <1>3. Product(0) = 0
    <2>1. 0 * MsPerSecond = 0 /\ 0 = JiffyMod * 0 + 0 /\ 0 \in 0 .. JiffyMod - 1
      BY Constants, SMT
    <2> QED
      BY <2>1, Constants, Division DEF Product
  <1>4. SUFFICES ASSUME Relative(0) >= offset - magic_offset PROVE FALSE
    BY <1>1, WindowInterval
  <1> DEFINE d == Delta(0)
             o == offset - magic_offset
  <1>5. d >= o /\ d \in Nat /\ o \in Nat /\ HZ * d <= 0 /\ HZ * o >= MsPerSecond
    BY <1>2, <1>3, <1>4, WindowInterval, SMT
  <1> HIDE DEF d, o
  <1>6. HZ * o <= HZ * d /\ HZ * o \in Int /\ HZ * d \in Int
    BY <1>5, Constants, Times
  <1> QED
    BY <1>5, <1>6, Constants, SMT

\* When a window opens none of it has passed, and it closes before a probe is over.
LEMMA WindowOpens ==
    ASSUME NEW e \in Elapsed, Window(e)
    PROVE  PassedAt(e, 0)
  <1> DEFINE x == Product(e)
             d == Delta(e)
             r == Relative(e)
             o == offset - magic_offset
             z == d - r + o
  <1>1. x \in Nat /\ d \in Nat /\ r \in Nat /\ HZ * d <= x
    BY Schedule
  <1>2. r >= o /\ o \in Nat
    BY WindowInterval
  <1> HIDE DEF x, d, r, o
  <1>3. z \in Int /\ z <= d
    BY <1>1, <1>2, SMT
  <1> HIDE DEF z
  <1>4. HZ * z <= HZ * d /\ HZ * z \in Int /\ HZ * d \in Int
    BY <1>1, <1>3, Constants, Times
  <1>5. MsPerSecond * 0 = 0
    BY Constants, SMT
  <1>6. x >= HZ * z + MsPerSecond * 0
    BY <1>1, <1>4, <1>5, SMT
  <1> QED
    BY <1>6 DEF PassedAt, x, d, r, o, z

LEMMA WindowCloses ==
    ASSUME NEW e \in Elapsed, Window(e), NEW h \in Nat, PassedAt(e, h)
    PROVE  h <= ProbeRttTime
  <1> DEFINE x == Product(e)
             d == Delta(e)
             r == Relative(e)
             o == offset - magic_offset
             z == d - r + o
             P == ProbeRttTime
  <1>1. x \in Nat /\ d \in Nat /\ r \in Nat /\ x < HZ * (d + 1)
    BY Schedule
  <1>2. r <= offset
    BY WindowInterval
  <1>3. P \in Nat /\ MsPerSecond * (P + 1) >= HZ * (magic_offset + 1)
    BY Constants, WindowAssumption
  <1>4. x >= HZ * z + MsPerSecond * h
    BY DEF PassedAt
  <1> SUFFICES ASSUME h >= P + 1 PROVE FALSE
    BY <1>3, SMT
  <1> HIDE DEF x, d, r, P
  <1>5. z \in Int /\ d + 1 <= z + (magic_offset + 1)
    BY <1>1, <1>2, Constants, SMT
  <1> HIDE DEF z
  <1>6. /\ MsPerSecond * (P + 1) <= MsPerSecond * h
        /\ MsPerSecond * h \in Int /\ MsPerSecond * (P + 1) \in Int
    BY <1>3, Constants, Times
  <1>7. /\ HZ * (d + 1) <= HZ * (z + (magic_offset + 1))
        /\ HZ * (z + (magic_offset + 1)) = HZ * z + HZ * (magic_offset + 1)
    BY <1>1, <1>5, Constants, Times
  <1>8. HZ * (d + 1) \in Int /\ HZ * z \in Int /\ HZ * (magic_offset + 1) \in Int
    BY <1>1, <1>5, Constants, Times
  <1> QED
    BY <1>1, <1>3, <1>4, <1>6, <1>7, <1>8, SMT

\* What has passed for longer has passed for less.
LEMMA PassedLess ==
    ASSUME NEW e \in Elapsed, NEW h \in Nat, PassedAt(e, h), NEW k \in Nat, k <= h
    PROVE  PassedAt(e, k)
  <1> DEFINE x == Product(e)
             z == Delta(e) - Relative(e) + (offset - magic_offset)
  <1>1. x \in Nat /\ z \in Int
    <2>1. x \in Nat /\ Delta(e) \in Nat /\ Relative(e) \in Nat
      BY Schedule
    <2> QED
      BY <2>1, Constants, SMT
  <1>2. x >= HZ * z + MsPerSecond * h
    BY DEF PassedAt
  <1> HIDE DEF x, z
  <1>3. /\ MsPerSecond * k <= MsPerSecond * h /\ HZ * z \in Int
        /\ MsPerSecond * k \in Int /\ MsPerSecond * h \in Int
    BY <1>1, Constants, Times
  <1>4. x >= HZ * z + MsPerSecond * k
    BY <1>1, <1>2, <1>3, SMT
  <1> QED
    BY <1>4 DEF PassedAt, x, z

\* The product grows by a jiffy's worth, unless it wraps and starts again from less.
LEMMA ProductTicks ==
    ASSUME NEW e \in Elapsed, e + 1 \in Elapsed
    PROVE  Product(e + 1) = Product(e) + MsPerSecond \/ Product(e + 1) < MsPerSecond
  <1> DEFINE J == JiffyMod
             M == MsPerSecond
             w == e * M
             q == w \div J
             x == Product(e)
             y == Product(e + 1)
  <1>1. J \in Nat \ {0} /\ M \in Nat \ {0} /\ e \in Nat
    BY Constants, SMT DEF Elapsed
  <1>2. w \in Nat /\ (e + 1) * M = w + M
    BY <1>1, SMT
  <1>3. x = w % J /\ y = (w + M) % J
    BY <1>2 DEF Product
  <1> HIDE DEF w, x, y
  <1>4. q \in Nat /\ x \in Nat /\ x < J /\ w = J * q + x
    BY <1>1, <1>2, <1>3, DivMod
  <1>5. y \in Nat /\ y < J
    <2>1. w + M \in Nat
      BY <1>1, <1>2, SMT
    <2> QED
      BY <1>1, <1>3, <2>1, DivMod
  <1> HIDE DEF q, J, M
  <1>6. CASE x + M < J
    <2>1. x + M \in 0 .. J - 1 /\ w + M = J * q + (x + M) /\ w + M \in Int /\ q \in Int
      <3> DEFINE v == J * q
      <3>1. v \in Int /\ w = v + x
        BY <1>1, <1>4, SMT
      <3> HIDE DEF v
      <3>2. x + M \in 0 .. J - 1 /\ w + M = v + (x + M) /\ w + M \in Int /\ q \in Int
        BY <1>1, <1>2, <1>4, <1>6, <3>1, SMT
      <3> QED
        BY <3>2 DEF v
    <2> DEFINE u == w + M
               v == x + M
    <2>2. v \in 0 .. J - 1 /\ u = J * q + v /\ u \in Int /\ q \in Int /\ J \in Nat \ {0}
      BY <1>1, <2>1
    <2> HIDE DEF u, v
    <2>3. u % J = v
      BY <2>2, Division
    <2>4. y = x + M
      BY <1>3, <2>3 DEF u, v
    <2> QED
      BY <2>4 DEF x, y, M
  <1>7. CASE x + M >= J /\ M < J
    <2>1. /\ x + M - J \in 0 .. J - 1 /\ w + M = J * (q + 1) + (x + M - J)
          /\ w + M \in Int /\ q + 1 \in Int
      <3> DEFINE v == J * q
      <3>1. v \in Int /\ w = v + x /\ J * (q + 1) = v + J
        BY <1>1, <1>4, SMT
      <3> HIDE DEF v
      <3>2. /\ x + M - J \in 0 .. J - 1 /\ w + M = (v + J) + (x + M - J)
            /\ w + M \in Int /\ q + 1 \in Int
        BY <1>1, <1>2, <1>4, <1>7, <3>1, SMT
      <3> QED
        BY <3>1, <3>2
    <2> DEFINE u == w + M
               v == x + M - J
               p == q + 1
    <2>2. v \in 0 .. J - 1 /\ u = J * p + v /\ u \in Int /\ p \in Int /\ J \in Nat \ {0}
      BY <1>1, <2>1
    <2> HIDE DEF u, v, p
    <2>3. u % J = v
      BY <2>2, Division
    <2>4. y = x + M - J
      BY <1>3, <2>3 DEF u, v
    <2>5. y < M
      BY <1>1, <1>3, <1>4, <2>4, SMT
    <2> QED
      BY <2>5 DEF y, M
  <1>8. CASE M >= J
    <2>1. y < M
      BY <1>1, <1>5, <1>8, SMT
    <2> QED
      BY <2>1 DEF y, M
  <1> QED
    BY <1>1, <1>4, <1>6, <1>7, <1>8, SMT

\* A window in which a jiffy passes has passed for one jiffy more: neither the
\* product nor the period can start again within it.
LEMMA PassedTicks ==
    ASSUME NEW e \in Elapsed, e + 1 \in Elapsed, Window(e), Window(e + 1),
           NEW h \in Nat, PassedAt(e, h)
    PROVE  PassedAt(e + 1, h + 1)
  <1> DEFINE M == MsPerSecond
             o == offset - magic_offset
             x == Product(e)
             d == Delta(e)
             r == Relative(e)
             n == d \div PERIOD
             x2 == Product(e + 1)
             d2 == Delta(e + 1)
             r2 == Relative(e + 1)
             n2 == d2 \div PERIOD
  <1>1. /\ x \in Nat /\ d \in Nat /\ r \in Nat /\ n \in Nat /\ r < PERIOD
        /\ HZ * d <= x /\ x < HZ * (d + 1) /\ d = PERIOD * n + r
    BY Schedule
  <1>2. /\ x2 \in Nat /\ d2 \in Nat /\ r2 \in Nat /\ n2 \in Nat /\ r2 < PERIOD /\ r2 <= d2
        /\ HZ * d2 <= x2 /\ x2 < HZ * (d2 + 1) /\ d2 = PERIOD * n2 + r2
    BY Schedule
  <1>3. r2 >= o /\ o \in Nat /\ HZ * o >= M
    BY WindowInterval
  <1>4. x >= HZ * (d - r + o) + M * h
    BY DEF PassedAt
  <1>5. x2 = x + M \/ x2 < M
    BY ProductTicks
  <1>6. HZ \in Nat \ {0} /\ M \in Nat \ {0} /\ PERIOD \in Nat \ {0}
    BY Constants
  <1>7. SUFFICES x2 >= HZ * (d2 - r2 + o) + M * (h + 1)
    BY DEF PassedAt
  <1> HIDE DEF M, o, x, d, r, n, x2, d2, r2, n2
  <1>8. /\ HZ * o \in Int /\ HZ * o <= HZ * r2 /\ HZ * r2 \in Int
        /\ HZ * r2 <= HZ * d2 /\ HZ * d2 \in Int /\ HZ * d \in Int
    BY <1>1, <1>2, <1>3, <1>6, Times
  <1>9. x2 = x + M
    BY <1>2, <1>3, <1>5, <1>6, <1>8, SMT
  <1>10. PERIOD * n \in Int /\ PERIOD * n2 \in Int
    BY <1>1, <1>2, <1>6, SMT
  <1>11. ~(n2 <= n - 1)
    <2> SUFFICES ASSUME n2 <= n - 1 PROVE FALSE
      OBVIOUS
    <2>1. PERIOD * (n2 + 1) <= PERIOD * n /\ PERIOD * (n2 + 1) = PERIOD * n2 + PERIOD
      <3>1. n2 + 1 <= n /\ n2 + 1 \in Int
        BY <1>1, <1>2, SMT
      <3> QED
        BY <1>1, <1>2, <1>6, <3>1, Times
    <2>2. d2 + 1 <= d
      BY <1>1, <1>2, <1>6, <1>10, <2>1, SMT
    <2>3. HZ * (d2 + 1) <= HZ * d /\ HZ * (d2 + 1) \in Int
      BY <1>1, <1>2, <1>6, <2>2, Times
    <2> QED
      BY <1>1, <1>2, <1>6, <1>8, <1>9, <2>3, SMT
  <1>12. ~(n2 >= n + 1)
    <2> SUFFICES ASSUME n2 >= n + 1 PROVE FALSE
      OBVIOUS
    <2>1. PERIOD * (n + 1) <= PERIOD * n2 /\ PERIOD * (n + 1) = PERIOD * n + PERIOD
      BY <1>1, <1>2, <1>6, Times
    <2>2. (d + 1) + r2 <= d2
      BY <1>1, <1>2, <1>6, <1>10, <2>1, SMT
    <2>3. /\ HZ * ((d + 1) + r2) <= HZ * d2 /\ HZ * (d + 1) \in Int
          /\ HZ * ((d + 1) + r2) = HZ * (d + 1) + HZ * r2
      BY <1>1, <1>2, <1>6, <2>2, Times
    <2> QED
      BY <1>1, <1>2, <1>3, <1>6, <1>8, <1>9, <2>3, SMT
  <1>13. n2 = n
    BY <1>1, <1>2, <1>11, <1>12, SMT
  <1>14. d2 - r2 = d - r
    BY <1>1, <1>2, <1>10, <1>13, SMT
  <1> DEFINE z == HZ * (d - r + o)
  <1>15. z \in Int /\ M * h \in Int /\ M * (h + 1) = M * h + M
    <2>1. d - r + o \in Int
      BY <1>1, <1>3, SMT
    <2> QED
      BY <1>6, <2>1, Times
  <1>16. x >= z + M * h
    BY <1>4
  <1> HIDE DEF z
  <1>17. x2 >= z + M * (h + 1)
    BY <1>1, <1>6, <1>9, <1>15, <1>16, SMT
  <1> QED
    BY <1>14, <1>17 DEF z

-----------------------------------------------------------------------------
(* The stamp of a probe                                                     *)

LEMMA WrapsOnce ==
    ASSUME NEW x \in Int, -JiffyMod <= x, x < 2 * JiffyMod
    PROVE  x % JiffyMod = IF x < 0 THEN x + JiffyMod
                          ELSE IF x < JiffyMod THEN x ELSE x - JiffyMod
  <1> DEFINE J == JiffyMod
  <1>1. J \in Nat \ {0}
    BY Constants
  <1>2. -J <= x /\ x < 2 * J
    OBVIOUS
  <1> HIDE DEF J
  <1>3. CASE x < 0
    <2> DEFINE q == -1
               y == x + J
    <2>1. y \in 0 .. J - 1 /\ q \in Int /\ x = J * q + y
      BY <1>1, <1>2, <1>3, SMT
    <2> HIDE DEF q, y
    <2>2. x % J = y
      BY <1>1, <2>1, Division
    <2> QED
      BY <1>3, <2>2 DEF y, J
  <1>4. CASE x >= 0 /\ x < J
    <2>1. x \in 0 .. J - 1 /\ x = J * 0 + x
      BY <1>1, <1>4, SMT
    <2>2. x % J = x
      BY <1>1, <2>1, Division
    <2> QED
      BY <1>1, <1>4, <2>2, SMT DEF J
  <1>5. CASE x >= J
    <2> DEFINE q == 1
               y == x - J
    <2>1. y \in 0 .. J - 1 /\ q \in Int /\ x = J * q + y
      BY <1>1, <1>2, <1>5, SMT
    <2> HIDE DEF q, y
    <2>2. x % J = y
      BY <1>1, <2>1, Division
    <2>3. ~(x < 0) /\ ~(x < J)
      BY <1>1, <1>5, SMT
    <2> QED
      BY <2>2, <2>3 DEF y, J
  <1> QED
    BY <1>1, <1>3, <1>4, <1>5, SMT

\* The stamp at time t of a probe that has been held for so many jiffies.
StampOf(t, held) == (t - held + ProbeRttTime) % JiffyMod

\* It is not over as long as they are at most ProbeRttTime,
LEMMA StampNotOver ==
    ASSUME now \in Elapsed, NEW held \in 0 .. ProbeRttTime
    PROVE  ~Live!After(now, StampOf(now, held))
  <1> DEFINE J == JiffyMod
             P == ProbeRttTime
             x == now - held + P
             s == x % J
             y == now - s
  <1>1. J \in Nat /\ J >= 1 /\ P \in Nat /\ 2 * P < J /\ now \in 0 .. J - 1 /\ held \in 0 .. P
    BY Constants DEF Elapsed
  <1>2. x \in Int /\ 0 <= x /\ x < 2 * J
    BY <1>1, SMT
  <1>3. s = IF x < 0 THEN x + J ELSE IF x < J THEN x ELSE x - J
    BY <1>1, <1>2, WrapsOnce
  <1> HIDE DEF s
  <1>4. y \in Int /\ -J <= y /\ y < 2 * J
    BY <1>1, <1>2, <1>3, SMT
  <1>5. y % J = IF y < 0 THEN y + J ELSE IF y < J THEN y ELSE y - J
    BY <1>1, <1>4, WrapsOnce
  <1> DEFINE z == y % J
  <1> HIDE DEF z
  <1>6. z = 0 \/ z > J \div 2
    BY <1>1, <1>2, <1>3, <1>5, SMT DEF z
  <1>7. ~(z \in 1 .. J \div 2)
    BY <1>1, <1>6, SMT
  <1> QED
    BY <1>7 DEF Live!After, StampOf, z, s

\* and a jiffy later it is the same.
LEMMA StampTicks ==
    ASSUME now \in Elapsed, NEW held \in Nat, held + 1 \in 0 .. ProbeRttTime
    PROVE  StampOf((now + 1) % JiffyMod, held + 1) = StampOf(now, held)
  <1> DEFINE J == JiffyMod
             P == ProbeRttTime
             n == (now + 1) % J
             x == now - held + P
             y == n - (held + 1) + P
  <1>1. J \in Nat /\ J >= 1 /\ P \in Nat /\ 2 * P < J /\ now \in 0 .. J - 1 /\ held + 1 \in 0 .. P
    BY Constants DEF Elapsed
  <1>2. n = IF now + 1 < J THEN now + 1 ELSE now + 1 - J
    BY <1>1, WrapsOnce
  <1> HIDE DEF n
  <1>3. x \in Int /\ 0 <= x /\ x < 2 * J /\ y \in Int /\ -J <= y /\ y < 2 * J
    BY <1>1, <1>2, SMT
  <1>4. /\ x % J = IF x < 0 THEN x + J ELSE IF x < J THEN x ELSE x - J
        /\ y % J = IF y < 0 THEN y + J ELSE IF y < J THEN y ELSE y - J
    BY <1>1, <1>3, WrapsOnce
  <1>5. x % J = y % J
    BY <1>1, <1>2, <1>3, <1>4, SMT
  <1> QED
    BY <1>5 DEF StampOf, n

\* The jiffies since the start of the schedule, now and a jiffy later.
elapsed == (now - init_stamp) % JiffyMod
Clocks == now \in Elapsed /\ init_stamp \in Elapsed

LEMMA ElapsedTicks ==
    ASSUME Clocks
    PROVE  /\ elapsed \in Elapsed /\ (now + 1) % JiffyMod \in Elapsed
           /\ LET later == (((now + 1) % JiffyMod) - init_stamp) % JiffyMod
              IN  later = 0 \/ (later = elapsed + 1 /\ later \in Elapsed)
  <1> DEFINE J == JiffyMod
             n == (now + 1) % J
             x == now - init_stamp
             y == n - init_stamp
  <1>1. J \in Nat /\ J >= 1 /\ now \in 0 .. J - 1 /\ init_stamp \in 0 .. J - 1
    BY Constants DEF Clocks, Elapsed
  <1>2. n = IF now + 1 < J THEN now + 1 ELSE now + 1 - J
    BY <1>1, WrapsOnce
  <1> HIDE DEF n
  <1>3. x \in Int /\ -J <= x /\ x < 2 * J /\ y \in Int /\ -J <= y /\ y < 2 * J
    BY <1>1, <1>2, SMT
  <1>4. /\ x % J = IF x < 0 THEN x + J ELSE IF x < J THEN x ELSE x - J
        /\ y % J = IF y < 0 THEN y + J ELSE IF y < J THEN y ELSE y - J
    BY <1>1, <1>3, WrapsOnce
  <1>5. /\ x % J \in 0 .. J - 1 /\ n \in 0 .. J - 1
        /\ y % J = 0 \/ (y % J = (x % J) + 1 /\ y % J \in 0 .. J - 1)
    BY <1>1, <1>2, <1>3, <1>4, SMT
  <1> QED
    BY <1>5 DEF elapsed, Elapsed, n

LEMMA InWindowIsWindow == InWindow <=> Window(elapsed)
  BY DEF InWindow, relative_time, delta_since_start, Window, Relative, Delta, Product, elapsed

-----------------------------------------------------------------------------
(* What a callback may do to a flow                                         *)

\* What the proof needs to know of a flow's record.
IsFlow(s) ==
    /\ {"mode", "local_trigger", "probe_rtt_done_stamp", "held"} \subseteq DOMAIN s
    /\ s.local_trigger \in BOOLEAN /\ s.held \in Nat

\* The stamp of a probe is ProbeRttTime after it was set.
HeldStamp(s, t) ==
    s.mode = "PROBE_RTT" /\ s.probe_rtt_done_stamp # 0 /\ s.held <= ProbeRttTime
        => s.probe_rtt_done_stamp = StampOf(t, s.held)

\* A flow that has answered the window is probing, since no longer than the window
\* has been open, or the window is over and the flow has forgotten it.
Probing(s, e) ==
    s.mode = "PROBE_RTT" /\ s.local_trigger /\ (Window(e) => PassedAt(e, s.held))
Done(s, e) == ~Window(e) /\ (s.local_trigger => s.mode = "STARTUP")
Answered(s, e) == Probing(s, e) \/ Done(s, e)

\* The step from s to t, at one moment, keeps all this; a probe it begins has been
\* held for no time.
Step(s, t) ==
    /\ IsFlow(t)
    /\ HeldStamp(s, now) => HeldStamp(t, now)
    /\ HeldStamp(s, now) /\ Answered(s, elapsed) => Answered(t, elapsed)
    /\ Done(s, elapsed) => Done(t, elapsed)
    /\ t.mode = "PROBE_RTT" => t.held = 0 \/ (s.mode = "PROBE_RTT" /\ t.held = s.held)

\* A step that touches none of it.
Same(s, t) ==
    /\ DOMAIN t = DOMAIN s /\ t.mode = s.mode /\ t.local_trigger = s.local_trigger
    /\ t.probe_rtt_done_stamp = s.probe_rtt_done_stamp /\ t.held = s.held

LEMMA SameStep ==
    ASSUME NEW s, IsFlow(s), NEW t, Same(s, t)
    PROVE  Step(s, t)
  BY DEF IsFlow, Same, Step, HeldStamp, Answered, Probing, Done

LEMMA SameSteps ==
    ASSUME NEW s, NEW t, NEW u, Same(s, t), Same(t, u)
    PROVE  Same(s, u)
  BY DEF Same

LEMMA Steps ==
    ASSUME NEW s, NEW t, NEW u, Step(s, t), Step(t, u)
    PROVE  Step(s, u)
  BY DEF Step

LEMMA UpdateBw ==
    ASSUME NEW s, IsFlow(s), NEW rs, NEW max
    PROVE  Same(s, Live!leocc_update_bw(s, rs, max))
  BY SMT DEF IsFlow, Same, Live!leocc_update_bw

LEMMA UpdateCyclePhaseSame ==
    ASSUME NEW s, IsFlow(s), NEW rs
    PROVE  Same(s, Live!leocc_update_cycle_phase(s, rs))
  BY SMT DEF IsFlow, Same, Live!leocc_update_cycle_phase, Live!leocc_advance_cycle_phase

LEMMA CheckFullBwSame ==
    ASSUME NEW s, IsFlow(s), NEW rs
    PROVE  Same(s, Live!leocc_check_full_bw_reached(s, rs))
  BY SMT DEF IsFlow, Same, Live!leocc_check_full_bw_reached

LEMMA UpdateGainsSame ==
    ASSUME NEW s, IsFlow(s)
    PROVE  Same(s, Live!leocc_update_gains(s))
  BY SMT DEF IsFlow, Same, Live!leocc_update_gains

LEMMA TakeMinRttSame ==
    ASSUME NEW s, IsFlow(s), NEW rs, NEW expired
    PROVE  Same(s, Live!TakeMinRtt(s, rs, expired))
  BY SMT DEF IsFlow, Same, Live!TakeMinRtt

\* The flow leaves its mode, for CRUISE or STARTUP, and keeps the rest.
Leaves(s, t) ==
    /\ DOMAIN t = DOMAIN s /\ t.local_trigger = s.local_trigger
    /\ t.probe_rtt_done_stamp = s.probe_rtt_done_stamp /\ t.held = s.held
    /\ t.mode \in {"STARTUP", "CRUISE"}

LEMMA ResetProbeBwModeLeaves ==
    ASSUME NEW s, IsFlow(s), NEW r
    PROVE  Leaves(s, Live!leocc_reset_probe_bw_mode(s, r))
  <1> DEFINE t == [s EXCEPT !.mode = "CRUISE", !.cycle_idx = CycleLen - 1 - r]
             u == Live!leocc_advance_cycle_phase(t)
  <1>1. Leaves(s, t)
    BY SMT DEF IsFlow, Leaves
  <1> HIDE DEF t
  <1>2. IsFlow(t)
    BY <1>1 DEF IsFlow, Leaves
  <1>3. Same(t, u)
    BY <1>2, SMT DEF IsFlow, Same, Live!leocc_advance_cycle_phase
  <1>4. Leaves(s, u)
    BY <1>1, <1>3 DEF Leaves, Same
  <1> QED
    BY <1>4 DEF t, Live!leocc_reset_probe_bw_mode

LEMMA ResetModeLeaves ==
    ASSUME NEW s, IsFlow(s), NEW r
    PROVE  LET t == Live!leocc_reset_mode(s, r)
           IN  Leaves(s, t) /\ (t.local_trigger => t.mode = "STARTUP")
  <1> DEFINE t == Live!leocc_reset_mode(s, r)
  <1>1. CASE ~s.full_bw_reached \/ s.local_trigger
    <2>1. t = Live!leocc_reset_startup_mode(s)
      BY <1>1 DEF Live!leocc_reset_mode
    <2> HIDE DEF t
    <2>2. Leaves(s, t) /\ t.mode = "STARTUP"
      BY <2>1, SMT DEF IsFlow, Leaves, Live!leocc_reset_startup_mode
    <2> QED
      BY <2>2 DEF t
  <1>2. CASE ~(~s.full_bw_reached \/ s.local_trigger)
    <2>1. t = Live!leocc_reset_probe_bw_mode(s, r)
      BY <1>2 DEF Live!leocc_reset_mode
    <2> HIDE DEF t
    <2>2. Leaves(s, t)
      BY <2>1, ResetProbeBwModeLeaves
    <2> QED
      BY <1>2, <2>2 DEF t, Leaves
  <1> QED
    BY <1>1, <1>2

\* DRAIN, which the flow enters from STARTUP, forgets the reconfiguration.
LEMMA CheckDrainStep ==
    ASSUME NEW s, IsFlow(s), NEW rs, NEW r
    PROVE  Step(s, Live!leocc_check_drain(s, rs, r))
  <1> DEFINE d == Live!EnterDrain(s)
             t == Live!leocc_check_drain(s, rs, r)
  <1>1. IsFlow(d) /\ Step(s, d)
    <2>1. CASE s.mode = "STARTUP" /\ s.full_bw_reached
      <3>1. /\ DOMAIN d = DOMAIN s /\ d.mode = "DRAIN" /\ d.local_trigger = FALSE
            /\ d.held = s.held
        BY <2>1, SMT DEF IsFlow, Live!EnterDrain
      <3> HIDE DEF d
      <3> QED
        BY <2>1, <3>1 DEF IsFlow, Step, HeldStamp, Answered, Probing, Done
    <2>2. CASE ~(s.mode = "STARTUP" /\ s.full_bw_reached)
      <3>1. d = s
        BY <2>2 DEF Live!EnterDrain
      <3> QED
        BY <3>1, SameStep DEF Same
    <2> QED
      BY <2>1, <2>2
  <1>2. t = IF d.mode = "DRAIN" /\ rs.drained THEN Live!leocc_reset_probe_bw_mode(d, r) ELSE d
    BY DEF Live!leocc_check_drain
  <1> HIDE DEF d, t
  <1>3. CASE d.mode = "DRAIN" /\ rs.drained
    <2>1. Leaves(d, t)
      BY <1>1, <1>2, <1>3, ResetProbeBwModeLeaves
    <2>2. Step(d, t)
      BY <1>1, <1>3, <2>1 DEF IsFlow, Leaves, Step, HeldStamp, Answered, Probing, Done
    <2>3. Step(s, t)
      BY <1>1, <2>2, Steps
    <2> QED
      BY <2>3 DEF t
  <1>4. CASE ~(d.mode = "DRAIN" /\ rs.drained)
    BY <1>1, <1>2, <1>4 DEF t
  <1> QED
    BY <1>3, <1>4

\* A probe lasts longer than ProbeRttTime, and so longer than the window.
LEMMA ProbeDoneStep ==
    ASSUME Clocks, NEW s, IsFlow(s), NEW r
    PROVE  Step(s, Live!leocc_check_probe_rtt_done(s, r))
  <1> DEFINE t == Live!leocc_check_probe_rtt_done(s, r)
             a == [s EXCEPT !.snd_cwnd = Live!Max2(@, s.prior_cwnd)]
             b == Live!leocc_reset_mode(a, r)
  <1>1. CASE s.probe_rtt_done_stamp # 0 /\ Live!After(now, s.probe_rtt_done_stamp)
    <2>1. Same(s, a)
      BY SMT DEF IsFlow, Same
    <2>2. t = IF b.local_trigger THEN [b EXCEPT !.bw = b.reconfiguration_max_bw] ELSE b
      BY <1>1 DEF Live!leocc_check_probe_rtt_done
    <2> HIDE DEF a, t
    <2>3. IsFlow(a)
      BY <2>1 DEF IsFlow, Same
    <2>4. Leaves(a, b) /\ (b.local_trigger => b.mode = "STARTUP")
      BY <2>3, ResetModeLeaves
    <2> HIDE DEF b
    <2>5. Same(b, t)
      BY <2>2, <2>3, <2>4, SMT DEF IsFlow, Leaves, Same
    <2>6. Leaves(s, t) /\ (t.local_trigger => t.mode = "STARTUP") /\ IsFlow(t)
      BY <2>1, <2>4, <2>5 DEF IsFlow, Leaves, Same
    <2>7. t.mode # "PROBE_RTT"
      BY <2>6 DEF Leaves
    <2>8. ASSUME HeldStamp(s, now), Answered(s, elapsed)
          PROVE  Done(t, elapsed)
      <3>1. CASE Probing(s, elapsed)
        <4>1. ~(s.held <= ProbeRttTime)
          <5> SUFFICES ASSUME s.held <= ProbeRttTime PROVE FALSE
            OBVIOUS
          <5>1. s.held \in 0 .. ProbeRttTime
            BY Constants, SMT DEF IsFlow
          <5>2. s.probe_rtt_done_stamp = StampOf(now, s.held)
            BY <1>1, <2>8, <3>1 DEF HeldStamp, Probing
          <5> QED
            BY <1>1, <5>1, <5>2, StampNotOver DEF Clocks
        <4>2. ~Window(elapsed)
          <5> SUFFICES ASSUME Window(elapsed) PROVE FALSE
            OBVIOUS
          <5>1. elapsed \in Elapsed /\ PassedAt(elapsed, s.held) /\ s.held \in Nat
            BY <3>1, ElapsedTicks DEF Probing, IsFlow
          <5> QED
            BY <4>1, <5>1, WindowCloses
        <4> QED
          BY <2>6, <4>2 DEF Done
      <3>2. CASE Done(s, elapsed)
        BY <2>6, <3>2 DEF Done
      <3> QED
        BY <2>8, <3>1, <3>2 DEF Answered
    <2>9. Done(s, elapsed) => Done(t, elapsed)
      BY <2>6 DEF Done
    <2>10. Step(s, t)
      BY <2>6, <2>7, <2>8, <2>9 DEF Step, HeldStamp, Answered
    <2> QED
      BY <2>10 DEF t
  <1>2. CASE ~(s.probe_rtt_done_stamp # 0 /\ Live!After(now, s.probe_rtt_done_stamp))
    <2>1. t = s
      BY <1>2 DEF Live!leocc_check_probe_rtt_done
    <2> QED
      BY <2>1, SameStep DEF Same
  <1> QED
    BY <1>1, <1>2

\* A probe begins in CRUISE only, where no flow that has answered still has the
\* trigger.
LEMMA EnterProbeRttStep ==
    ASSUME NEW s, IsFlow(s), NEW expired
    PROVE  Step(s, Live!EnterProbeRtt(s, expired))
  <1> DEFINE t == Live!EnterProbeRtt(s, expired)
             b == Live!BeginEpisode(s)
             c == [b EXCEPT !.mode = "PROBE_RTT", !.probe_rtt_done_stamp = 0, !.held = 0]
  <1>1. CASE ~s.idle_restart /\ s.mode = "CRUISE" /\ (expired \/ s.local_trigger)
    <2>1. Same(s, b)
      BY SMT DEF IsFlow, Same, Live!BeginEpisode
    <2>2. t = Live!leocc_save_cwnd(c)
      BY <1>1 DEF Live!EnterProbeRtt
    <2> HIDE DEF b, t
    <2>3. /\ DOMAIN c = DOMAIN s /\ c.mode = "PROBE_RTT" /\ c.probe_rtt_done_stamp = 0
          /\ c.held = 0 /\ c.local_trigger = s.local_trigger
      BY <2>1, SMT DEF IsFlow, Same
    <2> HIDE DEF c
    <2>4. Same(c, t)
      BY <2>2, <2>3, SMT DEF IsFlow, Same, Live!leocc_save_cwnd
    <2>5. Step(s, t)
      <3>1. /\ DOMAIN t = DOMAIN s /\ t.mode = "PROBE_RTT" /\ t.probe_rtt_done_stamp = 0
            /\ t.held = 0 /\ t.local_trigger = s.local_trigger /\ 0 \in Nat
        BY <2>3, <2>4, SMT DEF Same
      <3> QED
        BY <1>1, <3>1 DEF IsFlow, Step, HeldStamp, Answered, Probing, Done
    <2> QED
      BY <2>5 DEF t
  <1>2. CASE ~(~s.idle_restart /\ s.mode = "CRUISE" /\ (expired \/ s.local_trigger))
    <2>1. t = s
      BY <1>2 DEF Live!EnterProbeRtt
    <2> QED
      BY <2>1, SameStep DEF Same
  <1> QED
    BY <1>1, <1>2

LEMMA InProbeRttStep ==
    ASSUME Clocks, NEW s, IsFlow(s), NEW rs, NEW r
    PROVE  Step(s, Live!InProbeRtt(s, rs, r))
  <1> DEFINE t == Live!InProbeRtt(s, rs, r)
             done == s.probe_rtt_round_done \/ s.round_start
             a == [s EXCEPT !.probe_rtt_round_done = done]
             c == IF Live!After(now, s.probe_rtt_done_stamp)
                  THEN [a EXCEPT !.min_rtt_us = rs.rtt % RttMod, !.min_rtt_stamp = now]
                  ELSE a
  <1>1. CASE t = s
    BY <1>1, SameStep DEF Same
  <1>2. CASE /\ s.mode = "PROBE_RTT"
             /\ t = [s EXCEPT !.probe_rtt_done_stamp = (now + ProbeRttTime) % JiffyMod,
                              !.probe_rtt_round_done = FALSE,
                              !.held = 0, !.round_held = FALSE]
    <2> HIDE DEF t
    <2>1. /\ DOMAIN t = DOMAIN s /\ t.mode = "PROBE_RTT" /\ t.held = 0
          /\ t.local_trigger = s.local_trigger
          /\ t.probe_rtt_done_stamp = (now + ProbeRttTime) % JiffyMod
      BY <1>2, SMT DEF IsFlow
    <2>2. 0 \in Nat /\ now - 0 + ProbeRttTime = now + ProbeRttTime
      BY Constants, SMT DEF Clocks, Elapsed
    <2>3. HeldStamp(t, now)
      BY <2>1, <2>2 DEF HeldStamp, StampOf
    <2>4. ASSUME Probing(s, elapsed) PROVE Probing(t, elapsed)
      <3>1. ASSUME Window(elapsed) PROVE PassedAt(elapsed, 0)
        BY <3>1, ElapsedTicks, WindowOpens
      <3> QED
        BY <2>1, <2>4, <3>1 DEF Probing
    <2>5. ASSUME Done(s, elapsed) PROVE Done(t, elapsed)
      BY <1>2, <2>1, <2>5 DEF Done
    <2>6. Step(s, t)
      BY <2>1, <2>2, <2>3, <2>4, <2>5 DEF IsFlow, Step, Answered
    <2> QED
      BY <2>6 DEF t
  <1>3. CASE t = Live!leocc_check_probe_rtt_done(c, r)
    <2> HIDE DEF t
    <2>1. Same(s, a)
      BY SMT DEF IsFlow, Same
    <2> HIDE DEF a
    <2>2. Same(a, c)
      BY <2>1, SMT DEF IsFlow, Same
    <2> HIDE DEF c
    <2>3. Step(s, c) /\ IsFlow(c)
      BY <2>1, <2>2, SameSteps, SameStep DEF Step
    <2>4. Step(s, t)
      BY <1>3, <2>3, ProbeDoneStep, Steps
    <2> QED
      BY <2>4 DEF t
  <1>4. \/ t = s
        \/ /\ s.mode = "PROBE_RTT"
           /\ t = [s EXCEPT !.probe_rtt_done_stamp = (now + ProbeRttTime) % JiffyMod,
                            !.probe_rtt_round_done = FALSE,
                              !.held = 0, !.round_held = FALSE]
        \/ t = Live!leocc_check_probe_rtt_done(c, r)
    <2>1. CASE s.mode # "PROBE_RTT"
      BY <2>1 DEF Live!InProbeRtt
    <2>2. CASE s.mode = "PROBE_RTT" /\ s.probe_rtt_done_stamp = 0
      BY <2>2 DEF Live!InProbeRtt
    <2>3. CASE s.mode = "PROBE_RTT" /\ s.probe_rtt_done_stamp # 0 /\ ~done
      BY <2>3 DEF Live!InProbeRtt
    <2>4. CASE s.mode = "PROBE_RTT" /\ s.probe_rtt_done_stamp # 0 /\ done
      BY <2>4 DEF Live!InProbeRtt
    <2> QED
      BY <2>1, <2>2, <2>3, <2>4
  <1> QED
    BY <1>1, <1>2, <1>3, <1>4

LEMMA UpdateMinRttStep ==
    ASSUME Clocks, NEW s, IsFlow(s), NEW rs, NEW r
    PROVE  Step(s, Live!leocc_update_min_rtt(s, rs, r))
  <1> DEFINE expired == Live!FilterExpired(s)
             a == Live!TakeMinRtt(s, rs, expired)
             b == Live!EnterProbeRtt(a, expired)
             c == Live!InProbeRtt(b, rs, r)
             t == Live!leocc_update_min_rtt(s, rs, r)
  <1>1. t = IF rs.delivered > 0 THEN [c EXCEPT !.idle_restart = FALSE] ELSE c
    BY DEF Live!leocc_update_min_rtt
  <1> HIDE DEF t
  <1>2. Step(s, a) /\ IsFlow(a)
    BY TakeMinRttSame, SameStep DEF Step
  <1> HIDE DEF a
  <1>3. Step(s, b) /\ IsFlow(b)
    BY <1>2, EnterProbeRttStep, Steps DEF Step
  <1> HIDE DEF b
  <1>4. Step(s, c) /\ IsFlow(c)
    BY <1>3, InProbeRttStep, Steps DEF Step
  <1> HIDE DEF c
  <1>5. Same(c, t)
    BY <1>1, <1>4, SMT DEF IsFlow, Same
  <1>6. Step(s, t)
    BY <1>4, <1>5, SameStep, Steps
  <1> QED
    BY <1>6 DEF t

LEMMA UpdateModelStep ==
    ASSUME Clocks, NEW s, IsFlow(s), NEW rs, NEW max, NEW r
    PROVE  Step(s, leocc_update_model(s, rs, max, r))
  <1> DEFINE a == UpdateBandwidth(s, rs, max)
             b == UpdateCyclePhase(a, rs)
             c == CheckFullBw(b, rs)
             d == CheckDrain(c, rs, r)
             e == UpdateMinRtt(d, rs, r)
             g == Live!leocc_update_gains(e)
  <1>1. Step(s, a) /\ IsFlow(a)
    BY UpdateBw, SameStep DEF UpdateBandwidth, Step
  <1> HIDE DEF a
  <1>2. Step(s, b) /\ IsFlow(b)
    BY <1>1, UpdateCyclePhaseSame, SameStep, Steps DEF UpdateCyclePhase, Step
  <1> HIDE DEF b
  <1>3. Step(s, c) /\ IsFlow(c)
    BY <1>2, CheckFullBwSame, SameStep, Steps DEF CheckFullBw, Step
  <1> HIDE DEF c
  <1>4. Step(s, d) /\ IsFlow(d)
    BY <1>3, CheckDrainStep, Steps DEF CheckDrain, Step
  <1> HIDE DEF d
  <1>5. Step(s, e) /\ IsFlow(e)
    BY <1>4, UpdateMinRttStep, Steps DEF UpdateMinRtt, Step
  <1> HIDE DEF e
  <1>6. Step(s, g)
    BY <1>5, UpdateGainsSame, SameStep, Steps
  <1> QED
    BY <1>6 DEF a, b, c, d, e, leocc_update_model

LEMMA SetCwndSame ==
    ASSUME NEW s, IsFlow(s), NEW rs
    PROVE  Same(s, SetCwnd(s, rs))
  <1> DEFINE lost == IF rs.losses > 0 THEN Live!Max2(s.snd_cwnd - rs.losses, 1) ELSE s.snd_cwnd
             t == [s EXCEPT !.prev_ca_state = s.ca_state]
             u == CASE s.ca_state = "Recovery" /\ s.prev_ca_state # "Recovery" ->
                         [t EXCEPT !.packet_conservation = TRUE,
                                   !.snd_cwnd = rs.inflight + rs.acked]
                    [] Live!InRecovery(s.prev_ca_state) /\ ~Live!InRecovery(s.ca_state) ->
                         [t EXCEPT !.packet_conservation = FALSE,
                                   !.snd_cwnd = Live!Max2(lost, s.prior_cwnd)]
                    [] OTHER -> [t EXCEPT !.snd_cwnd = lost]
             v == Live!leocc_set_cwnd_to_recover_or_restore(s, rs)
             w == IF v.packet_conservation THEN v ELSE Live!GrowToTarget(v, rs)
             x == IF rs.acked = 0 THEN s ELSE w
             y == Live!CapCwnd(x, rs)
  <1>1. Same(s, t) /\ IsFlow(t)
    BY SMT DEF IsFlow, Same
  <1>2. Same(s, u) /\ IsFlow(u)
    <2> HIDE DEF t, lost
    <2>1. \/ \E p, c : u = [t EXCEPT !.packet_conservation = p, !.snd_cwnd = c]
          \/ \E c : u = [t EXCEPT !.snd_cwnd = c]
      <3>1. CASE s.ca_state = "Recovery" /\ s.prev_ca_state # "Recovery"
        <4>1. u = [t EXCEPT !.packet_conservation = TRUE, !.snd_cwnd = rs.inflight + rs.acked]
          BY <3>1 DEF Live!InRecovery
        <4> QED
          BY <4>1
      <3>2. CASE /\ ~(s.ca_state = "Recovery" /\ s.prev_ca_state # "Recovery")
                 /\ Live!InRecovery(s.prev_ca_state) /\ ~Live!InRecovery(s.ca_state)
        <4>1. u = [t EXCEPT !.packet_conservation = FALSE,
                            !.snd_cwnd = Live!Max2(lost, s.prior_cwnd)]
          BY <3>2
        <4> QED
          BY <4>1
      <3>3. CASE /\ ~(s.ca_state = "Recovery" /\ s.prev_ca_state # "Recovery")
                 /\ ~(Live!InRecovery(s.prev_ca_state) /\ ~Live!InRecovery(s.ca_state))
        <4>1. u = [t EXCEPT !.snd_cwnd = lost]
          BY <3>3
        <4> QED
          BY <4>1
      <3> QED
        BY <3>1, <3>2, <3>3
    <2> HIDE DEF u
    <2>2. Same(t, u)
      <3>1. ASSUME NEW p, NEW c,
                   u = [t EXCEPT !.packet_conservation = p, !.snd_cwnd = c]
            PROVE  Same(t, u)
        BY <1>1, <3>1, SMT DEF IsFlow, Same
      <3>2. ASSUME NEW c, u = [t EXCEPT !.snd_cwnd = c]
            PROVE  Same(t, u)
        BY <1>1, <3>2, SMT DEF IsFlow, Same
      <3> QED
        BY <2>1, <3>1, <3>2, Zenon
    <2> QED
      BY <1>1, <2>2, SameSteps DEF IsFlow, Same
  <1>3. v = IF u.packet_conservation
            THEN [u EXCEPT !.snd_cwnd = Live!Max2(@, rs.inflight + rs.acked)] ELSE u
    BY DEF Live!leocc_set_cwnd_to_recover_or_restore
  <1> HIDE DEF t, u, v
  <1>4. Same(u, v) /\ IsFlow(v)
    BY <1>2, <1>3, SMT DEF IsFlow, Same
  <1>5. Same(s, v)
    BY <1>2, <1>4, SameSteps
  <1>6. Same(v, w) /\ IsFlow(w)
    BY <1>4, SMT DEF IsFlow, Same, Live!GrowToTarget
  <1> HIDE DEF w
  <1>7. Same(s, x) /\ IsFlow(x)
    BY <1>5, <1>6, SameSteps DEF Same
  <1> HIDE DEF x
  <1>8. Same(x, y)
    BY <1>7, SMT DEF IsFlow, Same, Live!CapCwnd
  <1>9. Same(s, y)
    BY <1>7, <1>8, SameSteps
  <1> QED
    BY <1>9 DEF SetCwnd, Live!leocc_set_cwnd, y, x, w, v

\* Out of PROBE_RTT, no probe is held.
LEMMA SettleStep ==
    ASSUME NEW s, IsFlow(s)
    PROVE  Step(s, Live!SettleEpisode(s))
  <1> DEFINE t == Live!SettleEpisode(s)
  <1>1. /\ DOMAIN t = DOMAIN s /\ t.mode = s.mode /\ t.local_trigger = s.local_trigger
        /\ t.probe_rtt_done_stamp = s.probe_rtt_done_stamp
        /\ t.held = IF s.mode = "PROBE_RTT" THEN s.held ELSE 0
    BY SMT DEF IsFlow, Live!SettleEpisode
  <1>2. 0 \in Nat
    BY SMT
  <1> HIDE DEF t
  <1>3. IsFlow(t)
    BY <1>1, <1>2 DEF IsFlow
  <1>4. Step(s, t)
    <2>1. CASE s.mode = "PROBE_RTT"
      BY <1>1, <2>1, SameStep DEF Same
    <2>2. CASE s.mode # "PROBE_RTT"
      BY <1>1, <1>3, <2>2 DEF Step, HeldStamp, Answered, Probing, Done
    <2> QED
      BY <2>1, <2>2
  <1> QED
    BY <1>4 DEF t

\* Outside the window no ACK tells a flow anything.
LEMMA ToldStep ==
    ASSUME NEW s, IsFlow(s)
    PROVE  Step(s, Told(s))
  <1> DEFINE t == Told(s)
  <1>1. /\ DOMAIN t = DOMAIN s /\ t.mode = s.mode
        /\ t.local_trigger = (s.local_trigger \/ Window(elapsed))
        /\ t.probe_rtt_done_stamp = s.probe_rtt_done_stamp /\ t.held = s.held
    <2>1. t.local_trigger = (s.local_trigger \/ InWindow)
      BY Zenon DEF IsFlow, Told
    <2> QED
      BY <2>1, InWindowIsWindow, Zenon DEF IsFlow, Told
  <1> HIDE DEF t
  <1>2. IsFlow(t)
    BY <1>1 DEF IsFlow
  <1>3. Step(s, t)
    BY <1>1, <1>2, Zenon DEF Step, HeldStamp, Answered, Probing, Done
  <1> QED
    BY <1>3 DEF t

-----------------------------------------------------------------------------
(* The inductive invariant                                                  *)

\* No flow has begun two probes for this window, and one that has begun a probe has
\* answered: it gets no trigger back before the window is over.
FlowInv(s, n) ==
    /\ IsFlow(s) /\ HeldStamp(s, now)
    /\ n = 0 \/ (n = 1 /\ Answered(s, elapsed))

SimInv ==
    /\ Clocks
    /\ DOMAIN flow = Flows /\ probes \in [Flows -> Nat]
    /\ \A f \in Flows : FlowInv(flow[f], probes[f])

\* What an ACK or the end of an idle period does.
FlowStep(f, t) ==
    /\ flow' = [flow EXCEPT ![f] = t] /\ Step(flow[f], t)
    /\ CountProbe(f)
    /\ UNCHANGED <<now, init_stamp>>

LEMMA AckStep ==
    ASSUME SimInv, NEW f \in Flows, Ack(f)
    PROVE  \E t : FlowStep(f, t)
  <1> DEFINE s == flow[f]
  <1>1. PICK rs \in RateSamples : leocc_main(f, rs)
    BY DEF Ack
  <1>2. PICK max, r, hat :
          LET t == leocc_update_model(Told(s), rs, max, r)
              u == [t EXCEPT !.rtt_hat_post = hat]
          IN  /\ flow' = [flow EXCEPT ![f] = Live!SettleEpisode(SetCwnd(u, rs))]
              /\ CountProbe(f)
              /\ UNCHANGED <<now, init_stamp>>
    BY <1>1, Zenon DEF leocc_main
  <1>3. IsFlow(s) /\ Clocks
    BY DEF SimInv, FlowInv
  <1> DEFINE a == Told(s)
             b == leocc_update_model(a, rs, max, r)
             c == [b EXCEPT !.rtt_hat_post = hat]
             d == SetCwnd(c, rs)
             e == Live!SettleEpisode(d)
  <1>4. /\ flow' = [flow EXCEPT ![f] = e] /\ CountProbe(f)
        /\ UNCHANGED <<now, init_stamp>>
    BY <1>2
  <1> HIDE DEF s
  <1>5. Step(s, a) /\ IsFlow(a)
    BY <1>3, ToldStep DEF Step
  <1> HIDE DEF a
  <1>6. Step(s, b) /\ IsFlow(b)
    BY <1>3, <1>5, UpdateModelStep, Steps DEF Step
  <1> HIDE DEF b
  <1>7. Same(b, c)
    BY <1>6, SMT DEF IsFlow, Same
  <1> HIDE DEF c
  <1>8. Step(s, c) /\ IsFlow(c)
    BY <1>6, <1>7, SameStep, Steps DEF Step
  <1>9. Step(s, d) /\ IsFlow(d)
    BY <1>8, SetCwndSame, SameStep, Steps DEF Step
  <1> HIDE DEF d
  <1>10. Step(s, e)
    BY <1>9, SettleStep, Steps
  <1> HIDE DEF e
  <1> QED
    BY <1>4, <1>10 DEF FlowStep, s

LEMMA CwndEventStep ==
    ASSUME SimInv, NEW f \in Flows, leocc_cwnd_event(f)
    PROVE  \E t : FlowStep(f, t)
  <1> DEFINE s == flow[f]
             a == [s EXCEPT !.idle_restart = TRUE]
  <1>1. PICK r : LET t == IF a.mode = "PROBE_RTT"
                          THEN Live!leocc_check_probe_rtt_done(a, r) ELSE a
                 IN  /\ flow' = [flow EXCEPT ![f] = Live!SettleEpisode(t)]
                     /\ CountProbe(f)
                     /\ UNCHANGED <<now, init_stamp>>
    BY Zenon DEF leocc_cwnd_event
  <1>2. IsFlow(s) /\ Clocks
    BY DEF SimInv, FlowInv
  <1> DEFINE b == IF a.mode = "PROBE_RTT" THEN Live!leocc_check_probe_rtt_done(a, r) ELSE a
             e == Live!SettleEpisode(b)
  <1>3. /\ flow' = [flow EXCEPT ![f] = e] /\ CountProbe(f)
        /\ UNCHANGED <<now, init_stamp>>
    BY <1>1
  <1> HIDE DEF s
  <1>4. Same(s, a)
    BY <1>2, SMT DEF IsFlow, Same
  <1> HIDE DEF a
  <1>5. Step(s, a) /\ IsFlow(a)
    BY <1>2, <1>4, SameStep DEF Step
  <1>6. Step(s, b) /\ IsFlow(b)
    BY <1>2, <1>5, ProbeDoneStep, Steps DEF Step
  <1> HIDE DEF b
  <1>7. Step(s, e)
    BY <1>6, SettleStep, Steps
  <1> HIDE DEF e
  <1> QED
    BY <1>3, <1>7 DEF FlowStep, s

LEMMA FlowStepInv ==
    ASSUME SimInv, NEW f \in Flows, NEW t, FlowStep(f, t)
    PROVE  SimInv'
  <1> DEFINE s == flow[f]
             n == probes[f]
             begins == s.mode # "PROBE_RTT" /\ t.mode = "PROBE_RTT" /\ t.local_trigger
             m == IF begins THEN n + 1 ELSE n
  <1>1. DOMAIN flow = Flows /\ probes \in [Flows -> Nat] /\ n \in Nat
    BY DEF SimInv
  <1>2. flow' = [flow EXCEPT ![f] = t] /\ now' = now /\ init_stamp' = init_stamp
    BY DEF FlowStep
  <1>3. /\ DOMAIN flow' = Flows /\ flow'[f] = t
        /\ \A g \in Flows \ {f} : flow'[g] = flow[g]
    BY <1>1, <1>2
  <1>4. probes' = [probes EXCEPT ![f] = m]
    <2>1. CountProbe(f)
      BY DEF FlowStep
    <2> QED
      BY <1>1, <1>3, <2>1 DEF CountProbe
  <1>5. IsFlow(s) /\ HeldStamp(s, now) /\ (n = 0 \/ (n = 1 /\ Answered(s, elapsed)))
    BY DEF SimInv, FlowInv
  <1>6. Step(s, t) /\ Clocks
    BY DEF FlowStep, SimInv
  <1>7. IsFlow(t) /\ HeldStamp(t, now) /\ (m = 0 \/ (m = 1 /\ Answered(t, elapsed)))
    <2> HIDE DEF s, n
    <2>1. IsFlow(t) /\ HeldStamp(t, now) /\ (Answered(s, elapsed) => Answered(t, elapsed))
      BY <1>5, <1>6 DEF Step
    <2>2. CASE begins
      <3>1. t.held = 0 /\ t.mode = "PROBE_RTT" /\ t.local_trigger /\ s.mode # "PROBE_RTT"
        BY <1>6, <2>2 DEF Step
      <3>2. Probing(t, elapsed)
        <4>1. ASSUME Window(elapsed) PROVE PassedAt(elapsed, 0)
          BY <1>6, <4>1, ElapsedTicks, WindowOpens
        <4> QED
          BY <3>1, <4>1 DEF Probing
      <3>3. ~Done(t, elapsed)
        BY <3>1 DEF Done
      <3>4. ~Answered(s, elapsed)
        <4> SUFFICES ASSUME Answered(s, elapsed) PROVE FALSE
          OBVIOUS
        <4>1. Done(s, elapsed)
          BY <3>1 DEF Answered, Probing
        <4> QED
          BY <1>6, <3>3, <4>1 DEF Step
      <3>5. n = 0 /\ m = 1
        BY <1>5, <2>2, <3>4, SMT
      <3> QED
        BY <2>1, <3>2, <3>5 DEF Answered
    <2>3. CASE ~begins
      <3>1. m = n
        BY <2>3
      <3> QED
        BY <1>5, <2>1, <3>1
    <2> QED
      BY <2>2, <2>3
  <1>8. elapsed' = elapsed
    BY <1>2 DEF elapsed
  <1>9. ASSUME NEW g \in Flows
        PROVE  LET u == flow'[g]
                   k == probes'[g]
               IN  IsFlow(u) /\ HeldStamp(u, now) /\ (k = 0 \/ (k = 1 /\ Answered(u, elapsed)))
    <2>1. CASE g = f
      BY <1>1, <1>3, <1>4, <1>7, <2>1
    <2>2. CASE g # f
      <3>1. flow'[g] = flow[g] /\ probes'[g] = probes[g]
        BY <1>1, <1>3, <1>4, <2>2
      <3> QED
        BY <3>1 DEF SimInv, FlowInv
    <2> QED
      BY <2>1, <2>2
  <1>10. probes' \in [Flows -> Nat]
    <2>1. m \in Nat
      BY <1>1, SMT
    <2> QED
      BY <1>1, <1>4, <2>1
  <1>11. \A g \in Flows : FlowInv(flow[g], probes[g])'
    BY <1>2, <1>8, <1>9, Zenon DEF FlowInv
  <1>12. Clocks'
    BY <1>2, <1>6 DEF Clocks
  <1> QED
    BY <1>3, <1>10, <1>11, <1>12 DEF SimInv

\* A new socket starts the schedule again, outside the window: what a flow has
\* answered stays answered.
LEMMA InitSocketInv ==
    ASSUME SimInv, leocc_init
    PROVE  SimInv'
  <1>1. Clocks /\ DOMAIN flow = Flows /\ probes \in [Flows -> Nat]
    BY DEF SimInv
  <1>2. now' = now /\ init_stamp' = now /\ flow' = flow /\ CountAnew
    BY DEF leocc_init
  <1>3. elapsed' = 0
    <2>1. now - now = 0 /\ 0 \in 0 .. JiffyMod - 1 /\ 0 = JiffyMod * 0 + 0
      BY <1>1, Constants, SMT DEF Clocks, Elapsed
    <2>2. 0 % JiffyMod = 0
      BY <2>1, Constants, Division
    <2> QED
      BY <1>2, <2>1, <2>2 DEF elapsed
  <1>4. ~Window(0)
    BY WindowNotAtStart
  <1>5. ~InWindow'
    <2>1. InWindow' <=> Window(elapsed')
      BY DEF InWindow, relative_time, delta_since_start, Window, Relative, Delta, Product, elapsed
    <2> QED
      BY <1>3, <1>4, <2>1
  <1>6. probes' = probes
    BY <1>2, <1>5 DEF CountAnew
  <1>7. ASSUME NEW g \in Flows
        PROVE  LET u == flow[g]
                   k == probes[g]
               IN  IsFlow(u) /\ HeldStamp(u, now) /\ (k = 0 \/ (k = 1 /\ Answered(u, 0)))
    <2>1. FlowInv(flow[g], probes[g])
      BY DEF SimInv
    <2>2. Answered(flow[g], elapsed) => Answered(flow[g], 0)
      BY <1>4 DEF Answered, Probing, Done
    <2> QED
      BY <2>1, <2>2 DEF FlowInv
  <1>8. \A g \in Flows : FlowInv(flow[g], probes[g])'
    BY <1>2, <1>3, <1>6, <1>7, Zenon DEF FlowInv
  <1>9. Clocks'
    BY <1>1, <1>2 DEF Clocks
  <1> QED
    BY <1>1, <1>2, <1>6, <1>8, <1>9 DEF SimInv

\* While time passes, a flow that has answered goes on probing in the window, or
\* has left it behind; when the next window opens, its probes are counted anew.
LEMMA TickInv ==
    ASSUME SimInv, Tick
    PROVE  SimInv'
  <1> DEFINE n == (now + 1) % JiffyMod
             e == elapsed
             later == (n - init_stamp) % JiffyMod
             Ticked(s) == [s EXCEPT !.held = IF s.mode = "PROBE_RTT"
                                             THEN Live!Min2(@ + 1, ProbeRttTime + 1) ELSE 0]
  <1>1. Clocks /\ DOMAIN flow = Flows /\ probes \in [Flows -> Nat]
    BY DEF SimInv
  <1>2. /\ now' = n /\ init_stamp' = init_stamp /\ CountAnew
        /\ flow' = [f \in Flows |-> Ticked(flow[f])]
    BY DEF Tick
  <1>3. /\ e \in Elapsed /\ n \in Elapsed /\ elapsed' = later
        /\ later = 0 \/ (later = e + 1 /\ later \in Elapsed)
    BY <1>1, <1>2, ElapsedTicks DEF elapsed
  <1>4. (InWindow' <=> Window(later)) /\ (InWindow <=> Window(e))
    <2>1. InWindow' <=> Window(elapsed')
      BY DEF InWindow, relative_time, delta_since_start, Window, Relative, Delta, Product, elapsed
    <2> QED
      BY <1>3, <2>1, InWindowIsWindow
  <1>5. probes' = IF ~Window(e) /\ Window(later) THEN [f \in Flows |-> 0] ELSE probes
    BY <1>2, <1>4 DEF CountAnew
  <1>6. probes' \in [Flows -> Nat]
    <2>1. 0 \in Nat
      BY SMT
    <2> QED
      BY <1>1, <1>5, <2>1
  <1> HIDE DEF e, later
  <1>7. ASSUME NEW g \in Flows
        PROVE  LET u == flow'[g]
                   k == probes'[g]
               IN  IsFlow(u) /\ HeldStamp(u, n) /\ (k = 0 \/ (k = 1 /\ Answered(u, later)))
    <2> DEFINE s == flow[g]
               t == flow'[g]
    <2>1. IsFlow(s) /\ HeldStamp(s, now) /\ (probes[g] = 0 \/ (probes[g] = 1 /\ Answered(s, e)))
      BY DEF SimInv, FlowInv, e
    <2>2. t = Ticked(s)
      BY <1>2
    <2> HIDE DEF s, t, n
    <2>3. /\ DOMAIN t = DOMAIN s /\ t.mode = s.mode /\ t.local_trigger = s.local_trigger
          /\ t.probe_rtt_done_stamp = s.probe_rtt_done_stamp
          /\ t.held = IF s.mode = "PROBE_RTT" THEN Live!Min2(s.held + 1, ProbeRttTime + 1) ELSE 0
      BY <2>1, <2>2, SMT DEF IsFlow
    <2> HIDE DEF Ticked
    <2>4. /\ s.held \in Nat /\ t.held \in Nat /\ s.held + 1 \in Nat
          /\ s.mode = "PROBE_RTT" => t.held <= s.held + 1
          /\ s.mode = "PROBE_RTT" /\ t.held <= ProbeRttTime => t.held = s.held + 1
      BY <2>1, <2>3, Constants, SMT DEF IsFlow, Live!Min2
    <2>5. IsFlow(t)
      BY <2>1, <2>3, <2>4 DEF IsFlow
    <2>6. HeldStamp(t, n)
      <3> SUFFICES ASSUME t.mode = "PROBE_RTT", t.probe_rtt_done_stamp # 0,
                          t.held <= ProbeRttTime
                   PROVE  t.probe_rtt_done_stamp = StampOf(n, t.held)
        BY DEF HeldStamp
      <3>1. t.held = s.held + 1
        BY <2>3, <2>4
      <3>2. s.held <= ProbeRttTime /\ s.held + 1 \in 0 .. ProbeRttTime
        BY <2>4, <3>1, Constants, SMT
      <3>3. s.probe_rtt_done_stamp = StampOf(now, s.held)
        BY <2>1, <2>3, <3>2 DEF HeldStamp
      <3>4. StampOf(n, s.held + 1) = StampOf(now, s.held)
        BY <1>1, <2>4, <3>2, StampTicks DEF Clocks, n
      <3> QED
        BY <2>3, <3>1, <3>3, <3>4
    <2>7. probes'[g] = 0 \/ (probes'[g] = 1 /\ Answered(t, later))
      <3>1. CASE ~Window(e) /\ Window(later)
        BY <1>5, <3>1
      <3>2. CASE ~Window(later)
        <4>1. Answered(s, e) => Answered(t, later)
          BY <2>3, <3>2 DEF Answered, Probing, Done
        <4> QED
          BY <1>5, <2>1, <3>2, <4>1
      <3>3. CASE Window(e) /\ Window(later)
        <4>1. later = e + 1 /\ later \in Elapsed
          BY <1>3, <3>3, WindowNotAtStart
        <4>2. ASSUME Answered(s, e) PROVE Answered(t, later)
          <5>1. s.mode = "PROBE_RTT" /\ s.local_trigger /\ PassedAt(e, s.held)
            BY <3>3, <4>2 DEF Answered, Probing, Done
          <5>2. PassedAt(later, s.held + 1)
            BY <1>3, <2>4, <3>3, <4>1, <5>1, PassedTicks
          <5>3. PassedAt(later, t.held)
            BY <2>4, <4>1, <5>1, <5>2, PassedLess
          <5> QED
            BY <2>3, <5>1, <5>3 DEF Answered, Probing
        <4> QED
          BY <1>5, <2>1, <3>3, <4>2
      <3> QED
        BY <3>1, <3>2, <3>3
    <2> QED
      BY <2>5, <2>6, <2>7 DEF t
  <1>8. \A g \in Flows : FlowInv(flow[g], probes[g])'
    BY <1>2, <1>3, <1>7, Zenon DEF FlowInv
  <1>9. Clocks'
    BY <1>1, <1>2, <1>3 DEF Clocks
  <1>10. DOMAIN flow' = Flows
    BY <1>2
  <1> QED
    BY <1>6, <1>8, <1>9, <1>10 DEF SimInv

LEMMA InitSimInv == Init => SimInv
  <1> SUFFICES ASSUME Init PROVE SimInv
    OBVIOUS
  <1>1. now = 0 /\ init_stamp = 0 /\ probes = [f \in Flows |-> 0] /\ 0 \in Nat /\ 0 \in Elapsed
    BY Constants, SMT DEF Init, Elapsed
  <1>2. flow \in [Flows -> {[Live!InitialFlow(m, CwndMinTarget) EXCEPT !.min_rtt_stamp = now] :
                              m \in Rtts \cup {Live!NoRtt}}]
    BY DEF Init
  <1>3. ASSUME NEW f \in Flows PROVE FlowInv(flow[f], probes[f])
    <2>1. PICK m : flow[f] = [Live!InitialFlow(m, CwndMinTarget) EXCEPT !.min_rtt_stamp = now]
      BY <1>2, Zenon
    <2> DEFINE s == flow[f]
               i == Live!InitialFlow(m, CwndMinTarget)
    <2>2. /\ {"mode", "local_trigger", "probe_rtt_done_stamp", "held"} \subseteq DOMAIN i
          /\ i.mode = "STARTUP" /\ i.local_trigger = FALSE /\ i.held = 0
      BY SMT DEF Live!InitialFlow
    <2> HIDE DEF i
    <2>3. /\ {"mode", "local_trigger", "probe_rtt_done_stamp", "held"} \subseteq DOMAIN s
          /\ s.mode = "STARTUP" /\ s.local_trigger = FALSE /\ s.held = 0
      BY <2>1, <2>2, SMT DEF i
    <2> HIDE DEF s
    <2>4. probes[f] = 0
      BY <1>1
    <2> QED
      BY <1>1, <2>3, <2>4 DEF FlowInv, IsFlow, HeldStamp, s
  <1> QED
    BY <1>1, <1>2, <1>3 DEF SimInv, Clocks

LEMMA NextSimInv == SimInv /\ [Next]_vars => SimInv'
  <1> SUFFICES ASSUME SimInv, [Next]_vars PROVE SimInv'
    OBVIOUS
  <1>1. ASSUME NEW f \in Flows, FlowNext(f) PROVE SimInv'
    <2>1. \E t : FlowStep(f, t)
      BY <1>1, AckStep, CwndEventStep DEF FlowNext
    <2> QED
      BY <2>1, FlowStepInv
  <1>2. CASE leocc_init
    BY <1>2, InitSocketInv
  <1>3. CASE Tick
    BY <1>3, TickInv
  <1>4. CASE UNCHANGED vars
    <2>1. /\ flow' = flow /\ probes' = probes /\ now' = now /\ init_stamp' = init_stamp
      BY <1>4 DEF vars
    <2>2. elapsed' = elapsed
      BY <2>1 DEF elapsed
    <2> QED
      BY <2>1, <2>2 DEF SimInv, FlowInv, Clocks
  <1> QED
    BY <1>1, <1>2, <1>3, <1>4 DEF Next

\* A flow answers each window of the schedule with one probe at most, though every ACK
\* of the window tells it of the reconfiguration again, DRAIN forgets that it has been
\* told, and a socket that starts moves the window of all
\* (simulation/leocc.c:692-702, 744).
THEOREM OneAnswerPerWindow == Spec => []OneProbePerWindow
  <1>1. SimInv => OneProbePerWindow
    <2> SUFFICES ASSUME SimInv, NEW f \in Flows PROVE probes[f] <= 1
      BY DEF OneProbePerWindow
    <2>1. probes[f] = 0 \/ probes[f] = 1
      BY DEF SimInv, FlowInv
    <2> QED
      BY <2>1, SMT
  <1> QED
    BY InitSimInv, NextSimInv, <1>1, PTL DEF Spec
=============================================================================
