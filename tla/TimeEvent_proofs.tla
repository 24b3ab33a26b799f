------------------------ MODULE TimeEvent_proofs ------------------------
(***************************************************************************)
(* Proofs about TimeEvent, for any words of the hardware counter, the      *)
(* event times and the system time that TimeAssumption allows, any events  *)
(* and any delays: the clocks keep within their bounds over every          *)
(* wrap-around, no event is handled early, late or out of order, and the   *)
(* system time is exact.                                                   *)
(*                                                                         *)
(* The words are numbers modulo their range, so the first lemmas are       *)
(* about congruence.                                                       *)
(***************************************************************************)
EXTENDS TimeEvent, QueueLemmas

(* x and y are the same number modulo n.                                   *)
Congruent(n, x, y) == \E k \in Int : x = y + k * n

LEMMA ModRange ==
  ASSUME NEW n \in Nat \ {0}, NEW x \in Int
  PROVE  x % n \in 0..n-1
OBVIOUS

LEMMA ModCongruent ==
  ASSUME NEW n \in Nat \ {0}, NEW x \in Int
  PROVE  Congruent(n, x % n, x) /\ Congruent(n, x, x % n)
<1>1. x = ((x \div n) * n) + (x % n) /\ x \div n \in Int
  OBVIOUS
<1> DEFINE k == x \div n
<1>2. k \in Int /\ -k \in Int /\ x % n \in Int
  BY <1>1, ModRange
<1>3. x = (x % n) + (k * n)
  BY <1>1, <1>2
<1>4. x % n = x + ((-k) * n)
  BY <1>3, <1>2
<1> QED BY <1>2, <1>3, <1>4 DEF Congruent

LEMMA CongruentSum ==
  ASSUME NEW n \in Nat \ {0}, NEW x \in Int, NEW y \in Int, NEW u \in Int, NEW v \in Int,
         Congruent(n, x, y), Congruent(n, u, v)
  PROVE  Congruent(n, x + u, y + v) /\ Congruent(n, x - u, y - v)
<1>1. PICK k \in Int : x = y + k * n
  BY DEF Congruent
<1>2. PICK l \in Int : u = v + l * n
  BY DEF Congruent
<1>3. x + u = (y + v) + (k + l) * n /\ x - u = (y - v) + (k - l) * n
  BY <1>1, <1>2
<1>4. k + l \in Int /\ k - l \in Int
  OBVIOUS
<1> QED BY <1>3, <1>4 DEF Congruent

LEMMA CongruentTrans ==
  ASSUME NEW n \in Nat \ {0}, NEW x \in Int, NEW y \in Int, NEW z \in Int,
         Congruent(n, x, y), Congruent(n, y, z)
  PROVE  Congruent(n, x, z)
<1>1. PICK k \in Int : x = y + k * n
  BY DEF Congruent
<1>2. PICK l \in Int : y = z + l * n
  BY DEF Congruent
<1>3. x = z + (k + l) * n
  BY <1>1, <1>2
<1>4. k + l \in Int
  OBVIOUS
<1> QED BY <1>3, <1>4 DEF Congruent

LEMMA CongruentSelf ==
  ASSUME NEW n \in Nat \ {0}, NEW x \in Int
  PROVE  Congruent(n, x, x) /\ Congruent(n, x + n, x) /\ Congruent(n, x - n, x)
<1>1. x = x + 0 * n /\ x + n = x + 1 * n /\ x - n = x + (-1) * n
  OBVIOUS
<1> QED BY <1>1 DEF Congruent

LEMMA CongruentSym ==
  ASSUME NEW n \in Nat \ {0}, NEW x \in Int, NEW y \in Int, Congruent(n, x, y)
  PROVE  Congruent(n, y, x)
<1>1. PICK k \in Int : x = y + k * n
  BY DEF Congruent
<1>2. y = x + (-k) * n /\ -k \in Int
  BY <1>1
<1> QED BY <1>2 DEF Congruent

(* A number in the range of a word is its own value in it.                 *)
LEMMA ModOf ==
  ASSUME NEW n \in Nat \ {0}, NEW x \in Int, NEW y \in 0..n-1, Congruent(n, x, y)
  PROVE  x % n = y
<1>1. PICK k \in Int : x = y + k * n
  BY DEF Congruent
<1> QED BY <1>1

(* Congruent numbers in the range of a word are equal.                     *)
LEMMA ModSame ==
  ASSUME NEW n \in Nat \ {0}, NEW x \in Int, NEW y \in Int, Congruent(n, x, y)
  PROVE  x % n = y % n
<1>1. y % n \in 0..n-1 /\ Congruent(n, y, y % n)
  BY ModRange, ModCongruent
<1>2. Congruent(n, x, y % n)
  BY <1>1, CongruentTrans
<1> QED BY <1>1, <1>2, ModOf

(* Rounding down to a multiple of n.                                       *)
LEMMA Floor ==
  ASSUME NEW n \in Nat \ {0}, NEW t \in Nat
  PROVE  /\ t \div n \in Nat
         /\ (t \div n) * n \in Nat
         /\ (t \div n) * n <= t
         /\ t - (t \div n) * n \in 0..n-1
<1>1. t \div n \in Nat /\ (t \div n) * n <= t /\ t < (t \div n) * n + n
  OBVIOUS
<1> DEFINE q == t \div n
<1> HIDE DEF q
<1>2. q \in Nat /\ q * n <= t /\ t < q * n + n
  BY <1>1 DEF q
<1>3. q * n \in Nat
  BY <1>2
<1> QED BY <1>2, <1>3 DEF q

LEMMA FloorAbove ==
  ASSUME NEW n \in Nat \ {0}, NEW t \in Nat, NEW a \in Nat, a * n <= t
  PROVE  a * n <= (t \div n) * n
<1> DEFINE q == t \div n
<1>1. q \in Nat /\ t < (q * n) + n
  OBVIOUS
<1> HIDE DEF q
<1>2. CASE a <= q
  BY <1>1, <1>2 DEF q
<1>3. CASE a >= q + 1
  <2>1. PICK b \in Nat : a = q + 1 + b
    BY <1>1, <1>3
  <2>2. a * n = (q * n) + n + b * n /\ b * n >= 0
    BY <2>1, <1>1
  <2> QED BY <2>2, <1>1
<1> QED BY <1>1, <1>2, <1>3

--------------------------------------------------------------------------
(* How far the event times are behind the furthest point of the clock.     *)
Lag(c) == (c.mono - c.evttim) % EVT

(* How long until the event time t.                                        *)
Until(c, t) == EVTTIM_ADVANCE(c, t) - MARGIN

LEMMA Constants ==
  /\ EVT \in Nat \ {0} /\ SYS \in Nat \ {0} /\ MARGIN \in Nat \ {0}
  /\ TCYC \in Nat \ {0} /\ TSTEP \in Nat \ {0} /\ BOUND \in Nat \ {0}
  /\ cyctim \in Nat \ {0} /\ ADJTIM \in Nat /\ MaxDelay \in Nat
  /\ BOUND + 2 * (TSTEP - 1) + MaxDelay < TCYC
  /\ BOUND + 2 * (TSTEP - 1) + MaxDelay + ADJTIM < EVT
  /\ 2 * ADJTIM + 2 * (TSTEP - 1) + MaxDelay <= MARGIN
  /\ cyctim + 2 * ADJTIM + MARGIN < EVT
BY TimeAssumption

LEMMA ClockFields ==
  ASSUME NEW c \in Clock
  PROVE  /\ c.hrtcnt \in Int /\ c.evttim \in Int /\ c.mono \in Int /\ c.offset \in Int
         /\ c.evttim \in 0..EVT-1 /\ c.mono \in 0..EVT-1 /\ c.offset \in 0..SYS-1
         /\ c.hrtcnt \in 0..TCYC-1
BY Constants DEF Clock

LEMMA UntilRange ==
  ASSUME NEW c \in Clock, NEW t \in Int
  PROVE  /\ EVTTIM_ADVANCE(c, t) \in 0..EVT-1
         /\ Until(c, t) \in Int
         /\ Until(c, t) + MARGIN \in 0..EVT-1
         /\ Congruent(EVT, Until(c, t), t - c.evttim)
<1> DEFINE x == t - (c.evttim - MARGIN)
<1>1. x \in Int /\ EVTTIM_ADVANCE(c, t) = x % EVT
  BY ClockFields, Constants DEF EVTTIM_ADVANCE, boundary_evttim
<1> HIDE DEF x
<1>2. x % EVT \in 0..EVT-1 /\ Congruent(EVT, x % EVT, x)
  BY <1>1, ModRange, ModCongruent, Constants
<1>3. EVT \in Nat \ {0} /\ MARGIN \in Int /\ x % EVT \in Int
  BY <1>2, Constants
<1>4. Congruent(EVT, (x % EVT) - MARGIN, x - MARGIN)
  <2>1. Congruent(EVT, MARGIN, MARGIN)
    BY <1>3, CongruentSelf
  <2> QED BY <2>1, <1>1, <1>2, <1>3, CongruentSum
<1>5. x - MARGIN = t - c.evttim
  BY ClockFields, Constants DEF x
<1>6. Until(c, t) = (x % EVT) - MARGIN
  BY <1>1 DEF Until
<1>7. Until(c, t) \in Int /\ Until(c, t) + MARGIN = x % EVT
  BY <1>6, <1>3
<1> QED BY <1>1, <1>2, <1>4, <1>5, <1>6, <1>7

(* What is congruent to the way to t and inside the boundary is the way.   *)
LEMMA UntilIs ==
  ASSUME NEW c \in Clock, NEW t \in Int, NEW s \in Int,
         Congruent(EVT, t - c.evttim, s), s + MARGIN \in 0..EVT-1
  PROVE  Until(c, t) = s
<1> DEFINE x == t - (c.evttim - MARGIN)
<1>1. x \in Int /\ EVTTIM_ADVANCE(c, t) = x % EVT
  BY ClockFields, Constants DEF EVTTIM_ADVANCE, boundary_evttim
<1>2. x = (t - c.evttim) + MARGIN
  BY ClockFields, Constants
<1>3. EVT \in Nat \ {0} /\ MARGIN \in Int /\ t - c.evttim \in Int
  BY Constants, ClockFields
<1>9. Congruent(EVT, MARGIN, MARGIN)
  BY <1>3, CongruentSelf
<1> HIDE DEF x
<1>4. Congruent(EVT, (t - c.evttim) + MARGIN, s + MARGIN)
  BY <1>3, <1>9, CongruentSum
<1>5. x % EVT = s + MARGIN
  BY <1>1, <1>2, <1>3, <1>4, ModOf
<1> QED BY <1>1, <1>5, <1>3 DEF Until

(* The order of event times is that of the ways to them.                   *)
LEMMA UntilOrder ==
  ASSUME NEW c \in Clock, NEW t \in Int, NEW u \in Int
  PROVE  EVTTIM_LE(c, t, u) <=> Until(c, t) <= Until(c, u)
<1>1. EVTTIM_ADVANCE(c, t) \in Int /\ EVTTIM_ADVANCE(c, u) \in Int /\ MARGIN \in Int
  BY UntilRange, Constants
<1> QED BY <1>1 DEF EVTTIM_LE, Until

LEMMA UntilNow ==
  ASSUME NEW c \in Clock
  PROVE  Until(c, c.evttim) = 0
<1>1. c.evttim \in Int /\ c.evttim - c.evttim = 0 /\ EVT \in Nat \ {0}
  BY ClockFields, Constants
<1>2. Congruent(EVT, c.evttim - c.evttim, 0)
  BY <1>1, CongruentSelf
<1>3. 0 + MARGIN \in 0..EVT-1 /\ 0 \in Int
  BY Constants
<1> QED BY <1>1, <1>2, <1>3, UntilIs

(* Times moved by x, and clocks moved by d, as far as the boundary allows. *)
LEMMA UntilMoved ==
  ASSUME NEW c \in Clock, NEW c2 \in Clock, NEW t \in Int, NEW t2 \in Int,
         NEW d \in Int, NEW x \in Int,
         Congruent(EVT, c2.evttim, c.evttim + d), Congruent(EVT, t2, t + x),
         Until(c, t) - d + x + MARGIN \in 0..EVT-1
  PROVE  Until(c2, t2) = Until(c, t) - d + x
<1> DEFINE s == Until(c, t)
<1>1. s \in Int /\ Congruent(EVT, s, t - c.evttim) /\ EVT \in Nat \ {0}
  BY UntilRange, Constants
<1>2. c.evttim \in Int /\ c2.evttim \in Int
  BY ClockFields
<1>3. Congruent(EVT, t2 - c2.evttim, (t + x) - (c.evttim + d))
  <2>1. t + x \in Int /\ c.evttim + d \in Int
    BY <1>2
  <2> QED BY <2>1, <1>1, <1>2, CongruentSum
<1>4. Congruent(EVT, t - c.evttim, s)
  <2>1. t - c.evttim \in Int
    BY <1>2
  <2> QED BY <2>1, <1>1, CongruentSym
<1>5. Congruent(EVT, (t - c.evttim) + (x - d), s + (x - d))
  <2>1. t - c.evttim \in Int /\ x - d \in Int
    BY <1>2
  <2>2. Congruent(EVT, x - d, x - d)
    BY <2>1, <1>1, CongruentSelf
  <2> QED BY <2>1, <2>2, <1>1, <1>4, CongruentSum
<1>6. (t - c.evttim) + (x - d) = (t + x) - (c.evttim + d) /\ s + (x - d) = s - d + x
  BY <1>1, <1>2
<1>7. t2 - c2.evttim \in Int /\ (t + x) - (c.evttim + d) \in Int /\ s - d + x \in Int
  BY <1>1, <1>2
<1>8. Congruent(EVT, t2 - c2.evttim, s - d + x)
  <2>1. Congruent(EVT, (t + x) - (c.evttim + d), s - d + x)
    BY <1>5, <1>6
  <2> QED BY <2>1, <1>1, <1>3, <1>7, CongruentTrans
<1>9. (s - d + x) + MARGIN \in 0..EVT-1
  OBVIOUS
<1> HIDE DEF s
<1>10. Until(c2, t2) = s - d + x
  BY <1>7, <1>8, <1>9, UntilIs
<1> QED BY <1>10 DEF s

(* The way to a time that is not past is the difference of the times.      *)
LEMMA UntilIsNext ==
  ASSUME NEW c \in Clock, NEW t \in Int, Until(c, t) >= 0
  PROVE  (t - c.evttim) % EVT = Until(c, t)
<1> DEFINE s == Until(c, t)
<1>1. s \in Int /\ s + MARGIN \in 0..EVT-1 /\ Congruent(EVT, s, t - c.evttim)
  BY UntilRange
<1>2. s \in 0..EVT-1 /\ EVT \in Nat \ {0}
  <2> HIDE DEF s
  <2>1. s >= 0
    BY DEF s
  <2> QED BY <2>1, <1>1, Constants
<1>3. t - c.evttim \in Int
  BY ClockFields
<1> HIDE DEF s
<1>4. Congruent(EVT, t - c.evttim, s)
  BY <1>1, <1>2, <1>3, CongruentSym
<1>5. (t - c.evttim) % EVT = s
  BY <1>2, <1>3, <1>4, ModOf
<1> QED BY <1>5 DEF s

--------------------------------------------------------------------------
LEMMA LagRange ==
  ASSUME NEW c \in Clock
  PROVE  Lag(c) \in 0..EVT-1 /\ Congruent(EVT, Lag(c), c.mono - c.evttim)
<1>1. c.mono - c.evttim \in Int /\ EVT \in Nat \ {0}
  BY ClockFields, Constants
<1> DEFINE x == c.mono - c.evttim
<1> HIDE DEF x
<1>2. x \in Int /\ x % EVT \in 0..EVT-1 /\ Congruent(EVT, x % EVT, x)
  <2>1. x \in Int
    BY <1>1 DEF x
  <2> QED BY <2>1, <1>1, ModRange, ModCongruent
<1>3. Lag(c) = x % EVT
  BY DEF Lag, x
<1> QED BY <1>2, <1>3 DEF x

LEMMA LagIs ==
  ASSUME NEW c \in Clock, NEW l \in 0..EVT-1, Congruent(EVT, c.mono - c.evttim, l)
  PROVE  Lag(c) = l
<1>1. c.mono - c.evttim \in Int /\ EVT \in Nat \ {0}
  BY ClockFields, Constants
<1> DEFINE x == c.mono - c.evttim
<1>2. x \in Int /\ Congruent(EVT, x, l) /\ Lag(c) = x % EVT
  BY <1>1 DEF Lag
<1> HIDE DEF x
<1> QED BY <1>1, <1>2, ModOf

(* What d more means to a clock: how it is stored ...                      *)
Moved(c, c2, d) ==
  /\ c2 \in Clock
  /\ c2.hrtcnt = c.hrtcnt
  /\ c2.evttim \in Int /\ Congruent(EVT, c2.evttim, c.evttim + d)

LEMMA AdvanceFields ==
  ASSUME NEW c \in Clock, NEW d \in Int
  PROVE  /\ Moved(c, advance(c, d), d)
         /\ advance(c, d).evttim = (c.evttim + d) % EVT
         /\ advance(c, d).mono = IF Lag(c) < d THEN advance(c, d).evttim ELSE c.mono
         /\ advance(c, d).offset =
              IF Lag(c) < d /\ advance(c, d).evttim < c.mono THEN (c.offset + EVT) % SYS ELSE c.offset
<1> DEFINE new == (c.evttim + d) % EVT
           off == (c.offset + EVT) % SYS
           p == Lag(c) < d
           q == new < c.mono
           c2 == advance(c, d)
<1>1. new \in 0..EVT-1 /\ off \in 0..SYS-1
  <2>1. c.evttim + d \in Int /\ c.offset + EVT \in Int /\ EVT \in Nat \ {0} /\ SYS \in Nat \ {0}
    BY ClockFields, Constants
  <2> QED BY <2>1, ModRange
<1>2. Congruent(EVT, new, c.evttim + d)
  <2>1. c.evttim + d \in Int /\ EVT \in Nat \ {0}
    BY ClockFields, Constants
  <2> QED BY <2>1, ModCongruent
<1>3. c2 = [c EXCEPT !.evttim = new,
                !.mono   = IF p THEN new ELSE @,
                !.offset = IF p /\ q THEN off ELSE @]
  BY DEF advance, Lag
<1>4. new \in Int
  BY <1>1, Constants
<1> HIDE DEF new, off, p, q
<1>5. /\ c2 \in Clock /\ c2.hrtcnt = c.hrtcnt /\ c2.evttim = new
      /\ c2.mono = (IF p THEN new ELSE c.mono)
      /\ c2.offset = IF p /\ q THEN off ELSE c.offset
  <2> HIDE DEF c2
  <2> QED BY <1>1, <1>3 DEF Clock
<1> USE DEF new, off, p, q
<1>6. Moved(c, c2, d)
  <2> HIDE DEF c2, new
  <2> QED BY <1>5, <1>2, <1>4 DEF Moved
<1> QED BY <1>5, <1>6

(* ... and what it means to the distances: what is still to be caught up   *)
(* shrinks first, and the system time moves by the rest, with its carry.   *)
LEMMA AdvanceOK ==
  ASSUME NEW c \in Clock, NEW d \in 0..EVT-1
  PROVE  /\ Lag(advance(c, d)) = IF Lag(c) < d THEN 0 ELSE Lag(c) - d
         /\ Congruent(SYS, advance(c, d).offset + advance(c, d).mono,
                      c.offset + c.mono + (IF Lag(c) < d THEN d - Lag(c) ELSE 0))
<1> DEFINE c2 == advance(c, d)
           new == c2.evttim
           l == Lag(c)
<1>1. /\ EVT \in Nat \ {0} /\ SYS \in Nat \ {0} /\ d \in Int /\ d \in 0..EVT-1
      /\ c.evttim \in Int /\ c.mono \in Int /\ c.offset \in Int
      /\ c.mono \in 0..EVT-1
  BY ClockFields, Constants
<1>2. l \in 0..EVT-1 /\ l \in Int /\ Congruent(EVT, l, c.mono - c.evttim)
  BY LagRange, Constants
<1>3. Moved(c, c2, d) /\ c2.mono = (IF l < d THEN new ELSE c.mono)
      /\ c2.offset = IF l < d /\ new < c.mono THEN (c.offset + EVT) % SYS ELSE c.offset
  BY <1>1, AdvanceFields
<1>4. c2 \in Clock /\ new \in Int /\ Congruent(EVT, new, c.evttim + d) /\ new \in 0..EVT-1
  BY <1>3, ClockFields DEF Moved
<1> HIDE DEF c2, l
<1>5. CASE ~(l < d)
  <2>1. c2.mono = c.mono /\ c2.offset = c.offset
    BY <1>3, <1>5
  <2>2. Congruent(EVT, (c.mono - c.evttim) - d, l - d)
    <3>1. Congruent(EVT, c.mono - c.evttim, l) /\ Congruent(EVT, d, d)
      <4>1. c.mono - c.evttim \in Int
        BY <1>1
      <4>2. Congruent(EVT, c.mono - c.evttim, l)
        BY <4>1, <1>1, <1>2, CongruentSym
      <4>3. Congruent(EVT, d, d)
        BY <1>1, CongruentSelf
      <4> QED BY <4>2, <4>3
    <3>2. c.mono - c.evttim \in Int
      BY <1>1
    <3> QED BY <3>1, <3>2, <1>1, <1>2, CongruentSum
  <2>3. Congruent(EVT, c2.mono - new, c.mono - (c.evttim + d))
    <3>1. Congruent(EVT, c.mono, c.mono)
      BY <1>1, CongruentSelf
    <3>2. c.evttim + d \in Int
      BY <1>1
    <3> QED BY <3>1, <3>2, <2>1, <1>1, <1>4, CongruentSum
  <2>4. c.mono - (c.evttim + d) = (c.mono - c.evttim) - d
    BY <1>1
  <2>5. Congruent(EVT, c2.mono - new, l - d)
    <3>1. c2.mono - new \in Int /\ (c.mono - c.evttim) - d \in Int /\ l - d \in Int
      BY <1>1, <1>2, <1>4, <2>1
    <3> QED BY <3>1, <2>2, <2>3, <2>4, <1>1, CongruentTrans
  <2>6. l - d \in 0..EVT-1
    BY <1>1, <1>2, <1>5
  <2>7. Lag(c2) = l - d
    BY <2>5, <2>6, <1>4, LagIs
  <2>8. Congruent(SYS, c.offset + c.mono, c.offset + c.mono + 0)
    <3>1. c.offset + c.mono \in Int /\ c.offset + c.mono + 0 = c.offset + c.mono
      BY <1>1
    <3>2. Congruent(SYS, c.offset + c.mono, c.offset + c.mono)
      BY <3>1, <1>1, CongruentSelf
    <3> QED BY <3>1, <3>2
  <2> QED BY <2>1, <2>7, <2>8, <1>5 DEF c2, l
<1>6. CASE l < d
  <2>1. c2.mono = new
    BY <1>3, <1>6
  <2>2. Lag(c2) = 0
    <3>1. new - new = 0 /\ 0 \in Int /\ 0 \in 0..EVT-1
      BY <1>4, <1>1
    <3>2. Congruent(EVT, 0, 0)
      BY <3>1, <1>1, CongruentSelf
    <3>3. Congruent(EVT, c2.mono - c2.evttim, 0)
      BY <3>1, <3>2, <2>1
    <3> QED BY <3>1, <3>3, <1>4, LagIs
  <2> DEFINE x == c.mono + (d - l)
  <2>3. Congruent(EVT, new, x)
    <3>1. Congruent(EVT, c.evttim + d, (c.mono - l) + d)
      <4>1. Congruent(EVT, c.mono - l, c.mono - (c.mono - c.evttim))
        <5>1. Congruent(EVT, c.mono, c.mono)
          BY <1>1, CongruentSelf
        <5>2. c.mono - c.evttim \in Int
          BY <1>1
        <5> QED BY <5>1, <5>2, <1>1, <1>2, CongruentSum
      <4>2. c.mono - (c.mono - c.evttim) = c.evttim /\ c.mono - l \in Int
        BY <1>1, <1>2
      <4>3. Congruent(EVT, c.evttim, c.mono - l)
        <5>1. Congruent(EVT, c.mono - l, c.evttim)
          BY <4>1, <4>2
        <5> QED BY <5>1, <4>2, <1>1, CongruentSym
      <4>4. Congruent(EVT, d, d)
        BY <1>1, CongruentSelf
      <4> QED BY <4>2, <4>3, <4>4, <1>1, CongruentSum
    <3>2. (c.mono - l) + d = x /\ c.evttim + d \in Int /\ x \in Int
      BY <1>1, <1>2
    <3>3. Congruent(EVT, c.evttim + d, x)
      BY <3>1, <3>2
    <3> QED BY <3>2, <3>3, <1>1, <1>4, CongruentTrans
  <2>4. x \in Int /\ c.mono < x /\ x < c.mono + EVT
    BY <1>1, <1>2, <1>6
  <2>5. CASE x < EVT
    <3>1. new = x
      <4>1. new % EVT = x
        <5>1. x \in 0..EVT-1
          BY <2>4, <2>5, <1>1
        <5> QED BY <5>1, <2>3, <1>1, <1>4, ModOf
      <4>2. new % EVT = new
        <5>1. Congruent(EVT, new, new)
          BY <1>1, <1>4, CongruentSelf
        <5> QED BY <5>1, <1>1, <1>4, ModOf
      <4> QED BY <4>1, <4>2
    <3>2. c2.offset = c.offset
      BY <1>3, <1>4, <1>1, <2>4, <3>1
    <3>3. c2.offset + c2.mono = c.offset + c.mono + (d - l)
      BY <3>1, <3>2, <2>1, <1>1, <1>2
    <3>4. Congruent(SYS, c2.offset + c2.mono, c.offset + c.mono + (d - l))
      <4>1. c.offset + c.mono + (d - l) \in Int
        BY <1>1, <1>2
      <4>2. Congruent(SYS, c.offset + c.mono + (d - l), c.offset + c.mono + (d - l))
        BY <4>1, <1>1, CongruentSelf
      <4> QED BY <4>2, <3>3
    <3> QED BY <3>4, <2>2, <1>6 DEF c2, l
  <2>6. CASE x >= EVT
    <3>1. new = x - EVT
      <4> DEFINE y == x - EVT
      <4>1. y \in 0..EVT-1 /\ y \in Int
        BY <2>4, <2>6, <1>1
      <4>2. Congruent(EVT, x, y)
        <5>1. Congruent(EVT, y + EVT, y)
          BY <4>1, <1>1, CongruentSelf
        <5>2. y + EVT = x
          BY <2>4, <1>1
        <5> QED BY <5>1, <5>2
      <4> HIDE DEF y
      <4>3. Congruent(EVT, new, y)
        BY <4>1, <4>2, <2>3, <2>4, <1>1, <1>4, CongruentTrans
      <4>4. new % EVT = y
        BY <4>1, <4>3, <1>1, <1>4, ModOf
      <4>5. new % EVT = new
        <5>1. Congruent(EVT, new, new)
          BY <1>1, <1>4, CongruentSelf
        <5> QED BY <5>1, <1>1, <1>4, ModOf
      <4> QED BY <4>4, <4>5 DEF y
    <3>2. new < c.mono
      BY <3>1, <2>4, <1>1
    <3>3. c2.offset = (c.offset + EVT) % SYS
      BY <1>3, <1>6, <3>2
    <3>4. Congruent(SYS, c2.offset, c.offset + EVT) /\ c2.offset \in Int
      <4>1. c.offset + EVT \in Int
        BY <1>1
      <4>2. Congruent(SYS, (c.offset + EVT) % SYS, c.offset + EVT)
        BY <4>1, <1>1, ModCongruent
      <4> QED BY <4>2, <3>3, <1>4, ClockFields
    <3>5. Congruent(SYS, c2.offset + new, (c.offset + EVT) + new)
      <4>1. Congruent(SYS, new, new)
        BY <1>1, <1>4, CongruentSelf
      <4>2. c.offset + EVT \in Int
        BY <1>1
      <4> QED BY <4>1, <4>2, <3>4, <1>1, <1>4, CongruentSum
    <3>6. (c.offset + EVT) + new = c.offset + c.mono + (d - l)
      BY <3>1, <1>1, <1>2
    <3> QED BY <3>5, <3>6, <2>1, <2>2, <1>6 DEF c2, l
  <2> QED BY <2>4, <2>5, <2>6, <1>1
<1> QED BY <1>5, <1>6

(* A negative adjustment turns back the event times only.                  *)
turned_back(c, d) == [c EXCEPT !.evttim = (@ + d) % EVT]

LEMMA TurnedBack ==
  ASSUME NEW c \in Clock, NEW d \in Int, d <= 0, Lag(c) - d < EVT
  PROVE  /\ Moved(c, turned_back(c, d), d)
         /\ Lag(turned_back(c, d)) = Lag(c) - d
         /\ turned_back(c, d).mono = c.mono
         /\ turned_back(c, d).offset = c.offset
<1> DEFINE new == (c.evttim + d) % EVT
           c2 == turned_back(c, d)
           l == Lag(c)
<1>1. /\ EVT \in Nat \ {0} /\ c.evttim \in Int /\ c.mono \in Int
  BY ClockFields, Constants
<1>2. l \in 0..EVT-1 /\ l \in Int /\ Congruent(EVT, l, c.mono - c.evttim)
  BY LagRange, Constants
<1>3. new \in 0..EVT-1 /\ new \in Int /\ Congruent(EVT, new, c.evttim + d)
  <2>1. c.evttim + d \in Int
    BY <1>1
  <2>2. new \in 0..EVT-1 /\ Congruent(EVT, new, c.evttim + d)
    BY <2>1, <1>1, ModRange, ModCongruent
  <2> QED BY <2>2, <1>1
<1>4. c2 = [c EXCEPT !.evttim = new]
  BY DEF turned_back
<1> HIDE DEF new
<1>5. c2 \in Clock /\ c2.hrtcnt = c.hrtcnt /\ c2.evttim = new /\ c2.mono = c.mono /\ c2.offset = c.offset
  <2> HIDE DEF c2
  <2> QED BY <1>3, <1>4 DEF Clock
<1>6. Moved(c, c2, d)
  <2> HIDE DEF c2
  <2> QED BY <1>5, <1>3 DEF Moved
<1> HIDE DEF c2
<1>7. l - d \in 0..EVT-1 /\ l - d \in Int
  <2>1. l - d < EVT
    BY DEF l
  <2> HIDE DEF l
  <2> QED BY <1>2, <1>1, <2>1
<1> HIDE DEF l
<1>8. Congruent(EVT, c.mono - new, c.mono - (c.evttim + d))
  <2>1. Congruent(EVT, c.mono, c.mono) /\ c.evttim + d \in Int
    BY <1>1, CongruentSelf
  <2> QED BY <2>1, <1>1, <1>3, CongruentSum
<1>9. Congruent(EVT, c.mono - (c.evttim + d), l - d)
  <2>1. c.mono - c.evttim \in Int
    BY <1>1
  <2>2. Congruent(EVT, c.mono - c.evttim, l)
    BY <2>1, <1>1, <1>2, CongruentSym
  <2>3. Congruent(EVT, d, d)
    BY <1>1, CongruentSelf
  <2>4. Congruent(EVT, (c.mono - c.evttim) - d, l - d)
    BY <2>1, <2>2, <2>3, <1>1, <1>2, CongruentSum
  <2>5. (c.mono - c.evttim) - d = c.mono - (c.evttim + d)
    BY <1>1
  <2> QED BY <2>4, <2>5
<1>10. Congruent(EVT, c2.mono - c2.evttim, l - d)
  <2>1. c.mono - new \in Int /\ c.mono - (c.evttim + d) \in Int
    BY <1>1, <1>3
  <2>2. Congruent(EVT, c.mono - new, l - d)
    BY <2>1, <1>1, <1>7, <1>8, <1>9, CongruentTrans
  <2> QED BY <2>2, <1>5
<1>11. Lag(c2) = l - d
  BY <1>5, <1>7, <1>10, LagIs
<1> QED BY <1>5, <1>6, <1>11 DEF c2, l

--------------------------------------------------------------------------
(* The counter: what has been counted since the clock c was read is u.     *)
Counted(c, sim, u) ==
  /\ \E a \in Nat : c.hrtcnt = a * TSTEP
  /\ u \in Nat
  /\ sim = c.hrtcnt + u \/ sim + TCYC = c.hrtcnt + u

(* Reading it: the time that passes for the clock is that which was unread,*)
(* but for what the counter truncates.                                     *)
Truncated == simtim - target_hrt_get_current

LEMMA CounterOK ==
  ASSUME simtim \in 0..TCYC-1, unread < TCYC, clk \in Clock, Counted(clk, simtim, unread)
  PROVE  /\ target_hrt_get_current \in 0..TCYC-1
         /\ Truncated \in 0..TSTEP-1
         /\ (target_hrt_get_current - clk.hrtcnt) % TCYC = unread - Truncated
         /\ unread - Truncated \in 0..TCYC-1
         /\ \E a \in Nat : target_hrt_get_current = a * TSTEP
<1> DEFINE hw == target_hrt_get_current
<1>1. TSTEP \in Nat \ {0} /\ simtim \in Nat /\ TCYC \in Nat \ {0}
  BY Constants
<1>2. /\ simtim \div TSTEP \in Nat /\ hw \in Nat
      /\ hw <= simtim /\ simtim - hw \in 0..TSTEP-1
      /\ hw = (simtim \div TSTEP) * TSTEP
  BY <1>1, Floor DEF target_hrt_get_current
<1>3. PICK a \in Nat : clk.hrtcnt = a * TSTEP
  BY DEF Counted
<1>4. clk.hrtcnt \in 0..TCYC-1 /\ clk.hrtcnt \in Int
  BY ClockFields
<1>5. clk.hrtcnt <= simtim => clk.hrtcnt <= hw
  <2>1. a * TSTEP <= simtim => a * TSTEP <= (simtim \div TSTEP) * TSTEP
    BY <1>1, FloorAbove
  <2> QED BY <2>1, <1>2, <1>3
<1> HIDE DEF hw
<1>6. unread \in Nat /\ (simtim = clk.hrtcnt + unread \/ simtim + TCYC = clk.hrtcnt + unread)
  BY DEF Counted
<1> DEFINE u == simtim - hw
           d == unread - u
<1>7. u \in 0..TSTEP-1 /\ u \in Int /\ hw \in Int /\ hw + u = simtim
  BY <1>1, <1>2
<1>8. d \in 0..TCYC-1 /\ (hw - clk.hrtcnt = d \/ hw - clk.hrtcnt = d - TCYC)
  <2> DEFINE h == clk.hrtcnt
  <2> HIDE DEF h, u
  <2>1. /\ h \in Int /\ h >= 0 /\ h < TCYC /\ unread \in Nat /\ unread < TCYC /\ hw >= 0
        /\ u >= 0 /\ u \in Int /\ hw \in Int /\ TCYC \in Int /\ simtim = hw + u
    BY <1>1, <1>2, <1>4, <1>6, <1>7 DEF h
  <2>2. CASE simtim = h + unread
    <3>1. h <= hw
      BY <2>1, <2>2, <1>5 DEF h
    <3> QED BY <2>1, <2>2, <3>1 DEF h
  <2>3. CASE simtim + TCYC = h + unread
    BY <2>1, <2>3 DEF h
  <2> QED BY <2>2, <2>3, <1>6 DEF h
<1>9. Congruent(TCYC, hw - clk.hrtcnt, d)
  <2>1. d \in Int
    BY <1>8, <1>1
  <2> HIDE DEF d
  <2> QED BY <2>1, <1>1, <1>8, CongruentSelf
<1>10. (hw - clk.hrtcnt) % TCYC = d
  <2>1. hw - clk.hrtcnt \in Int
    BY <1>4, <1>7
  <2> HIDE DEF d
  <2> QED BY <2>1, <1>1, <1>8, <1>9, ModOf
<1>11. hw \in 0..TCYC-1
  BY <1>1, <1>2
<1> QED BY <1>2, <1>7, <1>8, <1>10, <1>11 DEF Truncated, hw

(* Setting it: the interrupt is requested at a step of the counter, at the *)
(* one that is due or the next.                                            *)
LEMMA SetEventOK ==
  ASSUME simtim \in Nat, NEW x \in Nat \ {0}
  PROVE  /\ target_hrt_set_event(x) \in Nat \ {0}
         /\ x <= target_hrt_set_event(x)
         /\ target_hrt_set_event(x) <= x + TSTEP - 1
<1> DEFINE t == simtim + x + TSTEP - 1
           r == (t \div TSTEP) * TSTEP
<1>1. TSTEP \in Nat \ {0} /\ t \in Nat
  BY Constants
<1>2. target_hrt_set_event(x) = r - simtim
  BY DEF target_hrt_set_event, RoundUp
<1>3. r \in Nat /\ r <= t /\ t - r \in 0..TSTEP-1
  <2> HIDE DEF t
  <2> QED BY <1>1, Floor
<1> HIDE DEF r
<1>4. r - simtim >= x /\ r - simtim <= x + TSTEP - 1
  BY <1>1, <1>3
<1> QED BY <1>1, <1>2, <1>3, <1>4

--------------------------------------------------------------------------
(* The top of the heap.                                                    *)
EventTimes == [TMEVTB -> 0..EVT-1]

LEMMA EventTime ==
  ASSUME NEW c \in Clock, NEW h \in SUBSET TMEVTB, NEW ev \in EventTimes, NEW e \in h
  PROVE  ev[e] \in Int /\ ev[e] \in 0..EVT-1 /\ Until(c, ev[e]) \in Int
         /\ Until(c, ev[e]) + MARGIN \in 0..EVT-1
<1>1. ev[e] \in 0..EVT-1
  BY DEF EventTimes
<1>2. ev[e] \in Int
  BY <1>1, Constants
<1> QED BY <1>1, <1>2, UntilRange

LEMMA TopIsFirst ==
  ASSUME NEW c \in Clock, NEW h \in SUBSET TMEVTB, NEW ev \in EventTimes, NEW e \in TMEVTB
  PROVE  e \in Top(c, h, ev) <=> e \in h /\ \A f \in h : Until(c, ev[e]) <= Until(c, ev[f])
<1>1. ASSUME e \in h, NEW f \in h
      PROVE  EVTTIM_LE(c, ev[e], ev[f]) <=> Until(c, ev[e]) <= Until(c, ev[f])
  BY <1>1, EventTime, UntilOrder
<1> QED BY <1>1 DEF Top

LEMMA TopExists ==
  ASSUME NEW c \in Clock, NEW h \in SUBSET TMEVTB, NEW ev \in EventTimes, h # {}
  PROVE  Top(c, h, ev) # {}
<1> DEFINE W == {Until(c, ev[e]) + MARGIN : e \in h}
<1>1. W \subseteq Nat /\ W # {}
  <2>1. \A e \in h : Until(c, ev[e]) + MARGIN \in Nat
    <3> TAKE e \in h
    <3>1. Until(c, ev[e]) + MARGIN \in 0..EVT-1
      BY EventTime
    <3> QED BY <3>1, Constants
  <2> QED BY <2>1
<1> HIDE DEF W
<1>2. PICK m \in W : \A w \in W : m <= w
  BY <1>1, LeastNat
<1>3. PICK e \in h : m = Until(c, ev[e]) + MARGIN
  BY DEF W
<1>4. \A f \in h : Until(c, ev[e]) <= Until(c, ev[f])
  <2> TAKE f \in h
  <2>1. Until(c, ev[f]) + MARGIN \in W
    BY DEF W
  <2>2. Until(c, ev[e]) + MARGIN <= Until(c, ev[f]) + MARGIN
    BY <2>1, <1>2, <1>3
  <2> QED BY <2>2, EventTime, Constants
<1>5. e \in TMEVTB
  OBVIOUS
<1> QED BY <1>4, <1>5, TopIsFirst

(* An interrupt is requested exactly when an event is due.                 *)
LEMMA DueIsPast ==
  ASSUME NEW c \in Clock, NEW h \in SUBSET TMEVTB, NEW ev \in EventTimes
  PROVE  /\ \A e \in Due(c, h, ev) :
              e \in h /\ Until(c, ev[e]) <= 0 /\ \A f \in h : Until(c, ev[e]) <= Until(c, ev[f])
         /\ ~raises(c, h, ev) => \A e \in h : Until(c, ev[e]) > 0
<1>1. ASSUME NEW e \in Top(c, h, ev)
      PROVE  /\ e \in h /\ \A f \in h : Until(c, ev[e]) <= Until(c, ev[f])
             /\ EVTTIM_LE(c, ev[e], c.evttim) <=> Until(c, ev[e]) <= 0
  <2>1. e \in TMEVTB /\ e \in h
    BY DEF Top
  <2>2. \A f \in h : Until(c, ev[e]) <= Until(c, ev[f])
    BY <2>1, TopIsFirst
  <2>3. EVTTIM_LE(c, ev[e], c.evttim) <=> Until(c, ev[e]) <= Until(c, c.evttim)
    BY <2>1, EventTime, ClockFields, UntilOrder
  <2> QED BY <2>1, <2>2, <2>3, UntilNow
<1>2. \A e \in Due(c, h, ev) :
        e \in h /\ Until(c, ev[e]) <= 0 /\ \A f \in h : Until(c, ev[e]) <= Until(c, ev[f])
  BY <1>1 DEF Due
<1>3. ASSUME ~raises(c, h, ev), NEW e \in h
      PROVE  Until(c, ev[e]) > 0
  <2>1. PICK f \in Top(c, h, ev) : TRUE
    BY TopExists
  <2>2. ~EVTTIM_LE(c, ev[f], c.evttim)
    BY <1>3 DEF raises, Due
  <2>3. f \in h /\ ~(Until(c, ev[f]) <= 0) /\ Until(c, ev[f]) <= Until(c, ev[e])
    BY <2>2, <1>1
  <2>4. Until(c, ev[e]) \in Int /\ Until(c, ev[f]) \in Int
    BY <2>3, EventTime
  <2> QED BY <2>3, <2>4
<1> QED BY <1>2, <1>3

(* Otherwise the alarm is set for the first event, or for the bound.       *)
LEMMA SettingOK ==
  ASSUME NEW c \in Clock, NEW h \in SUBSET TMEVTB, NEW ev \in EventTimes,
         simtim \in Nat, ~raises(c, h, ev)
  PROVE  /\ alarm_setting(c, h, ev) \in Nat \ {0}
         /\ alarm_setting(c, h, ev) <= BOUND + TSTEP - 1
         /\ \A e \in h : alarm_setting(c, h, ev) <= Until(c, ev[e]) + TSTEP - 1
<1> DEFINE next == {(ev[e] - c.evttim) % EVT : e \in Top(c, h, ev)}
           S == next \cup {BOUND}
<1>1. \A e \in Top(c, h, ev) :
        /\ e \in h /\ \A f \in h : Until(c, ev[e]) <= Until(c, ev[f])
        /\ (ev[e] - c.evttim) % EVT = Until(c, ev[e])
        /\ Until(c, ev[e]) \in Nat \ {0}
  <2> TAKE e \in Top(c, h, ev)
  <2>1. e \in TMEVTB /\ e \in h
    BY DEF Top
  <2>2. \A f \in h : Until(c, ev[e]) <= Until(c, ev[f])
    BY <2>1, TopIsFirst
  <2>3. Until(c, ev[e]) \in Int /\ Until(c, ev[e]) > 0 /\ ev[e] \in Int
    BY <2>1, DueIsPast, EventTime
  <2>4. (ev[e] - c.evttim) % EVT = Until(c, ev[e])
    BY <2>3, UntilIsNext
  <2> QED BY <2>1, <2>2, <2>3, <2>4
<1>2. S \subseteq Nat \ {0} /\ BOUND \in S
  BY <1>1, Constants
<1>3. \A e \in Top(c, h, ev) : Until(c, ev[e]) \in S
  BY <1>1
<1> DEFINE m == Min(S)
<1>4. alarm_setting(c, h, ev) = target_hrt_set_event(m)
  BY DEF alarm_setting
<1> HIDE DEF S
<1>5. m \in S /\ \A x \in S : m <= x
  <2>1. S \subseteq Nat /\ S # {}
    BY <1>2
  <2> QED BY <2>1, MinNat
<1> HIDE DEF m
<1>6. m \in Nat \ {0} /\ m <= BOUND
  BY <1>2, <1>5
<1>7. \A e \in h : m <= Until(c, ev[e])
  <2> TAKE e \in h
  <2>1. PICK f \in Top(c, h, ev) : TRUE
    BY TopExists
  <2>2. m <= Until(c, ev[f])
    BY <1>3, <1>5
  <2>3. f \in h /\ Until(c, ev[f]) <= Until(c, ev[e]) /\ Until(c, ev[f]) \in Nat
    BY <1>1
  <2> QED BY <2>2, <2>3, <1>6, EventTime
<1> DEFINE al == target_hrt_set_event(m)
<1>8. al \in Nat \ {0} /\ al <= m + TSTEP - 1
  BY <1>6, SetEventOK
<1> HIDE DEF al
<1>9. al <= BOUND + TSTEP - 1
  BY <1>6, <1>8, Constants
<1>10. \A e \in h : al <= Until(c, ev[e]) + TSTEP - 1
  <2> TAKE e \in h
  <2>1. Until(c, ev[e]) \in Int /\ m <= Until(c, ev[e])
    BY <1>7, EventTime
  <2> QED BY <2>1, <1>6, <1>8, Constants
<1> QED BY <1>4, <1>8, <1>9, <1>10 DEF al

--------------------------------------------------------------------------
(* The invariant, for any values of the variables.                         *)

Rounding == 2 * TSTEP - 2      \* setting the timer and reading the counter
Slack == 2 * ADJTIM + Rounding

(* An event with the way s to its time: the way is the true time that is   *)
(* left, rounded up by at most a step, with what has not been read; and it *)
(* fits into the word, also after all that may be adjusted.                *)
EventAt(s, l, u, left) ==
  /\ s - u - left \in 1..TSTEP
  /\ s - l + 2 * ADJTIM + MARGIN < EVT

EventsAt(c, u, h, ev, left) ==
  /\ Lag(c) <= 2 * ADJTIM
  /\ \A e \in h : EventAt(Until(c, ev[e]), Lag(c), u, left[e])

(* The timer is set so that it comes before every event and before the     *)
(* counter has gone round; while its interrupt is served, for the time b,  *)
(* the events get no later than that.                                      *)
TimerAt(c, u, h, ev, al, served, b) ==
  /\ al \in 0..BOUND+TSTEP
  /\ served => /\ u <= BOUND + Rounding + b
               /\ \A e \in h : Until(c, ev[e]) - u >= -(Slack + b)
  /\ ~served => /\ al > 0
                /\ al + u <= BOUND + Rounding
                /\ \A e \in h : al + u <= Until(c, ev[e]) + Rounding

Types(c, sim, h, ev, left, b) ==
  /\ c \in Clock
  /\ sim \in 0..TCYC-1
  /\ h \in SUBSET TMEVTB
  /\ ev \in EventTimes
  /\ left \in [TMEVTB -> Int]
  /\ b \in 0..MaxDelay

Inv(c, sim, u, h, ev, left, al, served, b) ==
  /\ Types(c, sim, h, ev, left, b)
  /\ Counted(c, sim, u)
  /\ EventsAt(c, u, h, ev, left)
  /\ TimerAt(c, u, h, ev, al, served, b)

IInv ==
  /\ Inv(clk, simtim, unread, heap, evttim, rem, alarm, pending \/ in_signal_time, busy)
  /\ pending \in BOOLEAN /\ in_signal_time \in BOOLEAN
  /\ callback \in TMEVTB \cup {NULL}

LEMMA Slacks ==
  /\ Rounding \in Nat /\ Slack \in Nat
  /\ BOUND + Rounding + MaxDelay < TCYC
  /\ BOUND + Rounding + MaxDelay + ADJTIM < EVT
  /\ Slack + MaxDelay <= MARGIN
  /\ Rounding = 2 * TSTEP - 2 /\ Slack = 2 * ADJTIM + Rounding
BY Constants DEF Rounding, Slack

(* How late an event can be, and how long the counter is left unread.      *)
LEMMA Bounds ==
  ASSUME NEW c, NEW sim, NEW u, NEW h, NEW ev, NEW left, NEW al, NEW served \in BOOLEAN, NEW b,
         Inv(c, sim, u, h, ev, left, al, served, b)
  PROVE  /\ u \in Nat /\ u <= BOUND + Rounding + b
         /\ u < TCYC /\ u < EVT - ADJTIM
         /\ \A e \in h : /\ e \in TMEVTB /\ ev[e] \in Int
                         /\ Until(c, ev[e]) \in Int /\ left[e] \in Int
                         /\ Until(c, ev[e]) - u >= -(Slack + b)
<1>1. c \in Clock /\ h \in SUBSET TMEVTB /\ ev \in EventTimes /\ b \in 0..MaxDelay
  BY DEF Inv, Types
<1>2. u \in Nat /\ al \in 0..BOUND+TSTEP
  BY DEF Inv, Counted, TimerAt
<1>3. b \in Nat /\ b <= MaxDelay /\ al \in Nat
  BY <1>1, <1>2, Constants
<1>4. u <= BOUND + Rounding + b
  BY <1>2, <1>3, Constants, Slacks DEF Inv, TimerAt
<1>5. \A e \in h : /\ e \in TMEVTB /\ ev[e] \in Int
                   /\ Until(c, ev[e]) \in Int /\ left[e] \in Int
  BY <1>1, EventTime DEF Inv, Types
<1>6. \A e \in h : Until(c, ev[e]) - u >= -(Slack + b)
  <2> TAKE e \in h
  <2>1. served => Until(c, ev[e]) - u >= -(Slack + b)
    BY DEF Inv, TimerAt
  <2>2. ~served => al > 0 /\ al + u <= Until(c, ev[e]) + Rounding
    BY DEF Inv, TimerAt
  <2>3. Until(c, ev[e]) \in Int
    BY <1>5
  <2> QED BY <2>1, <2>2, <2>3, <1>2, <1>3, Slacks, Constants
<1> QED BY <1>2, <1>3, <1>4, <1>5, <1>6, Slacks, Constants

(* The clock c moves by d to c2 while d less is unread.                    *)
Follows(c, c2, u, u2, d) ==
  /\ d \in Int /\ 0 <= d /\ d <= u /\ u2 = u - d
  /\ c2 \in Clock
  /\ c2.evttim \in Int /\ Congruent(EVT, c2.evttim, c.evttim + d)
  /\ Lag(c2) = IF Lag(c) < d THEN 0 ELSE Lag(c) - d

(* This changes nothing else.                                              *)
LEMMA ClockMoves ==
  ASSUME NEW c, NEW sim, NEW u, NEW h, NEW ev, NEW left, NEW al, NEW served \in BOOLEAN, NEW b,
         Inv(c, sim, u, h, ev, left, al, served, b),
         NEW c2, NEW u2, NEW d, Follows(c, c2, u, u2, d)
  PROVE  /\ EventsAt(c2, u2, h, ev, left)
         /\ TimerAt(c2, u2, h, ev, al, served, b)
<1>0. /\ d \in Int /\ 0 <= d /\ d <= u /\ u2 = u - d
      /\ c2 \in Clock
      /\ c2.evttim \in Int /\ Congruent(EVT, c2.evttim, c.evttim + d)
      /\ Lag(c2) = IF Lag(c) < d THEN 0 ELSE Lag(c) - d
  BY DEF Follows
<1>1. /\ u \in Nat /\ u <= BOUND + Rounding + b
      /\ \A e \in h : /\ e \in TMEVTB /\ ev[e] \in Int
                      /\ Until(c, ev[e]) \in Int /\ left[e] \in Int
                      /\ Until(c, ev[e]) - u >= -(Slack + b)
  BY Bounds
<1>2. c \in Clock /\ h \in SUBSET TMEVTB /\ ev \in EventTimes /\ b \in Nat /\ b <= MaxDelay
  BY <1>0, Constants DEF Inv, Types
<1>3. Lag(c) \in Nat /\ Lag(c) <= 2 * ADJTIM
      /\ \A e \in h : EventAt(Until(c, ev[e]), Lag(c), u, left[e])
  <2>1. Lag(c) \in 0..EVT-1
    BY <1>0, <1>2, LagRange
  <2> QED BY <1>0, <2>1, Constants DEF Inv, EventsAt
<1>4. \A e \in h : Until(c2, ev[e]) = Until(c, ev[e]) - d
  <2> TAKE e \in h
  <2> DEFINE s == Until(c, ev[e])
  <2>1. s \in Int /\ ev[e] \in Int /\ s + MARGIN \in 0..EVT-1 /\ s - u >= -(Slack + b)
    BY <1>0, <1>1, <1>2, EventTime
  <2>2. Congruent(EVT, ev[e], ev[e] + 0)
    <3>1. ev[e] + 0 = ev[e] /\ EVT \in Nat \ {0}
      BY <1>0, <2>1, Constants
    <3>2. Congruent(EVT, ev[e], ev[e])
      BY <1>0, <2>1, <3>1, CongruentSelf
    <3> QED BY <1>0, <3>1, <3>2
  <2>3. s - d + 0 + MARGIN \in 0..EVT-1
    <3> HIDE DEF s
    <3> QED BY <1>0, <2>1, <1>1, <1>2, Slacks, Constants
  <2>4. Until(c2, ev[e]) = s - d + 0
    BY <1>0, <2>1, <2>2, <2>3, <1>2, UntilMoved
  <2>5. s - d + 0 = s - d
    BY <1>0, <2>1
  <2> QED BY <1>0, <2>4, <2>5
<1> DEFINE l2 == Lag(c2)
           l == Lag(c)
<1>5. (l2 = IF l < d THEN 0 ELSE l - d) /\ l \in Nat /\ l <= 2 * ADJTIM
  BY <1>0, <1>3
<1> HIDE DEF l2, l
<1>6. l2 \in Nat /\ l2 <= 2 * ADJTIM /\ l - d <= l2
  BY <1>0, <1>5, Constants
<1>7. \A e \in h : EventAt(Until(c2, ev[e]), l2, u - d, left[e])
  <2> TAKE e \in h
  <2> DEFINE s == Until(c, ev[e])
             tr == left[e]
  <2>1. /\ s \in Int /\ tr \in Int /\ l \in Nat /\ Until(c2, ev[e]) = s - d
        /\ EventAt(s, l, u, tr) /\ l - d <= l2
    BY <1>0, <1>1, <1>3, <1>4, <1>6 DEF l
  <2> HIDE DEF s, tr
  <2>2. (s - d) - (u - d) - tr = s - u - tr
    BY <1>0, <2>1, <1>1
  <2>3. (s - d) - l2 + 2 * ADJTIM + MARGIN < EVT
    BY <1>0, <2>1, <1>6, Constants DEF EventAt
  <2>4. s - u - tr \in 1..TSTEP
    BY <1>0, <2>1 DEF EventAt
  <2>5. EventAt(s - d, l2, u - d, tr)
    BY <1>0, <2>2, <2>3, <2>4 DEF EventAt
  <2> QED BY <1>0, <2>1, <2>5 DEF tr
<1>8. EventsAt(c2, u - d, h, ev, left)
  BY <1>0, <1>6, <1>7 DEF EventsAt, l2
<1>9. TimerAt(c2, u - d, h, ev, al, served, b)
  <2>1. al \in 0..BOUND+TSTEP /\ al \in Nat
    BY <1>0, Constants DEF Inv, TimerAt
  <2>2. CASE served
    <3>1. u - d <= BOUND + Rounding + b
      BY <1>0, <1>1, <1>2, Slacks, Constants
    <3>2. \A e \in h : Until(c2, ev[e]) - (u - d) >= -(Slack + b)
      <4> TAKE e \in h
      <4> DEFINE s == Until(c, ev[e])
      <4>1. s \in Int /\ s - u >= -(Slack + b) /\ Until(c2, ev[e]) = s - d
        BY <1>0, <1>1, <1>4
      <4> HIDE DEF s
      <4> QED BY <1>0, <4>1, <1>1, <1>2, Slacks
    <3> QED BY <1>0, <2>1, <2>2, <3>1, <3>2 DEF TimerAt
  <2>3. CASE ~served
    <3>1. al > 0 /\ al + u <= BOUND + Rounding /\ \A e \in h : al + u <= Until(c, ev[e]) + Rounding
      BY <1>0, <2>3 DEF Inv, TimerAt
    <3>2. al + (u - d) <= BOUND + Rounding
      BY <1>0, <3>1, <2>1, <1>1, Slacks, Constants
    <3>3. \A e \in h : al + (u - d) <= Until(c2, ev[e]) + Rounding
      <4> TAKE e \in h
      <4> DEFINE s == Until(c, ev[e])
      <4>1. s \in Int /\ al + u <= s + Rounding /\ Until(c2, ev[e]) = s - d
        BY <1>0, <1>1, <1>4, <3>1
      <4> HIDE DEF s
      <4> QED BY <1>0, <4>1, <2>1, <1>1, Slacks
    <3> QED BY <1>0, <2>1, <2>3, <3>1, <3>2, <3>3 DEF TimerAt
  <2> QED BY <1>0, <2>2, <2>3
<1> QED BY <1>0, <1>4, <1>8, <1>9

(* The distances of the clock c2 when d has passed since c.                *)
Passed(c, c2, d) ==
  /\ Lag(c2) = IF Lag(c) < d THEN 0 ELSE Lag(c) - d
  /\ Congruent(SYS, c2.offset + c2.mono,
               c.offset + c.mono + (IF Lag(c) < d THEN d - Lag(c) ELSE 0))

(* Reading the clock keeps the invariant of all the rest.                  *)
LEMMA ReadOK ==
  ASSUME IInv
  PROVE  /\ Inv(update_current_evttim(clk), simtim, Truncated, heap, evttim, rem, alarm,
                pending \/ in_signal_time, busy)
         /\ Truncated \in 0..TSTEP-1
         /\ unread - Truncated \in 0..EVT-1
         /\ unread - Truncated + ADJTIM < EVT
         /\ Passed(clk, update_current_evttim(clk), unread - Truncated)
<1> DEFINE hw == target_hrt_get_current
           c0 == [clk EXCEPT !.hrtcnt = hw]
           u == Truncated
           d == unread - u
           c == advance(c0, d)
           served == pending \/ in_signal_time
<1>1. /\ Inv(clk, simtim, unread, heap, evttim, rem, alarm, served, busy)
      /\ served \in BOOLEAN
  BY DEF IInv
<1> HIDE DEF served
<1>2. /\ clk \in Clock /\ simtim \in 0..TCYC-1 /\ Counted(clk, simtim, unread)
      /\ Types(clk, simtim, heap, evttim, rem, busy)
  BY <1>1 DEF Inv, Types
<1>3. unread \in Nat /\ unread < TCYC /\ unread < EVT - ADJTIM
  BY <1>1, Bounds
<1>4. /\ hw \in 0..TCYC-1 /\ u \in 0..TSTEP-1
      /\ (hw - clk.hrtcnt) % TCYC = d
      /\ d \in 0..TCYC-1
      /\ \E a \in Nat : hw = a * TSTEP
  BY <1>2, <1>3, CounterOK
<1>5. update_current_evttim(clk) = c
  BY <1>4 DEF update_current_evttim
<1>6. c0 \in Clock /\ c0.hrtcnt = hw /\ c0.evttim = clk.evttim /\ c0.mono = clk.mono
      /\ c0.offset = clk.offset
  <2> HIDE DEF hw
  <2> QED BY <1>2, <1>4 DEF Clock
<1>7. simtim - hw = u
  BY DEF Truncated
<1> HIDE DEF hw, c0, u
<1>8. Lag(c0) = Lag(clk)
  BY <1>6 DEF Lag
<1>9. d \in Int /\ d \in 0..EVT-1 /\ d + ADJTIM < EVT /\ 0 <= d /\ d <= unread /\ u \in Nat
      /\ unread - d = u
  BY <1>3, <1>4, Constants
<1> HIDE DEF d
<1>10. Moved(c0, c, d)
  BY <1>6, <1>9, AdvanceFields
<1>11. Passed(clk, c, d)
  BY <1>6, <1>8, <1>9, AdvanceOK DEF Passed
<1> HIDE DEF c
<1>12. /\ c \in Clock /\ c.hrtcnt = hw
       /\ c.evttim \in Int /\ Congruent(EVT, c.evttim, clk.evttim + d)
  BY <1>6, <1>10 DEF Moved
<1>13. EventsAt(c, u, heap, evttim, rem)
       /\ TimerAt(c, u, heap, evttim, alarm, served, busy)
  <2>1. Lag(c) = IF Lag(clk) < d THEN 0 ELSE Lag(clk) - d
    BY <1>11 DEF Passed
  <2>2. Follows(clk, c, unread, u, d)
    BY <1>9, <1>12, <2>1 DEF Follows
  <2> QED BY <1>1, <2>2, ClockMoves
<1>15. Counted(c, simtim, u)
  <2>1. hw + u = simtim
    BY <1>2, <1>4, <1>7, Constants
  <2> QED BY <2>1, <1>4, <1>9, <1>12 DEF Counted
<1>16. Types(c, simtim, heap, evttim, rem, busy)
  BY <1>2, <1>12 DEF Types
<1>17. Inv(c, simtim, u, heap, evttim, rem, alarm, served, busy)
  BY <1>13, <1>15, <1>16 DEF Inv
<1>18. unread - u = d
  BY DEF d
<1> QED BY <1>4, <1>5, <1>9, <1>11, <1>17, <1>18 DEF u, served

(* Setting the timer for any clock just read, any heap and any times of    *)
(* the events, late by no more than usual.                                 *)
LEMMA SetTimerOK ==
  ASSUME NEW c, NEW u \in 0..TSTEP-1, NEW h, NEW ev, NEW left, NEW b, NEW al, NEW p \in BOOLEAN,
         simtim \in Nat, Types(c, simtim, h, ev, left, b),
         alarm \in 0..BOUND+TSTEP,
         \A e \in h : Until(c, ev[e]) - u >= -(Slack + b),
         al = IF raises(c, h, ev) THEN alarm ELSE alarm_setting(c, h, ev),
         raises(c, h, ev) => p
  PROVE  TimerAt(c, u, h, ev, al, p, b)
<1>1. /\ c \in Clock /\ h \in SUBSET TMEVTB /\ ev \in EventTimes /\ b \in Nat
      /\ \A e \in h : Until(c, ev[e]) \in Int
  BY EventTime, Constants DEF Types
<1>2. u \in Nat /\ u <= TSTEP - 1
  BY Constants
<1>3. CASE raises(c, h, ev)
  <2>1. al = alarm /\ p
    BY <1>3
  <2>2. u <= BOUND + Rounding + b
    BY <1>1, <1>2, Constants, Slacks
  <2> QED BY <2>1, <2>2 DEF TimerAt
<1>4. CASE ~raises(c, h, ev)
  <2>1. /\ al \in Nat \ {0} /\ al <= BOUND + TSTEP - 1
        /\ \A e \in h : al <= Until(c, ev[e]) + TSTEP - 1
    BY <1>1, <1>4, SettingOK
  <2>2. al \in 0..BOUND+TSTEP /\ al > 0
    BY <2>1, Constants
  <2>3. u <= BOUND + Rounding + b
    BY <1>1, <1>2, Constants, Slacks
  <2>4. al + u <= BOUND + Rounding
    BY <2>1, <1>2, Constants, Slacks
  <2>5. \A e \in h : al + u <= Until(c, ev[e]) + Rounding
    <3> TAKE e \in h
    <3> DEFINE s == Until(c, ev[e])
    <3>1. s \in Int /\ al <= s + TSTEP - 1
      BY <1>1, <2>1
    <3> HIDE DEF s
    <3>2. al + u <= s + Rounding
      BY <3>1, <2>1, <1>2, Constants, Slacks
    <3> QED BY <3>2 DEF s
  <2> QED BY <2>2, <2>3, <2>4, <2>5 DEF TimerAt
<1> QED BY <1>3, <1>4

--------------------------------------------------------------------------
(* What the invariant says of each part.                                   *)
Parts(c, sim, u, h, ev, left, al, b) ==
  /\ c \in Clock /\ sim \in 0..TCYC-1 /\ sim \in Nat /\ h \in SUBSET TMEVTB
  /\ ev \in EventTimes /\ left \in [TMEVTB -> Int] /\ b \in 0..MaxDelay /\ b \in Nat
  /\ u \in Nat /\ al \in 0..BOUND+TSTEP
  /\ Lag(c) \in Nat /\ Lag(c) <= 2 * ADJTIM
  /\ \A e \in h : /\ e \in TMEVTB /\ ev[e] \in Int
                  /\ Until(c, ev[e]) \in Int /\ left[e] \in Int
                  /\ Until(c, ev[e]) - u >= -(Slack + b)
                  /\ EventAt(Until(c, ev[e]), Lag(c), u, left[e])

LEMMA InvParts ==
  ASSUME NEW c, NEW sim, NEW u, NEW h, NEW ev, NEW left, NEW al, NEW served \in BOOLEAN, NEW b,
         Inv(c, sim, u, h, ev, left, al, served, b)
  PROVE  Parts(c, sim, u, h, ev, left, al, b)
<1>1. /\ c \in Clock /\ sim \in 0..TCYC-1 /\ h \in SUBSET TMEVTB
      /\ ev \in EventTimes /\ left \in [TMEVTB -> Int] /\ b \in 0..MaxDelay
  BY DEF Inv, Types
<1>2. sim \in Nat /\ b \in Nat
  BY <1>1, Constants
<1>3. u \in Nat /\ al \in 0..BOUND+TSTEP
  BY DEF Inv, Counted, TimerAt
<1>4. Lag(c) \in Nat
  BY <1>1, LagRange, Constants
<1>5. Lag(c) <= 2 * ADJTIM /\ \A e \in h : EventAt(Until(c, ev[e]), Lag(c), u, left[e])
  BY DEF Inv, EventsAt
<1>6. \A e \in h : /\ e \in TMEVTB /\ ev[e] \in Int
                   /\ Until(c, ev[e]) \in Int /\ left[e] \in Int
                   /\ Until(c, ev[e]) - u >= -(Slack + b)
  BY Bounds
<1> QED BY <1>1, <1>2, <1>3, <1>4, <1>5, <1>6 DEF Parts

(* An event registered for the time that tmevtb_enqueue_reltim() uses.     *)
LEMMA UntilNew ==
  ASSUME NEW c \in Clock, NEW time \in RELTIM
  PROVE  /\ Until(c, (calc_current_evttim_ub(c) + time) % EVT) = TSTEP + time
         /\ (calc_current_evttim_ub(c) + time) % EVT \in 0..EVT-1
<1> DEFINE x == calc_current_evttim_ub(c) + time
           t == x % EVT
           s == TSTEP + time
<1>1. time \in Nat /\ TSTEP + time + 2 * ADJTIM + MARGIN < EVT
  BY TimeAssumption
<1>2. s \in Nat /\ s + MARGIN \in 0..EVT-1 /\ s \in Int
  BY <1>1, Constants
<1>3. c.evttim \in Int /\ EVT \in Nat \ {0}
  BY ClockFields, Constants
<1>4. x = c.evttim + s /\ x \in Int
  BY <1>1, <1>3, Constants DEF calc_current_evttim_ub
<1> HIDE DEF x, s
<1>5. t \in 0..EVT-1 /\ Congruent(EVT, t, x)
  BY <1>3, <1>4, ModRange, ModCongruent
<1>6. t \in Int
  BY <1>3, <1>5
<1> HIDE DEF t
<1>7. Congruent(EVT, t - c.evttim, x - c.evttim)
  <2>1. Congruent(EVT, c.evttim, c.evttim)
    BY <1>3, CongruentSelf
  <2> QED BY <2>1, <1>3, <1>4, <1>5, <1>6, CongruentSum
<1>8. x - c.evttim = s
  BY <1>2, <1>3, <1>4
<1>9. Congruent(EVT, t - c.evttim, s)
  BY <1>7, <1>8
<1>10. Until(c, t) = s
  BY <1>2, <1>6, <1>9, UntilIs
<1> QED BY <1>5, <1>10 DEF t, x, s

LEMMA EnqueueOK ==
  ASSUME IInv, NEW e \in TMEVTB, NEW time \in RELTIM, tmevtb_enqueue_reltim(e, time)
  PROVE  IInv'
<1> DEFINE c == update_current_evttim(clk)
           u == Truncated
           h == heap \cup {e}
           t == (calc_current_evttim_ub(c) + time) % EVT
           ev == [evttim EXCEPT ![e] = t]
           left == [rem EXCEPT ![e] = time]
           served == pending \/ in_signal_time
<1>1. Inv(c, simtim, u, heap, evttim, rem, alarm, served, busy) /\ u \in 0..TSTEP-1
  BY ReadOK
<1>2. served \in BOOLEAN /\ pending \in BOOLEAN /\ in_signal_time \in BOOLEAN
      /\ callback \in TMEVTB \cup {NULL}
  BY DEF IInv
<1>3. /\ e \notin heap
      /\ clk' = c /\ unread' = u
      /\ heap' = h /\ evttim' = ev
      /\ rem' = left
      /\ IF ~in_signal_time /\ Top(c, h, ev) = {e} THEN set_hrt_event(c, h, ev)
         ELSE UNCHANGED <<alarm, pending>>
      /\ UNCHANGED <<in_signal_time, callback, simtim, busy>>
  BY DEF tmevtb_enqueue_reltim, Read, Truncated
<1> HIDE DEF c, u, served
<1>4. /\ c \in Clock /\ simtim \in 0..TCYC-1 /\ simtim \in Nat /\ heap \in SUBSET TMEVTB
      /\ evttim \in EventTimes /\ rem \in [TMEVTB -> Int] /\ busy \in 0..MaxDelay /\ busy \in Nat
      /\ u \in Nat /\ alarm \in 0..BOUND+TSTEP
      /\ Lag(c) \in Nat /\ Lag(c) <= 2 * ADJTIM
      /\ \A f \in heap : /\ f \in TMEVTB /\ evttim[f] \in Int
                         /\ Until(c, evttim[f]) \in Int /\ rem[f] \in Int
                         /\ Until(c, evttim[f]) - u >= -(Slack + busy)
                         /\ EventAt(Until(c, evttim[f]), Lag(c), u, rem[f])
  <2>1. Parts(c, simtim, u, heap, evttim, rem, alarm, busy)
    BY <1>1, <1>2, InvParts
  <2> QED BY <2>1 DEF Parts
<1>5. Until(c, t) = TSTEP + time /\ t \in 0..EVT-1
  BY <1>4, UntilNew
<1>6. time \in Nat /\ TSTEP + time + 2 * ADJTIM + MARGIN < EVT
  BY TimeAssumption
<1> HIDE DEF t
<1>7. h \in SUBSET TMEVTB /\ ev \in EventTimes /\ left \in [TMEVTB -> Int]
      /\ ev[e] = t /\ left[e] = time
      /\ \A f \in heap : ev[f] = evttim[f] /\ left[f] = rem[f]
  BY <1>3, <1>4, <1>5, <1>6 DEF EventTimes
<1>8. \A f \in h : f = e \/ f \in heap
  OBVIOUS
<1> HIDE DEF h, ev, left
<1>9. Types(c, simtim, h, ev, left, busy)
  BY <1>4, <1>7 DEF Types
<1>10. EventsAt(c, u, h, ev, left)
  <2>1. EventAt(Until(c, t), Lag(c), u, time)
    <3> DEFINE l == Lag(c)
    <3>1. l \in Nat
      BY <1>4
    <3> HIDE DEF l
    <3>2. EventAt(TSTEP + time, l, u, time)
      BY <3>1, <1>1, <1>4, <1>6, Constants DEF EventAt
    <3> QED BY <3>2, <1>5 DEF l
  <2>2. \A f \in h : EventAt(Until(c, ev[f]), Lag(c), u, left[f])
    BY <2>1, <1>4, <1>7, <1>8
  <2> QED BY <2>2, <1>4 DEF EventsAt
<1>11. \A f \in h : Until(c, ev[f]) - u >= -(Slack + busy)
  <2>1. TSTEP + time - u >= -(Slack + busy)
    BY <1>1, <1>4, <1>6, Constants, Slacks
  <2>2. Until(c, ev[e]) - u >= -(Slack + busy)
    <3>1. Until(c, ev[e]) = TSTEP + time
      BY <1>5, <1>7
    <3> QED BY <2>1, <3>1, <1>4, <1>6, Constants, Slacks
  <2>3. ASSUME NEW f \in heap PROVE Until(c, ev[f]) - u >= -(Slack + busy)
    BY <1>4, <1>7
  <2> QED BY <2>2, <2>3, <1>8
<1> DEFINE served2 == pending' \/ in_signal_time'
<1>12. TimerAt(c, u, h, ev, alarm', served2, busy)
  <2>1. CASE ~in_signal_time /\ Top(c, h, ev) = {e}
    <3>1. /\ pending' = (pending \/ raises(c, h, ev))
          /\ alarm' = IF raises(c, h, ev) THEN alarm ELSE alarm_setting(c, h, ev)
      BY <1>3, <2>1 DEF set_hrt_event
    <3>2. served2 \in BOOLEAN /\ (raises(c, h, ev) => served2)
      BY <3>1
    <3> HIDE DEF served2
    <3> QED BY <3>1, <3>2, <1>1, <1>4, <1>9, <1>11, SetTimerOK
  <2>2. CASE ~(~in_signal_time /\ Top(c, h, ev) = {e})
    <3>1. alarm' = alarm /\ pending' = pending /\ served2 = served
      BY <1>2, <1>3, <2>2 DEF served
    <3> HIDE DEF served2
    <3>2. TimerAt(c, u, heap, evttim, alarm, served, busy)
      BY <1>1 DEF Inv
    <3>3. CASE served
      <4>1. u <= BOUND + Rounding + busy
        BY <3>2, <3>3 DEF TimerAt
      <4>2. TimerAt(c, u, h, ev, alarm, served, busy)
        BY <4>1, <1>4, <1>11, <3>3 DEF TimerAt
      <4> QED BY <3>1, <4>2
    <3>4. CASE ~served
      <4>1. alarm > 0 /\ alarm + u <= BOUND + Rounding
            /\ \A f \in heap : alarm + u <= Until(c, evttim[f]) + Rounding
        BY <3>2, <3>4 DEF TimerAt
      <4>2. PICK f \in heap : Until(c, evttim[f]) <= Until(c, t)
        <5>1. Top(c, h, ev) # {e}
          BY <2>2, <3>4 DEF served
        <5>2. h # {}
          BY DEF h
        <5>3. Top(c, h, ev) # {}
          BY <5>2, <1>4, <1>7, TopExists
        <5>4. PICK f \in Top(c, h, ev) : f # e
          BY <5>1, <5>3
        <5>5. f \in TMEVTB /\ f \in h
          BY <1>7 DEF Top
        <5>6. Until(c, ev[f]) <= Until(c, ev[e])
          <6>1. e \in h
            BY DEF h
          <6> QED BY <6>1, <5>4, <5>5, <1>4, <1>7, TopIsFirst
        <5> QED BY <5>4, <5>5, <5>6, <1>7, <1>8
      <4>3. alarm + u <= Until(c, t) + Rounding
        <5> DEFINE s == Until(c, evttim[f])
                   s2 == Until(c, t)
        <5>1. s \in Int /\ s2 \in Int /\ s <= s2 /\ alarm + u <= s + Rounding
          BY <4>1, <4>2, <1>4, <1>5, <1>6, Constants
        <5> HIDE DEF s, s2
        <5>2. alarm \in Int
          BY <1>4, Constants
        <5>3. alarm + u <= s2 + Rounding
          BY <5>1, <5>2, <1>4, Slacks
        <5> QED BY <5>3 DEF s2
      <4>4. \A g \in h : alarm + u <= Until(c, ev[g]) + Rounding
        BY <4>1, <4>3, <1>7, <1>8
      <4>5. TimerAt(c, u, h, ev, alarm, served, busy)
        BY <4>1, <4>4, <1>4, <3>4 DEF TimerAt
      <4> QED BY <3>1, <4>5
    <3> QED BY <3>3, <3>4
  <2> QED BY <2>1, <2>2
<1>13. Counted(c, simtim, u)
  BY <1>1 DEF Inv
<1>14. Inv(c, simtim, u, h, ev, left, alarm', served2, busy)
  BY <1>9, <1>10, <1>12, <1>13 DEF Inv
<1>15. pending' \in BOOLEAN
  BY <1>2, <1>3 DEF set_hrt_event
<1>16. Inv(clk', simtim', unread', heap', evttim', rem', alarm', pending' \/ in_signal_time', busy')
  BY <1>3, <1>14
<1> QED BY <1>2, <1>3, <1>15, <1>16 DEF IInv

(* set_hrt_event() after any change of the heap or of the clock.           *)
LEMMA TimerSet ==
  ASSUME NEW c, NEW u \in 0..TSTEP-1, NEW h, NEW ev, NEW left,
         simtim \in Nat, Types(c, simtim, h, ev, left, busy), alarm \in 0..BOUND+TSTEP,
         pending \in BOOLEAN, in_signal_time' \in BOOLEAN,
         \A e \in h : Until(c, ev[e]) - u >= -(Slack + busy),
         set_hrt_event(c, h, ev)
  PROVE  /\ TimerAt(c, u, h, ev, alarm', pending' \/ in_signal_time', busy)
         /\ pending' \in BOOLEAN
<1> DEFINE p == pending' \/ in_signal_time'
<1>1. /\ pending' = (pending \/ raises(c, h, ev))
      /\ alarm' = IF raises(c, h, ev) THEN alarm ELSE alarm_setting(c, h, ev)
  BY DEF set_hrt_event
<1>2. p \in BOOLEAN /\ (raises(c, h, ev) => p)
  BY <1>1
<1>3. pending' \in BOOLEAN
  BY <1>1 DEF raises
<1> HIDE DEF p
<1>4. TimerAt(c, u, h, ev, alarm', p, busy)
  BY <1>1, <1>2, SetTimerOK
<1> QED BY <1>3, <1>4 DEF p

(* An event leaves the heap.                                               *)
Cleared(f, e) == [f EXCEPT ![e] = 0]

LEMMA EventLeaves ==
  ASSUME NEW c, NEW sim, NEW u, NEW h, NEW ev, NEW left, NEW al, NEW served \in BOOLEAN, NEW b,
         Inv(c, sim, u, h, ev, left, al, served, b), NEW e \in h
  PROVE  Inv(c, sim, u, h \ {e}, Cleared(ev, e), Cleared(left, e), al, served, b)
<1> DEFINE h2 == h \ {e}
           ev2 == Cleared(ev, e)
           left2 == Cleared(left, e)
<1>1. Types(c, sim, h, ev, left, b) /\ Counted(c, sim, u) /\ EventsAt(c, u, h, ev, left)
      /\ TimerAt(c, u, h, ev, al, served, b)
  BY DEF Inv
<1>2. h \in SUBSET TMEVTB /\ ev \in EventTimes /\ left \in [TMEVTB -> Int]
  BY <1>1 DEF Types
<1>3. 0 \in 0..EVT-1
  BY Constants
<1>4. h2 \in SUBSET TMEVTB /\ ev2 \in EventTimes /\ left2 \in [TMEVTB -> Int]
      /\ \A f \in h2 : f \in h /\ ev2[f] = ev[f] /\ left2[f] = left[f]
  BY <1>2, <1>3 DEF EventTimes, Cleared
<1> HIDE DEF h2, ev2, left2
<1>5. Types(c, sim, h2, ev2, left2, b)
  BY <1>1, <1>4 DEF Types
<1>6. EventsAt(c, u, h2, ev2, left2)
  BY <1>1, <1>4 DEF EventsAt
<1>7. TimerAt(c, u, h2, ev2, al, served, b)
  <2>1. al \in 0..BOUND+TSTEP
        /\ (served => u <= BOUND + Rounding + b)
        /\ (~served => al > 0 /\ al + u <= BOUND + Rounding)
    BY <1>1 DEF TimerAt
  <2>2. ASSUME served, NEW f \in h2 PROVE Until(c, ev2[f]) - u >= -(Slack + b)
    <3>1. Until(c, ev[f]) - u >= -(Slack + b) /\ ev2[f] = ev[f]
      BY <2>2, <1>1, <1>4 DEF TimerAt
    <3> QED BY <3>1
  <2>3. ASSUME ~served, NEW f \in h2 PROVE al + u <= Until(c, ev2[f]) + Rounding
    <3>1. al + u <= Until(c, ev[f]) + Rounding /\ ev2[f] = ev[f]
      BY <2>3, <1>1, <1>4 DEF TimerAt
    <3> QED BY <3>1
  <2> QED BY <2>1, <2>2, <2>3 DEF TimerAt
<1> QED BY <1>1, <1>5, <1>6, <1>7 DEF Inv, h2, ev2, left2

LEMMA DequeueOK ==
  ASSUME IInv, NEW e \in TMEVTB, tmevtb_dequeue(e)
  PROVE  IInv'
<1> DEFINE c == update_current_evttim(clk)
           u == Truncated
           h == heap \ {e}
           ev == Cleared(evttim, e)
           left == Cleared(rem, e)
           served == pending \/ in_signal_time
<1>1. Inv(c, simtim, u, heap, evttim, rem, alarm, served, busy) /\ u \in 0..TSTEP-1
      /\ Inv(clk, simtim, unread, heap, evttim, rem, alarm, served, busy)
  BY ReadOK DEF IInv
<1>2. served \in BOOLEAN /\ pending \in BOOLEAN /\ in_signal_time \in BOOLEAN
      /\ callback \in TMEVTB \cup {NULL}
  BY DEF IInv
<1>3. /\ e \in heap
      /\ heap' = h /\ evttim' = ev /\ rem' = left
      /\ \/ clk' = c /\ unread' = u /\ set_hrt_event(c, h, ev)
         \/ UNCHANGED <<clk, unread, alarm, pending>>
      /\ UNCHANGED <<in_signal_time, callback, simtim, busy>>
  BY DEF tmevtb_dequeue, Read, Truncated, Cleared
<1> HIDE DEF c, u, served
<1>4. Inv(c, simtim, u, h, ev, left, alarm, served, busy)
      /\ Inv(clk, simtim, unread, h, ev, left, alarm, served, busy)
  BY <1>1, <1>2, <1>3, EventLeaves
<1> HIDE DEF h, ev, left
<1> DEFINE served2 == pending' \/ in_signal_time'
<1>5. CASE clk' = c /\ unread' = u /\ set_hrt_event(c, h, ev)
  <2>1. Parts(c, simtim, u, h, ev, left, alarm, busy)
    BY <1>2, <1>4, InvParts
  <2>2. simtim \in Nat /\ alarm \in 0..BOUND+TSTEP
        /\ \A f \in h : Until(c, ev[f]) - u >= -(Slack + busy)
    BY <2>1 DEF Parts
  <2>3. Types(c, simtim, h, ev, left, busy) /\ Counted(c, simtim, u) /\ EventsAt(c, u, h, ev, left)
    BY <1>4 DEF Inv
  <2>4. in_signal_time' \in BOOLEAN
    BY <1>2, <1>3
  <2>5. TimerAt(c, u, h, ev, alarm', served2, busy) /\ pending' \in BOOLEAN
    BY <2>2, <2>3, <2>4, <1>1, <1>2, <1>5, TimerSet
  <2> HIDE DEF served2
  <2>6. Inv(c, simtim, u, h, ev, left, alarm', served2, busy)
    BY <2>3, <2>5 DEF Inv
  <2>7. Inv(clk', simtim', unread', heap', evttim', rem', alarm', pending' \/ in_signal_time', busy')
    BY <1>3, <1>5, <2>6 DEF served2
  <2> QED BY <1>2, <1>3, <2>5, <2>7 DEF IInv
<1>6. CASE UNCHANGED <<clk, unread, alarm, pending>>
  <2>1. Inv(clk', simtim', unread', heap', evttim', rem', alarm', pending' \/ in_signal_time', busy')
    BY <1>3, <1>4, <1>6 DEF served
  <2> QED BY <1>2, <1>3, <1>6, <2>1 DEF IInv
<1> QED BY <1>3, <1>5, <1>6

LEMMA GetTimOK ==
  ASSUME IInv, get_tim
  PROVE  IInv'
<1>1. Inv(update_current_evttim(clk), simtim, Truncated, heap, evttim, rem, alarm,
          pending \/ in_signal_time, busy)
  BY ReadOK
<1>2. /\ clk' = update_current_evttim(clk) /\ unread' = Truncated
      /\ UNCHANGED <<heap, evttim, in_signal_time, callback, simtim, alarm, pending, busy, rem>>
  BY DEF get_tim, Read, Truncated, hardware
<1>3. Inv(clk', simtim', unread', heap', evttim', rem', alarm', pending' \/ in_signal_time', busy')
  BY <1>1, <1>2
<1> QED BY <1>2, <1>3 DEF IInv

(* The offset of the system time does not concern the event times.         *)
LEMMA OffsetFree ==
  ASSUME NEW c, NEW sim, NEW u, NEW h, NEW ev, NEW left, NEW al, NEW served, NEW b,
         Inv(c, sim, u, h, ev, left, al, served, b), NEW o \in 0..SYS-1
  PROVE  Inv([c EXCEPT !.offset = o], sim, u, h, ev, left, al, served, b)
<1> DEFINE c2 == [c EXCEPT !.offset = o]
<1>1. c \in Clock
  BY DEF Inv, Types
<1>2. c2 \in Clock /\ c2.hrtcnt = c.hrtcnt /\ c2.evttim = c.evttim /\ c2.mono = c.mono
  BY <1>1 DEF Clock
<1> HIDE DEF c2
<1>3. Lag(c2) = Lag(c) /\ \A t : Until(c2, t) = Until(c, t)
  BY <1>2 DEF Lag, Until, EVTTIM_ADVANCE, boundary_evttim
<1>4. Types(c2, sim, h, ev, left, b)
  BY <1>2 DEF Inv, Types
<1>5. Counted(c2, sim, u)
  BY <1>2 DEF Inv, Counted
<1>6. EventsAt(c2, u, h, ev, left)
  BY <1>3 DEF Inv, EventsAt
<1>7. TimerAt(c2, u, h, ev, al, served, b)
  BY <1>3 DEF Inv, TimerAt
<1> QED BY <1>4, <1>5, <1>6, <1>7 DEF Inv, c2

LEMMA SetTimOK ==
  ASSUME IInv, NEW time \in SetTimes, set_tim(time)
  PROVE  IInv'
<1> DEFINE c == update_current_evttim(clk)
           o == (time - c.mono) % SYS
           served == pending \/ in_signal_time
<1>1. Inv(c, simtim, Truncated, heap, evttim, rem, alarm, served, busy)
  BY ReadOK
<1>2. /\ clk' = [c EXCEPT !.offset = o] /\ unread' = Truncated
      /\ UNCHANGED <<heap, evttim, in_signal_time, callback, simtim, alarm, pending, busy, rem>>
  BY DEF set_tim, Read, Truncated, hardware
<1> HIDE DEF c, served
<1>3. o \in 0..SYS-1
  <2>1. c \in Clock
    BY <1>1 DEF Inv, Types
  <2>2. time - c.mono \in Int /\ SYS \in Nat \ {0}
    BY <2>1, ClockFields, Constants, TimeAssumption
  <2> QED BY <2>2, ModRange
<1> HIDE DEF o
<1>4. Inv([c EXCEPT !.offset = o], simtim, Truncated, heap, evttim, rem, alarm, served, busy)
  BY <1>1, <1>3, OffsetFree
<1>5. Inv(clk', simtim', unread', heap', evttim', rem', alarm', pending' \/ in_signal_time', busy')
  BY <1>2, <1>4 DEF served
<1> QED BY <1>2, <1>5 DEF IInv

--------------------------------------------------------------------------
(* adj_tim() is refused while an event is late by the adjustment allowed:  *)
(* only what is less late may become later.                                *)
LEMMA CheckOK ==
  ASSUME NEW c \in Clock, NEW adjtim \in Int, heap \in SUBSET TMEVTB, evttim \in EventTimes,
         ADJTIM <= MARGIN, ~check_adjtim(c, adjtim)
  PROVE  /\ adjtim > 0 => \A e \in heap : Until(c, evttim[e]) > -ADJTIM
         /\ adjtim < 0 => Lag(c) < ADJTIM
<1>1. ASSUME adjtim > 0, NEW e \in heap, ~(Until(c, evttim[e]) > -ADJTIM)
      PROVE  FALSE
  <2>1. PICK f \in Top(c, heap, evttim) : TRUE
    <3>1. heap # {}
      BY <1>1
    <3> QED BY <3>1, TopExists
  <2>2. f \in heap /\ f \in TMEVTB
    BY DEF Top
  <2> DEFINE s == Until(c, evttim[f])
             t == evttim[f] + ADJTIM
  <2>3. s <= Until(c, evttim[e])
    BY <2>2, TopIsFirst, <1>1
  <2>4. evttim[f] \in Int /\ s \in Int /\ s + MARGIN \in 0..EVT-1 /\ Until(c, evttim[e]) \in Int
    BY <2>2, EventTime, <1>1
  <2>5. c.evttim \in Int /\ EVT \in Nat \ {0}
    BY ClockFields, Constants
  <2>6. s - 0 + ADJTIM + MARGIN \in 0..EVT-1 /\ s + ADJTIM <= 0 /\ s - 0 + ADJTIM = s + ADJTIM
    <3> HIDE DEF s
    <3> QED BY <1>1, <2>3, <2>4, Constants
  <2>7. Congruent(EVT, t, evttim[f] + ADJTIM) /\ t \in Int
    <3>1. t \in Int
      BY <2>4, Constants
    <3>2. Congruent(EVT, t, t)
      <4> HIDE DEF t
      <4> QED BY <3>1, <2>5, CongruentSelf
    <3> QED BY <3>1, <3>2
  <2>8. Congruent(EVT, c.evttim, c.evttim + 0)
    <3>1. c.evttim + 0 = c.evttim
      BY <2>5
    <3>2. Congruent(EVT, c.evttim, c.evttim)
      BY <2>5, CongruentSelf
    <3> QED BY <3>1, <3>2
  <2>9. Until(c, t) = s - 0 + ADJTIM
    <3>1. ADJTIM \in Int /\ 0 \in Int
      BY Constants
    <3> HIDE DEF t
    <3> QED BY <3>1, <2>4, <2>5, <2>6, <2>7, <2>8, UntilMoved
  <2>10. Until(c, t) <= Until(c, c.evttim)
    <3>1. Until(c, c.evttim) = 0
      BY UntilNow
    <3> HIDE DEF s, t
    <3> QED BY <3>1, <2>6, <2>9
  <2>11. EVTTIM_LE(c, t, c.evttim)
    BY <2>5, <2>7, <2>10, UntilOrder
  <2> QED BY <2>1, <2>11, <1>1 DEF check_adjtim
<1>2. ASSUME adjtim < 0, ~(Lag(c) < ADJTIM)
      PROVE  FALSE
  <2>1. Lag(c) \in Int
    BY LagRange, Constants
  <2>2. (c.mono - c.evttim) % EVT >= ADJTIM
    BY <2>1, <1>2, Constants DEF Lag
  <2> QED BY <2>2, <1>2 DEF check_adjtim
<1> QED BY <1>1, <1>2

(* The adjusted clock, and what is adjusted: the ways to the events and    *)
(* the true times left.                                                    *)
Adjusted(c, adjtim) ==
  IF adjtim > 0 THEN advance(c, adjtim) ELSE turned_back(c, adjtim)

LEMMA AdjustedOK ==
  ASSUME NEW c, NEW u \in 0..TSTEP-1, NEW al, NEW served \in BOOLEAN,
         Inv(c, simtim, u, heap, evttim, rem, al, served, busy),
         NEW adjtim \in Adjustments, adjtim # 0, ~check_adjtim(c, adjtim),
         NEW left, left \in [TMEVTB -> Int],
         \A e \in heap : left[e] = rem[e] - adjtim
  PROVE  LET c2 == Adjusted(c, adjtim) IN
         /\ Types(c2, simtim, heap, evttim, left, busy)
         /\ Counted(c2, simtim, u)
         /\ EventsAt(c2, u, heap, evttim, left)
         /\ \A e \in heap : Until(c2, evttim[e]) - u >= -(Slack + busy)
<1> DEFINE c2 == Adjusted(c, adjtim)
           l == Lag(c)
           l2 == Lag(c2)
<1>1. adjtim \in Int /\ adjtim <= ADJTIM /\ -ADJTIM <= adjtim
  BY Constants DEF Adjustments
<1>2. Parts(c, simtim, u, heap, evttim, rem, al, busy)
  BY InvParts
<1>3. /\ c \in Clock /\ heap \in SUBSET TMEVTB /\ evttim \in EventTimes /\ busy \in Nat
      /\ l \in Nat /\ l <= 2 * ADJTIM /\ u \in Nat
      /\ \A e \in heap : /\ e \in TMEVTB /\ evttim[e] \in Int
                         /\ Until(c, evttim[e]) \in Int /\ rem[e] \in Int
                         /\ Until(c, evttim[e]) - u >= -(Slack + busy)
                         /\ EventAt(Until(c, evttim[e]), l, u, rem[e])
  BY <1>2 DEF Parts
<1>4. ADJTIM <= MARGIN /\ 2 * ADJTIM <= MARGIN /\ u <= Rounding
  BY Constants, Slacks
<1>5. /\ adjtim > 0 => \A e \in heap : Until(c, evttim[e]) > -ADJTIM
      /\ adjtim < 0 => l < ADJTIM
  BY <1>1, <1>3, <1>4, CheckOK
<1>6. /\ Moved(c, c2, adjtim)
      /\ l2 \in Nat /\ l2 <= 2 * ADJTIM /\ l - adjtim <= l2
      /\ adjtim < 0 => l2 = l - adjtim
  <2>1. CASE adjtim > 0
    <3>1. c2 = advance(c, adjtim)
      BY <2>1 DEF Adjusted
    <3>2. adjtim \in 0..EVT-1
      BY <2>1, <1>1, Constants
    <3>3. Moved(c, c2, adjtim)
      BY <1>1, <1>3, <3>1, AdvanceFields
    <3>4. l2 = IF l < adjtim THEN 0 ELSE l - adjtim
      BY <1>3, <3>1, <3>2, AdvanceOK
    <3> HIDE DEF l, l2, c2
    <3>5. l2 \in Nat /\ l2 <= 2 * ADJTIM /\ l - adjtim <= l2
      BY <3>4, <1>1, <1>3, <2>1, Constants
    <3> QED BY <3>3, <3>5, <2>1, <1>1
  <2>2. CASE adjtim < 0
    <3>1. c2 = turned_back(c, adjtim)
      BY <2>2, <1>1 DEF Adjusted
    <3>2. adjtim <= 0 /\ l - adjtim < EVT
      <4> HIDE DEF l
      <4> QED BY <1>1, <1>3, <1>5, <2>2, Constants
    <3>3. Moved(c, c2, adjtim) /\ l2 = l - adjtim
      BY <1>1, <1>3, <3>1, <3>2, TurnedBack
    <3> HIDE DEF l, l2, c2
    <3>4. l2 \in Nat /\ l2 <= 2 * ADJTIM /\ l - adjtim <= l2
      BY <3>3, <1>1, <1>3, <1>5, <2>2, Constants
    <3> QED BY <3>3, <3>4
  <2> QED BY <2>1, <2>2, <1>1
<1>7. /\ c2 \in Clock /\ c2.hrtcnt = c.hrtcnt
      /\ c2.evttim \in Int /\ Congruent(EVT, c2.evttim, c.evttim + adjtim)
  BY <1>6 DEF Moved
<1> HIDE DEF c2, l, l2
<1>8. ASSUME NEW e \in heap
      PROVE  /\ Until(c2, evttim[e]) = Until(c, evttim[e]) - adjtim
             /\ Until(c2, evttim[e]) - u >= -(Slack + busy)
             /\ EventAt(Until(c2, evttim[e]), l2, u, left[e])
  <2> DEFINE s == Until(c, evttim[e])
             tr == rem[e]
  <2>1. /\ s \in Int /\ evttim[e] \in Int /\ tr \in Int /\ s + MARGIN \in 0..EVT-1
        /\ s - u >= -(Slack + busy) /\ EventAt(s, l, u, tr)
        /\ left[e] = tr - adjtim
        /\ adjtim > 0 => s > -ADJTIM
    BY <1>3, <1>5, EventTime
  <2> HIDE DEF s, tr
  <2>2. s - u - tr \in 1..TSTEP /\ s - l + 2 * ADJTIM + MARGIN < EVT
    BY <2>1 DEF EventAt
  <2>3. s - adjtim + 0 + MARGIN \in 0..EVT-1 /\ s - adjtim + 0 = s - adjtim
    <3>1. CASE adjtim > 0
      BY <3>1, <2>1, <1>1, <1>4, Constants
    <3>2. CASE adjtim < 0
      BY <3>2, <2>1, <2>2, <1>1, <1>3, <1>6, Constants
    <3> QED BY <3>1, <3>2, <1>1
  <2>4. Congruent(EVT, evttim[e], evttim[e] + 0)
    <3>1. evttim[e] + 0 = evttim[e] /\ EVT \in Nat \ {0}
      BY <2>1, Constants
    <3>2. Congruent(EVT, evttim[e], evttim[e])
      BY <2>1, <3>1, CongruentSelf
    <3> QED BY <3>1, <3>2
  <2>5. Until(c2, evttim[e]) = s - adjtim + 0
    <3> USE DEF s
    <3> QED BY <1>1, <1>3, <1>7, <2>1, <2>3, <2>4, UntilMoved
  <2>6. Until(c2, evttim[e]) = s - adjtim
    BY <2>3, <2>5
  <2>7. s - adjtim - u >= -(Slack + busy)
    <3>1. CASE adjtim > 0
      BY <3>1, <2>1, <1>1, <1>3, <1>4, Constants, Slacks
    <3>2. CASE adjtim < 0
      BY <3>2, <2>1, <1>1, <1>3, Constants, Slacks
    <3> QED BY <3>1, <3>2, <1>1
  <2>8. EventAt(s - adjtim, l2, u, tr - adjtim)
    <3>1. (s - adjtim) - u - (tr - adjtim) = s - u - tr
      BY <2>1, <1>1, <1>3
    <3>2. (s - adjtim) - l2 + 2 * ADJTIM + MARGIN < EVT
      BY <2>1, <2>2, <1>1, <1>3, <1>6, Constants
    <3> QED BY <3>1, <3>2, <2>2 DEF EventAt
  <2> QED BY <2>1, <2>6, <2>7, <2>8 DEF s
<1>9. Types(c2, simtim, heap, evttim, left, busy)
  BY <1>7 DEF Inv, Types
<1>10. Counted(c2, simtim, u)
  BY <1>7 DEF Inv, Counted
<1>11. EventsAt(c2, u, heap, evttim, left)
  BY <1>6, <1>8 DEF EventsAt, l2
<1> QED BY <1>8, <1>9, <1>10, <1>11 DEF c2

LEMMA AdjTimOK ==
  ASSUME IInv, NEW adjtim \in Adjustments, adjtim # 0, adj_tim(adjtim)
  PROVE  IInv'
<1> DEFINE c == update_current_evttim(clk)
           c2 == Adjusted(c, adjtim)
           u == Truncated
           left == [e \in TMEVTB |-> IF e \in heap THEN rem[e] - adjtim ELSE 0]
           served == pending \/ in_signal_time
           served2 == pending' \/ in_signal_time'
<1>1. Inv(c, simtim, u, heap, evttim, rem, alarm, served, busy) /\ u \in 0..TSTEP-1
  BY ReadOK
<1>2. served \in BOOLEAN /\ pending \in BOOLEAN /\ in_signal_time \in BOOLEAN
      /\ callback \in TMEVTB \cup {NULL}
  BY DEF IInv
<1>3. /\ ~check_adjtim(c, adjtim)
      /\ clk' = c2 /\ unread' = u
      /\ rem' = left
      /\ IF in_signal_time THEN UNCHANGED <<alarm, pending>>
         ELSE set_hrt_event(c2, heap, evttim)
      /\ UNCHANGED <<heap, evttim, in_signal_time, callback, simtim, busy>>
  BY DEF adj_tim, Read, Truncated, Adjusted, turned_back
<1> HIDE DEF c, u, served
<1>4. Parts(c, simtim, u, heap, evttim, rem, alarm, busy)
  BY <1>1, <1>2, InvParts
<1>5. simtim \in Nat /\ alarm \in 0..BOUND+TSTEP /\ heap \in SUBSET TMEVTB
      /\ rem \in [TMEVTB -> Int] /\ busy \in Nat
  BY <1>4 DEF Parts
<1>6. left \in [TMEVTB -> Int] /\ \A e \in heap : left[e] = rem[e] - adjtim
  <2>1. adjtim \in Int
    BY Constants DEF Adjustments
  <2> QED BY <2>1, <1>5
<1> HIDE DEF left, c2
<1>7. /\ Types(c2, simtim, heap, evttim, left, busy)
      /\ Counted(c2, simtim, u)
      /\ EventsAt(c2, u, heap, evttim, left)
      /\ \A e \in heap : Until(c2, evttim[e]) - u >= -(Slack + busy)
  BY <1>1, <1>2, <1>3, <1>6, AdjustedOK DEF c2
<1>8. TimerAt(c2, u, heap, evttim, alarm', served2, busy) /\ pending' \in BOOLEAN
  <2>1. CASE in_signal_time
    <3>1. alarm' = alarm /\ pending' = pending /\ served2 = TRUE
      BY <1>3, <2>1
    <3>2. u <= BOUND + Rounding + busy
      BY <1>1, <1>5, Constants, Slacks
    <3> QED BY <3>1, <3>2, <1>2, <1>5, <1>7 DEF TimerAt
  <2>2. CASE ~in_signal_time
    <3>1. in_signal_time' \in BOOLEAN /\ set_hrt_event(c2, heap, evttim)
      BY <1>2, <1>3, <2>2
    <3> QED BY <3>1, <1>1, <1>2, <1>5, <1>7, TimerSet
  <2> QED BY <2>1, <2>2
<1> HIDE DEF served2
<1>9. Inv(c2, simtim, u, heap, evttim, left, alarm', served2, busy)
  BY <1>7, <1>8 DEF Inv
<1>10. Inv(clk', simtim', unread', heap', evttim', rem', alarm', pending' \/ in_signal_time', busy')
  BY <1>3, <1>9 DEF served2
<1> QED BY <1>2, <1>3, <1>8, <1>10 DEF IInv

--------------------------------------------------------------------------
(* An event is handled: what the next period is for a cyclic one.          *)
LEMMA UntilPeriod ==
  ASSUME NEW c \in Clock, NEW t \in Int, Until(c, t) <= 0
  PROVE  Until(c, (t + cyctim) % EVT) = Until(c, t) + cyctim
<1> DEFINE s == Until(c, t)
           t2 == (t + cyctim) % EVT
<1>1. s \in Int /\ s + MARGIN \in 0..EVT-1 /\ s <= 0 /\ cyctim \in Int /\ EVT \in Nat \ {0}
  BY UntilRange, Constants
<1>2. t2 \in Int /\ Congruent(EVT, t2, t + cyctim)
  <2>1. t + cyctim \in Int
    BY <1>1
  <2>2. t2 \in 0..EVT-1 /\ Congruent(EVT, t2, t + cyctim)
    BY <2>1, <1>1, ModRange, ModCongruent
  <2> QED BY <2>2, <1>1
<1> HIDE DEF s, t2
<1>3. s - 0 + cyctim + MARGIN \in 0..EVT-1 /\ s - 0 + cyctim = s + cyctim
  BY <1>1, Constants
<1>4. Congruent(EVT, c.evttim, c.evttim + 0) /\ c.evttim \in Int
  <2>1. c.evttim \in Int /\ c.evttim + 0 = c.evttim
    BY ClockFields
  <2>2. Congruent(EVT, c.evttim, c.evttim)
    BY <2>1, <1>1, CongruentSelf
  <2> QED BY <2>1, <2>2
<1>5. Until(c, t2) = s - 0 + cyctim
  <2> USE DEF s
  <2>1. 0 \in Int
    OBVIOUS
  <2> QED BY <2>1, <1>1, <1>2, <1>3, <1>4, UntilMoved
<1> QED BY <1>3, <1>5 DEF s, t2

LEMMA CallBackOK ==
  ASSUME NEW c, NEW u, NEW served \in BOOLEAN, served,
         Inv(c, simtim, u, heap, evttim, rem, alarm, served, busy), CallBack(c)
  PROVE  /\ Inv(c, simtim, u, heap', evttim', rem', alarm', served, busy')
         /\ in_signal_time' = TRUE /\ callback' \in TMEVTB
<1>1. PICK e \in Due(c, heap, evttim) :
        /\ callback' = e
        /\ in_signal_time' = TRUE
        /\ heap' = IF e \in Cyclic THEN heap ELSE heap \ {e}
        /\ evttim' = [evttim EXCEPT ![e] = IF e \in Cyclic THEN (@ + cyctim) % EVT ELSE 0]
        /\ rem' = [rem EXCEPT ![e] = IF e \in Cyclic THEN @ + cyctim ELSE 0]
        /\ UNCHANGED <<alarm, busy>>
  BY DEF CallBack
<1>2. Parts(c, simtim, u, heap, evttim, rem, alarm, busy)
  BY InvParts
<1> DEFINE l == Lag(c)
<1>3. /\ c \in Clock /\ heap \in SUBSET TMEVTB /\ evttim \in EventTimes
      /\ rem \in [TMEVTB -> Int] /\ busy \in Nat
      /\ l \in Nat /\ l <= 2 * ADJTIM /\ u \in Nat
      /\ \A f \in heap : /\ f \in TMEVTB /\ evttim[f] \in Int
                         /\ Until(c, evttim[f]) \in Int /\ rem[f] \in Int
                         /\ Until(c, evttim[f]) - u >= -(Slack + busy)
                         /\ EventAt(Until(c, evttim[f]), l, u, rem[f])
  BY <1>2 DEF Parts
<1>4. e \in heap /\ e \in TMEVTB /\ Until(c, evttim[e]) <= 0
  BY <1>3, DueIsPast
<1>5. CASE e \notin Cyclic
  <2>1. Inv(c, simtim, u, heap \ {e}, Cleared(evttim, e), Cleared(rem, e), alarm, served, busy)
    <3>1. e \in heap /\ served \in BOOLEAN
          /\ Inv(c, simtim, u, heap, evttim, rem, alarm, served, busy)
      BY <1>4
    <3> QED BY ONLY <3>1, EventLeaves
  <2>2. heap' = heap \ {e} /\ evttim' = Cleared(evttim, e) /\ rem' = Cleared(rem, e)
        /\ alarm' = alarm /\ busy' = busy
    BY <1>1, <1>5 DEF Cleared
  <2> QED BY <2>1, <2>2, <1>1, <1>4
<1>6. CASE e \in Cyclic
  <2> DEFINE t == (evttim[e] + cyctim) % EVT
             s == Until(c, evttim[e])
             tr == rem[e]
  <2>1. /\ s \in Int /\ s <= 0 /\ tr \in Int /\ evttim[e] \in Int
        /\ s - u >= -(Slack + busy) /\ EventAt(s, l, u, tr)
    BY <1>3, <1>4
  <2>2. Until(c, t) = s + cyctim
    BY <2>1, <1>3, UntilPeriod
  <2>3. t \in 0..EVT-1
    <3>1. evttim[e] + cyctim \in Int /\ EVT \in Nat \ {0}
      BY <2>1, Constants
    <3> QED BY <3>1, ModRange
  <2> HIDE DEF t
  <2>4. /\ heap' = heap /\ alarm' = alarm /\ busy' = busy
        /\ evttim' = [evttim EXCEPT ![e] = t]
        /\ rem' = [rem EXCEPT ![e] = tr + cyctim]
    BY <1>1, <1>6 DEF t
  <2> HIDE DEF s, l, tr
  <2>5. s + cyctim - u >= -(Slack + busy)
    BY <2>1, <1>3, Constants, Slacks
  <2>6. EventAt(s + cyctim, l, u, tr + cyctim)
    <3>1. s - u - tr \in 1..TSTEP
      BY <2>1 DEF EventAt
    <3>2. (s + cyctim) - u - (tr + cyctim) = s - u - tr
      BY <2>1, <1>3, Constants
    <3>3. (s + cyctim) - l + 2 * ADJTIM + MARGIN < EVT
      BY <2>1, <1>3, Constants
    <3> QED BY <3>1, <3>2, <3>3 DEF EventAt
  <2> DEFINE ev == evttim'
             left == rem'
  <2>7. ev \in EventTimes /\ left \in [TMEVTB -> Int] /\ ev[e] = t /\ left[e] = tr + cyctim
        /\ \A f \in heap : f # e => ev[f] = evttim[f] /\ left[f] = rem[f]
    <3>1. tr + cyctim \in Int
      BY <2>1, Constants
    <3> QED BY <3>1, <2>3, <2>4, <1>3, <1>4 DEF EventTimes
  <2> HIDE DEF ev, left
  <2>8. ASSUME NEW f \in heap
        PROVE  Until(c, ev[f]) - u >= -(Slack + busy) /\ EventAt(Until(c, ev[f]), l, u, left[f])
    <3>1. CASE f = e
      <4>1. Until(c, ev[f]) = s + cyctim /\ left[f] = tr + cyctim
        BY <3>1, <2>2, <2>7
      <4> QED BY <4>1, <2>1, <2>5, <2>6, <1>3, Constants, Slacks
    <3>2. CASE f # e
      <4>1. ev[f] = evttim[f] /\ left[f] = rem[f]
        BY <3>2, <2>7
      <4> QED BY <4>1, <1>3 DEF l
    <3> QED BY <3>1, <3>2
  <2>9. Types(c, simtim, heap, ev, left, busy)
    BY <2>7 DEF Inv, Types
  <2>10. EventsAt(c, u, heap, ev, left)
    BY <2>8, <1>3 DEF EventsAt, l
  <2>11. TimerAt(c, u, heap, ev, alarm, served, busy)
    <3>1. alarm \in 0..BOUND+TSTEP /\ u <= BOUND + Rounding + busy
      BY DEF Inv, TimerAt
    <3> QED BY <3>1, <2>8 DEF TimerAt
  <2>12. Inv(c, simtim, u, heap, ev, left, alarm, served, busy)
    BY <2>9, <2>10, <2>11 DEF Inv
  <2> QED BY <2>4, <2>12, <1>1, <1>4 DEF ev, left
<1> QED BY <1>5, <1>6

LEMMA FinishOK ==
  ASSUME NEW c, NEW u \in 0..TSTEP-1, NEW served \in BOOLEAN, NEW p \in BOOLEAN,
         Inv(c, simtim, u, heap, evttim, rem, alarm, served, busy), Finish(c)
  PROVE  /\ Inv(c, simtim, u, heap', evttim', rem', alarm', p, busy')
         /\ in_signal_time' = FALSE /\ callback' = NULL
<1>1. /\ ~raises(c, heap, evttim)
      /\ callback' = NULL
      /\ in_signal_time' = FALSE
      /\ alarm' = alarm_setting(c, heap, evttim)
      /\ busy' = 0
      /\ heap' = heap /\ evttim' = evttim /\ rem' = rem
  BY DEF Finish
<1>2. Parts(c, simtim, u, heap, evttim, rem, alarm, busy)
  BY InvParts
<1>3. /\ c \in Clock /\ heap \in SUBSET TMEVTB /\ evttim \in EventTimes
      /\ simtim \in Nat /\ alarm \in 0..BOUND+TSTEP
      /\ \A e \in heap : Until(c, evttim[e]) \in Int
  BY <1>2 DEF Parts
<1>4. \A e \in heap : Until(c, evttim[e]) > 0
  BY <1>1, <1>3, DueIsPast
<1> DEFINE b == busy'
<1>5. b = 0 /\ b \in 0..MaxDelay
  BY <1>1, Constants
<1> HIDE DEF b
<1>6. Types(c, simtim, heap, evttim, rem, b)
  BY <1>5 DEF Inv, Types
<1>7. \A e \in heap : Until(c, evttim[e]) - u >= -(Slack + b)
  <2> TAKE e \in heap
  <2> DEFINE s == Until(c, evttim[e])
  <2>1. s \in Int /\ s > 0
    BY <1>3, <1>4
  <2> HIDE DEF s
  <2>2. s - u >= -(Slack + b)
    BY <2>1, <1>5, Constants, Slacks
  <2> QED BY <2>2 DEF s
<1>8. TimerAt(c, u, heap, evttim, alarm', p, b)
  BY <1>1, <1>3, <1>6, <1>7, SetTimerOK
<1>9. Counted(c, simtim, u) /\ EventsAt(c, u, heap, evttim, rem)
  BY DEF Inv
<1>10. Inv(c, simtim, u, heap, evttim, rem, alarm', p, b)
  BY <1>6, <1>8, <1>9 DEF Inv
<1> QED BY <1>1, <1>10 DEF b

(* signal_time() as an interrupt handler and after a callback: of the      *)
(* clock that it goes on with.                                             *)
LEMMA ProcessOK ==
  ASSUME IInv, NEW c, NEW u,
         Inv(c, simtim, u, heap, evttim, rem, alarm, TRUE, busy),
         raises(c, heap, evttim) \/ u \in 0..TSTEP-1,
         clk' = c, unread' = u, simtim' = simtim, pending' \in BOOLEAN,
         Process(c)
  PROVE  IInv'
<1>1. CASE CallBack(c)
  <2>1. Inv(c, simtim, u, heap', evttim', rem', alarm', TRUE, busy')
        /\ in_signal_time' = TRUE /\ callback' \in TMEVTB
    BY <1>1, CallBackOK
  <2>2. (pending' \/ in_signal_time') = TRUE
    BY <2>1
  <2>3. Inv(clk', simtim', unread', heap', evttim', rem', alarm', pending' \/ in_signal_time', busy')
    BY <2>1, <2>2
  <2> QED BY <2>1, <2>3 DEF IInv
<1>2. CASE Finish(c)
  <2>1. u \in 0..TSTEP-1
    BY <1>2 DEF Finish
  <2> DEFINE p == pending'
  <2>2. p \in BOOLEAN
    OBVIOUS
  <2> HIDE DEF p
  <2>3. Inv(c, simtim, u, heap', evttim', rem', alarm', p, busy')
        /\ in_signal_time' = FALSE /\ callback' = NULL
    BY <1>2, <2>1, <2>2, FinishOK
  <2>4. (pending' \/ in_signal_time') = p
    BY <2>2, <2>3 DEF p
  <2>5. Inv(clk', simtim', unread', heap', evttim', rem', alarm', pending' \/ in_signal_time', busy')
    BY <2>3, <2>4
  <2> QED BY <2>3, <2>5 DEF IInv
<1> QED BY <1>1, <1>2 DEF Process

LEMMA HandlerOK ==
  ASSUME IInv, target_hrt_handler
  PROVE  IInv'
<1> DEFINE c == update_current_evttim(clk)
           u == Truncated
<1>1. /\ pending /\ pending' = FALSE /\ clk' = c /\ unread' = u
      /\ Process(c) /\ simtim' = simtim
  BY DEF target_hrt_handler, Read, Truncated
<1>2. Inv(c, simtim, u, heap, evttim, rem, alarm, pending \/ in_signal_time, busy)
      /\ u \in 0..TSTEP-1
  BY ReadOK
<1> HIDE DEF c, u
<1>3. (pending \/ in_signal_time) = TRUE
  BY <1>1
<1>4. Inv(c, simtim, u, heap, evttim, rem, alarm, TRUE, busy)
  BY <1>2, <1>3
<1>5. pending' \in BOOLEAN
  BY <1>1
<1> QED BY <1>1, <1>2, <1>4, <1>5, ProcessOK

LEMMA SignalTimeOK ==
  ASSUME IInv, signal_time
  PROVE  IInv'
<1>1. in_signal_time /\ simtim' = simtim /\ pending' = pending
  BY DEF signal_time
<1>2. (pending \/ in_signal_time) = TRUE /\ pending' \in BOOLEAN
  BY <1>1 DEF IInv
<1>3. CASE raises(clk, heap, evttim)
  <2>1. clk' = clk /\ unread' = unread /\ Process(clk)
    BY <1>3 DEF signal_time
  <2>2. Inv(clk, simtim, unread, heap, evttim, rem, alarm, TRUE, busy)
    BY <1>2 DEF IInv
  <2> QED BY <1>1, <1>2, <1>3, <2>1, <2>2, ProcessOK
<1>4. CASE ~raises(clk, heap, evttim)
  <2> DEFINE c == update_current_evttim(clk)
             u == Truncated
  <2>1. clk' = c /\ unread' = u /\ Process(c)
    BY <1>4 DEF signal_time, Read, Truncated
  <2>2. Inv(c, simtim, u, heap, evttim, rem, alarm, pending \/ in_signal_time, busy)
        /\ u \in 0..TSTEP-1
    BY ReadOK
  <2> HIDE DEF c, u
  <2>3. Inv(c, simtim, u, heap, evttim, rem, alarm, TRUE, busy)
    BY <1>2, <2>2
  <2> QED BY <1>1, <1>2, <2>1, <2>2, <2>3, ProcessOK
<1> QED BY <1>3, <1>4

LEMMA TickOK ==
  ASSUME IInv, Tick
  PROVE  IInv'
<1> DEFINE served == pending \/ in_signal_time
           served2 == pending' \/ in_signal_time'
           left == rem'
           al == alarm'
           b == busy'
           l == Lag(clk)
<1>1. /\ Inv(clk, simtim, unread, heap, evttim, rem, alarm, served, busy)
      /\ served \in BOOLEAN /\ pending \in BOOLEAN /\ in_signal_time \in BOOLEAN
      /\ callback \in TMEVTB \cup {NULL}
  BY DEF IInv
<1>2. /\ busy < MaxDelay
      /\ simtim' = (simtim + 1) % TCYC
      /\ unread' = unread + 1
      /\ left = [e \in TMEVTB |-> IF e \in heap THEN rem[e] - 1 ELSE 0]
      /\ al = IF alarm = 0 THEN 0 ELSE alarm - 1
      /\ pending' = (pending \/ alarm = 1)
      /\ b = IF served THEN busy + 1 ELSE 0
      /\ UNCHANGED <<clk, heap, evttim, in_signal_time, callback>>
  BY DEF Tick
<1>3. served2 = (served \/ alarm = 1) /\ served2 \in BOOLEAN /\ pending' \in BOOLEAN
  BY <1>1, <1>2
<1> HIDE DEF served, served2, left, al, b
<1>4. Parts(clk, simtim, unread, heap, evttim, rem, alarm, busy)
  BY <1>1, InvParts
<1>5. /\ clk \in Clock /\ heap \in SUBSET TMEVTB /\ evttim \in EventTimes
      /\ rem \in [TMEVTB -> Int] /\ busy \in Nat
      /\ simtim \in 0..TCYC-1 /\ alarm \in 0..BOUND+TSTEP /\ alarm \in Nat
      /\ l \in Nat /\ l <= 2 * ADJTIM /\ unread \in Nat
      /\ \A f \in heap : /\ f \in TMEVTB /\ evttim[f] \in Int
                         /\ Until(clk, evttim[f]) \in Int /\ rem[f] \in Int
                         /\ Until(clk, evttim[f]) - unread >= -(Slack + busy)
                         /\ EventAt(Until(clk, evttim[f]), l, unread, rem[f])
  BY <1>4, Constants DEF Parts
<1>6. unread < TCYC
  BY <1>1, Bounds
<1>7. left \in [TMEVTB -> Int] /\ \A e \in heap : left[e] = rem[e] - 1
  BY <1>2, <1>5
<1>8. b \in 0..MaxDelay /\ (served => b = busy + 1) /\ b \in Nat
  BY <1>1, <1>2, <1>5, Constants
<1>9. simtim' \in 0..TCYC-1
      /\ (simtim' = simtim + 1 \/ (simtim + 1 = TCYC /\ simtim' = 0))
  <2> DEFINE x == simtim + 1
  <2>1. x \in Int /\ TCYC \in Nat \ {0} /\ x \in 0..TCYC
    BY <1>5, Constants
  <2>2. simtim' = x % TCYC
    BY <1>2
  <2>3. CASE x = TCYC
    <3>1. Congruent(TCYC, 0 + TCYC, 0) /\ 0 + TCYC = x
      <4>1. 0 \in Int /\ 0 + TCYC = x
        BY <2>1, <2>3
      <4>2. Congruent(TCYC, 0 + TCYC, 0)
        BY <2>1, <4>1, CongruentSelf
      <4> QED BY <4>1, <4>2
    <3>2. Congruent(TCYC, x, 0) /\ 0 \in 0..TCYC-1
      BY <3>1, <2>1
    <3> HIDE DEF x
    <3>3. x % TCYC = 0
      BY <2>1, <3>2, ModOf
    <3> QED BY <2>1, <2>2, <2>3, <3>2, <3>3 DEF x
  <2>4. CASE x # TCYC
    <3>1. x \in 0..TCYC-1 /\ Congruent(TCYC, x, x)
      <4>1. x \in 0..TCYC-1
        BY <2>1, <2>4
      <4> HIDE DEF x
      <4> QED BY <4>1, <2>1, CongruentSelf
    <3>2. x % TCYC = x
      <4> HIDE DEF x
      <4> QED BY <2>1, <3>1, ModOf
    <3> QED BY <2>2, <3>1, <3>2
  <2> QED BY <2>3, <2>4
<1>10. Types(clk, simtim', heap, evttim, left, b)
  BY <1>5, <1>7, <1>8, <1>9 DEF Types
<1>11. Counted(clk, simtim', unread')
  <2>1. /\ \E a \in Nat : clk.hrtcnt = a * TSTEP
        /\ simtim = clk.hrtcnt + unread \/ simtim + TCYC = clk.hrtcnt + unread
    BY <1>1 DEF Inv, Counted
  <2>2. clk.hrtcnt \in Int /\ clk.hrtcnt < TCYC
    BY <1>5, ClockFields, Constants
  <2>3. simtim' = clk.hrtcnt + unread' \/ simtim' + TCYC = clk.hrtcnt + unread'
    <3> DEFINE hc == clk.hrtcnt
    <3>1. hc \in Int /\ hc < TCYC /\ simtim \in Int /\ unread \in Int
          /\ (simtim = hc + unread \/ simtim + TCYC = hc + unread)
          /\ TCYC \in Int
      BY <2>1, <2>2, <1>5, Constants
    <3> HIDE DEF hc
    <3>2. CASE simtim' = simtim + 1
      BY <3>1, <3>2, <1>2 DEF hc
    <3>3. CASE simtim + 1 = TCYC /\ simtim' = 0
      BY <3>1, <3>3, <1>2, <1>6 DEF hc
    <3> QED BY <3>2, <3>3, <1>9
  <2>4. unread' \in Nat
    BY <1>2, <1>5
  <2> QED BY <2>1, <2>3, <2>4 DEF Counted
<1> DEFINE u2 == unread'
<1>12. u2 = unread + 1
  BY <1>2
<1> HIDE DEF u2, l
<1>13. EventsAt(clk, u2, heap, evttim, left)
  <2>1. ASSUME NEW f \in heap PROVE EventAt(Until(clk, evttim[f]), l, u2, left[f])
    <3> DEFINE s == Until(clk, evttim[f])
               tr == rem[f]
    <3>1. s \in Int /\ tr \in Int /\ EventAt(s, l, unread, tr) /\ left[f] = tr - 1
      BY <1>5, <1>7
    <3> HIDE DEF s, tr
    <3>2. s - u2 - (tr - 1) = s - unread - tr
      BY <3>1, <1>5, <1>12
    <3>3. EventAt(s, l, u2, tr - 1)
      BY <3>1, <3>2 DEF EventAt
    <3> QED BY <3>1, <3>3 DEF s
  <2> QED BY <2>1, <1>5 DEF EventsAt, l
<1>14. TimerAt(clk, u2, heap, evttim, al, served2, b)
  <2>1. TimerAt(clk, unread, heap, evttim, alarm, served, busy)
    BY <1>1 DEF Inv
  <2>2. al \in 0..BOUND+TSTEP /\ (alarm > 0 => al = alarm - 1)
    BY <1>2, <1>5, Constants
  <2>3. CASE served
    <3>1. u2 <= BOUND + Rounding + b
      <4>1. unread <= BOUND + Rounding + busy
        BY <2>1, <2>3 DEF TimerAt
      <4> QED BY <4>1, <2>3, <1>5, <1>8, <1>12, Slacks, Constants
    <3>2. ASSUME NEW f \in heap PROVE Until(clk, evttim[f]) - u2 >= -(Slack + b)
      <4> DEFINE s == Until(clk, evttim[f])
      <4>1. s \in Int /\ s - unread >= -(Slack + busy)
        BY <1>5
      <4> HIDE DEF s
      <4>2. s - u2 >= -(Slack + b)
        BY <4>1, <2>3, <1>5, <1>8, <1>12, Slacks
      <4> QED BY <4>2 DEF s
    <3> QED BY <2>2, <2>3, <3>1, <3>2, <1>3 DEF TimerAt
  <2>4. CASE ~served
    <3>1. alarm > 0 /\ alarm + unread <= BOUND + Rounding
          /\ \A f \in heap : alarm + unread <= Until(clk, evttim[f]) + Rounding
      BY <2>1, <2>4 DEF TimerAt
    <3>2. al = alarm - 1 /\ al + u2 = alarm + unread
      BY <2>2, <3>1, <1>5, <1>12
    <3>3. al + u2 <= BOUND + Rounding
      BY <3>1, <3>2
    <3>4. \A f \in heap : al + u2 <= Until(clk, evttim[f]) + Rounding
      BY <3>1, <3>2
    <3>5. u2 <= BOUND + Rounding + b
      BY <3>2, <3>3, <1>5, <1>8, <1>12, <3>1, Slacks, Constants
    <3>6. ASSUME NEW f \in heap PROVE Until(clk, evttim[f]) - u2 >= -(Slack + b)
      <4> DEFINE s == Until(clk, evttim[f])
      <4>1. s \in Int /\ alarm + unread <= s + Rounding
        BY <1>5, <3>1
      <4> HIDE DEF s
      <4>2. s - u2 >= -(Slack + b)
        BY <4>1, <3>1, <1>5, <1>8, <1>12, Slacks, Constants
      <4> QED BY <4>2 DEF s
    <3>7. ~served2 => al > 0
      <4>1. ~served2 => alarm # 1
        BY <1>3
      <4> QED BY <4>1, <3>1, <3>2, <1>5
    <3> QED BY <2>2, <3>3, <3>4, <3>5, <3>6, <3>7 DEF TimerAt
  <2> QED BY <2>3, <2>4
<1>15. Inv(clk, simtim', u2, heap, evttim, left, al, served2, b)
  BY <1>10, <1>11, <1>13, <1>14 DEF Inv, u2
<1>16. Inv(clk', simtim', unread', heap', evttim', rem', alarm', pending' \/ in_signal_time', busy')
  BY <1>2, <1>15 DEF u2, left, al, b, served2
<1> QED BY <1>1, <1>2, <1>3, <1>16 DEF IInv

LEMMA InitOK ==
  ASSUME Init
  PROVE  IInv
<1> DEFINE hw == target_hrt_get_current
           c == [hrtcnt |-> hw, evttim |-> 0, mono |-> 0, offset |-> 0]
           u == Truncated
           zero == [e \in TMEVTB |-> 0]
<1>1. /\ simtim \in 0..TCYC-1 /\ clk = c /\ heap = {} /\ evttim = zero /\ in_signal_time = FALSE
      /\ callback = NULL /\ alarm = target_hrt_set_event(BOUND) /\ pending = FALSE
      /\ busy = 0 /\ rem = zero /\ unread = u
  BY DEF Init, Truncated
<1>2. TSTEP \in Nat \ {0} /\ simtim \in Nat /\ BOUND \in Nat \ {0}
  BY <1>1, Constants
<1>3. /\ hw = (simtim \div TSTEP) * TSTEP /\ simtim \div TSTEP \in Nat
      /\ hw \in Nat /\ hw <= simtim /\ u \in 0..TSTEP-1 /\ hw + u = simtim
  <2>1. /\ simtim \div TSTEP \in Nat
        /\ (simtim \div TSTEP) * TSTEP \in Nat
        /\ (simtim \div TSTEP) * TSTEP <= simtim
        /\ simtim - (simtim \div TSTEP) * TSTEP \in 0..TSTEP-1
    BY <1>2, Floor
  <2>2. hw = (simtim \div TSTEP) * TSTEP /\ u = simtim - hw
    BY DEF target_hrt_get_current, Truncated
  <2> HIDE DEF hw, u
  <2> QED BY <2>1, <2>2, <1>2
<1> HIDE DEF hw, u
<1>4. hw \in 0..TCYC-1
  BY <1>1, <1>3, Constants
<1>5. c \in Clock /\ c.hrtcnt = hw
  BY <1>4, Constants DEF Clock
<1>6. Lag(c) = 0
  <2>1. c.mono - c.evttim = 0 /\ 0 \in Int /\ 0 \in 0..EVT-1 /\ EVT \in Nat \ {0}
    BY Constants
  <2>2. Congruent(EVT, 0, 0)
    BY <2>1, CongruentSelf
  <2>3. Congruent(EVT, c.mono - c.evttim, 0)
    BY <2>1, <2>2
  <2> HIDE DEF c
  <2> QED BY <2>1, <2>3, <1>5, LagIs
<1> HIDE DEF c
<1>7. zero \in EventTimes /\ zero \in [TMEVTB -> Int]
  BY Constants DEF EventTimes
<1> HIDE DEF zero
<1>8. /\ alarm \in Nat \ {0} /\ alarm <= BOUND + TSTEP - 1
  BY <1>1, <1>2, SetEventOK
<1>9. Types(clk, simtim, heap, evttim, rem, busy)
  BY <1>1, <1>5, <1>7, Constants DEF Types
<1>10. Counted(clk, simtim, unread)
  <2>1. u \in Nat
    BY <1>2, <1>3
  <2> QED BY <2>1, <1>1, <1>3, <1>5 DEF Counted
<1>11. EventsAt(clk, unread, heap, evttim, rem)
  BY <1>1, <1>6, Constants DEF EventsAt
<1> DEFINE served == pending \/ in_signal_time
<1>12. served = FALSE
  BY <1>1
<1> HIDE DEF served
<1>13. TimerAt(clk, unread, heap, evttim, alarm, served, busy)
  <2>1. alarm \in 0..BOUND+TSTEP /\ alarm > 0 /\ alarm + unread <= BOUND + Rounding
    BY <1>1, <1>2, <1>3, <1>8, Slacks
  <2> QED BY <2>1, <1>1, <1>12 DEF TimerAt
<1>14. Inv(clk, simtim, unread, heap, evttim, rem, alarm, pending \/ in_signal_time, busy)
  BY <1>9, <1>10, <1>11, <1>13 DEF Inv, served
<1> QED BY <1>1, <1>14 DEF IInv

--------------------------------------------------------------------------
(* The invariant holds, and what the runs check follows from it.           *)
LEMMA NextOK ==
  ASSUME IInv, [Next]_vars
  PROVE  IInv'
<1>1. CASE UNCHANGED vars
  <2>1. /\ clk' = clk /\ simtim' = simtim /\ unread' = unread /\ heap' = heap
        /\ evttim' = evttim /\ rem' = rem /\ alarm' = alarm /\ pending' = pending
        /\ in_signal_time' = in_signal_time /\ busy' = busy /\ callback' = callback
    BY <1>1 DEF vars, hardware
  <2> QED BY <2>1 DEF IInv
<1>2. CASE Next
  <2>1. ASSUME NEW e \in TMEVTB, NEW time \in RELTIM, tmevtb_enqueue_reltim(e, time)
        PROVE  IInv'
    BY <2>1, EnqueueOK
  <2>2. ASSUME NEW e \in TMEVTB, tmevtb_dequeue(e) PROVE IInv'
    BY <2>2, DequeueOK
  <2>3. CASE get_tim
    BY <2>3, GetTimOK
  <2>4. ASSUME NEW time \in SetTimes, set_tim(time) PROVE IInv'
    BY <2>4, SetTimOK
  <2>5. ASSUME NEW adjtim \in Adjustments \ {0}, adj_tim(adjtim) PROVE IInv'
    BY <2>5, AdjTimOK
  <2>6. CASE target_hrt_handler
    BY <2>6, HandlerOK
  <2>7. CASE signal_time
    BY <2>7, SignalTimeOK
  <2>8. CASE Tick
    BY <2>8, TickOK
  <2> QED BY <1>2, <2>1, <2>2, <2>3, <2>4, <2>5, <2>6, <2>7, <2>8 DEF Next
<1> QED BY <1>1, <1>2

LEMMA Inductive == Spec => []IInv
BY InitOK, NextOK, PTL DEF Spec

LEMMA InvTypes ==
  ASSUME IInv
  PROVE  TypeOK
<1>1. Inv(clk, simtim, unread, heap, evttim, rem, alarm, pending \/ in_signal_time, busy)
      /\ (pending \/ in_signal_time) \in BOOLEAN
  BY DEF IInv
<1>2. Parts(clk, simtim, unread, heap, evttim, rem, alarm, busy)
  BY <1>1, InvParts
<1> QED BY <1>2 DEF IInv, Parts, TypeOK, EventTimes

LEMMA InvLate ==
  ASSUME IInv
  PROVE  NeverLate /\ unread < TCYC
<1> DEFINE served == pending \/ in_signal_time
<1>1. Inv(clk, simtim, unread, heap, evttim, rem, alarm, served, busy) /\ served \in BOOLEAN
  BY DEF IInv
<1> HIDE DEF served
<1>2. Parts(clk, simtim, unread, heap, evttim, rem, alarm, busy)
  BY <1>1, InvParts
<1>3. unread < TCYC
  BY <1>1, Bounds
<1>4. ASSUME NEW e \in heap PROVE rem[e] >= -(3 * TSTEP - 2 + MaxDelay + 2 * ADJTIM)
  <2> DEFINE s == Until(clk, evttim[e])
             l == Lag(clk)
             tr == rem[e]
  <2>1. s \in Int /\ tr \in Int /\ s - unread >= -(Slack + busy) /\ EventAt(s, l, unread, tr)
        /\ unread \in Nat /\ busy \in Nat /\ busy <= MaxDelay
    BY <1>2, Constants DEF Parts
  <2> HIDE DEF s, l, tr
  <2>2. s - unread - tr \in 1..TSTEP
    BY <2>1 DEF EventAt
  <2>3. tr >= -(3 * TSTEP - 2 + MaxDelay + 2 * ADJTIM)
    BY <2>1, <2>2, Constants, Slacks
  <2> QED BY <2>3 DEF tr
<1> QED BY <1>3, <1>4 DEF NeverLate

(* The clocks stay within their words, the counter is read before it comes *)
(* round again, and no event becomes late, for all sizes of the words and  *)
(* all steps of the counter.                                               *)
THEOREM ClocksCorrect == Spec => []ClocksOK
<1>1. ASSUME IInv PROVE ClocksOK
  BY <1>1, InvTypes, InvLate DEF ClocksOK
<1> QED BY <1>1, Inductive, PTL

(* No event is late by more than the roundings, the delay of the interrupt *)
(* and the adjustments.                                                    *)
THEOREM LatenessBounded == Spec => []NeverLate
<1>1. ASSUME IInv PROVE NeverLate
  BY <1>1, InvLate
<1> QED BY <1>1, Inductive, PTL

(* An event that is handled is due by true time, and no other was due      *)
(* before it by as much as a step of the counter.                          *)
LEMMA DueOK ==
  ASSUME NEW c, NEW u, Inv(c, simtim, u, heap, evttim, rem, alarm, TRUE, busy),
         NEW e \in Due(c, heap, evttim)
  PROVE  rem[e] <= 0 /\ \A f \in heap : rem[e] < rem[f] + TSTEP
<1>1. Parts(c, simtim, u, heap, evttim, rem, alarm, busy)
  BY InvParts
<1> DEFINE l == Lag(c)
<1>2. /\ c \in Clock /\ heap \in SUBSET TMEVTB /\ evttim \in EventTimes /\ u \in Nat
      /\ \A f \in heap : /\ Until(c, evttim[f]) \in Int /\ rem[f] \in Int
                         /\ EventAt(Until(c, evttim[f]), l, u, rem[f])
  BY <1>1 DEF Parts
<1> HIDE DEF l
<1>3. e \in heap /\ Until(c, evttim[e]) <= 0
      /\ \A f \in heap : Until(c, evttim[e]) <= Until(c, evttim[f])
  BY <1>2, DueIsPast
<1>4. \A f \in heap : Until(c, evttim[f]) - u - rem[f] \in 1..TSTEP
  BY <1>2 DEF EventAt
<1> DEFINE s == Until(c, evttim[e])
           tr == rem[e]
<1>5. s \in Int /\ s <= 0 /\ tr \in Int /\ s - u - tr \in 1..TSTEP
  BY <1>2, <1>3, <1>4
<1>6. ASSUME NEW f \in heap PROVE tr < rem[f] + TSTEP
  <2> DEFINE s2 == Until(c, evttim[f])
             tr2 == rem[f]
  <2>1. s2 \in Int /\ tr2 \in Int /\ s <= s2 /\ s2 - u - tr2 \in 1..TSTEP
    BY <1>2, <1>3, <1>4
  <2> HIDE DEF s, tr, s2, tr2
  <2>2. tr < tr2 + TSTEP
    BY <1>2, <1>5, <2>1, Constants
  <2> QED BY <2>2 DEF tr2
<1>7. tr <= 0
  <2> HIDE DEF s, tr
  <2> QED BY <1>2, <1>5, Constants
<1> QED BY <1>6, <1>7

LEMMA HandlesOK ==
  ASSUME IInv, NEW e \in TMEVTB, Handles(e)
  PROVE  rem[e] <= 0 /\ \A f \in heap : rem[e] < rem[f] + TSTEP
<1>1. ASSUME NEW c, NEW u, Inv(c, simtim, u, heap, evttim, rem, alarm, TRUE, busy), Process(c)
      PROVE  rem[e] <= 0 /\ \A f \in heap : rem[e] < rem[f] + TSTEP
  <2>1. callback' = e /\ e # NULL
    BY TimeAssumption DEF Handles
  <2>2. e \in Due(c, heap, evttim)
    BY <1>1, <2>1 DEF Process, CallBack, Finish
  <2> QED BY <1>1, <2>2, DueOK
<1> DEFINE c == update_current_evttim(clk)
           u == Truncated
<1>2. Inv(c, simtim, u, heap, evttim, rem, alarm, pending \/ in_signal_time, busy)
      /\ Inv(clk, simtim, unread, heap, evttim, rem, alarm, pending \/ in_signal_time, busy)
  BY ReadOK DEF IInv
<1>3. (pending \/ in_signal_time) = TRUE
  BY DEF Handles, target_hrt_handler, signal_time
<1>4. Process(c) \/ Process(clk)
  BY DEF Handles, target_hrt_handler, signal_time
<1> HIDE DEF c, u
<1>5. Inv(c, simtim, u, heap, evttim, rem, alarm, TRUE, busy)
      /\ Inv(clk, simtim, unread, heap, evttim, rem, alarm, TRUE, busy)
  BY <1>2, <1>3
<1> QED BY <1>1, <1>4, <1>5

(* No callback before its time, whatever wraps around or is adjusted.      *)
THEOREM NotEarly == Spec => NeverEarly
<1>1. ASSUME IInv, [Next]_vars
      PROVE  \A e \in TMEVTB : Handles(e) => rem[e] <= 0
  BY <1>1, HandlesOK
<1> QED BY <1>1, Inductive, PTL DEF Spec, NeverEarly

(* Callbacks come in the order of the true times of their events.          *)
THEOREM OrderCorrect == Spec => InOrder
<1>1. ASSUME IInv, [Next]_vars
      PROVE  \A e \in TMEVTB : Handles(e) => \A f \in heap : rem[e] < rem[f] + TSTEP
  BY <1>1, HandlesOK
<1> QED BY <1>1, Inductive, PTL DEF Spec, InOrder

--------------------------------------------------------------------------
(* The system time, and where it would be without what it has to catch up. *)
Furthest(c) == c.offset + c.mono

At(c) == Furthest(c) - Lag(c)

(* y is x and j more in the words of the system time.                      *)
Shifted(x, y, j) == Congruent(SYS, y, x + j)

(* In a step the system time goes on by j, and where it is changes by x.   *)
Goes(c, c2, j, x) ==
  /\ c \in Clock /\ c2 \in Clock
  /\ j \in 0..EVT-1 /\ x \in Int
  /\ Shifted(Furthest(c), Furthest(c2), j)
  /\ Shifted(At(c), At(c2), x)

LEMMA ShiftNone ==
  ASSUME NEW x \in Int
  PROVE  Shifted(x, x, 0)
<1>1. x + 0 = x /\ SYS \in Nat \ {0}
  BY Constants
<1>2. Congruent(SYS, x, x)
  BY <1>1, CongruentSelf
<1> QED BY <1>1, <1>2 DEF Shifted

LEMMA ShiftExact ==
  ASSUME NEW x \in Int, NEW j \in Int
  PROVE  Shifted(x, x + j, j)
<1> DEFINE y == x + j
<1>1. y \in Int /\ SYS \in Nat \ {0}
  BY Constants
<1> HIDE DEF y
<1>2. Congruent(SYS, y, y)
  BY <1>1, CongruentSelf
<1> QED BY <1>2 DEF Shifted, y

LEMMA ShiftSum ==
  ASSUME NEW a \in Int, NEW b \in Int, NEW d \in Int, NEW m \in Int, NEW n \in Int,
         Shifted(a, b, m), Shifted(b, d, n)
  PROVE  Shifted(a, d, m + n)
<1>1. PICK k \in Int : b = (a + m) + k * SYS
  BY DEF Shifted, Congruent
<1>2. PICK l \in Int : d = (b + n) + l * SYS
  BY DEF Shifted, Congruent
<1>3. d = (a + (m + n)) + (k + l) * SYS /\ k + l \in Int
  BY <1>1, <1>2, Constants
<1> QED BY <1>3 DEF Shifted, Congruent

LEMMA ShiftLess ==
  ASSUME NEW a \in Int, NEW b \in Int, NEW m \in Int, NEW p \in Int, NEW q \in Int,
         Shifted(a, b, m)
  PROVE  Shifted(a - p, b - q, m + p - q)
<1>1. PICK k \in Int : b = (a + m) + k * SYS
  BY DEF Shifted, Congruent
<1>2. b - q = ((a - p) + (m + p - q)) + k * SYS
  BY <1>1, Constants
<1> QED BY <1>2 DEF Shifted, Congruent

LEMMA ShiftedWords ==
  ASSUME NEW a \in Int, NEW b \in Int, NEW m \in Int, Shifted(a, b, m)
  PROVE  /\ ((b % SYS) - (a % SYS) - m) % SYS = 0
         /\ m \in Nat => ((b % SYS) - (a % SYS)) % SYS <= m
<1> DEFINE p == a % SYS
           q == b % SYS
<1>1. /\ SYS \in Nat \ {0} /\ 0 \in 0..SYS-1 /\ a % SYS \in 0..SYS-1 /\ b % SYS \in 0..SYS-1
      /\ Congruent(SYS, a % SYS, a) /\ Congruent(SYS, b % SYS, b)
  BY Constants, ModRange, ModCongruent
<1>2. p \in Int /\ q \in Int /\ Congruent(SYS, p, a) /\ Congruent(SYS, q, b)
  BY <1>1
<1> HIDE DEF p, q
<1>3. PICK i \in Int : p = a + i * SYS
  BY <1>2 DEF Congruent
<1>4. PICK j \in Int : q = b + j * SYS
  BY <1>2 DEF Congruent
<1>5. PICK k \in Int : b = (a + m) + k * SYS
  BY DEF Shifted, Congruent
<1> DEFINE v == q - p
           n == k + j - i
<1>6. v \in Int /\ n \in Int /\ v = m + n * SYS /\ v - m \in Int /\ v - m = 0 + n * SYS
  BY <1>1, <1>2, <1>3, <1>4, <1>5
<1> HIDE DEF v, n
<1>7. (v - m) % SYS = 0
  <2> DEFINE w == v - m
  <2>1. w \in Int /\ Congruent(SYS, w, 0)
    BY <1>6 DEF Congruent
  <2> HIDE DEF w
  <2>2. w % SYS = 0
    BY <2>1, <1>1, ModOf
  <2> QED BY <2>2 DEF w
<1>8. ASSUME m \in Nat PROVE v % SYS <= m
  <2>1. v % SYS = m % SYS
    <3>1. Congruent(SYS, v, m)
      BY <1>6 DEF Congruent
    <3> QED BY <3>1, <1>1, <1>6, ModSame
  <2> DEFINE r == m \div SYS
             s == m % SYS
  <2>2. r \in Nat /\ s \in 0..SYS-1 /\ m = (r * SYS) + s
    BY <1>1, <1>8
  <2> HIDE DEF r, s
  <2>3. r * SYS \in Nat
    BY <2>2, <1>1
  <2>4. s <= m
    BY <2>2, <2>3, <1>1, <1>8
  <2> QED BY <2>1, <2>4 DEF s
<1> QED BY <1>7, <1>8 DEF v, p, q

LEMMA Places ==
  ASSUME NEW c \in Clock
  PROVE  Furthest(c) \in Int /\ Lag(c) \in Nat /\ Lag(c) \in Int /\ At(c) \in Int
<1>1. c.offset \in Int /\ c.mono \in Int
  BY ClockFields
<1>2. Lag(c) \in Nat
  BY LagRange, Constants
<1> QED BY <1>1, <1>2 DEF Furthest, At

LEMMA GoesNowhere ==
  ASSUME NEW c \in Clock
  PROVE  Goes(c, c, 0, 0)
<1>1. 0 \in 0..EVT-1 /\ 0 \in Int
  BY Constants
<1> QED BY <1>1, Places, ShiftNone DEF Goes

(* An advance by d: what it has to catch up comes first.                   *)
LEMMA GoesBy ==
  ASSUME NEW c \in Clock, NEW c2 \in Clock, NEW d \in 0..EVT-1, Passed(c, c2, d)
  PROVE  \E j \in 0..d : Goes(c, c2, j, d)
<1> DEFINE l == Lag(c)
           l2 == Lag(c2)
           y == Furthest(c)
           y2 == Furthest(c2)
           j == IF l < d THEN d - l ELSE 0
<1>1. /\ y \in Int /\ y2 \in Int /\ l \in Nat /\ l2 \in Nat
      /\ d \in Nat /\ d < EVT /\ EVT \in Nat
  BY Places, Constants
<1>2. (l2 = IF l < d THEN 0 ELSE l - d) /\ Shifted(y, y2, j)
  BY DEF Passed, Shifted, Furthest
<1>3. At(c) = y - l /\ At(c2) = y2 - l2
  BY DEF At
<1> HIDE DEF y, y2, l, l2
<1>4. j \in 0..d /\ j \in 0..EVT-1 /\ j \in Int /\ j + l - l2 = d
  BY <1>1, <1>2
<1> HIDE DEF j
<1>5. Shifted(y - l, y2 - l2, j + l - l2)
  <2>1. l \in Int /\ l2 \in Int
    BY <1>1
  <2> QED BY <1>1, <1>2, <1>4, <2>1, ShiftLess
<1>6. Shifted(At(c), At(c2), d) /\ d \in Int
  BY <1>1, <1>3, <1>4, <1>5
<1>7. Goes(c, c2, j, d)
  BY <1>2, <1>4, <1>6 DEF Goes, y, y2
<1> QED BY <1>4, <1>7

(* A negative adjustment moves the position alone.                         *)
LEMMA GoesBack ==
  ASSUME NEW c \in Clock, NEW c2 \in Clock, NEW x \in Int,
         c2.offset = c.offset, c2.mono = c.mono, Lag(c2) = Lag(c) - x
  PROVE  Goes(c, c2, 0, x)
<1> DEFINE l == Lag(c)
           l2 == Lag(c2)
           y == Furthest(c)
           p == At(c)
           p2 == At(c2)
<1>1. Furthest(c2) = y /\ y \in Int /\ l \in Int /\ p \in Int /\ l2 = l - x
  BY Places DEF Furthest
<1>2. p = y - l /\ p2 = y - l2
  BY <1>1 DEF At
<1> HIDE DEF y, l, l2, p, p2
<1>3. p2 = p + x
  BY <1>1, <1>2
<1>4. Shifted(p, p + x, x)
  BY <1>1, ShiftExact
<1>5. Shifted(p, p2, x) /\ Shifted(y, y, 0)
  BY <1>1, <1>3, <1>4, ShiftNone
<1>6. 0 \in 0..EVT-1
  BY Constants
<1> QED BY <1>1, <1>5, <1>6 DEF Goes, y, p, p2

LEMMA GoesOn ==
  ASSUME NEW c, NEW c2, NEW c3, NEW i, NEW j, NEW x, NEW y,
         Goes(c, c2, i, x), Goes(c2, c3, j, y), i + j < EVT
  PROVE  Goes(c, c3, i + j, x + y)
<1>1. /\ c \in Clock /\ c2 \in Clock /\ c3 \in Clock
      /\ i \in 0..EVT-1 /\ j \in 0..EVT-1 /\ x \in Int /\ y \in Int
      /\ Shifted(Furthest(c), Furthest(c2), i) /\ Shifted(Furthest(c2), Furthest(c3), j)
      /\ Shifted(At(c), At(c2), x) /\ Shifted(At(c2), At(c3), y)
  BY DEF Goes
<1>2. /\ Furthest(c) \in Int /\ Furthest(c2) \in Int /\ Furthest(c3) \in Int
      /\ At(c) \in Int /\ At(c2) \in Int /\ At(c3) \in Int
      /\ i \in Int /\ j \in Int
  BY <1>1, Places, Constants
<1>3. Shifted(Furthest(c), Furthest(c3), i + j) /\ Shifted(At(c), At(c3), x + y)
  BY ONLY <1>1, <1>2, ShiftSum
<1>4. i + j \in 0..EVT-1 /\ x + y \in Int
  BY <1>1, Constants
<1> QED BY <1>1, <1>3, <1>4 DEF Goes

(* What this says of the system time and of its position.                  *)
LEMMA GoesExactly ==
  ASSUME NEW j, NEW x, Goes(clk, clk', j, x)
  PROVE  /\ (systim' - systim) % SYS < EVT
         /\ (Position' - Position - x) % SYS = 0
<1>1. /\ clk \in Clock /\ clk' \in Clock
      /\ j \in 0..EVT-1 /\ x \in Int
      /\ Shifted(Furthest(clk), Furthest(clk'), j) /\ Shifted(At(clk), At(clk'), x)
  BY DEF Goes
<1>2. /\ Furthest(clk) \in Int /\ Furthest(clk') \in Int
      /\ At(clk) \in Int /\ At(clk') \in Int
      /\ j \in Int /\ j \in Nat /\ j < EVT
  BY <1>1, Places, Constants
<1>3. /\ systim = Furthest(clk) % SYS /\ systim' = Furthest(clk') % SYS
      /\ Position = At(clk) % SYS /\ Position' = At(clk') % SYS
  <2>1. ASSUME NEW c \in Clock PROVE At(c) = c.offset + (c.mono - Lag(c))
    <3>1. c.offset \in Int /\ c.mono \in Int /\ Lag(c) \in Int
      BY ClockFields, Places
    <3> QED BY <3>1 DEF At, Furthest
  <2>2. systim = Furthest(clk) % SYS
    BY DEF systim, Furthest
  <2>3. systim' = Furthest(clk') % SYS
    BY DEF systim, Furthest
  <2>4. At(clk) = clk.offset + (clk.mono - Lag(clk))
        /\ At(clk') = clk'.offset + (clk'.mono - Lag(clk'))
    BY <1>1, <2>1
  <2>5. Position = At(clk) % SYS /\ Position' = At(clk') % SYS
    BY <2>4 DEF Position, Lag
  <2> QED BY <2>2, <2>3, <2>5
<1>4. (systim' - systim) % SYS <= j
  BY ONLY <1>1, <1>2, <1>3, ShiftedWords
<1>5. (Position' - Position - x) % SYS = 0
  BY ONLY <1>1, <1>2, <1>3, ShiftedWords
<1>6. (systim' - systim) % SYS \in Int
  <2> DEFINE v == systim' - systim
  <2>1. systim \in Int /\ systim' \in Int /\ SYS \in Nat \ {0}
    BY <1>2, <1>3, ModRange, Constants
  <2>2. v \in Int
    BY <2>1
  <2> HIDE DEF v
  <2>3. v % SYS \in 0..SYS-1
    BY <2>1, <2>2, ModRange
  <2> QED BY <2>1, <2>3 DEF v
<1>7. (systim' - systim) % SYS < EVT
  <2> DEFINE w == (systim' - systim) % SYS
  <2>1. w \in Int /\ w <= j
    BY <1>4, <1>6
  <2> HIDE DEF w
  <2>2. w < EVT
    BY <2>1, <1>2, Constants
  <2> QED BY <2>2 DEF w
<1> QED BY <1>5, <1>7

(* A step in which the time adjtim is added to what was read.              *)
Exact(adjtim) ==
  /\ (systim' - systim) % SYS < EVT
  /\ (Position' - Position - adjtim - (unread - unread')) % SYS = 0

LEMMA ExactWhen ==
  ASSUME NEW j, NEW adjtim \in Int, NEW x, Goes(clk, clk', j, x),
         unread \in Int, unread' \in Int, x = adjtim + (unread - unread')
  PROVE  Exact(adjtim)
<1>1. /\ (systim' - systim) % SYS < EVT
      /\ (Position' - Position - x) % SYS = 0
  BY GoesExactly
<1>2. Position \in Int /\ Position' \in Int
  <2>1. clk \in Clock /\ clk' \in Clock
    BY DEF Goes
  <2>2. ASSUME NEW c \in Clock
        PROVE  (c.offset + (c.mono - Lag(c))) % SYS \in Int
    <3> DEFINE v == c.offset + (c.mono - Lag(c))
    <3>1. v \in Int /\ SYS \in Nat \ {0}
      BY ClockFields, Places, Constants
    <3> HIDE DEF v
    <3>2. v % SYS \in 0..SYS-1
      BY <3>1, ModRange
    <3> QED BY <3>1, <3>2 DEF v
  <2>3. /\ Position = (clk.offset + (clk.mono - Lag(clk))) % SYS
        /\ Position' = (clk'.offset + (clk'.mono - Lag(clk'))) % SYS
    BY DEF Position, Lag
  <2> QED BY <2>1, <2>2, <2>3
<1> DEFINE p == Position' - Position
<1>3. p \in Int /\ p - x = p - adjtim - (unread - unread')
  <2>1. p \in Int
    BY <1>2
  <2> HIDE DEF p
  <2> QED BY <2>1
<1> QED BY <1>1, <1>3 DEF Exact

(* A reading of the counter.                                               *)
LEMMA ExactRead ==
  ASSUME IInv, Read(update_current_evttim(clk))
  PROVE  Exact(0)
<1> DEFINE c == update_current_evttim(clk)
           d == unread - Truncated
<1>1. /\ Inv(c, simtim, Truncated, heap, evttim, rem, alarm, pending \/ in_signal_time, busy)
      /\ Inv(clk, simtim, unread, heap, evttim, rem, alarm, pending \/ in_signal_time, busy)
      /\ Truncated \in 0..TSTEP-1
      /\ d \in 0..EVT-1
      /\ Passed(clk, c, d)
  BY ReadOK DEF IInv
<1>2. clk' = c /\ unread' = Truncated
  BY DEF Read, Truncated
<1>3. clk \in Clock /\ c \in Clock /\ unread \in Int /\ Truncated \in Int
  BY <1>1, Constants DEF Inv, Types, Counted
<1>4. d = 0 + (unread - unread')
  BY <1>2, <1>3
<1> HIDE DEF c, d
<1>5. PICK j \in 0..d : Goes(clk, c, j, d)
  BY <1>1, <1>3, GoesBy
<1>6. Goes(clk, clk', j, d) /\ unread' \in Int /\ 0 \in Int
  BY <1>2, <1>3, <1>5
<1> QED BY <1>3, <1>4, <1>6, ExactWhen

(* A step that neither reads the counter nor lets time pass.               *)
LEMMA ExactStill ==
  ASSUME IInv, UNCHANGED <<clk, unread>>
  PROVE  Exact(0)
<1>1. clk \in Clock /\ unread \in Int /\ unread' = unread /\ clk' = clk
  BY DEF IInv, Inv, Types, Counted
<1>2. 0 = 0 + (unread - unread')
  BY <1>1
<1>3. Goes(clk, clk', 0, 0)
  BY <1>1, GoesNowhere
<1> QED BY <1>1, <1>2, <1>3, ExactWhen

LEMMA ExactAdjusted ==
  ASSUME IInv, NEW adjtim \in Adjustments, adjtim # 0, adj_tim(adjtim)
  PROVE  Exact(adjtim)
<1> DEFINE c == update_current_evttim(clk)
           c2 == Adjusted(c, adjtim)
           d == unread - Truncated
<1>1. /\ Inv(c, simtim, Truncated, heap, evttim, rem, alarm, pending \/ in_signal_time, busy)
      /\ Inv(clk, simtim, unread, heap, evttim, rem, alarm, pending \/ in_signal_time, busy)
      /\ Truncated \in 0..TSTEP-1
      /\ d \in 0..EVT-1
      /\ d + ADJTIM < EVT
      /\ Passed(clk, c, d)
  BY ReadOK DEF IInv
<1>2. ~check_adjtim(c, adjtim) /\ clk' = c2 /\ unread' = Truncated
  BY DEF adj_tim, Read, Truncated, Adjusted, turned_back
<1>3. clk \in Clock /\ c \in Clock /\ unread \in Int /\ Truncated \in Int
  BY <1>1, Constants DEF Inv, Types, Counted
<1>4. adjtim \in Int /\ adjtim <= ADJTIM /\ -ADJTIM <= adjtim
  BY Constants DEF Adjustments
<1>5. d + adjtim = adjtim + (unread - unread')
  BY <1>2, <1>3, <1>4
<1> HIDE DEF c, d, c2
<1>6. PICK j \in 0..d : Goes(clk, c, j, d)
  BY <1>1, <1>3, GoesBy
<1>7. d \in Nat /\ j \in Nat /\ j <= d /\ ADJTIM < EVT
  BY <1>1, <1>6, Constants
<1>8. \E k \in 0..ADJTIM : Goes(c, c2, k, adjtim)
  <2>1. CASE adjtim > 0
    <3>1. adjtim \in 0..EVT-1 /\ c2 = advance(c, adjtim)
      BY <2>1, <1>4, <1>7, Constants DEF c2, Adjusted
    <3>2. Passed(c, c2, adjtim) /\ c2 \in Clock
      BY <3>1, <1>3, <1>4, AdvanceOK, AdvanceFields DEF Passed, Moved
    <3>3. PICK k \in 0..adjtim : Goes(c, c2, k, adjtim)
      BY <3>1, <3>2, <1>3, GoesBy
    <3>4. k \in 0..ADJTIM
      BY <3>3, <1>4, Constants
    <3> QED BY <3>3, <3>4
  <2>2. CASE ~(adjtim > 0)
    <3>1. adjtim <= 0 /\ adjtim < 0 /\ c2 = turned_back(c, adjtim)
      BY <2>2, <1>4 DEF c2, Adjusted
    <3>2. Lag(c) < ADJTIM
      <4>1. Lag(c) < ADJTIM \/ Lag(c) >= ADJTIM
        BY <1>3, Places, Constants
      <4> QED BY <4>1, <3>1, <1>2 DEF check_adjtim, Lag
    <3>3. Lag(c) - adjtim < EVT
      <4>1. Lag(c) \in Int /\ 2 * ADJTIM < EVT
        BY <1>3, Places, Constants
      <4> QED BY <4>1, <3>2, <1>4, Constants
    <3>4. /\ c2 \in Clock /\ Lag(c2) = Lag(c) - adjtim
          /\ c2.mono = c.mono /\ c2.offset = c.offset
      BY <3>1, <3>3, <1>3, <1>4, TurnedBack DEF Moved
    <3>5. Goes(c, c2, 0, adjtim)
      BY <3>4, <1>3, <1>4, GoesBack
    <3>6. 0 \in 0..ADJTIM
      BY Constants
    <3> QED BY <3>5, <3>6
  <2> QED BY <2>1, <2>2
<1>9. PICK k \in 0..ADJTIM : Goes(c, c2, k, adjtim)
  BY <1>8
<1>10. j + k < EVT
  BY <1>1, <1>7, <1>9, Constants
<1>11. Goes(clk, c2, j + k, d + adjtim)
  BY <1>6, <1>9, <1>10, GoesOn
<1> DEFINE x == d + adjtim
           n == j + k
<1>12. Goes(clk, clk', n, x) /\ x = adjtim + (unread - unread')
  BY <1>2, <1>5, <1>11
<1> HIDE DEF x, n
<1>13. unread' \in Int
  BY <1>2, <1>3
<1> QED BY <1>3, <1>4, <1>12, <1>13, ExactWhen

(* The system time follows the true time exactly, and never goes back      *)
(* unless it is set.                                                       *)
THEOREM TimeExact == Spec => ClockExact
<1> DEFINE Step == \/ \E s \in SetTimes : set_tim(s)
                   \/ /\ (systim' - systim) % SYS < EVT
                      /\ \/ Tick
                         \/ \E adjtim \in Adjustments :
                              /\ adjtim # 0 => adj_tim(adjtim)
                              /\ (Position' - Position - adjtim - (unread - unread')) % SYS = 0
<1>1. ASSUME IInv, Next
      PROVE  Step
  <2>1. ASSUME Exact(0) PROVE Step
    <3>1. 0 \in Adjustments
      BY Constants DEF Adjustments
    <3>2. /\ 0 # 0 => adj_tim(0)
          /\ (Position' - Position - 0 - (unread - unread')) % SYS = 0
      BY <2>1 DEF Exact
    <3>3. (systim' - systim) % SYS < EVT
      BY <2>1 DEF Exact
    <3> QED BY <3>1, <3>2, <3>3
  <2>2. ASSUME NEW e \in TMEVTB, NEW time \in RELTIM, tmevtb_enqueue_reltim(e, time)
        PROVE  Step
    BY <1>1, <2>1, <2>2, ExactRead DEF tmevtb_enqueue_reltim
  <2>3. ASSUME NEW e \in TMEVTB, tmevtb_dequeue(e)
        PROVE  Step
    <3>1. Read(update_current_evttim(clk)) \/ UNCHANGED <<clk, unread>>
      BY <2>3 DEF tmevtb_dequeue
    <3> QED BY <1>1, <2>1, <3>1, ExactRead, ExactStill
  <2>4. CASE get_tim
    BY <1>1, <2>1, <2>4, ExactRead DEF get_tim
  <2>5. ASSUME NEW s \in SetTimes, set_tim(s)
        PROVE  Step
    BY <2>5
  <2>6. ASSUME NEW adjtim \in Adjustments \ {0}, adj_tim(adjtim)
        PROVE  Step
    <3>1. Exact(adjtim)
      BY <1>1, <2>6, ExactAdjusted
    <3> QED BY <2>6, <3>1 DEF Exact
  <2>7. CASE target_hrt_handler
    BY <1>1, <2>1, <2>7, ExactRead DEF target_hrt_handler
  <2>8. CASE signal_time
    <3>1. Read(update_current_evttim(clk)) \/ UNCHANGED <<clk, unread>>
      BY <2>8 DEF signal_time
    <3> QED BY <1>1, <2>1, <3>1, ExactRead, ExactStill
  <2>9. CASE Tick
    <3>1. clk \in Clock /\ clk' = clk
      BY <1>1, <2>9 DEF Tick, IInv, Inv, Types
    <3>2. Goes(clk, clk', 0, 0)
      BY <3>1, GoesNowhere
    <3>3. (systim' - systim) % SYS < EVT
      BY <3>2, GoesExactly
    <3> QED BY <2>9, <3>3
  <2> QED BY <1>1, <2>2, <2>3, <2>4, <2>5, <2>6, <2>7, <2>8, <2>9 DEF Next
<1>2. IInv /\ [Next]_vars => [Step]_vars
  BY <1>1
<1> QED BY <1>2, Inductive, PTL DEF Spec, ClockExact
==========================================================================
