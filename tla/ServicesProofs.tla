--------------------------- MODULE ServicesProofs ---------------------------
(***************************************************************************)
(* Proofs for the system time and the MicroPython port: no wrap of the     *)
(* timer is missed, no delay returns early, no root of the garbage         *)
(* collector is lost and the console is not closed under its reader, for   *)
(* every period, latency and set of threads.                               *)
(***************************************************************************)
EXTENDS Services, Integers, SequenceTheorems, TLAPS

\* Quotient and remainder.
LEMMA DivMod ==
    ASSUME NEW m \in Nat, m > 0, NEW n \in Nat
    PROVE  /\ n \div m \in Nat
           /\ n % m \in 0..(m - 1)
           /\ n = (m * (n \div m)) + (n % m)
<1>1. n \div m \in Nat
  OBVIOUS
<1>2. n % m \in 0..(m - 1)
  OBVIOUS
<1>3. n = (m * (n \div m)) + (n % m)
  OBVIOUS
<1> QED
  BY <1>1, <1>2, <1>3

\* One period more is one more in the quotient.
LEMMA DivPlus ==
    ASSUME NEW m \in Nat, m > 0, NEW n \in Nat
    PROVE  (n + m) \div m = n \div m + 1
  OBVIOUS

\* What the timer shows is determined by the number of whole periods.
LEMMA ModUnique ==
    ASSUME NEW m \in Nat, m > 0, NEW n \in Nat, NEW q \in Nat, NEW r \in 0..(m - 1),
           n = m * q + r
    PROVE  n % m = r
  OBVIOUS

\* A whole period later the counter shows the same.
LEMMA ModPlus ==
    ASSUME NEW m \in Nat, m > 0, NEW n \in Nat
    PROVE  (n + m) % m = n % m
<1>1. n \div m \in Nat /\ n % m \in 0..(m - 1) /\ n = (m * (n \div m)) + (n % m)
  BY DivMod
<1> DEFINE q == n \div m
           r == n % m
<1> HIDE DEF q, r
<1>2. q \in Nat /\ r \in 0..(m - 1) /\ n = (m * q) + r
  BY <1>1 DEF q, r
<1>3. n + m = (m * (q + 1)) + r /\ n + m \in Nat /\ q + 1 \in Nat
  BY <1>2
<1>4. (n + m) % m = r
  BY <1>2, <1>3, ModUnique
<1> QED
  BY <1>4 DEF r

\* What two readings of a counter of m values say about the time between them:
\* it is at least their difference modulo m, and exactly that within a period.
LEMMA ModDiff ==
    ASSUME NEW m \in Nat, m > 0, NEW a \in Nat, NEW b \in Nat, a <= b
    PROVE  /\ a % m <= b % m => b - a >= (b % m) - (a % m)
           /\ b % m < a % m  => b - a >= (b % m) - (a % m) + m
           /\ b - a < m => b - a = IF b % m < a % m THEN (b % m) - (a % m) + m ELSE (b % m) - (a % m)
<1> DEFINE qa == a \div m
           qb == b \div m
           ra == a % m
           rb == b % m
<1>1. /\ qa \in Nat /\ qb \in Nat /\ ra \in 0..(m - 1) /\ rb \in 0..(m - 1)
      /\ a = m * qa + ra /\ b = m * qb + rb
  BY DivMod
<1> HIDE DEF qa, qb, ra, rb
<1>2. m * (qa + 1) = m * qa + m /\ m * (qb + 1) = m * qb + m /\ m * (qa + 2) = m * qa + 2 * m
  BY <1>1
<1>3. qb < qa => m * (qb + 1) <= m * qa
  BY <1>1
<1>4. qa < qb => m * (qa + 1) <= m * qb
  BY <1>1
<1>5. qa + 1 < qb => m * (qa + 2) <= m * qb
  BY <1>1
<1>6. m * qa \in Nat /\ m * qb \in Nat
  BY <1>1
<1>7. qa <= qb
  BY <1>1, <1>2, <1>3, <1>6
<1>8. /\ ra <= rb => b - a >= rb - ra
      /\ rb < ra => b - a >= rb - ra + m
      /\ b - a < m => b - a = IF rb < ra THEN rb - ra + m ELSE rb - ra
  <2>1. CASE qa = qb
    BY <1>1, <1>6, <2>1
  <2>2. CASE qa + 1 = qb
    BY <1>1, <1>2, <1>6, <2>2
  <2>3. CASE qa + 1 < qb
    BY <1>1, <1>2, <1>5, <1>6, <2>3
  <2> QED
    BY <1>1, <1>7, <2>1, <2>2, <2>3
<1> QED
  BY <1>8, Zenon DEF ra, rb
-----------------------------------------------------------------------------
(* The wraps.  The time of the next or pending compare match is at most    *)
(* half a period after the last reading that was accounted for, and the    *)
(* interrupt is over Latency after the match.                              *)

Half == SYSTIME_TIM_PERIOD \div 2

\* The time of the last reading, as the software knows it.
Read == (usCounterBase \div SYSTIME_TIM_PERIOD) * Modulus + usTimLastCount

TimeTypes ==
    /\ now \in Nat /\ systime \in Nat
    /\ usCounterBase \in Nat
    /\ usTimLastCount \in 0..SYSTIME_TIM_PERIOD

\* cnt was read at a time that is not accounted for yet, and not before t.
ReadAt(cnt, t) == \E r \in Nat : cnt = r % Modulus /\ Read <= r /\ t <= r /\ r <= now

Pending == cc1if \/ isr # Idle

CompareAt(c) ==
    /\ ccr1 = c % Modulus
    /\ c <= Read + Half
    /\ Pending => c <= now /\ now <= c + Latency
    /\ ~Pending => now < c
    /\ isr # Idle => ReadAt(isr, c)

WrapInv ==
    /\ TimeTypes
    /\ Read <= now
    /\ systime <= usCounterBase + usTimLastCount
    /\ \E c \in Nat : CompareAt(c)
    /\ isr # Idle => ~cc1if /\ reader = Idle
    /\ reader # Idle => ReadAt(reader, 0)

\* The period has at least four ticks, and half a period and the latency fit.
LEMMA PeriodFacts ==
    /\ SYSTIME_TIM_PERIOD \in Nat /\ SYSTIME_TIM_PERIOD > 0
    /\ Modulus \in Nat /\ Modulus > 0 /\ Modulus = SYSTIME_TIM_PERIOD + 1
    /\ Half \in Nat /\ Latency \in Nat /\ Latency > 0
    /\ Latency < Half /\ Half + Latency < Modulus
<1>1. SYSTIME_TIM_PERIOD \in Nat /\ Latency \in Nat \ {0}
  BY SystimeAssumption
<1>2. Half \in Nat
  BY <1>1 DEF Half
<1>3. Latency < Half /\ Half + 2 * Latency <= SYSTIME_TIM_PERIOD
  BY SystimeAssumption DEF Half
<1> QED
  BY <1>1, <1>2, <1>3 DEF Modulus

\* The accounted time is a time, and the timer showed the last count at it.
LEMMA ReadFacts ==
    ASSUME TimeTypes
    PROVE  Read \in Nat /\ Read % Modulus = usTimLastCount
<1> DEFINE q == usCounterBase \div SYSTIME_TIM_PERIOD
<1>1. q \in Nat /\ Read = q * Modulus + usTimLastCount
  BY PeriodFacts, DivMod DEF TimeTypes, Read
<1> HIDE DEF q
<1>2. usTimLastCount \in 0..(Modulus - 1) /\ Read = (Modulus * q) + usTimLastCount
      /\ Read \in Nat
  BY <1>1, PeriodFacts DEF TimeTypes
<1> QED
  BY <1>1, <1>2, PeriodFacts, ModUnique

\* usCounterAdjust with a reading less than a period after the last one moves
\* the accounted time to that reading.
LEMMA Adjusted ==
    ASSUME TimeTypes, NEW r \in Nat, Read <= r, r < Read + Modulus,
           usCounterAdjust(r % Modulus)
    PROVE  /\ Read' = r
           /\ usCounterBase' \in Nat /\ usTimLastCount' \in 0..SYSTIME_TIM_PERIOD
           /\ usTimLastCount' = r % Modulus
           /\ usCounterBase + usTimLastCount <= usCounterBase' + usTimLastCount'
<1> DEFINE q == usCounterBase \div SYSTIME_TIM_PERIOD
           l == usTimLastCount
           n == r % Modulus
<1>1. Read \in Nat /\ Read % Modulus = l /\ q \in Nat /\ Read = q * Modulus + l
  BY ReadFacts, PeriodFacts, DivMod DEF TimeTypes, Read
<1>2. n \in 0..SYSTIME_TIM_PERIOD
  BY DivMod, PeriodFacts
<1>3. r - Read = IF n < l THEN (n - l) + Modulus ELSE n - l
  <2>1. r - Read < Modulus
    BY <1>1, PeriodFacts
  <2> QED
    BY <1>1, <2>1, PeriodFacts, ModDiff
<1>4. /\ usTimLastCount' = n
      /\ usCounterBase' = IF n < l THEN usCounterBase + SYSTIME_TIM_PERIOD ELSE usCounterBase
  BY DEF usCounterAdjust
<1>5. usCounterBase' \div SYSTIME_TIM_PERIOD = IF n < l THEN q + 1 ELSE q
  BY <1>4, PeriodFacts, DivPlus DEF TimeTypes
<1>6. Read' = (IF n < l THEN q + 1 ELSE q) * Modulus + n
  BY <1>4, <1>5 DEF Read, Modulus
<1> HIDE DEF q, l, n
<1>7. l \in 0..SYSTIME_TIM_PERIOD
  BY DEF TimeTypes, l
<1>8. (q + 1) * Modulus = q * Modulus + Modulus /\ q * Modulus \in Nat
  BY <1>1, PeriodFacts
<1>9. Read' = r
  BY <1>1, <1>2, <1>3, <1>6, <1>7, <1>8, PeriodFacts
<1>10. usCounterBase + l <= usCounterBase' + n /\ usCounterBase' \in Nat
  BY <1>2, <1>4, <1>7, PeriodFacts DEF TimeTypes
<1> QED
  BY <1>2, <1>4, <1>9, <1>10 DEF l, n

\* Two times less than a period apart show different counts.
LEMMA Apart ==
    ASSUME NEW m \in Nat, m > 0, NEW a \in Nat, NEW b \in Nat, a < b, b - a < m
    PROVE  a % m # b % m
<1>1. a % m \in 0..(m - 1) /\ b % m \in 0..(m - 1)
  BY DivMod
<1>2. b - a = IF b % m < a % m THEN ((b % m) - (a % m)) + m ELSE (b % m) - (a % m)
  <2>1. a <= b
    OBVIOUS
  <2> QED
    BY <2>1, ModDiff
<1> DEFINE x == a % m
           y == b % m
<1> HIDE DEF x, y
<1>3. x \in 0..(m - 1) /\ y \in 0..(m - 1) /\ b - a = IF y < x THEN (y - x) + m ELSE y - x
  BY <1>1, <1>2 DEF x, y
<1>4. x # y
  BY <1>3
<1> QED
  BY <1>4 DEF x, y

\* While the match is pending, SinceCompare is the time since the match.
LEMMA SinceCompareIs ==
    ASSUME TimeTypes, NEW c \in Nat, ccr1 = c % Modulus, c <= now, now < c + Modulus
    PROVE  SinceCompare = now - c
<1> DEFINE x == c % Modulus
           y == now % Modulus
<1>1. now \in Nat /\ x \in 0..(Modulus - 1) /\ y \in 0..(Modulus - 1)
  BY DivMod, PeriodFacts DEF TimeTypes
<1>2. now - c < Modulus /\ now - c \in Nat
  BY <1>1, PeriodFacts
<1>3. now - c = IF y < x THEN (y - x) + Modulus ELSE y - x
  BY <1>1, <1>2, PeriodFacts, ModDiff
<1>4. SinceCompare = (y + (Modulus - x)) % Modulus
  BY DEF SinceCompare, CNT
<1> HIDE DEF x, y
<1>5. y + (Modulus - x) = now - c \/ y + (Modulus - x) = (now - c) + Modulus
  BY <1>1, <1>3, PeriodFacts
<1>6. (now - c) % Modulus = now - c
  <2>1. now - c = (Modulus * 0) + (now - c) /\ now - c \in 0..(Modulus - 1)
    BY <1>2, PeriodFacts
  <2> QED
    BY <1>2, <2>1, PeriodFacts, ModUnique
<1>7. ((now - c) + Modulus) % Modulus = (now - c) % Modulus
  BY <1>2, PeriodFacts, ModPlus
<1> QED
  BY <1>4, <1>5, <1>6, <1>7

\* The time at which the software was last up to date stays as it is while
\* nobody adjusts.
LEMMA ReadUnchanged ==
    ASSUME UNCHANGED counterVars
    PROVE  Read' = Read
  BY DEF counterVars, Read, Modulus

\* The timer moves on, and stops short of missing the interrupt.
LEMMA TickWrap ==
    ASSUME WrapInv, Tick
    PROVE  WrapInv'
<1>0. TimeTypes /\ Read <= now /\ Read \in Nat /\ now \in Nat
  BY ReadFacts DEF WrapInv, TimeTypes
<1>1. PICK c \in Nat : CompareAt(c)
  BY DEF WrapInv
<1>2. /\ now' = now + 1 /\ Read' = Read /\ ccr1' = ccr1 /\ isr' = isr /\ reader' = reader
      /\ systime' = systime /\ usCounterBase' = usCounterBase
      /\ usTimLastCount' = usTimLastCount
      /\ cc1if' <=> cc1if \/ (now + 1) % Modulus = ccr1
  BY ReadUnchanged DEF Tick, counterVars
<1>3. TimeTypes' /\ Read' <= now'
  BY <1>0, <1>2 DEF TimeTypes
<1>4. ASSUME NEW n \in Nat, NEW t \in Nat, ReadAt(n, t) PROVE ReadAt(n, t)'
  <2>1. PICK r \in Nat : n = r % Modulus /\ Read <= r /\ t <= r /\ r <= now
    BY <1>4 DEF ReadAt
  <2>2. n = r % Modulus /\ Read' <= r /\ t <= r /\ r <= now'
    BY <1>0, <1>2, <2>1
  <2> QED
    BY <2>2 DEF ReadAt, Modulus
<1>5. ReadAt(reader, 0) => ReadAt(reader, 0)'
  <2>1. ReadAt(reader, 0) => reader \in Nat
    BY DivMod, PeriodFacts DEF ReadAt
  <2> QED
    BY <1>2, <1>4, <2>1
<1>6. ReadAt(isr, c) => ReadAt(isr, c)'
  <2>1. ReadAt(isr, c) => isr \in Nat
    BY DivMod, PeriodFacts DEF ReadAt
  <2> QED
    BY <1>2, <1>4, <2>1
<1>7. CASE Pending
  <2>1. c <= now /\ now <= c + Latency /\ ccr1 = c % Modulus
    BY <1>1, <1>7 DEF CompareAt
  <2>2. SinceCompare = now - c
    BY <1>0, <2>1, PeriodFacts, SinceCompareIs
  <2>3. now + 1 <= c + Latency
    BY <1>0, <1>7, <2>2, PeriodFacts DEF Tick, Pending
  <2>4. (now + 1) % Modulus # ccr1
    <3>1. now + 1 \in Nat /\ c < now + 1 /\ (now + 1) - c < Modulus
      BY <1>0, <2>1, <2>3, PeriodFacts
    <3> QED
      BY <2>1, <3>1, PeriodFacts, Apart
  <2>5. cc1if' <=> cc1if
    BY <1>2, <2>4
  <2>6. CompareAt(c)'
    BY <1>0, <1>1, <1>2, <1>6, <1>7, <2>1, <2>3, <2>5 DEF CompareAt, Pending, Idle, Modulus
  <2> QED
    BY <1>2, <1>3, <1>5, <2>5, <2>6 DEF WrapInv, Idle, Modulus
<1>8. CASE ~Pending
  <2>1. now < c /\ ccr1 = c % Modulus /\ c <= Read + Half /\ isr = Idle
    BY <1>1, <1>8 DEF CompareAt, Pending
  <2>2. CASE now + 1 = c
    <3>1. cc1if'
      BY <1>2, <2>1, <2>2
    <3>2. CompareAt(c)'
      BY <1>0, <1>2, <2>1, <2>2, <3>1, PeriodFacts DEF CompareAt, Pending, Idle, Modulus
    <3> QED
      BY <1>2, <1>3, <1>5, <2>1, <3>2 DEF WrapInv, Idle, Modulus
  <2>3. CASE now + 1 # c
    <3>1. (now + 1) % Modulus # ccr1
      BY <1>0, <2>1, <2>3, PeriodFacts, Apart
    <3>2. ~cc1if'
      BY <1>2, <1>8, <3>1 DEF Pending
    <3>3. CompareAt(c)'
      BY <1>0, <1>2, <2>1, <2>3, <3>2, PeriodFacts DEF CompareAt, Pending, Idle, Modulus
    <3> QED
      BY <1>2, <1>3, <1>5, <2>1, <3>3 DEF WrapInv, Idle, Modulus
  <2> QED
    BY <2>2, <2>3
<1> QED
  BY <1>7, <1>8

\* What the timer shows is a count, and Idle is none.
LEMMA CntFacts ==
    ASSUME NEW r \in Nat
    PROVE  r % Modulus # Idle /\ r % Modulus \in 0..SYSTIME_TIM_PERIOD
<1>1. r % Modulus \in 0..(Modulus - 1)
  BY DivMod, PeriodFacts
<1> QED
  BY <1>1, PeriodFacts DEF Idle

\* The readings that are pending are less than a period after the last one.
LEMMA WithinPeriod ==
    ASSUME WrapInv
    PROVE  Read \in Nat /\ Read <= now /\ now < Read + Modulus
<1>1. Read \in Nat /\ now \in Nat /\ Read <= now
  BY ReadFacts DEF WrapInv, TimeTypes
<1>2. PICK c \in Nat : CompareAt(c)
  BY DEF WrapInv
<1>3. CASE Pending
  BY <1>1, <1>2, <1>3, PeriodFacts DEF CompareAt
<1>4. CASE ~Pending
  BY <1>1, <1>2, <1>4, PeriodFacts DEF CompareAt
<1> QED
  BY <1>1, <1>3, <1>4

\* The handler reads the counter at or after the match.
LEMMA IsrReadsWrap ==
    ASSUME WrapInv, IsrReads
    PROVE  WrapInv'
<1>0. TimeTypes /\ Read <= now /\ Read \in Nat /\ now \in Nat
  BY ReadFacts DEF WrapInv, TimeTypes
<1>1. PICK c \in Nat : CompareAt(c)
  BY DEF WrapInv
<1>2. /\ now' = now /\ Read' = Read /\ ccr1' = ccr1 /\ reader' = reader
      /\ systime' = systime /\ usCounterBase' = usCounterBase
      /\ usTimLastCount' = usTimLastCount
      /\ cc1if /\ ~cc1if' /\ reader = Idle /\ isr' = now % Modulus
  BY ReadUnchanged DEF IsrReads, counterVars, CNT
<1>3. isr' # Idle
  BY <1>0, <1>2, CntFacts
<1>4. ccr1 = c % Modulus /\ c <= Read + Half /\ c <= now /\ now <= c + Latency
  BY <1>1, <1>2 DEF CompareAt, Pending
<1>5. ReadAt(isr, c)'
  BY <1>0, <1>2, <1>4 DEF ReadAt, Modulus
<1>6. CompareAt(c)'
  BY <1>2, <1>3, <1>4, <1>5 DEF CompareAt, Pending, Idle, Modulus
<1>7. TimeTypes'
  BY <1>0, <1>2 DEF TimeTypes
<1> QED
  BY <1>0, <1>2, <1>3, <1>6, <1>7 DEF WrapInv, Idle, Modulus

\* The handler is done before the next match, half a period after its reading.
LEMMA IsrAdjustsWrap ==
    ASSUME WrapInv, IsrAdjusts
    PROVE  WrapInv'
<1>0. TimeTypes /\ Read <= now /\ Read \in Nat /\ now \in Nat /\ systime \in Nat
  BY ReadFacts DEF WrapInv, TimeTypes
<1>1. PICK c \in Nat : CompareAt(c)
  BY DEF WrapInv
<1>2. isr # Idle /\ ~cc1if /\ reader = Idle
  BY DEF WrapInv, IsrAdjusts
<1>3. PICK r \in Nat : isr = r % Modulus /\ Read <= r /\ c <= r /\ r <= now
  BY <1>1, <1>2 DEF CompareAt, ReadAt
<1>4. now <= c + Latency
  BY <1>1, <1>2 DEF CompareAt, Pending
<1>5. /\ Read' = r /\ usCounterBase' \in Nat /\ usTimLastCount' \in 0..SYSTIME_TIM_PERIOD
      /\ usCounterBase + usTimLastCount <= usCounterBase' + usTimLastCount'
  <2>1. r < Read + Modulus
    BY <1>0, <1>3, WithinPeriod, PeriodFacts
  <2>2. usCounterAdjust(r % Modulus)
    BY <1>3 DEF IsrAdjusts
  <2> QED
    BY <1>0, <1>3, <2>1, <2>2, Adjusted
<1>6. /\ now' = now /\ cc1if' = cc1if /\ reader' = reader /\ systime' = systime /\ isr' = Idle
      /\ ccr1' = ((r % Modulus) + Half) % Modulus
  BY <1>3 DEF IsrAdjusts, clockVars, Half
<1>7. ccr1' = (r + Half) % Modulus
  <2> DEFINE q == r \div Modulus
             x == r % Modulus
  <2>1. q \in Nat /\ x \in 0..(Modulus - 1) /\ r = (Modulus * q) + x
    BY DivMod, PeriodFacts
  <2> HIDE DEF q, x
  <2>2. CASE x + Half < Modulus
    <3>1. /\ x + Half \in 0..(Modulus - 1) /\ x + Half \in Nat /\ r + Half \in Nat
          /\ r + Half = (Modulus * q) + (x + Half) /\ x + Half = (Modulus * 0) + (x + Half)
      BY <2>1, <2>2, PeriodFacts
    <3>2. (r + Half) % Modulus = x + Half
      BY <2>1, <3>1, PeriodFacts, ModUnique
    <3>3. (x + Half) % Modulus = x + Half
      BY <3>1, PeriodFacts, ModUnique
    <3> QED
      BY <1>6, <3>2, <3>3 DEF x
  <2>3. CASE x + Half >= Modulus
    <3> DEFINE y == (x + Half) - Modulus
    <3>1. /\ y \in 0..(Modulus - 1) /\ x + Half \in Nat /\ r + Half \in Nat /\ q + 1 \in Nat
          /\ r + Half = (Modulus * (q + 1)) + y /\ x + Half = (Modulus * 1) + y
      BY <2>1, <2>3, PeriodFacts
    <3> HIDE DEF y
    <3>2. (r + Half) % Modulus = y
      BY <3>1, PeriodFacts, ModUnique
    <3>3. (x + Half) % Modulus = y
      BY <3>1, PeriodFacts, ModUnique
    <3> QED
      BY <1>6, <3>2, <3>3 DEF x
  <2> QED
    BY <2>1, <2>2, <2>3, PeriodFacts
<1>8. r + Half \in Nat /\ now' < r + Half /\ r + Half <= Read' + Half /\ Read' <= now'
  BY <1>0, <1>3, <1>4, <1>5, <1>6, PeriodFacts
<1>9. CompareAt(r + Half)'
  BY <1>2, <1>6, <1>7, <1>8 DEF CompareAt, Pending, Idle, Modulus, Half
<1>10. TimeTypes'
  BY <1>0, <1>5, <1>6 DEF TimeTypes
<1>11. systime' <= usCounterBase' + usTimLastCount'
  <2>1. systime <= usCounterBase + usTimLastCount
    BY DEF WrapInv
  <2> DEFINE x == usCounterBase + usTimLastCount
             y == usCounterBase' + usTimLastCount'
  <2>2. x \in Nat
    BY <1>0, PeriodFacts DEF TimeTypes
  <2>3. y \in Nat
    <3>1. usCounterBase' \in Nat /\ usTimLastCount' \in Nat
      BY <1>5, PeriodFacts
    <3>2. \A a, b \in Nat : a + b \in Nat
      OBVIOUS
    <3> QED
      BY <3>1, <3>2, Zenon
  <2>4. systime <= x /\ x <= y
    BY <1>5, <2>1
  <2> HIDE DEF x, y
  <2>5. systime' <= y
    BY <1>0, <1>6, <2>2, <2>3, <2>4
  <2> QED
    BY <2>5 DEF y
<1>12. \E d \in Nat : CompareAt(d)'
  BY <1>8, <1>9
<1> QED
  BY <1>2, <1>6, <1>8, <1>10, <1>11, <1>12 DEF WrapInv, Idle, Modulus

\* A thread reads the counter, not before the last reading.
LEMMA SystimeReadsWrap ==
    ASSUME WrapInv, SystimeReads
    PROVE  WrapInv'
<1>0. TimeTypes /\ Read <= now /\ Read \in Nat /\ now \in Nat
  BY ReadFacts DEF WrapInv, TimeTypes
<1>1. PICK c \in Nat : CompareAt(c)
  BY DEF WrapInv
<1>2. /\ now' = now /\ Read' = Read /\ ccr1' = ccr1 /\ isr' = isr /\ cc1if' = cc1if
      /\ systime' = systime /\ usCounterBase' = usCounterBase
      /\ usTimLastCount' = usTimLastCount
      /\ isr = Idle /\ reader' = now % Modulus
  BY ReadUnchanged DEF SystimeReads, counterVars, clockVars, CNT
<1>3. ReadAt(reader, 0)'
  BY <1>0, <1>2 DEF ReadAt, Modulus
<1>4. CompareAt(c)'
  BY <1>1, <1>2 DEF CompareAt, Pending, Idle, Modulus
<1>5. TimeTypes'
  BY <1>0, <1>2 DEF TimeTypes
<1>6. systime <= usCounterBase + usTimLastCount
  BY DEF WrapInv
<1> QED
  BY <1>0, <1>2, <1>3, <1>4, <1>5, <1>6 DEF WrapInv, Idle, Modulus

\* systimeUs accounts for the time of its reading and returns it.
LEMMA SystimeReturnsWrap ==
    ASSUME WrapInv, SystimeReturns
    PROVE  WrapInv'
<1>0. TimeTypes /\ Read <= now /\ Read \in Nat /\ now \in Nat
  BY ReadFacts DEF WrapInv, TimeTypes
<1>1. PICK c \in Nat : CompareAt(c)
  BY DEF WrapInv
<1>2. reader # Idle /\ isr = Idle
  BY DEF WrapInv, SystimeReturns
<1>3. PICK r \in Nat : reader = r % Modulus /\ Read <= r /\ r <= now
  BY <1>2 DEF WrapInv, ReadAt
<1>4. /\ Read' = r /\ usCounterBase' \in Nat /\ usTimLastCount' \in 0..SYSTIME_TIM_PERIOD
      /\ usTimLastCount' = r % Modulus
  <2>1. r < Read + Modulus
    BY <1>0, <1>3, WithinPeriod, PeriodFacts
  <2>2. usCounterAdjust(r % Modulus)
    BY <1>3 DEF SystimeReturns
  <2> QED
    BY <1>0, <1>3, <2>1, <2>2, Adjusted
<1>5. /\ now' = now /\ cc1if' = cc1if /\ reader' = Idle /\ isr' = isr /\ ccr1' = ccr1
      /\ systime' = usCounterBase' + usTimLastCount'
  BY <1>3, <1>4 DEF SystimeReturns, clockVars
<1>6. c <= Read' + Half
  BY <1>0, <1>1, <1>3, <1>4, PeriodFacts DEF CompareAt
<1>7. CompareAt(c)'
  BY <1>1, <1>2, <1>5, <1>6 DEF CompareAt, Pending, Idle, Modulus, Half
<1>8. TimeTypes' /\ systime' <= usCounterBase' + usTimLastCount' /\ Read' <= now'
  BY <1>0, <1>3, <1>4, <1>5 DEF TimeTypes
<1> QED
  BY <1>2, <1>5, <1>7, <1>8 DEF WrapInv, Idle, Modulus

\* The delays leave the software's time alone.
LEMMA DelaysWrap ==
    ASSUME WrapInv, UNCHANGED <<clockVars, counterVars, ccr1, isr, reader, systime>>
    PROVE  WrapInv'
<1>1. /\ now' = now /\ cc1if' = cc1if /\ usCounterBase' = usCounterBase
      /\ usTimLastCount' = usTimLastCount /\ ccr1' = ccr1 /\ isr' = isr
      /\ reader' = reader /\ systime' = systime /\ Read' = Read
  BY ReadUnchanged DEF clockVars, counterVars
<1>2. TimeTypes'
  BY <1>1 DEF WrapInv, TimeTypes
<1>3. PICK c \in Nat : CompareAt(c)
  BY DEF WrapInv
<1>4. CompareAt(c)' /\ (ReadAt(reader, 0) => ReadAt(reader, 0)')
  BY <1>1, <1>3 DEF CompareAt, ReadAt, Pending, Idle, Modulus
<1> QED
  BY <1>1, <1>2, <1>4 DEF WrapInv, Idle, Modulus

\* Initially the timer stands at zero, and the first match is half a period off.
LEMMA WrapInit == SystimeInit => WrapInv
<1> SUFFICES ASSUME SystimeInit PROVE WrapInv
  OBVIOUS
<1>1. /\ now = 0 /\ ~cc1if /\ usCounterBase = 0 /\ usTimLastCount = 0 /\ ccr1 = Half
      /\ isr = Idle /\ reader = Idle /\ systime = 0
  BY DEF SystimeInit, Half
<1>2. TimeTypes
  BY <1>1, PeriodFacts DEF TimeTypes
<1>3. Read = 0
  <2>1. 0 \div SYSTIME_TIM_PERIOD = 0
    BY PeriodFacts
  <2> QED
    BY <1>1, <2>1, PeriodFacts DEF Read
<1>4. Half = Half % Modulus
  <2>1. Half \in 0..(Modulus - 1) /\ Half = (Modulus * 0) + Half
    BY PeriodFacts
  <2> QED
    BY <2>1, PeriodFacts, ModUnique
<1>5. CompareAt(Half)
  BY <1>1, <1>3, <1>4, PeriodFacts DEF CompareAt, Pending
<1> QED
  BY <1>1, <1>2, <1>3, <1>5, PeriodFacts DEF WrapInv

\* Every step of the clock, its interrupt and its readers keeps it.
LEMMA WrapStep == WrapInv /\ [SystimeNext]_systimeVars => WrapInv'
<1> SUFFICES ASSUME WrapInv, [SystimeNext]_systimeVars PROVE WrapInv'
  OBVIOUS
<1>1. CASE Tick
  BY <1>1, TickWrap
<1>2. CASE IsrReads
  BY <1>2, IsrReadsWrap
<1>3. CASE IsrAdjusts
  BY <1>3, IsrAdjustsWrap
<1>4. CASE SystimeReads
  BY <1>4, SystimeReadsWrap
<1>5. CASE SystimeReturns
  BY <1>5, SystimeReturnsWrap
<1>6. CASE delayUs \/ HAL_Delay
  BY <1>6, DelaysWrap DEF delayUs, HAL_Delay, DelayEntry
<1>7. CASE DelayStep \/ DelayReturns
  BY <1>7, DelaysWrap DEF DelayStep, DelayReturns
<1>8. CASE UNCHANGED systimeVars
  BY <1>8, DelaysWrap DEF systimeVars
<1> QED
  BY <1>1, <1>2, <1>3, <1>4, <1>5, <1>6, <1>7, <1>8 DEF SystimeNext

\* A step of the two parts is a step of the system time, or none of it.
LEMMA TimeSteps == [ServicesNext]_<<part, systimeVars, mpVars>> => [SystimeNext]_systimeVars
  BY DEF ServicesNext

\* usCounterAdjust sees every wrap of the timer exactly once, for every period
\* and every latency of the interrupt that fits in the other half of it, however
\* the readings of the threads and of the handler interleave with the wraps.
THEOREM EveryWrapCounted == ServicesSpec => []WrapsCounted
<1>1. ServicesInit => WrapInv
  BY WrapInit DEF ServicesInit
<1>2. WrapInv /\ [ServicesNext]_<<part, systimeVars, mpVars>> => WrapInv'
  BY WrapStep, TimeSteps
<1>3. WrapInv => WrapsCounted
  BY WithinPeriod DEF WrapInv, WrapsCounted, Read
<1> QED
  BY <1>1, <1>2, <1>3, PTL DEF ServicesSpec
-----------------------------------------------------------------------------
(* The delays.  What is left to wait, and the time from the call to the    *)
(* reading it is counted from, make up at least what was asked for.        *)

DelayTypes ==
    /\ now \in Nat
    /\ delay \in [pc : {"idle", "wait", "over"}, cnt1 : Nat, us : Nat, asked : Nat, since : Nat]

Waited(r) ==
    /\ delay.cnt1 = r % Modulus
    /\ delay.since <= r /\ r <= now
    /\ delay.asked <= (r - delay.since) + delay.us

DelayInv ==
    /\ DelayTypes
    /\ delay.pc = "wait" => \E r \in Nat : Waited(r)
    /\ DelayLongEnough

\* diff of delayUs never exceeds the time that passed.
LEMMA ElapsedBound ==
    ASSUME NEW a \in Nat, NEW b \in Nat, a <= b, a % Modulus # b % Modulus
    PROVE  Elapsed(a % Modulus, b % Modulus) \in Nat
           /\ Elapsed(a % Modulus, b % Modulus) <= b - a
<1> DEFINE x == a % Modulus
           y == b % Modulus
<1>1. /\ x \in 0..(Modulus - 1) /\ y \in 0..(Modulus - 1) /\ x # y
      /\ x <= y => b - a >= y - x
      /\ y < x => b - a >= (y - x) + Modulus
  BY DivMod, ModDiff, PeriodFacts
<1> HIDE DEF x, y
<1>2. Elapsed(x, y) \in Nat /\ Elapsed(x, y) <= b - a
  BY <1>1, PeriodFacts DEF Elapsed
<1> QED
  BY <1>2 DEF x, y

\* A delay begins with what was asked for.
LEMMA DelayEntryInv ==
    ASSUME DelayInv, NEW us \in Nat, NEW asked \in Nat, asked <= us, DelayEntry(us, asked)
    PROVE  DelayInv'
<1>1. now' = now /\ now \in Nat /\ now % Modulus \in Nat
  BY DivMod, PeriodFacts DEF DelayInv, DelayTypes, DelayEntry, clockVars
<1>2. delay' = [pc |-> "wait", cnt1 |-> now % Modulus, us |-> us, asked |-> asked, since |-> now]
  BY DEF DelayEntry, CNT
<1>3. DelayTypes'
  BY <1>1, <1>2 DEF DelayTypes
<1>4. /\ delay'.pc = "wait" /\ delay'.cnt1 = now % Modulus /\ delay'.us = us
      /\ delay'.asked = asked /\ delay'.since = now
  BY <1>2
<1>5. Waited(now)'
  <2>1. asked <= (now - now) + us
    BY <1>1
  <2> QED
    BY <1>1, <1>4, <2>1 DEF Waited, Modulus
<1>6. \E r \in Nat : Waited(r)'
  BY <1>1, <1>5 DEF Waited, Modulus
<1> QED
  BY <1>3, <1>4, <1>6 DEF DelayInv, DelayLongEnough

\* A pass of the loop counts at most the time that passed since the previous one.
LEMMA DelayStepInv ==
    ASSUME DelayInv, DelayStep
    PROVE  DelayInv'
<1> DEFINE diff == Elapsed(delay.cnt1, CNT)
<1>1. /\ now' = now /\ now \in Nat /\ now % Modulus \in Nat /\ CNT = now % Modulus
      /\ delay.pc = "wait" /\ CNT # delay.cnt1
      /\ delay' = IF diff >= delay.us THEN [delay EXCEPT !.pc = "over"]
                  ELSE [delay EXCEPT !.us = @ - diff, !.cnt1 = CNT]
  BY DivMod, PeriodFacts DEF DelayInv, DelayTypes, DelayStep, clockVars, CNT
<1>2. PICK r \in Nat : Waited(r)
  BY <1>1 DEF DelayInv
<1>3. diff \in Nat /\ diff <= now - r
  BY <1>1, <1>2, ElapsedBound DEF Waited
<1>4. /\ delay.us \in Nat /\ delay.asked \in Nat /\ delay.since \in Nat
      /\ delay \in [pc : {"idle", "wait", "over"}, cnt1 : Nat, us : Nat, asked : Nat, since : Nat]
  BY DEF DelayInv, DelayTypes
<1> HIDE DEF diff
<1>5. CASE diff >= delay.us
  <2>1. delay' = [delay EXCEPT !.pc = "over"]
    BY <1>1, <1>5
  <2>2. delay'.pc = "over" /\ delay'.asked = delay.asked /\ delay'.since = delay.since
    BY <1>4, <2>1
  <2>3. DelayTypes'
    BY <1>1, <1>4, <2>1 DEF DelayTypes
  <2>4. now - delay.since >= delay.asked
    BY <1>1, <1>2, <1>3, <1>4, <1>5 DEF Waited
  <2> QED
    BY <1>1, <2>2, <2>3, <2>4 DEF DelayInv, DelayLongEnough
<1>6. CASE ~(diff >= delay.us)
  <2>1. delay' = [delay EXCEPT !.us = @ - diff, !.cnt1 = CNT]
    BY <1>1, <1>6
  <2>2. /\ delay'.pc = "wait" /\ delay'.asked = delay.asked /\ delay'.since = delay.since
        /\ delay'.us = delay.us - diff /\ delay'.cnt1 = now % Modulus
    BY <1>1, <1>4, <2>1
  <2>3. delay.us - diff \in Nat
    BY <1>3, <1>4, <1>6
  <2>4. DelayTypes'
    BY <1>1, <1>4, <2>1, <2>3 DEF DelayTypes
  <2>5. /\ delay.since <= now
        /\ delay.asked <= (now - delay.since) + (delay.us - diff)
    BY <1>1, <1>2, <1>3, <1>4, <2>3 DEF Waited
  <2>6. \E t \in Nat : Waited(t)'
    BY <1>1, <2>2, <2>5 DEF Waited, Modulus
  <2> QED
    BY <2>2, <2>4, <2>6 DEF DelayInv, DelayLongEnough
<1> QED
  BY <1>5, <1>6

\* Everybody else only lets time pass.
LEMMA TimePasses ==
    ASSUME DelayInv, delay' = delay, now' = now \/ now' = now + 1
    PROVE  DelayInv'
<1>1. now \in Nat /\ now' \in Nat /\ now <= now'
  BY DEF DelayInv, DelayTypes
<1>2. DelayTypes'
  BY <1>1 DEF DelayInv, DelayTypes
<1>3. delay.since \in Nat /\ delay.asked \in Nat
  BY DEF DelayInv, DelayTypes
<1>4. ASSUME NEW r \in Nat, Waited(r) PROVE Waited(r)'
  <2>1. r <= now'
    BY <1>1, <1>4 DEF Waited
  <2> QED
    BY <1>4, <2>1 DEF Waited, Modulus
<1>5. DelayLongEnough'
  <2>1. DelayLongEnough
    BY DEF DelayInv
  <2> QED
    BY <1>1, <1>3, <2>1 DEF DelayLongEnough
<1> QED
  BY <1>2, <1>4, <1>5 DEF DelayInv

\* So does every step keep what is known of the delays.
LEMMA DelayNextInv == DelayInv /\ [SystimeNext]_systimeVars => DelayInv'
<1> SUFFICES ASSUME DelayInv, [SystimeNext]_systimeVars PROVE DelayInv'
  OBVIOUS
<1>1. CASE Tick \/ IsrReads \/ IsrAdjusts \/ SystimeReads \/ SystimeReturns
  BY <1>1, TimePasses DEF Tick, IsrReads, IsrAdjusts, SystimeReads, SystimeReturns, clockVars
<1>2. CASE delayUs
  BY <1>2, DelayEntryInv, SystimeAssumption DEF delayUs
<1>3. CASE HAL_Delay
  <2>1. PICK ms \in 0..MaxDelay :
            DelayEntry((ms * UsPerMs) % Modulus,
                       IF ms * UsPerMs < Modulus THEN ms * UsPerMs ELSE 0)
    BY <1>3 DEF HAL_Delay
  <2> DEFINE n == ms * UsPerMs
             asked == IF n < Modulus THEN n ELSE 0
  <2>2. n \in Nat
    BY SystimeAssumption
  <2>3. DelayEntry(n % Modulus, asked)
    BY <2>1
  <2> HIDE DEF n
  <2>4. n % Modulus \in Nat /\ asked \in Nat
    BY <2>2, DivMod, PeriodFacts
  <2>5. n < Modulus => n % Modulus = n
    <3>1. n < Modulus => n \in 0..(Modulus - 1) /\ n = (Modulus * 0) + n
      BY <2>2, PeriodFacts
    <3> QED
      BY <2>2, <3>1, PeriodFacts, ModUnique
  <2>6. asked <= n % Modulus
    BY <2>2, <2>4, <2>5
  <2> HIDE DEF asked
  <2> QED
    BY <2>3, <2>4, <2>6, DelayEntryInv
<1>4. CASE DelayStep
  BY <1>4, DelayStepInv
<1>5. CASE DelayReturns
  BY <1>5 DEF DelayReturns, DelayInv, DelayTypes, DelayLongEnough, NoDelay, clockVars
<1>6. CASE UNCHANGED systimeVars
  BY <1>6, TimePasses DEF systimeVars, clockVars
<1> QED
  BY <1>1, <1>2, <1>3, <1>4, <1>5, <1>6 DEF SystimeNext

\* delayUs and HAL_Delay return when the time they were asked for has passed, or
\* later: for every period and however long the thread is preempted between two
\* passes of the loop.
THEOREM DelaysAreLongEnough == ServicesSpec => []DelayLongEnough
<1>1. ServicesInit => DelayInv
  BY DEF ServicesInit, SystimeInit, DelayInv, DelayTypes, DelayLongEnough, NoDelay
<1>2. DelayInv /\ [ServicesNext]_<<part, systimeVars, mpVars>> => DelayInv'
  BY DelayNextInv, TimeSteps
<1>3. DelayInv => DelayLongEnough
  BY DEF DelayInv
<1> QED
  BY <1>1, <1>2, <1>3, PTL DEF ServicesSpec
-----------------------------------------------------------------------------
(* The threads of MicroPython.  A task between the two halves of           *)
(* mp_thread_create has the GIL, so the task it has created but not linked *)
(* waits for the GIL, and nobody collects garbage meanwhile.               *)

Tasks == Threads \cup {Main}
Node  == [id : Tasks, ready : BOOLEAN]

InList(u)  == \E i \in DOMAIN thread : thread[i].id = u
IsReady(u) == \E i \in DOMAIN thread : thread[i].id = u /\ thread[i].ready

MpTypes ==
    /\ thread \in Seq(Node)
    /\ gil \in Tasks \cup {Nobody}
    /\ task \in [Tasks -> {"none", "entry", "start", "python", "link", "gone",
                           "accept", "recv", "halted"}]

\* The main task runs Python from the beginning, and waits with the GIL.
MainInv ==
    /\ task[Main] \in {"python", "link", "accept", "recv", "halted"}
    /\ task[Main] \in {"accept", "recv", "halted"} => gil = Main

Linking == \E t \in Tasks : task[t] = "link"

ListInv ==
    /\ \A t \in Tasks : task[t] = "link" => gil = t
    /\ \A u \in Tasks : task[u] # "none" /\ ~InList(u) => Linking /\ task[u] \in {"entry", "start"}
    /\ \A u, v \in Tasks :
           task[u] # "none" /\ ~InList(u) /\ task[v] # "none" /\ ~InList(v) => u = v
    /\ \A u \in Tasks : task[u] \in {"python", "link", "accept", "recv", "halted"} => IsReady(u)

MpInv == MpTypes /\ MainInv /\ ListInv

ConsoleTypes ==
    console \in [repl : BOOLEAN, conn : BOOLEAN, peer : BOOLEAN, netbuf : BOOLEAN,
                 size : Nat, line : BOOLEAN]

ConsoleInv == MpInv /\ ConsoleTypes /\ ConsoleInUse

\* mp_thread_create puts its node at the head of the list.
LEMMA LinkNode ==
    ASSUME MpTypes, NEW u \in Tasks, thread' = <<[id |-> u, ready |-> FALSE]>> \o thread
    PROVE  /\ thread' \in Seq(Node)
           /\ InList(u)'
           /\ \A v \in Tasks : (InList(v) => InList(v)') /\ (IsReady(v) => IsReady(v)')
<1> DEFINE e == [id |-> u, ready |-> FALSE]
<1>1. thread \in Seq(Node) /\ e \in Node
  BY DEF MpTypes, Node
<1>2. e.id = u
  OBVIOUS
<1> HIDE DEF e
<1>3. /\ thread' \in Seq(Node) /\ Len(thread') = Len(thread) + 1
      /\ thread'[1] = e /\ \A i \in 1..Len(thread) : thread'[i + 1] = thread[i]
  BY <1>1 DEF e
<1>4. DOMAIN thread = 1..Len(thread) /\ DOMAIN thread' = 1..(Len(thread) + 1) /\ Len(thread) \in Nat
  BY <1>1, <1>3
<1>5. 1 \in DOMAIN thread' /\ \A i \in DOMAIN thread : i + 1 \in DOMAIN thread' /\ thread'[i + 1] = thread[i]
  BY <1>3, <1>4
<1>6. InList(u)'
  BY <1>2, <1>3, <1>5 DEF InList
<1>7. ASSUME NEW v \in Tasks, InList(v) PROVE InList(v)'
  BY <1>5, <1>7 DEF InList
<1>8. ASSUME NEW v \in Tasks, IsReady(v) PROVE IsReady(v)'
  BY <1>5, <1>8 DEF IsReady
<1> QED
  BY <1>3, <1>6, <1>7, <1>8

\* mp_thread_start and mp_thread_finish change the flag of their own node.
LEMMA ReadyNode ==
    ASSUME MpTypes, NEW t \in Tasks, NEW value \in BOOLEAN, SetReady(t, value)
    PROVE  /\ thread' \in Seq(Node)
           /\ \A v \in Tasks : InList(v)' <=> InList(v)
           /\ \A v \in Tasks : v # t /\ IsReady(v) => IsReady(v)'
           /\ value /\ InList(t) => IsReady(t)'
<1>1. thread \in Seq(Node) /\ DOMAIN thread = 1..Len(thread) /\ Len(thread) \in Nat
  BY DEF MpTypes
<1>2. \A i \in 1..Len(thread) : thread[i] \in Node
  BY <1>1
<1>3. /\ DOMAIN thread' = 1..Len(thread)
      /\ \A i \in 1..Len(thread) :
            thread'[i] = IF thread[i].id = t THEN [thread[i] EXCEPT !.ready = value] ELSE thread[i]
      /\ thread' = [i \in 1..Len(thread) |-> thread'[i]]
  BY <1>1 DEF SetReady
<1>4. \A i \in 1..Len(thread) :
          /\ thread'[i] \in Node /\ thread'[i].id = thread[i].id
          /\ thread[i].id # t => thread'[i] = thread[i]
          /\ thread[i].id = t => thread'[i].ready = value
  BY <1>2, <1>3 DEF Node
<1>5. thread' \in [1..Len(thread) -> Node]
  BY <1>3, <1>4
<1>6. thread' \in Seq(Node)
  BY <1>1, <1>5, SeqDef
<1>7. ASSUME NEW v \in Tasks PROVE InList(v)' <=> InList(v)
  BY <1>1, <1>3, <1>4 DEF InList
<1>8. ASSUME NEW v \in Tasks, v # t, IsReady(v) PROVE IsReady(v)'
  BY <1>1, <1>3, <1>4, <1>8 DEF IsReady
<1>9. ASSUME value, InList(t) PROVE IsReady(t)'
  BY <1>1, <1>3, <1>4, <1>9 DEF InList, IsReady
<1> QED
  BY <1>6, <1>7, <1>8, <1>9

\* The main task goes from one place to another and keeps the GIL.
LEMMA MainMoves ==
    ASSUME MpInv, task[Main] \in {"python", "accept", "recv"}, gil = Main,
           NEW pc \in {"python", "accept", "recv", "halted"}, To(Main, pc),
           UNCHANGED <<thread, gil>>
    PROVE  MpInv'
<1>0. MpTypes /\ MainInv /\ ListInv /\ Main \in Tasks
  BY DEF MpInv, Tasks
<1>1. task'[Main] = pc /\ \A v \in Tasks : v # Main => task'[v] = task[v]
  BY <1>0 DEF To, MpTypes
<1>2. MpTypes'
  BY <1>0 DEF To, MpTypes, Node, Tasks
<1>3. \A v \in Tasks : (InList(v)' <=> InList(v)) /\ (IsReady(v)' <=> IsReady(v))
  BY DEF InList, IsReady
<1>4. MainInv'
  BY <1>1 DEF MainInv
<1>5. ListInv'
  BY <1>0, <1>1, <1>3 DEF ListInv, Linking
<1> QED
  BY <1>2, <1>4, <1>5 DEF MpInv

\* Nobody is between the halves of mp_thread_create when another has the GIL,
\* and then every task is in the list.
LEMMA NobodyLinks ==
    ASSUME MpInv, gil = Nobody \/ (gil \in Tasks /\ task[gil] # "link")
    PROVE  /\ \A t \in Tasks : task[t] # "link"
           /\ \A u \in Tasks : task[u] # "none" => InList(u)
<1>1. Nobody \notin Tasks
  BY MpAssumption DEF Tasks
<1> QED
  BY <1>1 DEF MpInv, ListInv, Linking

\* The GIL changes hands.
LEMMA GilInv ==
    ASSUME MpInv, NEW t \in Tasks, GilExit(t) \/ GilEnter(t)
    PROVE  MpInv'
<1>0. MpTypes /\ MainInv /\ ListInv /\ Nobody \notin Tasks
  BY MpAssumption DEF MpInv, Tasks
<1>1. UNCHANGED <<thread, task>>
  BY DEF GilExit, GilEnter
<1>2. /\ gil' \in Tasks \cup {Nobody}
      /\ (gil = t /\ task[t] = "python") \/ gil = Nobody
  BY DEF GilExit, GilEnter, Python, At
<1>3. \A v \in Tasks : task[v] # "link"
  <2>1. gil = Nobody \/ (gil \in Tasks /\ task[gil] # "link")
    <3>1. CASE gil = Nobody
      BY <3>1
    <3>2. CASE gil = t /\ task[t] = "python"
      BY <3>2
    <3> QED
      BY <1>2, <3>1, <3>2
  <2> QED
    BY <2>1, NobodyLinks
<1>4. task[Main] \notin {"accept", "recv", "halted"}
  BY <1>0, <1>2 DEF MainInv, Tasks
<1>5. MpTypes'
  BY <1>0, <1>1, <1>2 DEF MpTypes, Node, Tasks
<1>6. \A v \in Tasks : (InList(v)' <=> InList(v)) /\ (IsReady(v)' <=> IsReady(v))
  BY <1>1 DEF InList, IsReady
<1>7. MainInv' /\ ListInv'
  BY <1>0, <1>1, <1>3, <1>4, <1>6 DEF MainInv, ListInv, Linking
<1> QED
  BY <1>5, <1>7 DEF MpInv

\* The new task is the only one that is not in the list.
LEMMA CreateTaskInv ==
    ASSUME MpInv, NEW t \in Tasks, NEW u \in Threads, CreateTask(t, u)
    PROVE  MpInv'
<1>0. MpTypes /\ MainInv /\ ListInv /\ u \in Tasks /\ u # Main /\ Main \in Tasks
  BY MpAssumption DEF MpInv, Tasks
<1>1. gil = t /\ task[t] = "python" /\ task[u] = "none" /\ UNCHANGED <<thread, gil>>
  BY DEF CreateTask, Python, At
<1>2. /\ task'[t] = "link" /\ task'[u] = "entry"
      /\ \A v \in Tasks : v # t /\ v # u => task'[v] = task[v]
  BY <1>0, <1>1 DEF CreateTask, MpTypes
<1>3. MpTypes'
  BY <1>0, <1>1 DEF CreateTask, MpTypes, Node, Tasks
<1>4. \A v \in Tasks : (InList(v)' <=> InList(v)) /\ (IsReady(v)' <=> IsReady(v))
  BY <1>1 DEF InList, IsReady
<1>5. /\ \A v \in Tasks : task[v] # "link"
      /\ \A v \in Tasks : task[v] # "none" => InList(v)
  BY <1>1, NobodyLinks
<1>6. MainInv'
  BY <1>0, <1>1, <1>2 DEF MainInv
<1>7. ListInv'
  BY <1>0, <1>1, <1>2, <1>4, <1>5 DEF ListInv, Linking
<1> QED
  BY <1>3, <1>6, <1>7 DEF MpInv

\* Once it is linked all tasks are in the list again.
LEMMA CreateLinkInv ==
    ASSUME MpInv, NEW t \in Tasks, CreateLink(t)
    PROVE  MpInv'
<1>0. MpTypes /\ MainInv /\ ListInv /\ Main \in Tasks
  BY DEF MpInv, Tasks
<1>1. PICK u \in Threads : Unlinked(u) /\ thread' = <<[id |-> u, ready |-> FALSE]>> \o thread
  BY DEF CreateLink
<1>2. u \in Tasks /\ task[u] # "none" /\ ~InList(u)
  BY <1>1 DEF Unlinked, At, InList, Tasks
<1>3. task[t] = "link" /\ gil = t /\ gil' = gil
  BY <1>0 DEF CreateLink, At, ListInv
<1>4. task'[t] = "python" /\ \A v \in Tasks : v # t => task'[v] = task[v]
  BY <1>0 DEF CreateLink, To, MpTypes
<1>5. /\ thread' \in Seq(Node)
      /\ InList(u)'
      /\ \A v \in Tasks : (InList(v) => InList(v)') /\ (IsReady(v) => IsReady(v)')
  BY <1>0, <1>1, <1>2, LinkNode
<1>6. MpTypes'
  BY <1>0, <1>3, <1>5 DEF CreateLink, To, MpTypes, Node, Tasks
<1>7. MainInv'
  BY <1>0, <1>3, <1>4 DEF MainInv
<1>8. \A v \in Tasks : task[v] # "none" => InList(v)'
  BY <1>0, <1>2, <1>5 DEF ListInv
<1>9. ListInv'
  BY <1>0, <1>3, <1>4, <1>5, <1>8 DEF ListInv, Linking
<1> QED
  BY <1>6, <1>7, <1>9 DEF MpInv

\* A task that was created runs up to the GIL, linked or not.
LEMMA ThreadEntryInv ==
    ASSUME MpInv, NEW t \in Tasks, ThreadEntry(t)
    PROVE  MpInv'
<1>0. MpTypes /\ MainInv /\ ListInv /\ Main \in Tasks
  BY DEF MpInv, Tasks
<1>1. task[t] = "entry" /\ UNCHANGED <<thread, gil>>
  BY DEF ThreadEntry, At
<1>2. task'[t] = "start" /\ \A v \in Tasks : v # t => task'[v] = task[v]
  BY <1>0 DEF ThreadEntry, To, MpTypes
<1>3. MpTypes'
  BY <1>0, <1>1 DEF ThreadEntry, To, MpTypes, Node, Tasks
<1>4. \A v \in Tasks : (InList(v)' <=> InList(v)) /\ (IsReady(v)' <=> IsReady(v))
  BY <1>1 DEF InList, IsReady
<1>5. MainInv'
  BY <1>0, <1>1, <1>2 DEF MainInv
<1>6. ListInv'
  BY <1>0, <1>1, <1>2, <1>4 DEF ListInv, Linking
<1> QED
  BY <1>3, <1>5, <1>6 DEF MpInv

\* With the GIL a task finds its node.
LEMMA ThreadStartInv ==
    ASSUME MpInv, NEW t \in Tasks, mp_thread_start(t)
    PROVE  MpInv'
<1>0. MpTypes /\ MainInv /\ ListInv /\ Main \in Tasks
  BY DEF MpInv, Tasks
<1>1. task[t] = "start" /\ gil = t /\ gil' = gil /\ SetReady(t, TRUE)
  BY DEF mp_thread_start, At
<1>2. task'[t] = "python" /\ \A v \in Tasks : v # t => task'[v] = task[v]
  BY <1>0 DEF mp_thread_start, To, MpTypes
<1>3. /\ \A v \in Tasks : task[v] # "link"
      /\ \A v \in Tasks : task[v] # "none" => InList(v)
  BY <1>1, NobodyLinks
<1>4. /\ thread' \in Seq(Node)
      /\ \A v \in Tasks : InList(v)' <=> InList(v)
      /\ \A v \in Tasks : v # t /\ IsReady(v) => IsReady(v)'
      /\ InList(t) => IsReady(t)'
  BY <1>0, <1>1, ReadyNode
<1>5. MpTypes'
  BY <1>0, <1>1, <1>4 DEF mp_thread_start, To, MpTypes, Node, Tasks
<1>6. MainInv'
  BY <1>0, <1>1, <1>2 DEF MainInv
<1>7. ListInv'
  BY <1>0, <1>1, <1>2, <1>3, <1>4 DEF ListInv, Linking
<1> QED
  BY <1>5, <1>6, <1>7 DEF MpInv

\* A task that ends is not scanned any more; its node stays.
LEMMA ThreadFinishInv ==
    ASSUME MpInv, NEW t \in Tasks, mp_thread_finish(t)
    PROVE  MpInv'
<1>0. MpTypes /\ MainInv /\ ListInv /\ Main \in Tasks
  BY DEF MpInv, Tasks
<1>1. t # Main /\ task[t] = "python" /\ gil = t /\ gil' = Nobody /\ SetReady(t, FALSE)
  BY DEF mp_thread_finish, Python, At
<1>2. task'[t] = "gone" /\ \A v \in Tasks : v # t => task'[v] = task[v]
  BY <1>0 DEF mp_thread_finish, To, MpTypes
<1>3. /\ \A v \in Tasks : task[v] # "link"
      /\ \A v \in Tasks : task[v] # "none" => InList(v)
  BY <1>1, NobodyLinks
<1>4. /\ thread' \in Seq(Node)
      /\ \A v \in Tasks : InList(v)' <=> InList(v)
      /\ \A v \in Tasks : v # t /\ IsReady(v) => IsReady(v)'
  BY <1>0, <1>1, ReadyNode
<1>5. MpTypes'
  BY <1>0, <1>1, <1>4 DEF mp_thread_finish, To, MpTypes, Node, Tasks
<1>6. MainInv'
  BY <1>0, <1>1, <1>2 DEF MainInv
<1>7. ListInv'
  BY <1>0, <1>1, <1>2, <1>3, <1>4 DEF ListInv, Linking
<1> QED
  BY <1>5, <1>6, <1>7 DEF MpInv

\* What the tasks do with the threads leaves the console alone.
ThreadsNext(t) ==
    \/ GilExit(t) \/ GilEnter(t)
    \/ \E u \in Threads : CreateTask(t, u)
    \/ CreateLink(t)
    \/ ThreadEntry(t) \/ mp_thread_start(t) \/ mp_thread_finish(t)

\* Creation, start, end and collection of tasks keep what is known of the thread list.
LEMMA ThreadsInv ==
    ASSUME ConsoleInv, NEW t \in Tasks, ThreadsNext(t)
    PROVE  ConsoleInv'
<1>0. MpInv /\ ConsoleTypes /\ ConsoleInUse
  BY DEF ConsoleInv
<1>1. MpInv'
  BY <1>0, GilInv, CreateTaskInv, CreateLinkInv, ThreadEntryInv, ThreadStartInv,
     ThreadFinishInv DEF ThreadsNext
<1>2. console' = console
  BY DEF ThreadsNext, GilExit, GilEnter, CreateTask, CreateLink, ThreadEntry,
         mp_thread_start, mp_thread_finish
<1>3. task'[Main] = "recv" => task[Main] = "recv"
  <2>1. task \in [Tasks -> {"none", "entry", "start", "python", "link", "gone",
                           "accept", "recv", "halted"}] /\ Main \in Tasks
    BY <1>0 DEF MpInv, MpTypes, Tasks
  <2> QED
    BY <2>1 DEF ThreadsNext, GilExit, GilEnter, CreateTask, CreateLink, ThreadEntry,
                mp_thread_start, mp_thread_finish, To
<1> QED
  BY <1>0, <1>1, <1>2, <1>3 DEF ConsoleInv, ConsoleTypes, ConsoleInUse, At

\* The fields of the console after the connection is closed.
LEMMA Closed ==
    ASSUME ConsoleTypes
    PROVE  /\ close_connection \in [repl : BOOLEAN, conn : BOOLEAN, peer : BOOLEAN,
                                    netbuf : BOOLEAN, size : Nat, line : BOOLEAN]
           /\ close_connection.size = 0
           /\ [close_connection EXCEPT !.line = FALSE] \in
                  [repl : BOOLEAN, conn : BOOLEAN, peer : BOOLEAN,
                   netbuf : BOOLEAN, size : Nat, line : BOOLEAN]
           /\ [close_connection EXCEPT !.line = FALSE].size = 0
  BY DEF close_connection, ConsoleTypes

\* The REPL ends: nothing of the connection is used any more.
LEMMA ReplEndsInv ==
    ASSUME ConsoleInv, task[Main] \in {"python", "recv"}, gil = Main, ReplEnds,
           UNCHANGED <<thread, gil>>
    PROVE  ConsoleInv'
<1>0. MpInv /\ ConsoleTypes
  BY DEF ConsoleInv
<1>1. To(Main, "accept") /\ console' = [close_connection EXCEPT !.line = FALSE]
  BY DEF ReplEnds
<1>2. MpInv'
  BY <1>0, <1>1, MainMoves
<1>3. ConsoleTypes' /\ console'.size = 0
  BY <1>0, <1>1, Closed DEF ConsoleTypes
<1>4. task'[Main] = "accept"
  BY <1>0, <1>1 DEF To, MpInv, MpTypes, Tasks
<1> QED
  BY <1>2, <1>3, <1>4 DEF ConsoleInv, ConsoleInUse, At

\* A character, or the end of input, is given to the REPL.
LEMMA InputInv ==
    ASSUME ConsoleInv, task[Main] \in {"python", "recv"}, gil = Main,
           UNCHANGED <<thread, gil>>,
           NEW c \in [repl : BOOLEAN, conn : BOOLEAN, peer : BOOLEAN, netbuf : BOOLEAN,
                      size : Nat, line : BOOLEAN],
           c.size > 0 => c.netbuf /\ c.conn,
           Typed(c) \/ EndOfInput(c)
    PROVE  ConsoleInv'
<1>0. MpInv /\ ConsoleTypes
  BY DEF ConsoleInv
<1>1. CASE ReplEnds
  BY <1>1, ReplEndsInv
<1>2. CASE To(Main, "python") /\ console' \in {c, [c EXCEPT !.line = ~@]}
  <2>1. MpInv'
    BY <1>0, <1>2, MainMoves
  <2>2. ConsoleTypes'
    BY <1>2 DEF ConsoleTypes
  <2>3. console'.size = c.size /\ console'.netbuf = c.netbuf /\ console'.conn = c.conn
    BY <1>2
  <2>4. task'[Main] = "python"
    BY <1>0, <1>2 DEF To, MpInv, MpTypes, Tasks
  <2> QED
    BY <2>1, <2>2, <2>3, <2>4 DEF ConsoleInv, ConsoleInUse, At
<1> QED
  BY <1>1, <1>2 DEF Typed, EndOfInput

\* What the main task, the clients and the prints of all tasks do with the console.
ConsoleNext ==
    \/ \E t \in Tasks : mp_carbon_stdout(t)
    \/ ClientLeaves \/ ScriptEnds \/ Accept \/ SystemExit
    \/ StdinWait \/ StdinReceived \/ StdinError \/ StdinNext

\* The steps of the console keep what is known of its connection.
LEMMA ConsoleNextInv ==
    ASSUME ConsoleInv, ConsoleNext
    PROVE  ConsoleInv'
<1> DEFINE C == [repl : BOOLEAN, conn : BOOLEAN, peer : BOOLEAN, netbuf : BOOLEAN,
                 size : Nat, line : BOOLEAN]
<1>0. /\ MpInv /\ ConsoleTypes /\ ConsoleInUse /\ MainInv /\ MpTypes /\ Main \in Tasks
      /\ console \in C
  BY DEF ConsoleInv, MpInv, Tasks, ConsoleTypes
<1>1. ASSUME UNCHANGED <<thread, gil, task>> PROVE MpInv'
  BY <1>0, <1>1 DEF MpInv, MpTypes, MainInv, ListInv, Linking, InList, IsReady, Node, Tasks
<1>2. ASSUME NEW t \in Tasks, mp_carbon_stdout(t) PROVE ConsoleInv'
  <2>1. task[Main] # "recv"
    BY <1>0, <1>2 DEF MainInv, mp_carbon_stdout, Python, At
  <2>2. console' = close_connection /\ UNCHANGED <<thread, gil, task>>
    BY <1>2 DEF mp_carbon_stdout
  <2>3. ConsoleTypes' /\ console'.size = 0
    BY <1>0, <2>2, Closed DEF ConsoleTypes
  <2> QED
    BY <1>1, <2>1, <2>2, <2>3 DEF ConsoleInv, ConsoleInUse, At
<1>3. CASE ClientLeaves
  <2>1. console' = [console EXCEPT !.peer = FALSE] /\ UNCHANGED <<thread, gil, task>>
    BY <1>3 DEF ClientLeaves
  <2>2. /\ ConsoleTypes' /\ console'.size = console.size /\ console'.conn = console.conn
        /\ console'.netbuf = console.netbuf
    BY <1>0, <2>1 DEF ConsoleTypes
  <2> QED
    BY <1>0, <1>1, <2>1, <2>2 DEF ConsoleInv, ConsoleInUse, At
<1>4. CASE ScriptEnds
  <2>1. /\ gil = Main /\ task[Main] = "python" /\ UNCHANGED <<thread, gil, console>>
        /\ To(Main, "accept") \/ To(Main, "halted")
    BY <1>4 DEF ScriptEnds, Python, At
  <2>2. MpInv'
    BY <1>0, <2>1, MainMoves
  <2>3. task'[Main] # "recv"
    BY <1>0, <2>1 DEF To, MpTypes
  <2> QED
    BY <1>0, <2>1, <2>2, <2>3 DEF ConsoleInv, ConsoleTypes, ConsoleInUse, At
<1>5. CASE Accept
  <2>1. gil = Main /\ task[Main] = "accept" /\ UNCHANGED <<thread, gil>>
    BY <1>0, <1>5 DEF Accept, At, MainInv
  <2>2. CASE /\ console' = [console EXCEPT !.repl = TRUE, !.conn = TRUE, !.peer = TRUE]
             /\ To(Main, "python")
    <3>1. MpInv'
      BY <1>0, <2>1, <2>2, MainMoves
    <3>2. /\ ConsoleTypes' /\ console'.size = console.size /\ console'.conn
          /\ console'.netbuf = console.netbuf
      BY <1>0, <2>2 DEF ConsoleTypes
    <3> QED
      BY <1>0, <3>1, <3>2 DEF ConsoleInv, ConsoleInUse, At
  <2>3. CASE To(Main, "halted") /\ UNCHANGED console
    <3>1. MpInv'
      BY <1>0, <2>1, <2>3, MainMoves
    <3>2. task'[Main] # "recv"
      BY <1>0, <2>3 DEF To, MpTypes
    <3> QED
      BY <1>0, <2>3, <3>1, <3>2 DEF ConsoleInv, ConsoleTypes, ConsoleInUse, At
  <2> QED
    BY <1>5, <2>2, <2>3 DEF Accept
<1>6. CASE SystemExit
  BY <1>6, ReplEndsInv DEF SystemExit, Python, At
<1>7. CASE StdinWait
  <2>1. /\ gil = Main /\ task[Main] = "python" /\ console.conn /\ console.size = 0
        /\ console' = [console EXCEPT !.netbuf = FALSE] /\ To(Main, "recv")
        /\ UNCHANGED <<thread, gil>>
    BY <1>7 DEF StdinWait, Python, At
  <2>2. MpInv'
    BY <1>0, <2>1, MainMoves
  <2>3. ConsoleTypes' /\ console'.size = 0 /\ console'.conn
    BY <1>0, <2>1 DEF ConsoleTypes
  <2> QED
    BY <2>2, <2>3 DEF ConsoleInv, ConsoleInUse
<1>8. CASE StdinReceived
  <2>1. task[Main] = "recv" /\ gil = Main /\ console.conn /\ UNCHANGED <<thread, gil>>
    BY <1>0, <1>8 DEF StdinReceived, At, MainInv, ConsoleInUse
  <2>2. PICK n \in 1..MaxSize :
            \/ Typed([console EXCEPT !.netbuf = TRUE, !.size = n - 1])
            \/ EndOfInput([console EXCEPT !.netbuf = TRUE, !.size = n - 1])
    BY <1>8 DEF StdinReceived
  <2> DEFINE c == [console EXCEPT !.netbuf = TRUE, !.size = n - 1]
  <2>3. n - 1 \in Nat
    BY MpAssumption
  <2>4. c \in C /\ c.netbuf /\ c.conn
    BY <1>0, <2>1, <2>3
  <2>5. Typed(c) \/ EndOfInput(c)
    BY <2>2
  <2> HIDE DEF c
  <2> QED
    BY <2>1, <2>4, <2>5, InputInv
<1>9. CASE StdinError
  <2>1. task[Main] = "recv" /\ gil = Main /\ console.conn /\ UNCHANGED <<thread, gil>>
    BY <1>0, <1>9 DEF StdinError, At, MainInv, ConsoleInUse
  <2>2. EndOfInput(console) /\ (console.size > 0 => console.netbuf /\ console.conn)
    BY <1>0, <1>9 DEF StdinError, ConsoleInUse
  <2> QED
    BY <1>0, <2>1, <2>2, InputInv
<1>10. CASE StdinNext
  <2>1. /\ task[Main] = "python" /\ gil = Main /\ console.size > 0
        /\ UNCHANGED <<thread, gil>>
        /\ \/ Typed([console EXCEPT !.size = @ - 1])
           \/ EndOfInput([console EXCEPT !.size = @ - 1])
    BY <1>10 DEF StdinNext, Python, At
  <2> DEFINE c == [console EXCEPT !.size = @ - 1]
  <2>2. console.size - 1 \in Nat /\ console.netbuf /\ console.conn
    BY <1>0, <2>1 DEF ConsoleInUse
  <2>3. c \in C /\ c.netbuf /\ c.conn
    BY <1>0, <2>2
  <2>4. Typed(c) \/ EndOfInput(c)
    BY <2>1
  <2> HIDE DEF c
  <2> QED
    BY <2>1, <2>3, <2>4, InputInv
<1> QED
  BY <1>2, <1>3, <1>4, <1>5, <1>6, <1>7, <1>8, <1>9, <1>10 DEF ConsoleNext

\* It holds before the interpreter starts.
LEMMA MpInitInv == MpInit => ConsoleInv
<1> SUFFICES ASSUME MpInit PROVE ConsoleInv
  OBVIOUS
<1>1. /\ thread = <<[id |-> Main, ready |-> TRUE]>> /\ gil = Main
      /\ task = [t \in Tasks |-> IF t = Main THEN "python" ELSE "none"]
      /\ console = NoConsole /\ Main \in Tasks
  BY DEF MpInit, Tasks
<1>2. MpTypes
  BY <1>1 DEF MpTypes, Node
<1>3. 1 \in DOMAIN thread /\ thread[1].id = Main /\ thread[1].ready
  BY <1>1
<1>4. InList(Main) /\ IsReady(Main)
  BY <1>3 DEF InList, IsReady
<1>5. task[Main] = "python" /\ \A t \in Tasks : t # Main => task[t] = "none"
  BY <1>1
<1>6. MainInv /\ ListInv
  BY <1>4, <1>5 DEF MainInv, ListInv
<1>7. ConsoleTypes /\ ConsoleInUse
  BY <1>1, <1>5 DEF ConsoleTypes, ConsoleInUse, NoConsole, At
<1> QED
  BY <1>2, <1>6, <1>7 DEF ConsoleInv, MpInv

\* Every step of the port keeps it.
LEMMA MpStep == ConsoleInv /\ [MpNext]_mpVars => ConsoleInv'
<1> SUFFICES ASSUME ConsoleInv, [MpNext]_mpVars PROVE ConsoleInv'
  OBVIOUS
<1>1. CASE \E t \in Tasks : ThreadsNext(t)
  BY <1>1, ThreadsInv
<1>2. CASE ConsoleNext
  BY <1>2, ConsoleNextInv
<1>3. CASE UNCHANGED mpVars
  BY <1>3 DEF mpVars, ConsoleInv, ConsoleTypes, ConsoleInUse, At, MpInv, MpTypes, MainInv,
              ListInv, Linking, InList, IsReady
<1> QED
  BY <1>1, <1>2, <1>3 DEF MpNext, ThreadsNext, ConsoleNext, Tasks

\* A step of the two parts is a step of MicroPython, or none of it.
LEMMA MpSteps == [ServicesNext]_<<part, systimeVars, mpVars>> => [MpNext]_mpVars
  BY DEF ServicesNext

\* So it always holds.
LEMMA MpAlways == ServicesSpec => []ConsoleInv
<1>1. ServicesInit => ConsoleInv
  BY MpInitInv DEF ServicesInit
<1>2. ConsoleInv /\ [ServicesNext]_<<part, systimeVars, mpVars>> => ConsoleInv'
  BY MpStep, MpSteps
<1> QED
  BY <1>1, <1>2, PTL DEF ServicesSpec

\* Whoever collects garbage finds the stacks of all tasks that are in Python and
\* the nodes of all that are about to be, for any number of threads, although a
\* new task may run before mp_thread_create has linked its node.
THEOREM RootsAreKept == ServicesSpec => []RootsKept
<1>1. ConsoleInv => RootsKept
  <2> SUFFICES ASSUME ConsoleInv, NEW t \in Tasks, Python(t), NEW u \in Tasks
               PROVE  /\ task[u] = "python" => u \in Scanned
                      /\ task[u] \in {"entry", "start"} => u \in Nodes
    BY DEF RootsKept, Tasks
  <2>1. MpInv /\ gil = t /\ task[t] = "python"
    BY DEF ConsoleInv, Python, At
  <2>2. task[u] # "none" => InList(u)
    BY <2>1, NobodyLinks
  <2>3. task[u] = "python" => IsReady(u)
    BY <2>1 DEF MpInv, ListInv
  <2> QED
    BY <2>2, <2>3 DEF InList, IsReady, Nodes, Scanned
<1> QED
  BY <1>1, MpAlways, PTL

\* The connection on which the main task waits is not closed by the prints of
\* other tasks, and no character is taken from a netbuf that is gone: the GIL,
\* which is kept while the main task waits, is what protects the console.
THEOREM ConsoleKept == ServicesSpec => []ConsoleInUse
<1>1. ConsoleInv => ConsoleInUse
  BY DEF ConsoleInv
<1> QED
  BY <1>1, MpAlways, PTL
=============================================================================
