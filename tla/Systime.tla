------------------------------ MODULE Systime ------------------------------
(***************************************************************************)
(* System time of common/src/systime.cpp: a 32-bit timer that counts       *)
(* microseconds is extended to 64 bits in software.  Whoever reads the     *)
(* counter looks for a wrap since the previous reading; a compare          *)
(* interrupt every half period makes sure that none is missed.  delayUs    *)
(* reads the counter on its own.                                           *)
(***************************************************************************)
EXTENDS Naturals

CONSTANTS
    SYSTIME_TIM_PERIOD,  \* last value of the counter: 2^32 - 1 in the code
    UsPerMs,             \* microseconds of a millisecond: 1000 in the code
    Latency,             \* bound of the model: ticks until an interrupt is served
    MaxDelay,            \* bound of the model: longest delay asked for
    MaxTime              \* bound of the model: last microsecond

ASSUME SystimeAssumption ==
    /\ SYSTIME_TIM_PERIOD \in Nat /\ UsPerMs \in Nat \ {0}
    /\ Latency \in Nat \ {0} /\ MaxDelay \in Nat /\ MaxTime \in Nat
    /\ Latency < SYSTIME_TIM_PERIOD \div 2
    /\ SYSTIME_TIM_PERIOD \div 2 + 2 * Latency <= SYSTIME_TIM_PERIOD

VARIABLES
    now,             \* microseconds since the timer runs
    usCounterBase,
    usTimLastCount,
    ccr1, cc1if,     \* compare register and its flag
    isr,             \* the interrupt handler: Idle, or the count it has read
    reader,          \* a caller of systimeUs: Idle, or the count it has read
    systime,         \* what systimeUs returned last
    delay            \* a caller of delayUs or HAL_Delay

clockVars   == <<now, cc1if>>
counterVars == <<usCounterBase, usTimLastCount>>
systimeVars == <<clockVars, counterVars, ccr1, isr, reader, systime, delay>>

Modulus == SYSTIME_TIM_PERIOD + 1
CNT     == now % Modulus
Idle    == Modulus
NoDelay == [pc |-> "idle", cnt1 |-> 0, us |-> 0, asked |-> 0, since |-> 0]

\* low_level_system_time
SystimeInit ==
    /\ now = 0 /\ cc1if = FALSE
    /\ usCounterBase = 0 /\ usTimLastCount = 0
    /\ ccr1 = SYSTIME_TIM_PERIOD \div 2
    /\ isr = Idle /\ reader = Idle
    /\ systime = 0
    /\ delay = NoDelay
-----------------------------------------------------------------------------
(* The timer.  Nothing keeps the interrupt from being served for longer    *)
(* than Latency, in the code a small part of half a period of 36 minutes.  *)

SinceCompare == (CNT + Modulus - ccr1) % Modulus

Tick ==
    /\ now < MaxTime
    /\ cc1if \/ isr # Idle => SinceCompare < Latency
    /\ now' = now + 1
    /\ cc1if' = (cc1if \/ (now + 1) % Modulus = ccr1)
    /\ UNCHANGED <<counterVars, ccr1, isr, reader, systime, delay>>

\* usCounterAdjust: a wrap is worth one less than the counter's modulus.
usCounterAdjust(cnt) ==
    /\ usCounterBase' = IF cnt < usTimLastCount
                        THEN usCounterBase + SYSTIME_TIM_PERIOD
                        ELSE usCounterBase
    /\ usTimLastCount' = cnt

(* carbon_hw_us_systime_tim_isr.  It has the lowest priority, and no       *)
(* interrupt above it asks for the time.                                   *)

IsrReads_unmasked ==
    /\ cc1if /\ isr = Idle
    /\ cc1if' = FALSE
    /\ isr' = CNT
    /\ UNCHANGED <<now, counterVars, ccr1, reader, systime, delay>>

IsrReads ==
    /\ cc1if /\ isr = Idle
    /\ reader = Idle
    /\ cc1if' = FALSE
    /\ isr' = CNT
    /\ UNCHANGED <<now, counterVars, ccr1, reader, systime, delay>>

\* The sum is an uint32_t, so the comparison with the period does nothing.
IsrAdjusts ==
    /\ isr # Idle
    /\ usCounterAdjust(isr)
    /\ ccr1' = (isr + SYSTIME_TIM_PERIOD \div 2) % Modulus
    /\ isr' = Idle
    /\ UNCHANGED <<clockVars, reader, systime, delay>>

(* systimeUs, in a thread and with the interrupts masked.                  *)

SystimeReads ==
    /\ reader = Idle /\ isr = Idle
    /\ reader' = CNT
    /\ UNCHANGED <<clockVars, counterVars, ccr1, isr, systime, delay>>

SystimeReturns ==
    /\ reader # Idle
    /\ usCounterAdjust(reader)
    /\ systime' = usCounterBase' + reader
    /\ reader' = Idle
    /\ UNCHANGED <<clockVars, ccr1, isr, delay>>
-----------------------------------------------------------------------------
(* delayUs and HAL_Delay, in a thread that may be preempted for any time.  *)

Thread == isr = Idle /\ reader = Idle

DelayEntry(us, asked) ==
    /\ Thread /\ delay.pc = "idle"
    /\ delay' = [pc |-> "wait", cnt1 |-> CNT, us |-> us, asked |-> asked, since |-> now]
    /\ UNCHANGED <<clockVars, counterVars, ccr1, isr, reader, systime>>

delayUs == \E us \in 0..MaxDelay : DelayEntry(us, us)

\* The product is an uint32_t; what was asked is kept where it fits in one.
\* The timer runs from SystimeInit on; without it HAL_Delay returns at once,
\* which only an Error_Handler during the boot meets.
HAL_Delay ==
    \E ms \in 0..MaxDelay :
        LET us == (ms * UsPerMs) % Modulus
        IN  DelayEntry(us, IF ms * UsPerMs < Modulus THEN ms * UsPerMs ELSE 0)

\* diff of delayUs; across a wrap it is one short.
Elapsed(cnt1, cnt2) ==
    IF cnt2 > cnt1 THEN cnt2 - cnt1 ELSE SYSTIME_TIM_PERIOD - cnt1 + cnt2

DelayStep_start_kept ==
    /\ Thread /\ delay.pc = "wait"
    /\ CNT # delay.cnt1
    /\ LET diff == Elapsed(delay.cnt1, CNT)
       IN  delay' = IF diff >= delay.us
                    THEN [delay EXCEPT !.pc = "over"]
                    ELSE [delay EXCEPT !.us = @ - diff]
    /\ UNCHANGED <<clockVars, counterVars, ccr1, isr, reader, systime>>

DelayStep ==
    /\ Thread /\ delay.pc = "wait"
    /\ CNT # delay.cnt1
    /\ LET diff == Elapsed(delay.cnt1, CNT)
       IN  delay' = IF diff >= delay.us
                    THEN [delay EXCEPT !.pc = "over"]
                    ELSE [delay EXCEPT !.us = @ - diff, !.cnt1 = CNT]
    /\ UNCHANGED <<clockVars, counterVars, ccr1, isr, reader, systime>>

DelayReturns ==
    /\ Thread /\ delay.pc = "over"
    /\ delay' = NoDelay
    /\ UNCHANGED <<clockVars, counterVars, ccr1, isr, reader, systime>>

SystimeNext ==
    \/ Tick \/ IsrReads \/ IsrAdjusts
    \/ SystimeReads \/ SystimeReturns
    \/ delayUs \/ HAL_Delay \/ DelayStep \/ DelayReturns
-----------------------------------------------------------------------------
(* Properties.                                                             *)

\* Whoever reads the counter, and however the readings of threads and of the
\* interrupt interleave with the wraps, every wrap is seen exactly once: the
\* base counts the wraps before the last reading, which is less than a
\* period old.  systimeUs is behind the clock by one microsecond per wrap,
\* and by no more.
WrapsCounted ==
    LET wraps == usCounterBase \div SYSTIME_TIM_PERIOD
        read  == wraps * Modulus + usTimLastCount
    IN  /\ read <= now /\ now < read + Modulus
        /\ systime <= usCounterBase + usTimLastCount

\* delayUs and HAL_Delay never return early: the wraps of the counter during
\* the delay, and preemption for longer than a period, only prolong it.
DelayLongEnough == delay.pc = "over" => now - delay.since >= delay.asked
=============================================================================
