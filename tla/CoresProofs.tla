----------------------------- MODULE CoresProofs -----------------------------
(***************************************************************************)
(* Proofs about the two cores from reset on: the boot handshake and the    *)
(* lock of the FIFOs, for every depth of nested locks.                     *)
(***************************************************************************)
EXTENDS Cores, TLAPS

(* The boot.  CM7 goes past its first wait only once CM4 sleeps, with the  *)
(* flag reset and its part of the set-up behind it; from there on only CM7 *)
(* changes what the two share, and raises the flag last.                   *)
Asleep == {"stopped", "wait sync", "main", "error"}

BootInv ==
    /\ ~D2CKRDY => p4 = "stopped"
    /\ p7 \in {"clock", "notify", "wait wake", "periphery", "fifo", "sync", "main"}
           => p4 \in Asleep
    /\ p7 \in {"notify", "wait wake", "periphery", "fifo", "sync", "main"} => clock
    /\ p7 \in {"fifo", "sync", "main"} => periphery
    /\ p7 \in {"sync", "main"} => fifo = "ready"
    /\ p4 \in {"clear", "wfe", "stopped", "wait sync"} /\ syncFlag => p7 = "main"
    /\ p4 = "main" => p7 = "main"

\* At reset both cores are before everything the invariant speaks of.
LEMMA BootInvInit == BootInit => BootInv
  BY DEF BootInit, BootInv, Asleep

\* What a step may do to the variables of the boot.
BootAction == Boot7 \/ Boot4 \/ Cm7Timeout \/ Cm4Timeout \/ SpuriousEvent

\* Every step of the two cores is a step of the boot or leaves it alone.
LEMMA BootOrNot == [CoresNext]_coresVars => BootAction \/ UNCHANGED bootVars
  BY DEF CoresNext, BootStep7, BootStep4, BootFails, Boots7, Runs7, Runs4, BootAction,
         coresVars

\* The handshake keeps its invariant.
LEMMA BootInvStep == BootInv /\ [CoresNext]_coresVars => BootInv'
<1> SUFFICES ASSUME BootInv, BootAction \/ UNCHANGED bootVars PROVE BootInv'
  BY BootOrNot
<1> USE DEF BootInv, Asleep
<1>1. CASE Boot7
  <2> USE DEF Step7, hw
  <2>1. CASE Cm7Constructors
    BY <2>1 DEF Cm7Constructors
  <2>2. CASE Cm7WaitStop
    BY <2>2 DEF Cm7WaitStop
  <2>3. CASE Cm7Clock
    BY <2>3 DEF Cm7Clock
  <2>4. CASE Cm7Notify
    BY <2>4 DEF Cm7Notify
  <2>5. CASE Cm7WaitWake
    BY <2>5 DEF Cm7WaitWake
  <2>6. CASE Cm7Periphery
    BY <2>6 DEF Cm7Periphery
  <2>7. CASE Cm7FifoInit
    BY <2>7 DEF Cm7FifoInit
  <2>8. CASE Cm7SetSyncFlag
    BY <2>8 DEF Cm7SetSyncFlag
  <2> QED
    BY <1>1, <2>1, <2>2, <2>3, <2>4, <2>5, <2>6, <2>7, <2>8 DEF Boot7
<1>2. CASE Boot4
  <2> USE DEF Step4, hw
  <2>1. CASE Cm4Bss
    BY <2>1 DEF Cm4Bss
  <2>2. CASE Cm4Constructors
    BY <2>2 DEF Cm4Constructors
  <2>3. CASE Cm4Enable
    BY <2>3 DEF Cm4Enable
  <2>4. CASE Cm4ResetSyncFlag
    BY <2>4 DEF Cm4ResetSyncFlag
  <2>5. CASE Cm4ClearEvent
    BY <2>5 DEF Cm4ClearEvent
  <2>6. CASE Cm4Stop
    BY <2>6 DEF Cm4Stop
  <2>7. CASE Cm4Wake
    BY <2>7 DEF Cm4Wake
  <2>8. CASE Cm4WaitSync
    BY <2>8 DEF Cm4WaitSync
  <2> QED
    BY <1>2, <2>1, <2>2, <2>3, <2>4, <2>5, <2>6, <2>7, <2>8 DEF Boot4
<1>3. CASE Cm7Timeout
  BY <1>3 DEF Cm7Timeout, Step7, hw
<1>4. CASE Cm4Timeout
  BY <1>4 DEF Cm4Timeout, Step4, hw
<1>5. CASE SpuriousEvent
  BY <1>5 DEF SpuriousEvent
<1>6. CASE UNCHANGED bootVars
  BY <1>6 DEF bootVars, hw
<1> QED
  BY <1>1, <1>2, <1>3, <1>4, <1>5, <1>6 DEF BootAction

\* The invariant holds all the way.
LEMMA BootInvariant == CoresSpec => []BootInv
<1>1. CoresInit => BootInv
  BY BootInvInit DEF CoresInit
<1>2. BootInv /\ [CoresNext]_coresVars => BootInv'
  BY BootInvStep
<1> QED
  BY <1>1, <1>2, PTL DEF CoresSpec

\* main() of CM4 starts only after CM7 has set up clocks, peripherals and
\* FIFOs, whatever memory, flag and events the reset has left behind, and
\* whatever wakes CM4 early.
THEOREM Cm4Last == CoresSpec => []Cm4StartsLast
<1>1. BootInv => Cm4StartsLast
  BY DEF BootInv, Cm4StartsLast
<1> QED
  BY <1>1, BootInvariant, PTL

\* What FIFO_INIT of CM7 has set up is cleared or constructed anew by no step
\* of either core, although both construct the same objects.
THEOREM FifosKept == CoresSpec => FifoNotWiped
<1>1. BootInv /\ [CoresNext]_coresVars
          => [(p7 \in {"sync", "main"}) => fifo' = fifo]_bootVars
  <2> SUFFICES ASSUME BootInv, BootAction, p7 \in {"sync", "main"}
               PROVE  fifo' = fifo
    BY BootOrNot
  <2>1. p4 \in Asleep
    BY DEF BootInv
  <2>2. CASE Boot7
    BY <2>2 DEF Boot7, Step7, Cm7Constructors, Cm7WaitStop, Cm7Clock, Cm7Notify,
       Cm7WaitWake, Cm7Periphery, Cm7FifoInit, Cm7SetSyncFlag
  <2>3. CASE Boot4
    BY <2>1, <2>3 DEF Asleep, Boot4, Step4, Cm4Bss, Cm4Constructors, Cm4Enable,
       Cm4ResetSyncFlag, Cm4ClearEvent, Cm4Stop, Cm4Wake, Cm4WaitSync
  <2>4. CASE Cm7Timeout \/ Cm4Timeout \/ SpuriousEvent
    BY <2>4 DEF Cm7Timeout, Cm4Timeout, SpuriousEvent
  <2> QED
    BY <2>2, <2>3, <2>4 DEF BootAction
<1> QED
  BY <1>1, BootInvariant, PTL DEF CoresSpec, FifoNotWiped
-----------------------------------------------------------------------------
(* The locks.  Of the two contexts of a core the one that does not run     *)
(* holds nothing: an interrupt is taken with the counter at zero, and a    *)
(* handler gives everything back.  So the counter is the number of locks   *)
(* the running context is inside of.  A thread may be preempted between    *)
(* its reading of PRIMASK and the mask: it has read that it is clear.      *)
Inside(c) == Len(held[c]) + (IF pc[c] \in {"spin", "unlock"} THEN 1 ELSE 0)

ContextInv(c) ==
    IF Runs(c)
    THEN /\ irqLockCounter[Core(c)] = Inside(c)
         /\ pc[c] = "disable" /\ irqLockCounter[Core(c)] = 0
                => (startStatus[c] <=> failed[Core(c)])
    ELSE /\ held[c] = <<>>
         /\ \/ pc[c] = "run"
            \/ pc[c] = "disable" /\ c[2] = "thread" /\ ~startStatus[c]

(* Outside of all locks the interrupts are masked in Error_Handler only,   *)
(* and that is what the outermost lock has saved.                          *)
MaskInv(k) ==
    /\ irqLockCounter[k] = 0 => (primask[k] <=> failed[k])
    /\ irqLockCounter[k] # 0 => primask[k] /\ (irqLockStartStatus[k] <=> failed[k])

(* A semaphore is in the list of a context once, and the hardware has it   *)
(* for the context's core.                                                 *)
HeldInv(c) ==
    /\ Inside(c) <= MaxDepth /\ (pc[c] = "disable" => Len(held[c]) < MaxDepth)
    /\ pc[c] = "spin" => want[c] # IrqOnly
    /\ \A x \in 1 .. Len(held[c]) : held[c][x] # IrqOnly =>
           /\ owner[held[c][x]] = Core(c)
           /\ pc[c] \in {"disable", "spin"} => held[c][x] # want[c]
           /\ \A y \in 1 .. Len(held[c]) : y # x => held[c][y] # held[c][x]

LockInv ==
    /\ TypeOK
    /\ \A k \in Cores : MaskInv(k)
    /\ \A c \in Contexts : ContextInv(c) /\ HeldInv(c)

\* A context is the context of a core, at a level.
LEMMA ContextIsPair ==
    ASSUME NEW c \in Contexts
    PROVE  Core(c) \in Cores /\ c[2] \in Levels /\ c = <<Core(c), c[2]>>
  BY DEF Contexts, Core

\* One context of a core runs.
LEMMA OneRuns ==
    ASSUME NEW c \in Contexts, NEW d \in Contexts, Core(c) = Core(d), Runs(c), Runs(d)
    PROVE  c = d
  BY ContextIsPair DEF Runs

\* Lengths are numbers.
LEMMA LenIsNat ==
    ASSUME TypeOK, NEW c \in Contexts
    PROVE  Len(held[c]) \in Nat /\ (Len(held[c]) = 0 <=> held[c] = <<>>)
  BY DEF TypeOK

\* What is taken is new to the context: Nestable never allows a semaphore twice.
LEMMA NestableIsNew ==
    ASSUME TypeOK, NEW c \in Contexts, NEW i \in Ids, Nestable(c, i)
    PROVE  \A x \in 1 .. Len(held[c]) : held[c][x] # i
<1>1. held[c] \in Seq(Ids \cup {IrqOnly})
  BY DEF TypeOK
<1>2. \A x \in 1 .. Len(held[c]) : held[c][x] \in ToSet(held[c])
  BY <1>1 DEF ToSet
<1> QED
  BY <1>2, HsemAssumption DEF Nestable, Ids

\* isLocked() is read with the interrupts still enabled: the step of
\* lockRecursive before the mask.
LEMMA LockReadInv ==
    ASSUME LockInv, NEW c \in Contexts, NEW i \in Ids \cup {IrqOnly}, LockRead(c, i)
    PROVE  LockInv'
<1> DEFINE k == Core(c)
<1>0. k \in Cores /\ TypeOK /\ HeldInv(c) /\ MaskInv(k) /\ ContextInv(c)
  BY ContextIsPair DEF LockInv
<1>1. TypeOK'
  <2>1. startStatus' \in [Contexts -> BOOLEAN]
    BY <1>0 DEF LockRead, TypeOK
  <2> QED
    BY <1>0, <2>1 DEF LockRead, TypeOK
<1>2. /\ \A d \in Contexts : d # c =>
             pc'[d] = pc[d] /\ want'[d] = want[d] /\ startStatus'[d] = startStatus[d]
      /\ pc[c] = "run" /\ pc'[c] = "disable" /\ want'[c] = i
      /\ Runs(c) /\ Len(held[c]) < MaxDepth
  BY <1>0 DEF LockRead, TypeOK
<1>3. startStatus'[c] = primask[k]
  BY <1>0 DEF LockRead, TypeOK
<1>4. UNCHANGED <<owner, primask, irqLockCounter, irqLockStartStatus, active, held, failed>>
  BY DEF LockRead
<1>5. \A d \in Contexts : Runs(d)' = Runs(d) /\ Inside(d)' = Inside(d)
  BY <1>2, <1>4 DEF Runs, Inside
<1>6. \A j \in Cores : MaskInv(j)'
  BY <1>4 DEF LockInv, MaskInv
<1>7. ASSUME NEW d \in Contexts PROVE ContextInv(d)'
  <2>1. CASE d = c
    BY <1>0, <1>2, <1>3, <1>4, <1>5, <2>1 DEF ContextInv, MaskInv
  <2>2. CASE d # c
    BY <1>2, <1>4, <1>5, <2>2 DEF LockInv, ContextInv
  <2> QED
    BY <2>1, <2>2
<1>8. ASSUME NEW d \in Contexts PROVE HeldInv(d)'
  <2>1. CASE d = c
    <3>1. \A x \in 1 .. Len(held[c]) : held[c][x] # IrqOnly => held[c][x] # i
      BY <1>0, NestableIsNew DEF LockRead
    <3> QED
      BY <1>0, <1>2, <1>4, <1>5, <2>1, <3>1 DEF HeldInv
  <2>2. CASE d # c
    BY <1>2, <1>4, <1>5, <2>2 DEF LockInv, HeldInv
  <2> QED
    BY <2>1, <2>2
<1> QED
  BY <1>1, <1>6, <1>7, <1>8 DEF LockInv

\* The interrupts are masked and the lock counted; the first lock saves what
\* was read, which is still true: whatever preempted the thread in between has
\* left everything as it was, or has not returned.
LEMMA LockDisableInv ==
    ASSUME LockInv, NEW c \in Contexts, LockDisable(c)
    PROVE  LockInv'
<1> DEFINE k == Core(c)
<1>0. k \in Cores /\ TypeOK /\ HeldInv(c) /\ MaskInv(k) /\ ContextInv(c)
  BY ContextIsPair DEF LockInv
<1>1. Runs(c) /\ pc[c] = "disable"
  BY DEF LockDisable
<1>2. /\ Len(held[c]) \in Nat /\ Len(held[c]) < MaxDepth /\ MaxDepth \in Nat
      /\ irqLockCounter[k] = Len(held[c])
  BY <1>0, <1>1, LenIsNat, HsemAssumption DEF HeldInv, ContextInv, Inside
<1>3. /\ \A d \in Contexts : d # c =>
             pc'[d] = pc[d] /\ held'[d] = held[d] /\ startStatus'[d] = startStatus[d]
      /\ \/ pc'[c] = "run" /\ held'[c] = Append(held[c], IrqOnly)
         \/ pc'[c] = "spin" /\ held'[c] = held[c] /\ want[c] # IrqOnly
  BY <1>0 DEF LockDisable, TypeOK
<1>4. /\ irqLockCounter'[k] = irqLockCounter[k] + 1
      /\ \A j \in Cores : j # k => irqLockCounter'[j] = irqLockCounter[j]
  BY <1>0 DEF LockDisable, TypeOK
<1>5. /\ primask'[k] = TRUE
      /\ \A j \in Cores : j # k => primask'[j] = primask[j]
  BY <1>0 DEF LockDisable, TypeOK
<1>6. /\ irqLockStartStatus'[k] = IF irqLockCounter[k] = 0 THEN startStatus[c]
                                  ELSE irqLockStartStatus[k]
      /\ \A j \in Cores : j # k => irqLockStartStatus'[j] = irqLockStartStatus[j]
  BY <1>0 DEF LockDisable, TypeOK
<1>7. UNCHANGED <<owner, active, want, failed>>
  BY DEF LockDisable
<1>8. /\ held[c] \in Seq(Ids \cup {IrqOnly})
      /\ Len(Append(held[c], IrqOnly)) = Len(held[c]) + 1
      /\ \A x \in 1 .. Len(held[c]) : Append(held[c], IrqOnly)[x] = held[c][x]
      /\ Append(held[c], IrqOnly)[Len(held[c]) + 1] = IrqOnly
  BY <1>0 DEF TypeOK
<1>9. TypeOK'
  <2>1. primask' \in [Cores -> BOOLEAN]
    BY <1>0 DEF LockDisable, TypeOK
  <2>2. startStatus' \in [Contexts -> BOOLEAN]
    BY <1>0 DEF LockDisable, TypeOK
  <2>3. irqLockStartStatus' \in [Cores -> BOOLEAN]
    BY <1>0 DEF LockDisable, TypeOK
  <2>4. irqLockCounter' \in [Cores -> 0 .. 2 * MaxDepth]
    BY <1>0, <1>2 DEF LockDisable, TypeOK
  <2>5. held' \in [Contexts -> Seq(Ids \cup {IrqOnly})]
    <3>1. Append(held[c], IrqOnly) \in Seq(Ids \cup {IrqOnly})
      BY <1>8
    <3> QED
      BY <1>0, <3>1 DEF LockDisable, TypeOK
  <2>6. pc' \in [Contexts -> {"run", "disable", "spin", "unlock"}]
    BY <1>0 DEF LockDisable, TypeOK
  <2> QED
    BY <1>0, <1>7, <2>1, <2>2, <2>3, <2>4, <2>5, <2>6 DEF TypeOK
<1>10. Inside(c)' = Len(held[c]) + 1 /\ Inside(c)' <= MaxDepth
  <2>1. CASE pc'[c] = "run"
    <3>1. Inside(c)' = Len(Append(held[c], IrqOnly)) + 0
      BY <1>3, <2>1 DEF Inside
    <3> QED
      BY <1>2, <1>8, <3>1
  <2>2. CASE pc'[c] = "spin"
    BY <1>2, <1>3, <2>2 DEF Inside
  <2> QED
    BY <1>3, <2>1, <2>2
<1>11. \A d \in Contexts : Runs(d)' = Runs(d) /\ (d # c => Inside(d)' = Inside(d))
  BY <1>3, <1>7 DEF Runs, Inside
<1>12. ASSUME NEW j \in Cores PROVE MaskInv(j)'
  <2>1. CASE j = k
    BY <1>0, <1>1, <1>2, <1>4, <1>5, <1>6, <1>7, <2>1 DEF MaskInv, ContextInv
  <2>2. CASE j # k
    BY <1>4, <1>5, <1>6, <1>7, <2>2 DEF LockInv, MaskInv
  <2> QED
    BY <2>1, <2>2
<1>13. ASSUME NEW d \in Contexts PROVE ContextInv(d)'
  <2>1. CASE d = c
    BY <1>1, <1>2, <1>3, <1>4, <1>10, <1>11, <2>1 DEF ContextInv
  <2>2. CASE d # c /\ Runs(d)
    <3>1. Core(d) # k /\ Core(d) \in Cores
      BY <1>1, <2>2, OneRuns, ContextIsPair
    <3> QED
      BY <1>3, <1>4, <1>7, <1>11, <2>2, <3>1 DEF LockInv, ContextInv
  <2>3. CASE d # c /\ ~Runs(d)
    BY <1>3, <1>11, <2>3 DEF LockInv, ContextInv
  <2> QED
    BY <2>1, <2>2, <2>3
<1>14. ASSUME NEW d \in Contexts PROVE HeldInv(d)'
  <2>1. CASE d = c
    <3>1. \A x \in 1 .. Len(held'[c]) : held'[c][x] # IrqOnly =>
             x \in 1 .. Len(held[c]) /\ held'[c][x] = held[c][x]
      BY <1>2, <1>3, <1>8
    <3> QED
      BY <1>0, <1>1, <1>3, <1>7, <1>10, <2>1, <3>1 DEF HeldInv
  <2>2. CASE d # c
    BY <1>3, <1>7, <1>11, <2>2 DEF LockInv, HeldInv
  <2> QED
    BY <2>1, <2>2
<1> QED
  BY <1>9, <1>12, <1>13, <1>14 DEF LockInv

\* get(): the hardware grants a semaphore that is free, or that the core has;
\* the second never happens, since no other context of the core holds one.
LEMMA SpinInv ==
    ASSUME LockInv, NEW c \in Contexts, Spin(c)
    PROVE  LockInv'
<1> DEFINE k == Core(c)
           w == want[c]
<1>0. k \in Cores /\ TypeOK /\ HeldInv(c) /\ MaskInv(k) /\ ContextInv(c)
  BY ContextIsPair DEF LockInv
<1>1. Runs(c) /\ pc[c] = "spin" /\ w \in Ids /\ owner[w] \in {Free, k} /\ w # IrqOnly
  BY <1>0 DEF Spin, TypeOK, HeldInv
<1>2. /\ \A d \in Contexts : d # c =>
             pc'[d] = pc[d] /\ held'[d] = held[d] /\ want'[d] = want[d]
      /\ pc'[c] = "run" /\ held'[c] = Append(held[c], w)
  BY <1>0 DEF Spin, TypeOK
<1>3. owner'[w] = k /\ \A i \in Ids : i # w => owner'[i] = owner[i]
  BY <1>0, <1>1 DEF Spin, TypeOK
<1>4. UNCHANGED <<primask, irqLockCounter, irqLockStartStatus, active, startStatus, failed>>
  BY DEF Spin
<1>5. /\ held[c] \in Seq(Ids \cup {IrqOnly})
      /\ Len(Append(held[c], w)) = Len(held[c]) + 1 /\ Len(held[c]) \in Nat
      /\ \A x \in 1 .. Len(held[c]) : Append(held[c], w)[x] = held[c][x]
      /\ Append(held[c], w)[Len(held[c]) + 1] = w
  BY <1>0 DEF TypeOK
<1>6. TypeOK'
  <2>1. Append(held[c], w) \in Seq(Ids \cup {IrqOnly})
    BY <1>1, <1>5
  <2>2. held' \in [Contexts -> Seq(Ids \cup {IrqOnly})]
    BY <1>0, <2>1 DEF Spin, TypeOK
  <2>3. owner' \in [Ids -> Cores \cup {Free}]
    BY <1>0, <1>1 DEF Spin, TypeOK
  <2>4. want' \in [Contexts -> Ids \cup {IrqOnly}]
    BY <1>0 DEF Spin, TypeOK
  <2>5. pc' \in [Contexts -> {"run", "disable", "spin", "unlock"}]
    BY <1>0 DEF Spin, TypeOK
  <2> QED
    BY <1>0, <1>4, <2>2, <2>3, <2>4, <2>5 DEF TypeOK
<1>7. \A d \in Contexts : Runs(d)' = Runs(d) /\ Inside(d)' = Inside(d)
  <2>1. Inside(c)' = Len(Append(held[c], w)) + 0
    BY <1>2 DEF Inside
  <2>2. Inside(c) = Len(held[c]) + 1
    BY <1>1 DEF Inside
  <2>3. Inside(c)' = Inside(c)
    BY <1>5, <2>1, <2>2
  <2>4. \A d \in Contexts : d # c => Inside(d)' = Inside(d)
    BY <1>2 DEF Inside
  <2> QED
    BY <1>4, <2>3, <2>4 DEF Runs
<1>8. \A j \in Cores : MaskInv(j)'
  BY <1>4 DEF LockInv, MaskInv
<1>9. ASSUME NEW d \in Contexts PROVE ContextInv(d)'
  <2>1. CASE d = c
    BY <1>0, <1>1, <1>2, <1>4, <1>7, <2>1 DEF ContextInv
  <2>2. CASE d # c
    BY <1>2, <1>4, <1>7, <2>2 DEF LockInv, ContextInv
  <2> QED
    BY <2>1, <2>2
<1>10. ASSUME NEW d \in Contexts PROVE HeldInv(d)'
  <2>1. CASE d = c
    <3>1. \A x \in 1 .. Len(held[c]) : held[c][x] # w
      BY <1>0, <1>1 DEF HeldInv
    <3>2. \A x \in 1 .. Len(held'[c]) :
             \/ x \in 1 .. Len(held[c]) /\ held'[c][x] = held[c][x]
             \/ x = Len(held[c]) + 1 /\ held'[c][x] = w
      BY <1>2, <1>5
    <3>3. \A x \in 1 .. Len(held[c]) : held[c][x] \in Ids \cup {IrqOnly}
      BY <1>5
    <3>4. ASSUME NEW x \in 1 .. Len(held'[c]), held'[c][x] # IrqOnly
          PROVE  owner'[held'[c][x]] = k
      BY <1>0, <1>3, <3>1, <3>2, <3>3, <3>4 DEF HeldInv
    <3>5. ASSUME NEW x \in 1 .. Len(held'[c]), held'[c][x] # IrqOnly,
                 NEW y \in 1 .. Len(held'[c]), y # x
          PROVE  held'[c][y] # held'[c][x]
      BY <1>0, <1>1, <3>1, <3>2, <3>5 DEF HeldInv
    <3> QED
      BY <1>0, <1>2, <1>7, <2>1, <3>4, <3>5 DEF HeldInv
  <2>2. CASE d # c
    <3>1. \A x \in 1 .. Len(held[d]) : held[d][x] # w
      <4> SUFFICES ASSUME NEW x \in 1 .. Len(held[d]), held[d][x] = w PROVE FALSE
        OBVIOUS
      <4>1. owner[w] = Core(d)
        BY <1>1 DEF LockInv, HeldInv
      <4>2. Core(d) = k
        BY <1>1, <4>1, ContextIsPair, HsemAssumption
      <4>3. ~Runs(d)
        BY <1>1, <2>2, <4>2, OneRuns
      <4>4. Len(held[d]) = 0
        BY <1>0, <4>3, LenIsNat DEF LockInv, ContextInv
      <4> QED
        BY <4>4
    <3>2. \A x \in 1 .. Len(held[d]) : held[d][x] \in Ids \cup {IrqOnly}
      BY <1>0 DEF TypeOK
    <3> QED
      BY <1>2, <1>3, <1>7, <2>2, <3>1, <3>2 DEF LockInv, HeldInv
  <2> QED
    BY <2>1, <2>2
<1> QED
  BY <1>6, <1>8, <1>9, <1>10 DEF LockInv

\* release() gives back the innermost semaphore, which is in the list once.
LEMMA ReleaseInv ==
    ASSUME LockInv, NEW c \in Contexts, Release(c)
    PROVE  LockInv'
<1> DEFINE k == Core(c)
           n == Len(held[c])
           i == held[c][n]
<1>0. k \in Cores /\ TypeOK /\ HeldInv(c) /\ ContextInv(c)
  BY ContextIsPair DEF LockInv
<1>1. /\ Runs(c) /\ pc[c] = "run" /\ held[c] # <<>>
      /\ held[c] \in Seq(Ids \cup {IrqOnly}) /\ n \in Nat /\ n > 0
      /\ i \in Ids \cup {IrqOnly}
  BY <1>0, LenIsNat DEF Release, TypeOK
<1>2. /\ Front(held[c]) \in Seq(Ids \cup {IrqOnly})
      /\ Len(Front(held[c])) = n - 1
      /\ \A x \in 1 .. (n - 1) : Front(held[c])[x] = held[c][x]
  BY <1>1 DEF Front
<1>3. /\ \A d \in Contexts : d # c => pc'[d] = pc[d] /\ held'[d] = held[d]
      /\ pc'[c] = "unlock" /\ held'[c] = Front(held[c])
  BY <1>0 DEF Release, TypeOK
<1>4. \A j \in Ids : j # i => owner'[j] = owner[j]
  BY <1>0 DEF Release, TypeOK, Last
<1>5. UNCHANGED <<primask, irqLockCounter, irqLockStartStatus, active, want, startStatus, failed>>
  BY DEF Release
<1>6. TypeOK'
  <2>1. held' \in [Contexts -> Seq(Ids \cup {IrqOnly})]
    BY <1>0, <1>2 DEF Release, TypeOK
  <2>2. owner' \in [Ids -> Cores \cup {Free}]
    BY <1>0 DEF Release, TypeOK
  <2>3. pc' \in [Contexts -> {"run", "disable", "spin", "unlock"}]
    BY <1>0 DEF Release, TypeOK
  <2> QED
    BY <1>0, <1>5, <2>1, <2>2, <2>3 DEF TypeOK
<1>7. \A d \in Contexts : Runs(d)' = Runs(d) /\ Inside(d)' = Inside(d)
  <2>1. Inside(c)' = Len(Front(held[c])) + 1
    BY <1>3 DEF Inside
  <2>2. Inside(c) = n + 0
    BY <1>1 DEF Inside
  <2>3. Inside(c)' = Inside(c)
    BY <1>1, <1>2, <2>1, <2>2
  <2>4. \A d \in Contexts : d # c => Inside(d)' = Inside(d)
    BY <1>3 DEF Inside
  <2> QED
    BY <1>5, <2>3, <2>4 DEF Runs
<1>8. \A j \in Cores : MaskInv(j)'
  BY <1>5 DEF LockInv, MaskInv
<1>9. ASSUME NEW d \in Contexts PROVE ContextInv(d)'
  <2>1. CASE d = c
    BY <1>0, <1>1, <1>3, <1>5, <1>7, <2>1 DEF ContextInv
  <2>2. CASE d # c
    BY <1>3, <1>5, <1>7, <2>2 DEF LockInv, ContextInv
  <2> QED
    BY <2>1, <2>2
<1>10. ASSUME NEW d \in Contexts PROVE HeldInv(d)'
  <2>1. CASE d = c
    <3>1. \A x \in 1 .. Len(held'[c]) :
             x \in 1 .. n /\ x # n /\ held'[c][x] = held[c][x]
      BY <1>1, <1>2, <1>3
    <3>2. n \in 1 .. n
      BY <1>1
    <3>3. ASSUME NEW x \in 1 .. Len(held'[c]), held'[c][x] # IrqOnly
          PROVE  owner'[held'[c][x]] = k
      <4>1. held[c][x] # IrqOnly /\ x \in 1 .. n /\ x # n /\ held'[c][x] = held[c][x]
        BY <3>1, <3>3
      <4>2. held[c][x] # i /\ owner[held[c][x]] = k
        BY <1>0, <3>2, <4>1 DEF HeldInv
      <4>3. held[c][x] \in Ids
        BY <1>1, <4>1
      <4> QED
        BY <1>4, <4>1, <4>2, <4>3
    <3>4. ASSUME NEW x \in 1 .. Len(held'[c]), held'[c][x] # IrqOnly,
                 NEW y \in 1 .. Len(held'[c]), y # x
          PROVE  held'[c][y] # held'[c][x]
      BY <1>0, <3>1, <3>4 DEF HeldInv
    <3> QED
      BY <1>0, <1>3, <1>7, <2>1, <3>3, <3>4 DEF HeldInv
  <2>2. CASE d # c
    <3>1. \A x \in 1 .. Len(held[d]) : held[d][x] # IrqOnly => held[d][x] # i
      <4> SUFFICES ASSUME NEW x \in 1 .. Len(held[d]), held[d][x] # IrqOnly, held[d][x] = i
                   PROVE  FALSE
        OBVIOUS
      <4>1. owner[i] = Core(d)
        BY DEF LockInv, HeldInv
      <4>2. owner[i] = k
        BY <1>0, <1>1 DEF HeldInv
      <4>3. ~Runs(d)
        BY <1>1, <2>2, <4>1, <4>2, OneRuns
      <4>4. Len(held[d]) = 0
        BY <1>0, <4>3, LenIsNat DEF LockInv, ContextInv
      <4> QED
        BY <4>4
    <3>2. \A x \in 1 .. Len(held[d]) : held[d][x] \in Ids \cup {IrqOnly}
      BY <1>0 DEF TypeOK
    <3> QED
      BY <1>3, <1>4, <1>5, <1>7, <2>2, <3>1, <3>2 DEF LockInv, HeldInv
  <2> QED
    BY <2>1, <2>2
<1> QED
  BY <1>6, <1>8, <1>9, <1>10 DEF LockInv

\* unLockRecursive: only the outermost lock enables the interrupts, unless
\* they were masked before it.
LEMMA UnlockInv ==
    ASSUME LockInv, NEW c \in Contexts, Unlock(c)
    PROVE  LockInv'
<1> DEFINE k == Core(c)
<1>0. k \in Cores /\ TypeOK /\ HeldInv(c) /\ MaskInv(k) /\ ContextInv(c)
  BY ContextIsPair DEF LockInv
<1>1. Runs(c) /\ pc[c] = "unlock"
  BY DEF Unlock
<1>2. /\ Len(held[c]) \in Nat /\ irqLockCounter[k] = Len(held[c]) + 1
      /\ Len(held[c]) + 1 <= MaxDepth /\ MaxDepth \in Nat
  BY <1>0, <1>1, LenIsNat, HsemAssumption DEF HeldInv, ContextInv, Inside
<1>3. /\ \A d \in Contexts : d # c => pc'[d] = pc[d]
      /\ pc'[c] = "run"
  BY <1>0 DEF Unlock, TypeOK
<1>4. /\ irqLockCounter'[k] = Len(held[c])
      /\ \A j \in Cores : j # k => irqLockCounter'[j] = irqLockCounter[j]
  BY <1>0, <1>2 DEF Unlock, TypeOK
<1>5. /\ irqLockCounter[k] = 1 /\ ~irqLockStartStatus[k] => primask'[k] = FALSE
      /\ ~(irqLockCounter[k] = 1 /\ ~irqLockStartStatus[k]) => primask'[k] = primask[k]
      /\ \A j \in Cores : j # k => primask'[j] = primask[j]
  BY <1>0 DEF Unlock, TypeOK
<1>6. UNCHANGED <<owner, irqLockStartStatus, active, want, startStatus, held, failed>>
  BY DEF Unlock
<1>7. TypeOK'
  <2>1. primask' \in [Cores -> BOOLEAN]
    BY <1>0 DEF Unlock, TypeOK
  <2>2. irqLockCounter' \in [Cores -> 0 .. 2 * MaxDepth]
    BY <1>0, <1>2 DEF Unlock, TypeOK
  <2>3. pc' \in [Contexts -> {"run", "disable", "spin", "unlock"}]
    BY <1>0 DEF Unlock, TypeOK
  <2> QED
    BY <1>0, <1>6, <2>1, <2>2, <2>3 DEF TypeOK
<1>8. Inside(c)' = Len(held[c]) /\ Inside(c)' <= MaxDepth
  BY <1>2, <1>3, <1>6 DEF Inside
<1>9. \A d \in Contexts : Runs(d)' = Runs(d) /\ (d # c => Inside(d)' = Inside(d))
  BY <1>3, <1>6 DEF Runs, Inside
<1>10. ASSUME NEW j \in Cores PROVE MaskInv(j)'
  <2>1. CASE j = k
    BY <1>0, <1>2, <1>4, <1>5, <1>6, <2>1 DEF MaskInv
  <2>2. CASE j # k
    BY <1>4, <1>5, <1>6, <2>2 DEF LockInv, MaskInv
  <2> QED
    BY <2>1, <2>2
<1>11. ASSUME NEW d \in Contexts PROVE ContextInv(d)'
  <2>1. CASE d = c
    BY <1>1, <1>3, <1>4, <1>8, <1>9, <2>1 DEF ContextInv
  <2>2. CASE d # c /\ Runs(d)
    <3>1. Core(d) # k /\ Core(d) \in Cores
      BY <1>1, <2>2, OneRuns, ContextIsPair
    <3> QED
      BY <1>3, <1>4, <1>6, <1>9, <2>2, <3>1 DEF LockInv, ContextInv
  <2>3. CASE d # c /\ ~Runs(d)
    BY <1>3, <1>6, <1>9, <2>3 DEF LockInv, ContextInv
  <2> QED
    BY <2>1, <2>2, <2>3
<1>12. ASSUME NEW d \in Contexts PROVE HeldInv(d)'
  <2>1. CASE d = c
    BY <1>0, <1>1, <1>3, <1>6, <1>8, <2>1 DEF HeldInv
  <2>2. CASE d # c
    BY <1>3, <1>6, <1>9, <2>2 DEF LockInv, HeldInv
  <2> QED
    BY <2>1, <2>2
<1> QED
  BY <1>7, <1>10, <1>11, <1>12 DEF LockInv

\* Error_Handler is entered outside of all locks, and masks the interrupts.
LEMMA ErrorHandlerInv ==
    ASSUME LockInv, NEW c \in Contexts, ErrorHandler(c)
    PROVE  LockInv'
<1> DEFINE k == Core(c)
<1>0. k \in Cores /\ TypeOK /\ ContextInv(c)
  BY ContextIsPair DEF LockInv
<1>1. Runs(c) /\ pc[c] = "run" /\ held[c] = <<>>
  BY DEF ErrorHandler
<1>2. irqLockCounter[k] = 0
  BY <1>0, <1>1, LenIsNat DEF ContextInv, Inside
<1>3. /\ primask'[k] = TRUE
      /\ \A j \in Cores : j # k => primask'[j] = primask[j]
  BY <1>0 DEF ErrorHandler, TypeOK
<1>4. /\ failed'[k] = TRUE
      /\ \A j \in Cores : j # k => failed'[j] = failed[j]
  BY <1>0 DEF ErrorHandler, TypeOK
<1>5. UNCHANGED <<owner, irqLockCounter, irqLockStartStatus, active, pc, want, startStatus, held>>
  BY DEF ErrorHandler
<1>6. TypeOK'
  <2>1. primask' \in [Cores -> BOOLEAN]
    BY <1>0 DEF ErrorHandler, TypeOK
  <2>2. failed' \in [Cores -> BOOLEAN]
    BY <1>0 DEF ErrorHandler, TypeOK
  <2> QED
    BY <1>0, <1>5, <2>1, <2>2 DEF TypeOK
<1>7. \A d \in Contexts : Runs(d)' = Runs(d) /\ Inside(d)' = Inside(d)
  BY <1>5 DEF Runs, Inside
<1>8. ASSUME NEW j \in Cores PROVE MaskInv(j)'
  BY <1>2, <1>3, <1>4, <1>5 DEF LockInv, MaskInv
<1>9. ASSUME NEW d \in Contexts PROVE ContextInv(d)'
  <2>1. CASE d = c
    BY <1>0, <1>1, <1>5, <1>7, <2>1 DEF ContextInv
  <2>2. CASE d # c /\ Runs(d)
    <3>1. Core(d) # k /\ Core(d) \in Cores
      BY <1>1, <2>2, OneRuns, ContextIsPair
    <3> QED
      BY <1>4, <1>5, <1>7, <2>2, <3>1 DEF LockInv, ContextInv
  <2>3. CASE ~Runs(d)
    BY <1>5, <1>7, <2>3 DEF LockInv, ContextInv
  <2> QED
    BY <1>1, <2>1, <2>2, <2>3
<1>10. ASSUME NEW d \in Contexts PROVE HeldInv(d)'
  BY <1>5, <1>7 DEF LockInv, HeldInv
<1> QED
  BY <1>6, <1>8, <1>9, <1>10 DEF LockInv

\* An interrupt is taken only from a thread that is outside of all locks,
\* or has only read PRIMASK, which was clear.
LEMMA IsrEnterInv ==
    ASSUME LockInv, NEW k \in Cores, IsrEnter(k)
    PROVE  LockInv'
<1>0. TypeOK /\ MaskInv(k)
  BY DEF LockInv
<1>1. irqLockCounter[k] = 0 /\ ~failed[k] /\ active[k] = "thread"
  BY <1>0 DEF MaskInv, IsrEnter
<1>2. /\ active'[k] = "isr"
      /\ \A j \in Cores : j # k => active'[j] = active[j]
  BY <1>0 DEF IsrEnter, TypeOK
<1>3. UNCHANGED <<owner, primask, irqLockCounter, irqLockStartStatus, pc, want, startStatus,
                 held, failed>>
  BY DEF IsrEnter
<1>4. TypeOK'
  <2>1. active' \in [Cores -> Levels]
    BY <1>0 DEF IsrEnter, TypeOK, Levels
  <2> QED
    BY <1>0, <1>3, <2>1 DEF TypeOK
<1>5. \A d \in Contexts : Inside(d)' = Inside(d)
  BY <1>3 DEF Inside
<1>6. \A j \in Cores : MaskInv(j)'
  BY <1>3 DEF LockInv, MaskInv
<1>7. ASSUME NEW d \in Contexts PROVE ContextInv(d)'
  <2>0. ContextInv(d) /\ Core(d) \in Cores /\ d[2] \in Levels /\ TypeOK
    BY ContextIsPair DEF LockInv
  <2>1. CASE Core(d) = k /\ d[2] = "thread"
    <3>1. Runs(d) /\ ~Runs(d)'
      BY <1>1, <1>2, <2>1 DEF Runs
    <3>2. Len(held[d]) \in Nat /\ Inside(d) = 0
      BY <1>1, <2>0, <2>1, <3>1, LenIsNat DEF ContextInv
    <3>3. Len(held[d]) = 0 /\ pc[d] \notin {"spin", "unlock"}
      <4>1. Inside(d) = Len(held[d]) + (IF pc[d] \in {"spin", "unlock"} THEN 1 ELSE 0)
        BY DEF Inside
      <4>2. CASE pc[d] \in {"spin", "unlock"}
        <5>1. Inside(d) = Len(held[d]) + 1
          BY <4>1, <4>2
        <5> QED
          BY <3>2, <5>1
      <4>3. CASE pc[d] \notin {"spin", "unlock"}
        <5>1. Inside(d) = Len(held[d]) + 0
          BY <4>1, <4>3
        <5> QED
          BY <3>2, <4>3, <5>1
      <4> QED
        BY <4>2, <4>3
    <3>4. held[d] = <<>> /\ pc[d] \in {"run", "disable"}
      BY <2>0, <3>3, LenIsNat DEF TypeOK
    <3> QED
      BY <1>1, <1>3, <2>0, <2>1, <3>1, <3>4 DEF ContextInv
  <2>2. CASE Core(d) = k /\ d[2] = "isr"
    <3>1. ~Runs(d) /\ Runs(d)'
      BY <1>1, <1>2, <2>2 DEF Runs
    <3>2. held[d] = <<>> /\ pc[d] = "run"
      BY <2>0, <2>2, <3>1 DEF ContextInv
    <3>3. Inside(d) = 0
      BY <2>0, <3>2, LenIsNat DEF Inside
    <3> QED
      BY <1>1, <1>3, <1>5, <2>2, <3>1, <3>2, <3>3 DEF ContextInv
  <2>3. CASE Core(d) # k
    <3>1. Runs(d)' = Runs(d)
      BY <1>2, <2>0, <2>3 DEF Runs
    <3> QED
      BY <1>3, <1>5, <2>0, <3>1 DEF ContextInv
  <2> QED
    BY <2>0, <2>1, <2>2, <2>3 DEF Levels
<1>8. ASSUME NEW d \in Contexts PROVE HeldInv(d)'
  BY <1>3, <1>5 DEF LockInv, HeldInv
<1> QED
  BY <1>4, <1>6, <1>7, <1>8 DEF LockInv

\* A handler that returns has given everything back.
LEMMA IsrExitInv ==
    ASSUME LockInv, NEW k \in Cores, IsrExit(k)
    PROVE  LockInv'
<1> DEFINE h == <<k, "isr">>
<1>0. /\ TypeOK /\ MaskInv(k) /\ h \in Contexts /\ Core(h) = k /\ h[2] = "isr"
      /\ ContextInv(h)
  BY DEF LockInv, Contexts, Levels, Core
<1>1. active[k] = "isr" /\ pc[h] = "run" /\ held[h] = <<>> /\ ~failed[k]
  BY DEF IsrExit
<1>2. /\ active'[k] = "thread"
      /\ \A j \in Cores : j # k => active'[j] = active[j]
  BY <1>0 DEF IsrExit, TypeOK
<1>3. UNCHANGED <<owner, primask, irqLockCounter, irqLockStartStatus, pc, want, startStatus,
                 held, failed>>
  BY DEF IsrExit
<1>4. TypeOK'
  <2>1. active' \in [Cores -> Levels]
    BY <1>0 DEF IsrExit, TypeOK, Levels
  <2> QED
    BY <1>0, <1>3, <2>1 DEF TypeOK
<1>5. \A d \in Contexts : Inside(d)' = Inside(d)
  BY <1>3 DEF Inside
<1> HIDE DEF h
<1>6. Runs(h) /\ irqLockCounter[k] = 0
  <2>1. Runs(h)
    BY <1>0, <1>1 DEF Runs
  <2>2. Inside(h) = 0
    BY <1>0, <1>1, LenIsNat DEF Inside
  <2> QED
    BY <1>0, <2>1, <2>2 DEF ContextInv
<1>7. \A j \in Cores : MaskInv(j)'
  BY <1>3 DEF LockInv, MaskInv
<1>8. ASSUME NEW d \in Contexts PROVE ContextInv(d)'
  <2>0. ContextInv(d) /\ Core(d) \in Cores /\ d[2] \in Levels /\ TypeOK
    BY ContextIsPair DEF LockInv
  <2>1. CASE Core(d) = k /\ d[2] = "thread"
    <3>1. ~Runs(d) /\ Runs(d)'
      BY <1>1, <1>2, <2>1 DEF Runs
    <3>2. /\ held[d] = <<>>
          /\ pc[d] \in {"run", "disable"} /\ (pc[d] = "disable" => ~startStatus[d])
      BY <2>0, <3>1 DEF ContextInv
    <3>3. Inside(d) = 0
      BY <2>0, <3>2, LenIsNat DEF Inside
    <3> QED
      BY <1>1, <1>3, <1>5, <1>6, <2>1, <3>1, <3>2, <3>3 DEF ContextInv
  <2>2. CASE Core(d) = k /\ d[2] = "isr"
    <3>1. d = h
      BY <1>0, <2>2, ContextIsPair
    <3>2. ~Runs(d)'
      BY <1>2, <2>2 DEF Runs
    <3> QED
      BY <1>1, <1>3, <3>1, <3>2 DEF ContextInv
  <2>3. CASE Core(d) # k
    <3>1. Runs(d)' = Runs(d)
      BY <1>2, <2>0, <2>3 DEF Runs
    <3> QED
      BY <1>3, <1>5, <2>0, <3>1 DEF ContextInv
  <2> QED
    BY <2>0, <2>1, <2>2, <2>3 DEF Levels
<1>9. ASSUME NEW d \in Contexts PROVE HeldInv(d)'
  BY <1>3, <1>5 DEF LockInv, HeldInv
<1> QED
  BY <1>4, <1>7, <1>8, <1>9 DEF LockInv

\* At reset nothing is locked.
LEMMA LockInvInit == HsemInit => LockInv
<1> SUFFICES ASSUME HsemInit PROVE LockInv
  OBVIOUS
<1>1. TypeOK
  <2>1. /\ primask \in [Cores -> BOOLEAN] /\ irqLockStartStatus \in [Cores -> BOOLEAN]
        /\ startStatus \in [Contexts -> BOOLEAN] /\ failed \in [Cores -> BOOLEAN]
    BY DEF HsemInit
  <2> QED
    BY <2>1, HsemAssumption DEF HsemInit, TypeOK, Levels
<1>2. \A k \in Cores : MaskInv(k)
  BY DEF HsemInit, MaskInv
<1>3. ASSUME NEW c \in Contexts PROVE ContextInv(c) /\ HeldInv(c)
  <2>1. Core(c) \in Cores /\ pc[c] = "run" /\ held[c] = <<>> /\ Len(held[c]) = 0
    BY ContextIsPair DEF HsemInit
  <2>2. Inside(c) = 0 /\ irqLockCounter[Core(c)] = 0
    BY <2>1 DEF Inside, HsemInit
  <2> QED
    BY <2>1, <2>2, HsemAssumption DEF ContextInv, HeldInv
<1> QED
  BY <1>1, <1>2, <1>3 DEF LockInv

\* Every step of the two cores, of the boot and of the locks, keeps the
\* invariant of the locks.
LEMMA LockInvStep == LockInv /\ [CoresNext]_coresVars => LockInv'
<1> SUFFICES ASSUME LockInv, [CoresNext]_coresVars PROVE LockInv'
  OBVIOUS
<1>1. ASSUME NEW c \in Contexts, NEW ids \in SUBSET (Ids \cup {IrqOnly}), HsemStep(c, ids)
      PROVE  LockInv'
  BY <1>1, LockReadInv, LockDisableInv, SpinInv, ReleaseInv, UnlockInv, ErrorHandlerInv
  DEF HsemStep
<1>2. ASSUME NEW k \in Cores, CoreStep(k) PROVE LockInv'
  <2>1. \A c \in {k} \X Levels : c \in Contexts
    BY DEF Contexts
  <2> QED
    BY <1>1, <1>2, <2>1, IsrEnterInv, IsrExitInv DEF CoreStep
<1>3. CASE UNCHANGED hsemVars
  BY <1>3 DEF hsemVars, LockInv, TypeOK, MaskInv, ContextInv, HeldInv, Runs, Inside
<1>4. /\ Cm4 \in Cores /\ Cm7 \in Cores
      /\ <<Cm4, "thread">> \in Contexts /\ <<Cm7, "thread">> \in Contexts
  BY CoresAssumption DEF Contexts, Levels
<1>5. CASE BootFails
  BY <1>4, <1>5, ErrorHandlerInv DEF BootFails
<1>6. CASE Boots7
  BY <1>1, <1>4, <1>6 DEF Boots7, Ids
<1>7. CASE Runs7 \/ Runs4
  BY <1>2, <1>4, <1>7 DEF Runs7, Runs4
<1>8. CASE BootStep7 \/ BootStep4 \/ (SpuriousEvent /\ UNCHANGED hsemVars)
  BY <1>3, <1>8 DEF BootStep7, BootStep4
<1> QED
  BY <1>3, <1>5, <1>6, <1>7, <1>8 DEF CoresNext, coresVars

\* The invariant of the locks holds all the way.
LEMMA LockInvariant == CoresSpec => []LockInv
<1>1. CoresInit => LockInv
  BY LockInvInit DEF CoresInit
<1>2. LockInv /\ [CoresNext]_coresVars => LockInv'
  BY LockInvStep
<1> QED
  BY <1>1, <1>2, PTL DEF CoresSpec

\* The counter of nested interrupt locks is bounded by the nesting, and all
\* else has its type.
THEOREM LockTypes == CoresSpec => []TypeOK
<1>1. LockInv => TypeOK
  BY DEF LockInv
<1> QED
  BY <1>1, LockInvariant, PTL

\* The lock of a FIFO is never held twice, by the two cores or by a thread and
\* a handler of one, and who holds it has the semaphore, however deep the
\* locks are nested and wherever the interrupts come.
THEOREM Mutex == CoresSpec => []MutualExclusion
<1>1. LockInv => MutualExclusion
  <2> SUFFICES ASSUME LockInv, NEW c \in Contexts, NEW i \in Ids, i \in ToSet(held[c])
               PROVE  /\ owner[i] = Core(c)
                      /\ \A d \in Contexts : d # c => i \notin ToSet(held[d])
    BY DEF MutualExclusion
  <2>1. ASSUME NEW d \in Contexts, i \in ToSet(held[d])
        PROVE  owner[i] = Core(d) /\ Runs(d)
    <3>1. held[d] \in Seq(Ids \cup {IrqOnly})
      BY DEF LockInv, TypeOK
    <3>2. PICK x \in 1 .. Len(held[d]) : held[d][x] = i
      BY <2>1, <3>1 DEF ToSet
    <3>3. i # IrqOnly
      BY HsemAssumption DEF Ids
    <3>4. owner[i] = Core(d)
      BY <3>2, <3>3 DEF LockInv, HeldInv
    <3>5. held[d] # <<>>
      BY <3>1, <3>2
    <3> QED
      BY <3>4, <3>5 DEF LockInv, ContextInv
  <2> QED
    BY <2>1, OneRuns
<1> QED
  BY <1>1, LockInvariant, PTL

\* Interrupts are masked while a lock is held, or in Error_Handler, and only
\* then: the recursive lock forgets no level and enables none too early,
\* although it reads PRIMASK before it masks.
THEOREM IrqsMasked == CoresSpec => []IrqsMaskedIffLocked
<1>1. LockInv => IrqsMaskedIffLocked
  <2> SUFFICES ASSUME LockInv, NEW k \in Cores
               PROVE  /\ (\E l \in Levels : held[<<k, l>>] # <<>>) \/ failed[k]
                             => primask[k]
                      /\ irqLockCounter[k] = 0 /\ ~failed[k] => ~primask[k]
    BY DEF IrqsMaskedIffLocked
  <2>1. MaskInv(k)
    BY DEF LockInv
  <2>2. ASSUME NEW l \in Levels, held[<<k, l>>] # <<>> PROVE irqLockCounter[k] # 0
    <3> DEFINE c == <<k, l>>
    <3>1. c \in Contexts /\ Core(c) = k /\ TypeOK /\ ContextInv(c)
      BY DEF Contexts, Core, LockInv
    <3> HIDE DEF c
    <3>2. held[c] # <<>>
      BY <2>2 DEF c
    <3>3. Len(held[c]) \in Nat /\ Len(held[c]) # 0
      BY <3>1, <3>2, LenIsNat
    <3>4. Inside(c) # 0
      <4>1. Inside(c) = Len(held[c]) + 1 \/ Inside(c) = Len(held[c]) + 0
        BY DEF Inside
      <4> QED
        BY <3>3, <4>1
    <3> QED
      BY <3>1, <3>2, <3>4 DEF ContextInv
  <2> QED
    BY <2>1, <2>2 DEF MaskInv
<1> QED
  BY <1>1, LockInvariant, PTL
=============================================================================
