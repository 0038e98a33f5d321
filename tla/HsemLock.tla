----------------------------- MODULE HsemLock -----------------------------
(***************************************************************************)
(* HSEMSpinLock (common/include/carbon/hsem.hpp) over the recursive        *)
(* interrupt lock (common/include/carbon/irq.hpp): the lock of the FIFOs   *)
(* both cores share.                                                       *)
(*                                                                         *)
(* On each core a thread runs and an interrupt handler may preempt it      *)
(* whenever PRIMASK is clear.  Either may take a hardware semaphore, or    *)
(* only lock the interrupts, and may do so again inside: the hardware      *)
(* grants a semaphore to the core that already has it, so that a core is   *)
(* kept out of its own critical sections by PRIMASK alone.                 *)
(***************************************************************************)
EXTENDS Integers, Sequences, SequencesExt

CONSTANTS
    Cores,
    Trace, Diag,  \* the hardware semaphores of the two FIFOs
    IrqOnly,      \* IRQLockRecursive: the interrupt lock without a semaphore
    Free,         \* no core has the semaphore
    MaxDepth      \* bound of the model: locks nested in one context

ASSUME HsemAssumption ==
    /\ Trace # Diag /\ IrqOnly \notin {Trace, Diag}
    /\ Free \notin Cores
    /\ MaxDepth \in Nat

Ids      == {Trace, Diag}
Levels   == {"thread", "isr"}
Contexts == Cores \X Levels
Core(c)  == c[1]

VARIABLES
    owner,               \* core that has each semaphore (RLR)
    primask,             \* interrupts of each core are masked
    irqLockCounter,      \* per core: each core has its own image
    irqLockStartStatus,
    active,              \* the context that runs on each core
    pc, want,            \* where each context is, and the lock it takes
    startStatus,         \* local of lockRecursive, FALSE outside of it
    held,                \* the locks each context holds, innermost last
    failed               \* the core is in Error_Handler

hsemVars == <<owner, primask, irqLockCounter, irqLockStartStatus, active, pc, want,
          startStatus, held, failed>>
-----------------------------------------------------------------------------
HsemInit ==
    /\ owner = [i \in Ids |-> Free]
    /\ primask = [k \in Cores |-> FALSE]
    /\ irqLockCounter = [k \in Cores |-> 0]
    /\ irqLockStartStatus = [k \in Cores |-> FALSE]
    /\ active = [k \in Cores |-> "thread"]
    /\ pc = [c \in Contexts |-> "run"]
    /\ want = [c \in Contexts |-> IrqOnly]
    /\ startStatus = [c \in Contexts |-> FALSE]
    /\ held = [c \in Contexts |-> <<>>]
    /\ failed = [k \in Cores |-> FALSE]

Runs(c) == active[Core(c)] = c[2]

\* What the callers nest: the FIFOs report with RAW_DIAG, which takes the
\* Diag semaphore, so Diag is taken inside Trace, and never the other way
\* round; a semaphore is not taken again by the context that holds it.
Nestable(c, i) ==
    \/ i = IrqOnly
    \/ i = Diag /\ Diag \notin ToSet(held[c]) /\ ~failed[Core(c)]
    \/ i = Trace /\ ToSet(held[c]) \cap Ids = {} /\ ~failed[Core(c)]

\* lockRecursive: isLocked() is read with the interrupts still enabled.
LockRead(c, i) ==
    /\ Runs(c) /\ pc[c] = "run"
    /\ Len(held[c]) < MaxDepth
    /\ Nestable(c, i)
    /\ want' = [want EXCEPT ![c] = i]
    /\ startStatus' = [startStatus EXCEPT ![c] = primask[Core(c)]]
    /\ pc' = [pc EXCEPT ![c] = "disable"]
    /\ UNCHANGED <<owner, primask, irqLockCounter, irqLockStartStatus, active,
                   held, failed>>

LockDisable_always_save(c) ==
    LET k == Core(c) IN
    /\ Runs(c) /\ pc[c] = "disable"
    /\ primask' = [primask EXCEPT ![k] = TRUE]
    /\ irqLockCounter' = [irqLockCounter EXCEPT ![k] = @ + 1]
    /\ irqLockStartStatus' = [irqLockStartStatus EXCEPT ![k] = startStatus[c]]
    /\ IF want[c] = IrqOnly
       THEN /\ held' = [held EXCEPT ![c] = Append(@, IrqOnly)]
            /\ pc' = [pc EXCEPT ![c] = "run"]
       ELSE pc' = [pc EXCEPT ![c] = "spin"] /\ UNCHANGED held
    /\ startStatus' = [startStatus EXCEPT ![c] = FALSE]
    /\ UNCHANGED <<owner, active, want, failed>>

LockDisable(c) ==
    LET k == Core(c) IN
    /\ Runs(c) /\ pc[c] = "disable"
    /\ primask' = [primask EXCEPT ![k] = TRUE]
    /\ irqLockCounter' = [irqLockCounter EXCEPT ![k] = @ + 1]
    /\ irqLockStartStatus' =
           IF irqLockCounter[k] = 0
           THEN [irqLockStartStatus EXCEPT ![k] = startStatus[c]]
           ELSE irqLockStartStatus
    /\ IF want[c] = IrqOnly
       THEN /\ held' = [held EXCEPT ![c] = Append(@, IrqOnly)]
            /\ pc' = [pc EXCEPT ![c] = "run"]
       ELSE pc' = [pc EXCEPT ![c] = "spin"] /\ UNCHANGED held
    /\ startStatus' = [startStatus EXCEPT ![c] = FALSE]
    /\ UNCHANGED <<owner, active, want, failed>>

\* The read of RLR that ends the loop of get().
Spin(c) ==
    /\ Runs(c) /\ pc[c] = "spin"
    /\ owner[want[c]] \in {Free, Core(c)}
    /\ owner' = [owner EXCEPT ![want[c]] = Core(c)]
    /\ held' = [held EXCEPT ![c] = Append(@, want[c])]
    /\ pc' = [pc EXCEPT ![c] = "run"]
    /\ want' = [want EXCEPT ![c] = IrqOnly]
    /\ UNCHANGED <<primask, irqLockCounter, irqLockStartStatus, active,
                   startStatus, failed>>

Release_keep_semaphore(c) ==
    /\ Runs(c) /\ pc[c] = "run"
    /\ held[c] # <<>>
    /\ held' = [held EXCEPT ![c] = Front(@)]
    /\ pc' = [pc EXCEPT ![c] = "unlock"]
    /\ UNCHANGED <<owner, primask, irqLockCounter, irqLockStartStatus, active,
                   want, startStatus, failed>>

\* release(): the semaphore first, then the interrupts.
Release(c) ==
    /\ Runs(c) /\ pc[c] = "run"
    /\ held[c] # <<>>
    /\ LET i == Last(held[c]) IN
       owner' = IF i \in Ids /\ owner[i] = Core(c)
                THEN [owner EXCEPT ![i] = Free] ELSE owner
    /\ held' = [held EXCEPT ![c] = Front(@)]
    /\ pc' = [pc EXCEPT ![c] = "unlock"]
    /\ UNCHANGED <<primask, irqLockCounter, irqLockStartStatus, active, want,
                   startStatus, failed>>

Unlock_inner_enables(c) ==
    LET k == Core(c) IN
    /\ Runs(c) /\ pc[c] = "unlock"
    /\ irqLockCounter' = [irqLockCounter EXCEPT ![k] = @ - 1]
    /\ primask' = [primask EXCEPT ![k] = irqLockStartStatus[k]]
    /\ pc' = [pc EXCEPT ![c] = "run"]
    /\ UNCHANGED <<owner, irqLockStartStatus, active, want, startStatus, held,
                   failed>>

\* unLockRecursive
Unlock(c) ==
    LET k == Core(c) IN
    /\ Runs(c) /\ pc[c] = "unlock"
    /\ irqLockCounter' =
           IF irqLockCounter[k] # 0 THEN [irqLockCounter EXCEPT ![k] = @ - 1]
           ELSE irqLockCounter
    /\ primask' =
           IF irqLockCounter[k] = 1 /\ ~irqLockStartStatus[k]
           THEN [primask EXCEPT ![k] = FALSE] ELSE primask
    /\ pc' = [pc EXCEPT ![c] = "run"]
    /\ UNCHANGED <<owner, irqLockStartStatus, active, want, startStatus, held,
                   failed>>

\* An interrupt is taken between any two instructions of an unmasked thread.
IsrEnter(k) ==
    /\ active[k] = "thread" /\ ~primask[k]
    /\ active' = [active EXCEPT ![k] = "isr"]
    /\ UNCHANGED <<owner, primask, irqLockCounter, irqLockStartStatus, pc, want,
                   startStatus, held, failed>>

IsrExit(k) ==
    /\ active[k] = "isr"
    /\ pc[<<k, "isr">>] = "run" /\ held[<<k, "isr">>] = <<>> /\ ~failed[k]
    /\ active' = [active EXCEPT ![k] = "thread"]
    /\ UNCHANGED <<owner, primask, irqLockCounter, irqLockStartStatus, pc, want,
                   startStatus, held, failed>>

\* Error_Handler masks the interrupts for good and then lives on HAL_Delay,
\* whose clock takes the interrupt lock.
ErrorHandler(c) ==
    /\ Runs(c) /\ pc[c] = "run" /\ held[c] = <<>>
    /\ ~failed[Core(c)]
    /\ primask' = [primask EXCEPT ![Core(c)] = TRUE]
    /\ failed' = [failed EXCEPT ![Core(c)] = TRUE]
    /\ UNCHANGED <<owner, irqLockCounter, irqLockStartStatus, active, pc, want,
                   startStatus, held>>

\* A step of a context that takes no locks but those of ids.
HsemStep(c, ids) ==
    \/ \E i \in ids : LockRead(c, i)
    \/ LockDisable(c) \/ Spin(c) \/ Release(c) \/ Unlock(c)
    \/ ErrorHandler(c)

CoreStep(k) ==
    \/ \E c \in {k} \X Levels : HsemStep(c, Ids \cup {IrqOnly})
    \/ IsrEnter(k) \/ IsrExit(k)
-----------------------------------------------------------------------------
(* Properties.                                                             *)

TypeOK ==
    /\ owner \in [Ids -> Cores \cup {Free}]
    /\ primask \in [Cores -> BOOLEAN]
    /\ irqLockCounter \in [Cores -> 0 .. 2 * MaxDepth]
    /\ irqLockStartStatus \in [Cores -> BOOLEAN]
    /\ active \in [Cores -> Levels]
    /\ pc \in [Contexts -> {"run", "disable", "spin", "unlock"}]
    /\ want \in [Contexts -> Ids \cup {IrqOnly}]
    /\ startStatus \in [Contexts -> BOOLEAN]
    /\ held \in [Contexts -> Seq(Ids \cup {IrqOnly})]
    /\ failed \in [Cores -> BOOLEAN]

\* A FIFO's lock is never held twice: neither by the two cores, nor by a
\* thread and an interrupt handler of one core, which the hardware would let
\* through.  Who holds it still has the semaphore in the hardware: no release
\* inside the critical section has given it away.
MutualExclusion ==
    \A c \in Contexts, i \in Ids :
        i \in ToSet(held[c]) =>
            /\ owner[i] = Core(c)
            /\ \A d \in Contexts : d # c => i \notin ToSet(held[d])

\* Interrupts are masked while a lock is held and enabled again once none
\* is, except in Error_Handler, which they never leave.
IrqsMaskedIffLocked ==
    \A k \in Cores :
        /\ (\E l \in Levels : held[<<k, l>>] # <<>>) \/ failed[k]
               => primask[k]
        /\ irqLockCounter[k] = 0 /\ ~failed[k] => ~primask[k]

\* A core that spins on a semaphore gets it: the nesting of Diag inside
\* Trace cannot make the two cores wait for each other.
SpinEnds ==
    \A k \in Cores : LET spins == \E l \in Levels : pc[<<k, l>>] = "spin"
                     IN  spins ~> ~spins
=============================================================================
