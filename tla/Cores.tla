------------------------------- MODULE Cores -------------------------------
(***************************************************************************)
(* The two cores from reset on: the boot of BootSync, and the locks of     *)
(* HsemLock that a core takes once it runs.                                *)
(*                                                                         *)
(* CM7 reports with RAW_DIAG, under the Diag semaphore, from the set-up of *)
(* the peripherals on, when CM4 may still be on its way to main(); the     *)
(* FIFOs themselves are used by both cores only in main().                 *)
(***************************************************************************)
EXTENDS HsemLock, BootSync

CONSTANTS Cm4, Cm7

ASSUME CoresAssumption == Cores = {Cm4, Cm7} /\ Cm4 # Cm7

coresVars == <<hsemVars, bootVars>>

CoresInit == HsemInit /\ BootInit

\* The core is executing the straight code of low_level_init.
Quiet(k) ==
    /\ active[k] = "thread" /\ ~failed[k]
    /\ pc[<<k, "thread">>] = "run" /\ held[<<k, "thread">>] = <<>>

BootStep7 == Quiet(Cm7) /\ Boot7 /\ UNCHANGED hsemVars
BootStep4 == Boot4 /\ UNCHANGED hsemVars

\* A timeout of the boot ends in Error_Handler.
BootFails ==
    \/ Cm7Timeout /\ ErrorHandler(<<Cm7, "thread">>)
    \/ Cm4Timeout /\ ErrorHandler(<<Cm4, "thread">>)

\* What the two cores do beside the steps of the boot.  The interrupts of
\* the boot, of the timers, take no locks.
Boots7 ==
    /\ p7 \in {"periphery", "fifo", "sync"}
    /\ HsemStep(<<Cm7, "thread">>, {Diag, IrqOnly})
    /\ UNCHANGED bootVars

Runs7 ==
    /\ p7 = "main"
    /\ CoreStep(Cm7)
    /\ UNCHANGED bootVars

Runs4 ==
    /\ p4 = "main"
    /\ CoreStep(Cm4)
    /\ UNCHANGED bootVars

CoresNext ==
    \/ BootStep7 \/ BootStep4 \/ BootFails
    \/ SpuriousEvent /\ UNCHANGED hsemVars
    \/ Boots7 \/ Runs7 \/ Runs4

CoresSpec == CoresInit /\ [][CoresNext]_coresVars

\* Both cores execute: the boot goes on between the locks it takes (a timeout
\* never has to happen), a context inside get() or release() goes on, and a
\* critical section ends, the outer one too.  The semaphore is not a queue: a
\* spinning core only gets it if it does not for ever read RLR at the wrong
\* moment (strong fairness of Spin).
FairSpec ==
    /\ CoresSpec
    /\ SF_coresVars(BootStep7) /\ WF_coresVars(BootStep4)
    /\ \A k \in Cores :
        LET Here(A(_)) == (\E c \in {k} \X Levels : A(c)) /\ UNCHANGED bootVars
            Inside(c)  == LockDisable(c) \/ Unlock(c)
            Outer(c)   == Release(c) /\ Len(held[c]) = 1
        IN  /\ WF_coresVars(Here(Inside))
            /\ SF_coresVars(Here(Spin))
            /\ SF_coresVars(Here(Release))
            /\ SF_coresVars(Here(Outer))
-----------------------------------------------------------------------------
(* Properties.                                                             *)

\* As long as no core ends in Error_Handler and CM4 sleeps until CM7 wakes
\* it, both cores reach main(): the wake-up is not lost between the end of
\* CM4's preparations and its WFE, nor the flag, and no lock CM7 takes on its
\* way holds it up.
BootCompletes ==
    [](~spurious /\ \A k \in Cores : ~failed[k]) => <>(p7 = "main" /\ p4 = "main")
=============================================================================
