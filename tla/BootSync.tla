----------------------------- MODULE BootSync -----------------------------
(***************************************************************************)
(* The boot handshake of the two cores: the startup files, low_level_init  *)
(* of CM7 and of CM4, and the sync flag of common/src/shared_memory.cpp.   *)
(*                                                                         *)
(* Both cores start at reset.  Both construct the FIFOs in shared memory,  *)
(* CM4 also clears that memory, and CM7 alone initialises the FIFOs, which *)
(* must come last.  CM4 gets ready and stops its domain; CM7 waits for     *)
(* that, configures the clocks, wakes CM4 by releasing a hardware          *)
(* semaphore, sets up the peripherals and the FIFOs and raises the flag    *)
(* CM4 waits for.  Shared memory is not cleared by a reset: what it holds  *)
(* at the start is arbitrary.                                              *)
(***************************************************************************)

VARIABLES
    p7, p4,        \* where each core is
    D2CKRDY,       \* clock of CM4's domain: FALSE while it is stopped
    IER,           \* CM4 is notified when the InitSync semaphore is freed
    event,         \* event latched for CM4's WFE
    clock, periphery, \* CM7 has configured the clocks, the peripherals
    fifo,          \* state of the FIFOs in shared memory
    syncFlag,      \* PeripherySync bit of the flag in shared memory
    spurious       \* history: CM4, still booting, got an event nobody sent

hw       == <<D2CKRDY, IER, event>>
bootVars == <<p7, p4, hw, clock, periphery, fifo, syncFlag, spurious>>
-----------------------------------------------------------------------------
BootInit ==
    /\ p7 = "constructors"
    /\ p4 = "bss"
    /\ D2CKRDY = TRUE
    /\ IER = FALSE
    /\ event \in BOOLEAN
    /\ clock = FALSE
    /\ periphery = FALSE
    /\ fifo \in {"garbage", "ready"}
    /\ syncFlag \in BOOLEAN
    /\ spurious = FALSE

(* CM7.                                                                    *)
Step7(from, to) == p7 = from /\ p7' = to /\ UNCHANGED <<p4, spurious>>

Cm7Constructors ==
    /\ Step7("constructors", "wait stop")
    /\ fifo' = "constructed"
    /\ UNCHANGED <<hw, clock, periphery, syncFlag>>

Cm7WaitStop_skipped ==
    /\ Step7("wait stop", "clock")
    /\ UNCHANGED <<hw, clock, periphery, fifo, syncFlag>>

Cm7WaitStop ==
    /\ ~D2CKRDY
    /\ Step7("wait stop", "clock")
    /\ UNCHANGED <<hw, clock, periphery, fifo, syncFlag>>

\* HAL_Init, SystemClock_Config
Cm7Clock ==
    /\ Step7("clock", "notify")
    /\ clock' = TRUE
    /\ UNCHANGED <<hw, periphery, fifo, syncFlag>>

\* hSemInitSync.get(), release(): the release is the notification.
Cm7Notify ==
    /\ Step7("notify", "wait wake")
    /\ event' = (event \/ IER)
    /\ UNCHANGED <<D2CKRDY, IER, clock, periphery, fifo, syncFlag>>

Cm7WaitWake ==
    /\ D2CKRDY
    /\ Step7("wait wake", "periphery")
    /\ UNCHANGED <<hw, clock, periphery, fifo, syncFlag>>

\* A timeout counter of low_level_init runs out.
Cm7Timeout ==
    /\ \/ D2CKRDY /\ Step7("wait stop", "error")
       \/ ~D2CKRDY /\ Step7("wait wake", "error")
    /\ UNCHANGED <<hw, clock, periphery, fifo, syncFlag>>

Cm7Periphery ==
    /\ Step7("periphery", "fifo")
    /\ periphery' = TRUE
    /\ UNCHANGED <<hw, clock, fifo, syncFlag>>

\* FIFO_INIT
Cm7FifoInit ==
    /\ Step7("fifo", "sync")
    /\ fifo' = "ready"
    /\ UNCHANGED <<hw, clock, periphery, syncFlag>>

Cm7SetSyncFlag ==
    /\ Step7("sync", "main")
    /\ syncFlag' = TRUE
    /\ UNCHANGED <<hw, clock, periphery, fifo>>

(* CM4.                                                                    *)
Step4(from, to) ==
    /\ p4 = from
    /\ p4' = to
    /\ spurious' = (spurious /\ to # "main")
    /\ UNCHANGED p7

\* The startup code clears the shared memory, the flag included.
Cm4Bss ==
    /\ Step4("bss", "constructors")
    /\ fifo' = "zero"
    /\ syncFlag' = FALSE
    /\ UNCHANGED <<hw, clock, periphery>>

Cm4Constructors ==
    /\ Step4("constructors", "enable")
    /\ fifo' = "constructed"
    /\ UNCHANGED <<hw, clock, periphery, syncFlag>>

Cm4Enable_forgotten ==
    /\ Step4("enable", "reset")
    /\ UNCHANGED <<hw, clock, periphery, fifo, syncFlag>>

Cm4Enable ==
    /\ Step4("enable", "reset")
    /\ IER' = TRUE
    /\ UNCHANGED <<D2CKRDY, event, clock, periphery, fifo, syncFlag>>

Cm4ResetSyncFlag ==
    /\ Step4("reset", "clear")
    /\ syncFlag' = FALSE
    /\ UNCHANGED <<hw, clock, periphery, fifo>>

\* HAL_PWREx_ClearPendingEvent
Cm4ClearEvent ==
    /\ Step4("clear", "wfe")
    /\ event' = FALSE
    /\ UNCHANGED <<D2CKRDY, IER, clock, periphery, fifo, syncFlag>>

\* The WFE of HAL_PWREx_EnterSTOPMode: the domain stops, unless an event is
\* pending.
Cm4Stop ==
    /\ ~event
    /\ Step4("wfe", "stopped")
    /\ D2CKRDY' = FALSE
    /\ UNCHANGED <<IER, event, clock, periphery, fifo, syncFlag>>

Cm4Wake ==
    /\ event
    /\ Step4("wfe", "wait sync") \/ Step4("stopped", "wait sync")
    /\ event' = FALSE
    /\ D2CKRDY' = TRUE
    /\ UNCHANGED <<IER, clock, periphery, fifo, syncFlag>>

\* WFE may end for an event nobody sent on purpose.
SpuriousEvent ==
    /\ p4 \in {"wfe", "stopped"}
    /\ ~event
    /\ event' = TRUE
    /\ spurious' = TRUE
    /\ UNCHANGED <<p7, p4, D2CKRDY, IER, clock, periphery, fifo, syncFlag>>

\* waitForSyncFlag
Cm4WaitSync ==
    /\ syncFlag
    /\ Step4("wait sync", "main")
    /\ UNCHANGED <<hw, clock, periphery, fifo, syncFlag>>

Cm4Timeout_ignored ==
    /\ ~syncFlag
    /\ Step4("wait sync", "main")
    /\ UNCHANGED <<hw, clock, periphery, fifo, syncFlag>>

Cm4Timeout ==
    /\ ~syncFlag
    /\ Step4("wait sync", "error")
    /\ UNCHANGED <<hw, clock, periphery, fifo, syncFlag>>

Boot7 ==
    \/ Cm7Constructors \/ Cm7WaitStop \/ Cm7Clock \/ Cm7Notify \/ Cm7WaitWake
    \/ Cm7Periphery \/ Cm7FifoInit \/ Cm7SetSyncFlag

Boot4 ==
    \/ Cm4Bss \/ Cm4Constructors \/ Cm4Enable \/ Cm4ResetSyncFlag
    \/ Cm4ClearEvent \/ Cm4Stop \/ Cm4Wake \/ Cm4WaitSync

-----------------------------------------------------------------------------
(* Properties.                                                             *)

\* main() of CM4 starts, and pushes into the diagnostic FIFO, only after CM7
\* has set up clocks, peripherals and FIFOs, whatever flag an earlier boot
\* has left in shared memory.
Cm4StartsLast == p4 = "main" => clock /\ periphery /\ fifo = "ready"

\* What FIFO_INIT of CM7 has set up is not cleared or constructed anew by
\* the startup code of CM4.
FifoNotWiped ==
    [][(p7 \in {"sync", "main"}) => fifo' = fifo]_bootVars
=============================================================================
