----------------------------- MODULE SdDetect -----------------------------
(***************************************************************************)
(* Card detection of CM7/core/src/sd_card.cpp, and where the thread of     *)
(* sd_thread.cpp waits for it.  SdCard adds the transfers.                 *)
(*                                                                         *)
(* Every edge of the detect pin raises an EXTI interrupt.  Its callback    *)
(* and one timer debounce the pin: an insertion is reported once the pin   *)
(* has been quiet for a period, a removal at once, after which the EXTI    *)
(* interrupt is masked for a period.  Both reports are the same: a token   *)
(* in semDetect.  BSP_SD_Init takes the next one for an insertion and      *)
(* BSP_SD_DeInit for a removal.                                            *)
(*                                                                         *)
(* BSP_SD_DetectITConfig sets all this up while the core boots, and        *)
(* enables the EXTI interrupt before the handle, the callback and the      *)
(* timer that its handler uses.                                            *)
(***************************************************************************)
EXTENDS Naturals

CONSTANT MaxEdges   \* bound of the model: moves of the card and chatter

ASSUME SdAssumption == MaxEdges \in Nat

VARIABLES
    card,      \* the card is in the slot
    pin,       \* the detect pin reads SD_PRESENT
    chatter,   \* the contact has not settled since the card was moved
    edges,     \* edges so far
    exti,      \* pending bit of the EXTI line, which also pends the NVIC line
    irqOn,     \* SD_DETECT_EXTI_IRQn is enabled
    isr,       \* the EXTI handler is between clearing exti and its callback
    detectPinStatus,
    timer,     \* the callback the running TIM6 is started with, or "off"
    uif,       \* its update flag
    semDetect,
    tpc,       \* where the boot and then the SD thread is
    mounted,   \* the volume is mounted
    calm,      \* history: see Settled and Move
    early      \* history: an edge called back before the timer was set up

slotVars   == <<card, pin, chatter, edges>>
irqVars    == <<exti, irqOn, isr, detectPinStatus, timer, uif>>
threadVars == <<tpc, mounted>>
detectVars == <<slotVars, irqVars, semDetect, threadVars, calm, early>>
-----------------------------------------------------------------------------
\* HAL_GPIO_Init has just set the pin to raise interrupts on both edges, with
\* or without a card in the slot.
DetectInit ==
    /\ card \in BOOLEAN
    /\ pin = card
    /\ chatter = FALSE
    /\ edges = 0
    /\ exti = FALSE
    /\ irqOn = FALSE
    /\ isr = FALSE
    /\ detectPinStatus = "STABLE"
    /\ timer = "off"
    /\ uif = FALSE
    /\ semDetect = FALSE
    /\ tpc = "notify"
    /\ mounted = FALSE
    /\ calm = TRUE
    /\ early = FALSE

(* The slot.  Moving the card makes an edge, and the contact may chatter   *)
(* for a while; it settles long before a period of the timer has passed.   *)

\* The driver has dealt with everything the slot has done so far.
Settled ==
    /\ ~chatter /\ ~exti /\ ~isr
    /\ detectPinStatus = "STABLE"
    /\ ~semDetect
    /\ tpc \in {"init", "deinit"}

Edge == pin' = ~pin /\ exti' = TRUE

Move ==
    /\ ~chatter
    /\ edges < MaxEdges
    /\ edges' = edges + 1
    /\ card' = ~card
    /\ Edge
    /\ chatter' = TRUE
    /\ calm' = (calm /\ Settled)
    /\ UNCHANGED <<irqOn, isr, detectPinStatus, timer, uif, semDetect, threadVars, early>>

\* Chatter is harmless only while the stability of the pin is being checked.
Chatter ==
    /\ chatter
    /\ pin = card => edges < MaxEdges
    /\ edges' = IF pin = card THEN edges + 1 ELSE edges
    /\ Edge
    /\ calm' = (calm /\ detectPinStatus = "CHECKING_STABILITY" /\ ~uif)
    /\ UNCHANGED <<card, chatter, irqOn, isr, detectPinStatus, timer, uif,
                   semDetect, threadVars, early>>

Settle ==
    /\ chatter /\ pin = card
    /\ chatter' = FALSE
    /\ UNCHANGED <<card, pin, edges, irqVars, semDetect, threadVars, calm, early>>
-----------------------------------------------------------------------------
(* The interrupts: EXTI9_5 and TIM6 have the same priority, so neither     *)
(* interrupts the other, and the thread runs only outside of them.         *)

\* HAL_EXTI_IRQHandler clears the pending bit before it calls back.  As long
\* as the handle has no callback the edge is forgotten; as long as it has no
\* line the bit is not even cleared, and the handler is entered for ever.
ExtiIrq ==
    /\ exti /\ irqOn /\ ~isr
    /\ tpc # "handle"
    /\ exti' = FALSE
    /\ isr' = (tpc # "register")
    /\ UNCHANGED <<slotVars, irqOn, detectPinStatus, timer, uif, semDetect,
                   threadVars, calm, early>>

\* BSP_SD_DetectCallback, STABLE and the card present.
DetectInserted ==
    /\ isr /\ detectPinStatus = "STABLE" /\ pin
    /\ tpc # "timer"
    /\ timer' = "stability"
    /\ detectPinStatus' = "CHECKING_STABILITY"
    /\ isr' = FALSE
    /\ UNCHANGED <<slotVars, exti, irqOn, uif, semDetect, threadVars, calm, early>>

DetectRemoved_keep_irq ==
    /\ isr /\ detectPinStatus = "STABLE" /\ ~pin
    /\ tpc # "timer"
    /\ detectPinStatus' = "SUPPRESSED"
    /\ timer' = "suppression"
    /\ semDetect' = TRUE
    /\ isr' = FALSE
    /\ UNCHANGED <<slotVars, exti, irqOn, uif, threadVars, calm, early>>

\* BSP_SD_DetectCallback, STABLE and the card gone.  Clearing the pending
\* bit of the NVIC does not clear the one of the EXTI line.
DetectRemoved ==
    /\ isr /\ detectPinStatus = "STABLE" /\ ~pin
    /\ tpc # "timer"
    /\ detectPinStatus' = "SUPPRESSED"
    /\ irqOn' = FALSE
    /\ timer' = "suppression"
    /\ semDetect' = TRUE
    /\ isr' = FALSE
    /\ UNCHANGED <<slotVars, exti, uif, threadVars, calm, early>>

\* BSP_SD_DetectCallback before init_detect_pin_tim is through: the timer has
\* no callback and does not start, so nobody ends what it was started for.
DetectEarly ==
    /\ isr /\ detectPinStatus = "STABLE"
    /\ tpc = "timer"
    /\ detectPinStatus' = IF pin THEN "CHECKING_STABILITY" ELSE "SUPPRESSED"
    /\ irqOn' = pin
    /\ semDetect' = (semDetect \/ ~pin)
    /\ isr' = FALSE
    /\ early' = TRUE
    /\ UNCHANGED <<slotVars, exti, timer, uif, threadVars, calm>>

DetectAgain_restart_detection ==
    /\ isr /\ detectPinStatus # "STABLE"
    /\ isr' = FALSE
    /\ detectPinStatus' = "STABLE"
    /\ timer' = "off"
    /\ UNCHANGED <<slotVars, exti, irqOn, uif, semDetect, threadVars, calm, early>>

\* BSP_SD_DetectCallback otherwise: while checking, the counter starts anew.
DetectAgain ==
    /\ isr /\ detectPinStatus # "STABLE"
    /\ isr' = FALSE
    /\ UNCHANGED <<slotVars, exti, irqOn, detectPinStatus, timer, uif, semDetect,
                   threadVars, calm, early>>

\* PIN_DETECT_PERIOD passes: the contact has settled before, and an enabled
\* interrupt was taken before.
TimerExpires ==
    /\ timer # "off" /\ ~uif
    /\ ~chatter /\ ~isr /\ ~(exti /\ irqOn)
    /\ uif' = TRUE
    /\ UNCHANGED <<slotVars, exti, irqOn, isr, detectPinStatus, timer, semDetect,
                   threadVars, calm, early>>

\* detect_pin_check_stability_callback: the pin is not read again.
StabilityChecked ==
    /\ timer = "stability" /\ uif /\ ~isr
    /\ uif' = FALSE
    /\ timer' = "off"
    /\ detectPinStatus' = "STABLE"
    /\ semDetect' = TRUE
    /\ UNCHANGED <<slotVars, exti, irqOn, isr, threadVars, calm, early>>

\* detect_pin_suppression_callback
SuppressionEnds ==
    /\ timer = "suppression" /\ uif /\ ~isr
    /\ uif' = FALSE
    /\ timer' = "off"
    /\ irqOn' = TRUE
    /\ detectPinStatus' = "STABLE"
    /\ UNCHANGED <<slotVars, exti, isr, semDetect, threadVars, calm, early>>
-----------------------------------------------------------------------------
(* The boot, in BSP_SD_DetectITConfig.                                     *)

Boot(from, to) ==
    /\ tpc = from /\ ~isr
    /\ tpc' = to
    /\ UNCHANGED <<slotVars, exti, isr, detectPinStatus, timer, mounted, calm, early>>

\* BSP_SD_Init_Detect_Notify: a card that is there counts as inserted.
Notify == Boot("notify", "enable") /\ semDetect' = pin /\ UNCHANGED <<irqOn, uif>>

EnableIrq == Boot("enable", "handle") /\ irqOn' = TRUE /\ UNCHANGED <<semDetect, uif>>

\* HAL_EXTI_GetHandle, unless the handler never returns to it.
GetHandle == Boot("handle", "register") /\ ~exti /\ UNCHANGED <<irqOn, semDetect, uif>>

RegisterCallback == Boot("register", "timer") /\ UNCHANGED <<irqOn, semDetect, uif>>

\* init_detect_pin_tim.  The update that HAL_TIM_Base_Init forces leaves the
\* update flag of TIM6 set.
InitTimer == Boot("timer", "init") /\ uif' = TRUE /\ UNCHANGED <<irqOn, semDetect>>

DetectITConfig == Notify \/ EnableIrq \/ GetHandle \/ RegisterCallback \/ InitTimer
-----------------------------------------------------------------------------
(* The steps of SDThread::run that concern the slot.                       *)

Thread(from) == tpc = from /\ ~isr /\ UNCHANGED <<slotVars, irqVars, calm, early>>

Acquire(from, to) ==
    /\ Thread(from)
    /\ semDetect
    /\ semDetect' = FALSE
    /\ tpc' = to
    /\ UNCHANGED mounted

InitAcquire == Acquire("init", "detect")

\* BSP_SD_IsDetected in BSP_SD_Init: without a card the thread is parked.
InitDetect ==
    /\ Thread("detect")
    /\ tpc' = IF pin THEN "hal" ELSE "parked"
    /\ UNCHANGED <<semDetect, mounted>>

DeInitAcquire == Acquire("deinit", "halDeInit")

\* f_mount(NULL) and FATFS_UnLinkDriverEx
Unmount ==
    /\ Thread("unmount")
    /\ mounted' = FALSE
    /\ tpc' = "init"
    /\ UNCHANGED semDetect

Irq ==
    \/ ExtiIrq \/ DetectInserted \/ DetectRemoved \/ DetectEarly \/ DetectAgain
    \/ StabilityChecked \/ SuppressionEnds
-----------------------------------------------------------------------------
\* The state of the detection, the one timer and the interrupt mask always
\* go together, whatever edges arrive: the pin cannot be left masked with no
\* timer running, nor be taken for stable while one runs.  The exception is an
\* edge that called back during the boot, before the timer was set up.
DetectionArmed ==
    \/ early
    \/ /\ detectPinStatus = "CHECKING_STABILITY" <=> timer = "stability"
       /\ detectPinStatus = "SUPPRESSED" <=> timer = "suppression"
       /\ irqOn <=> timer # "suppression" /\ tpc \notin {"notify", "enable"}
=============================================================================
