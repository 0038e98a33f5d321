------------------------------- MODULE SdCard -------------------------------
(***************************************************************************)
(* The SD card: the detection of SdDetect, the thread that mounts the card *)
(* (SDThread::run), and the DMA transfers of sd_card.cpp and sd_diskio.c   *)
(* that the mount and the users of the file system ask for.                *)
(*                                                                         *)
(* A transfer waits for the card to be in its transfer state, starts the   *)
(* DMA, waits at most DMA_TIMEOUT for the token of the completion          *)
(* interrupt, and waits for the card again.  FatFs lets one user at a time *)
(* into a mounted volume, but a user that still waits when the card is     *)
(* changed is inside together with the mount of the new one.  Delays are   *)
(* not counted: a timeout may come whenever what it waits for has not.     *)
(***************************************************************************)
EXTENDS SdDetect

VARIABLES
    hal,       \* State of the HAL handle
    up,        \* the card in the slot has been initialised
    busy,      \* it is moving or programming data
    dma,       \* the transfer of the HAL: who asked for it, and its direction
    semDMA,    \* semDMARX and semDMATX
    req,       \* requests to sd_diskio: of the SD thread and of a user
    clean,     \* history: see SuccessMeansDone
    faulty     \* history: the initialisation of the card, or a transfer since it,
               \* failed although the card was there

xferVars == <<hal, up, busy, dma, semDMA, req, clean, faulty>>
sdVars   == <<detectVars, xferVars>>

NoDma     == [who |-> "nobody", dir |-> "RX"]
NoRequest == [pc |-> "none", dir |-> "RX", ok |-> FALSE, done |-> FALSE]

SdInit ==
    /\ DetectInit
    /\ hal = "RESET" /\ up = FALSE /\ busy = FALSE
    /\ dma = NoDma
    /\ semDMA = [d \in {"RX", "TX"} |-> FALSE]
    /\ req = [r \in {"thread", "user"} |-> NoRequest]
    /\ clean = TRUE /\ faulty = FALSE

Waiting(r) == req[r].pc # "none"

\* BSP_SD_GetCardState
GetCardState == hal # "RESET" /\ up /\ ~busy

(* The slot and the interrupts of the detection.                           *)

Slot ==
    \/ /\ Move
       /\ up' = FALSE
       /\ clean' = (clean /\ \A r \in DOMAIN req : ~Waiting(r))
       /\ UNCHANGED <<hal, busy, dma, semDMA, req, faulty>>
    \/ (Chatter \/ Settle \/ Irq \/ TimerExpires) /\ UNCHANGED xferVars
-----------------------------------------------------------------------------
(* Requests: SD_read and SD_write of sd_diskio.c, which call               *)
(* BSP_SD_ReadBlocks_DMA and BSP_SD_WriteBlocks_DMA.                       *)

\* The requests run only outside of the interrupts.
Request(r, from) == req[r].pc = from /\ ~isr /\ UNCHANGED detectVars

To(r, pc) == req' = [req EXCEPT ![r].pc = pc]

Fails(r) ==
    /\ req' = [req EXCEPT ![r] = [@ EXCEPT !.pc = "end", !.ok = FALSE]]
    /\ faulty' = (faulty \/ up)
    /\ UNCHANGED <<hal, up, busy, dma, semDMA, clean>>

\* A user asks for a transfer of the mounted volume.
UserAsks ==
    /\ mounted
    /\ Request("user", "none")
    /\ \E d \in DOMAIN semDMA :
        req' = [req EXCEPT !["user"] = [NoRequest EXCEPT !.pc = "check", !.dir = d]]
    /\ UNCHANGED <<hal, up, busy, dma, semDMA, clean, faulty>>

\* SD_CheckStatusWithTimeout
CheckStatus(r) ==
    /\ Request(r, "check")
    /\ GetCardState
    /\ To(r, "start")
    /\ UNCHANGED <<hal, up, busy, dma, semDMA, clean, faulty>>

CheckTimeout(r) == Request(r, "check") /\ ~GetCardState /\ Fails(r)

\* The first loop on the card's state, then HAL_SD_xBlocks_DMA ...
Start(r) ==
    /\ Request(r, "start")
    /\ GetCardState
    /\ hal = "READY"
    /\ hal' = "BUSY"
    /\ busy' = TRUE
    /\ dma' = [who |-> r, dir |-> req[r].dir]
    /\ To(r, "wait")
    /\ UNCHANGED <<up, semDMA, clean, faulty>>

\* ... which fails while another transfer is under way, or if the card does
\* not answer the command.
StartFails(r) == Request(r, "start") /\ GetCardState /\ Fails(r)

AcquireDMA(r) ==
    /\ Request(r, "wait")
    /\ semDMA[req[r].dir]
    /\ semDMA' = [semDMA EXCEPT ![req[r].dir] = FALSE]
    /\ req' = [req EXCEPT ![r] = [@ EXCEPT !.pc = "finish", !.ok = TRUE]]
    /\ UNCHANGED <<hal, up, busy, dma, clean, faulty>>

AcquireTimeout_waits_again(r) ==
    /\ Request(r, "wait")
    /\ ~semDMA[req[r].dir]
    /\ UNCHANGED xferVars

AcquireTimeout(r) ==
    /\ Request(r, "wait")
    /\ ~semDMA[req[r].dir]
    /\ To(r, "finish")
    /\ clean' = FALSE
    /\ faulty' = (faulty \/ up)
    /\ UNCHANGED <<hal, up, busy, dma, semDMA>>

\* The second loop has no end but the card's transfer state.
Finish(r) ==
    /\ Request(r, "finish")
    /\ GetCardState
    /\ To(r, "end")
    /\ UNCHANGED <<hal, up, busy, dma, semDMA, clean, faulty>>

\* What the user makes of the answer is up to him.
UserGoesOn ==
    /\ Request("user", "end")
    /\ req' = [req EXCEPT !["user"] = NoRequest]
    /\ UNCHANGED <<hal, up, busy, dma, semDMA, clean, faulty>>
-----------------------------------------------------------------------------
(* The card and HAL_SD_IRQHandler.                                         *)

Hardware == hal = "BUSY" /\ dma # NoDma /\ UNCHANGED detectVars

\* DATAEND: the completion callback releases the token.  The data of a write
\* are still to be programmed.
DataEnd ==
    /\ Hardware /\ up
    /\ hal' = "READY"
    /\ dma' = NoDma
    /\ busy' = (dma.dir = "TX")
    /\ semDMA' = [semDMA EXCEPT ![dma.dir] = TRUE]
    /\ req' = [req EXCEPT ![dma.who].done = TRUE]
    /\ UNCHANGED <<up, clean, faulty>>

DataError_releases ==
    /\ Hardware
    /\ hal' = "READY"
    /\ dma' = NoDma
    /\ semDMA' = [semDMA EXCEPT ![dma.dir] = TRUE]
    /\ faulty' = (faulty \/ up)
    /\ UNCHANGED <<up, busy, req, clean>>

\* CRC error, data timeout, overrun: the error callback does nothing.
DataError ==
    /\ Hardware
    /\ hal' = "READY"
    /\ dma' = NoDma
    /\ faulty' = (faulty \/ up)
    /\ UNCHANGED <<up, busy, semDMA, req, clean>>

\* The card is back in its transfer state.
CardDone ==
    /\ up /\ busy /\ dma = NoDma
    /\ busy' = FALSE
    /\ UNCHANGED <<detectVars, hal, up, dma, semDMA, req, clean, faulty>>
-----------------------------------------------------------------------------
(* SDThread::run.                                                          *)

\* MX_SDMMC1_SD_Init and HAL_SD_ConfigWideBusOperation talk to the card.  When
\* one fails the thread is parked for ever, also with a card in the slot, which
\* may then have got as far as its transfer state.  In any case semDMARX.init
\* and semDMATX.init take a token that is still there.
InitHal ==
    /\ Thread("hal")
    /\ hal' = "READY"
    /\ \/ card /\ up' = TRUE /\ tpc' = "mount" /\ faulty' = FALSE
       \/ up' \in {FALSE, card} /\ tpc' = "parked" /\ faulty' = (faulty \/ card)
    /\ busy' = FALSE
    /\ semDMA' = [d \in DOMAIN semDMA |-> FALSE]
    /\ clean' = ~Waiting("user")
    /\ UNCHANGED <<semDetect, mounted, dma, req>>

\* f_mount reads, f_mkfs writes.
MountAsks(step, d) ==
    /\ tpc = step
    /\ Request("thread", "none")
    /\ req' = [req EXCEPT !["thread"] = [NoRequest EXCEPT !.pc = "check", !.dir = d]]
    /\ UNCHANGED <<hal, up, busy, dma, semDMA, clean, faulty>>

MountGoesOn(step, ok, next) ==
    /\ Thread(step)
    /\ req["thread"].pc = "end" /\ req["thread"].ok = ok
    /\ req' = [req EXCEPT !["thread"] = NoRequest]
    /\ tpc' = next
    /\ mounted' = (ok /\ next = "deinit")
    /\ UNCHANGED <<semDetect, hal, up, busy, dma, semDMA, clean, faulty>>

\* Without a file system the card is formatted and mounted again; an error
\* is only reported.
Mount ==
    \/ MountAsks("mount", "RX") \/ MountAsks("mkfs", "TX") \/ MountAsks("remount", "RX")
    \/ MountGoesOn("mount", TRUE, "deinit") \/ MountGoesOn("mount", TRUE, "mkfs")
    \/ MountGoesOn("mkfs", TRUE, "remount") \/ MountGoesOn("remount", TRUE, "deinit")
    \/ \E step \in {"mount", "mkfs", "remount"} : MountGoesOn(step, FALSE, "deinit")

\* HAL_SD_DeInit in BSP_SD_DeInit: the controller is switched off.
DeInitHal ==
    /\ Thread("halDeInit")
    /\ tpc' = "unmount"
    /\ hal' = "RESET"
    /\ dma' = NoDma
    /\ UNCHANGED <<semDetect, mounted, up, busy, semDMA, req, clean, faulty>>

SdThread ==
    \/ (DetectITConfig \/ InitAcquire \/ InitDetect \/ DeInitAcquire \/ Unmount)
           /\ UNCHANGED xferVars
    \/ InitHal \/ Mount \/ DeInitHal

Transfer(r) ==
    \/ CheckStatus(r) \/ CheckTimeout(r)
    \/ Start(r) \/ StartFails(r)
    \/ AcquireDMA(r) \/ AcquireTimeout(r)
    \/ Finish(r)

SdNext ==
    \/ Slot \/ SdThread
    \/ UserAsks \/ UserGoesOn
    \/ \E r \in DOMAIN req : Transfer(r)
    \/ DataEnd \/ DataError \/ CardDone

SdSpec == SdInit /\ [][SdNext]_sdVars

\* Contacts settle, interrupts are taken, timers run, threads are scheduled,
\* a transfer ends one way or the other; nobody has to move the card.
SdFairSpec ==
    /\ SdSpec
    /\ SF_sdVars(Settle /\ UNCHANGED xferVars)
    /\ WF_sdVars(Chatter /\ pin # card /\ UNCHANGED xferVars)
    /\ WF_sdVars(Irq /\ UNCHANGED xferVars)
    /\ WF_sdVars(TimerExpires /\ UNCHANGED xferVars)
    /\ WF_sdVars(SdThread)
    /\ WF_sdVars(UserGoesOn)
    /\ \A r \in {"thread", "user"} : WF_sdVars(Transfer(r))
    /\ WF_sdVars(DataEnd \/ DataError)
    /\ WF_sdVars(CardDone)
-----------------------------------------------------------------------------
(* Properties.                                                             *)

\* A transfer that is reported as done was done, and not an earlier or a
\* later one in its place: the token it took is its own.  This holds as long
\* as no transfer has timed out, and the card was not changed under one,
\* since the last initialisation of the card with nobody inside; such a
\* transfer leaves a token behind, or takes the one of the next mount.
SuccessMeansDone ==
    clean => \A r \in DOMAIN req : req[r].pc = "finish" /\ req[r].ok => req[r].done

\* As long as the card is moved only once the detection has settled, a card
\* that stays is mounted in the end, unless its initialisation or a transfer
\* since then failed, and after a removal the volume is unmounted.
MountFollowsCard ==
    []calm => /\ <>[]card  => <>[](mounted \/ faulty)
              /\ <>[]~card => <>[]~mounted

\* Under the same condition no request waits for ever once a card stays in
\* the slot, not even one that was caught by the removal of the card before,
\* unless the card could not be initialised, which parks the SD thread.
RequestsEnd ==
    []calm => (<>[]card => \A r \in {"thread", "user"} :
                 req[r].pc # "none" ~> req[r].pc = "none" \/ (tpc = "parked" /\ faulty))
=============================================================================
