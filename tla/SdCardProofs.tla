---------------------------- MODULE SdCardProofs ----------------------------
(***************************************************************************)
(* Proofs for the SD card: the detection is never left masked without a    *)
(* timer, and a transfer that succeeds was done, for any number of moves   *)
(* of the card.                                                            *)
(***************************************************************************)
EXTENDS SdCard, TLAPS

\* Until BSP_SD_DetectITConfig enables the interrupt there is nothing to handle.
Unset   == {"notify", "enable"}
BootInv == tpc \in Unset => ~isr /\ ~irqOn /\ timer = "off"
ArmedInv == BootInv /\ DetectionArmed

\* Who does not touch the interrupt, the state of the detection and the timer.
LEMMA ArmedKept ==
    ASSUME ArmedInv, UNCHANGED <<isr, irqOn, timer, detectPinStatus, early>>,
           tpc' \in Unset <=> tpc \in Unset
    PROVE  ArmedInv'
  BY DEF ArmedInv, BootInv, DetectionArmed, Unset

\* An interrupt that changes the state of the detection changes the timer and
\* the mask with it.
LEMMA SlotArmed ==
    ASSUME ArmedInv, Slot
    PROVE  ArmedInv'
<1> USE DEF ArmedInv, BootInv, DetectionArmed, Unset
<1>1. CASE Move \/ Chatter \/ Settle \/ TimerExpires
  BY <1>1, ArmedKept DEF Move, Chatter, Settle, TimerExpires, irqVars, threadVars
<1>2. CASE ExtiIrq
  BY <1>2 DEF ExtiIrq, threadVars
<1>3. CASE DetectInserted
  BY <1>3 DEF DetectInserted, threadVars
<1>4. CASE DetectRemoved
  BY <1>4 DEF DetectRemoved, threadVars
<1>5. CASE DetectEarly
  BY <1>5 DEF DetectEarly, threadVars
<1>6. CASE DetectAgain
  BY <1>6 DEF DetectAgain, threadVars
<1>7. CASE StabilityChecked
  BY <1>7 DEF StabilityChecked, threadVars
<1>8. CASE SuppressionEnds
  BY <1>8 DEF SuppressionEnds, threadVars
<1> QED
  BY <1>1, <1>2, <1>3, <1>4, <1>5, <1>6, <1>7, <1>8 DEF Slot, Irq

\* The boot enables the interrupt with no timer running.
LEMMA BootArmed ==
    ASSUME ArmedInv, DetectITConfig
    PROVE  ArmedInv'
<1>1. CASE EnableIrq
  BY <1>1 DEF EnableIrq, Boot, ArmedInv, BootInv, DetectionArmed, Unset
<1>2. CASE Notify \/ GetHandle \/ RegisterCallback \/ InitTimer
  BY <1>2, ArmedKept DEF Notify, GetHandle, RegisterCallback, InitTimer, Boot, Unset
<1> QED
  BY <1>1, <1>2 DEF DetectITConfig

\* Nobody else touches the three.
LEMMA DetectionStep == ArmedInv /\ [SdNext]_sdVars => ArmedInv'
<1> SUFFICES ASSUME ArmedInv, [SdNext]_sdVars PROVE ArmedInv'
  OBVIOUS
<1>1. ASSUME UNCHANGED detectVars PROVE ArmedInv'
  BY <1>1, ArmedKept DEF detectVars, irqVars, threadVars
<1>2. CASE Slot
  BY <1>2, SlotArmed
<1>3. CASE SdThread
  <2>1. CASE DetectITConfig
    BY <2>1, BootArmed
  <2>2. CASE InitAcquire \/ InitDetect \/ DeInitAcquire \/ Unmount \/ InitHal \/ DeInitHal
    BY <2>2, ArmedKept DEF InitAcquire, InitDetect, DeInitAcquire, Unmount, Acquire, InitHal,
       DeInitHal, Thread, irqVars, Unset
  <2>3. ASSUME NEW step, NEW d, MountAsks(step, d) PROVE ArmedInv'
    BY <1>1, <2>3 DEF MountAsks, Request
  <2>4. ASSUME NEW step \in {"mount", "mkfs", "remount"}, NEW ok,
               NEW next \in {"mkfs", "remount", "deinit"}, MountGoesOn(step, ok, next)
        PROVE ArmedInv'
    BY <2>4, ArmedKept DEF MountGoesOn, Thread, irqVars, Unset
  <2> QED
    BY <1>3, <2>1, <2>2, <2>3, <2>4 DEF SdThread, Mount
<1>4. CASE UserAsks \/ UserGoesOn
  BY <1>1, <1>4 DEF UserAsks, UserGoesOn, Request
<1>5. ASSUME NEW r, Transfer(r) PROVE ArmedInv'
  BY <1>1, <1>5 DEF Transfer, CheckStatus, CheckTimeout, Start, StartFails, AcquireDMA,
     AcquireTimeout, Finish, Request
<1>6. CASE DataEnd \/ DataError \/ CardDone
  BY <1>1, <1>6 DEF DataEnd, DataError, CardDone, Hardware
<1>7. CASE UNCHANGED sdVars
  BY <1>1, <1>7 DEF sdVars
<1> QED
  BY <1>2, <1>3, <1>4, <1>5, <1>6, <1>7 DEF SdNext

\* Whatever edges the contact makes, and whenever: the pin is masked only while
\* the timer that unmasks it runs, and a timer runs only while the state waits
\* for it, unless an edge called back before the boot had set the timer up.
THEOREM DetectionStaysArmed == SdSpec => []DetectionArmed
<1>1. SdInit => ArmedInv
  BY DEF SdInit, DetectInit, ArmedInv, BootInv, DetectionArmed, Unset
<1>2. ArmedInv => DetectionArmed
  BY DEF ArmedInv
<1> QED
  BY <1>1, <1>2, DetectionStep, PTL DEF SdSpec
-----------------------------------------------------------------------------
(* The transfers.  As long as the history is clean there is one request at *)
(* a time, the DMA works for the request that waits, and a token of        *)
(* semDMARX or semDMATX is of a transfer of that request.                  *)

Requesters == {"thread", "user"}
Dirs       == {"RX", "TX"}
Booting    == {"notify", "enable", "handle", "register", "timer"}
Mounting   == {"mount", "mkfs", "remount"}
Off        == {"unmount", "init", "detect", "hal"} \cup Booting

ReqSet == [pc : {"none", "check", "start", "wait", "finish", "end"}, dir : Dirs,
           ok : BOOLEAN, done : BOOLEAN]

XferTypes ==
    /\ req \in [Requesters -> ReqSet]
    /\ dma \in {NoDma} \cup [who : Requesters, dir : Dirs]
    /\ semDMA \in [Dirs -> BOOLEAN]

\* The SD thread asks while it mounts, the controller is off until the first
\* card and from a removal to the next card, and users get in while the volume is mounted.
MountInv ==
    /\ req["thread"].pc # "none" => tpc \in Mounting
    /\ tpc \in Off => hal = "RESET" /\ dma = NoDma
    /\ mounted => tpc \in {"deinit", "halDeInit", "unmount"}
    /\ clean /\ tpc \in Mounting => req["user"].pc = "none"

TokenInv ==
    /\ dma # NoDma => /\ req[dma.who].pc = "wait" /\ req[dma.who].dir = dma.dir
                      /\ \A d \in Dirs : ~semDMA[d]
    /\ \A d \in Dirs : semDMA[d] =>
           \E r \in Requesters : req[r].pc = "wait" /\ req[r].dir = d /\ req[r].done
    /\ \A r \in Requesters : req[r].pc = "finish" /\ req[r].ok => req[r].done

XferInv == XferTypes /\ MountInv /\ (clean => TokenInv)

\* While the history is clean nobody else is inside.
LEMMA Alone ==
    ASSUME XferInv, clean, NEW r \in Requesters, NEW q \in Requesters, r # q,
           req[r].pc # "none"
    PROVE  req[q].pc = "none"
  BY DEF XferInv, MountInv, Requesters

\* A request that does not wait for the DMA goes from one place to another.
LEMMA RequestMoves ==
    ASSUME XferInv, NEW r \in Requesters, req[r].pc # "wait",
           NEW e \in ReqSet, e.pc \notin {"wait", "finish"},
           req' = [req EXCEPT ![r] = e], UNCHANGED <<dma, semDMA>>, clean' => clean, MountInv'
    PROVE  XferInv'
<1>0. XferTypes
  BY DEF XferInv
<1>1. req'[r] = e /\ \A q \in Requesters : q # r => req'[q] = req[q]
  BY <1>0 DEF XferTypes
<1>2. XferTypes'
  BY <1>0 DEF XferTypes
<1>3. dma # NoDma => dma.who \in Requesters
  BY <1>0 DEF XferTypes
<1>4. ASSUME clean' PROVE TokenInv'
  BY <1>1, <1>3, <1>4 DEF XferInv, TokenInv
<1> QED
  BY <1>2, <1>4 DEF XferInv

\* The same place in the request, as the code writes it.
LEMMA ReqParts ==
    ASSUME XferTypes, NEW r \in Requesters, NEW p \in {"none", "check", "start", "wait", "finish", "end"},
           NEW d \in Dirs
    PROVE  /\ req[r] \in ReqSet
           /\ NoRequest \in ReqSet /\ NoRequest.pc = "none"
           /\ [NoRequest EXCEPT !.pc = "check", !.dir = d] \in ReqSet
           /\ [NoRequest EXCEPT !.pc = "check", !.dir = d].pc = "check"
           /\ [req[r] EXCEPT !.pc = p] \in ReqSet /\ [req[r] EXCEPT !.pc = p].pc = p
           /\ [req[r] EXCEPT !.pc = "end", !.ok = FALSE] \in ReqSet
           /\ [req[r] EXCEPT !.pc = "end", !.ok = FALSE].pc = "end"
<1>1. req[r] \in ReqSet
  BY DEF XferTypes
<1>2. NoRequest \in ReqSet /\ NoRequest.pc = "none"
  BY DEF NoRequest, ReqSet, Dirs
<1>3. /\ [NoRequest EXCEPT !.pc = "check", !.dir = d] \in ReqSet
      /\ [NoRequest EXCEPT !.pc = "check", !.dir = d].pc = "check"
  BY DEF NoRequest, ReqSet
<1>4. [req[r] EXCEPT !.pc = p] \in ReqSet /\ [req[r] EXCEPT !.pc = p].pc = p
  BY <1>1 DEF ReqSet
<1>5. /\ [req[r] EXCEPT !.pc = "end", !.ok = FALSE] \in ReqSet
      /\ [req[r] EXCEPT !.pc = "end", !.ok = FALSE].pc = "end"
  BY <1>1 DEF ReqSet
<1> QED
  BY <1>1, <1>2, <1>3, <1>4, <1>5

\* The thread and the controller stay where they are, and nobody new comes in.
LEMMA MountKept ==
    ASSUME XferInv, UNCHANGED <<tpc, hal, mounted>>, clean' => clean,
           \A q \in Requesters : req'[q].pc # "none" => req[q].pc # "none",
           dma' \in {dma, NoDma}
    PROVE  MountInv'
  BY DEF XferInv, MountInv, Requesters

\* SD_CheckStatusWithTimeout, and the failures before the DMA is started.
LEMMA CheckInv ==
    ASSUME XferInv, NEW r \in Requesters,
           CheckStatus(r) \/ CheckTimeout(r) \/ StartFails(r)
    PROVE  XferInv'
<1>0. XferTypes /\ req \in [Requesters -> ReqSet]
  BY DEF XferInv, XferTypes
<1>1. /\ UNCHANGED <<tpc, hal, mounted, dma, semDMA, clean>> /\ req[r].pc \in {"check", "start"}
      /\ \/ req' = [req EXCEPT ![r].pc = "start"]
         \/ req' = [req EXCEPT ![r] = [@ EXCEPT !.pc = "end", !.ok = FALSE]]
  BY DEF CheckStatus, CheckTimeout, StartFails, Fails, Request, To, detectVars, threadVars
<1>2. PICK e \in ReqSet : e.pc \in {"start", "end"} /\ req' = [req EXCEPT ![r] = e]
  <2>1. CASE req' = [req EXCEPT ![r].pc = "start"]
    <3>1. req' = [req EXCEPT ![r] = [req[r] EXCEPT !.pc = "start"]]
      BY <1>0, <2>1
    <3>2. [req[r] EXCEPT !.pc = "start"] \in ReqSet /\ [req[r] EXCEPT !.pc = "start"].pc = "start"
      BY <1>0, ReqParts DEF Dirs
    <3> QED
      BY <3>1, <3>2
  <2>2. CASE req' = [req EXCEPT ![r] = [@ EXCEPT !.pc = "end", !.ok = FALSE]]
    <3>1. req' = [req EXCEPT ![r] = [req[r] EXCEPT !.pc = "end", !.ok = FALSE]]
      BY <1>0, <2>2
    <3>2. /\ [req[r] EXCEPT !.pc = "end", !.ok = FALSE] \in ReqSet
          /\ [req[r] EXCEPT !.pc = "end", !.ok = FALSE].pc = "end"
      BY <1>0, ReqParts DEF Dirs
    <3> QED
      BY <3>1, <3>2
  <2> QED
    BY <1>1, <2>1, <2>2
<1>3. MountInv'
  BY <1>0, <1>1, <1>2, MountKept
<1> QED
  BY <1>1, <1>2, <1>3, RequestMoves

\* The DMA begins to work for the only request there is; no token is left.
LEMMA StartInv ==
    ASSUME XferInv, NEW r \in Requesters, Start(r)
    PROVE  XferInv'
<1>0. XferTypes /\ MountInv /\ (clean => TokenInv)
  BY DEF XferInv
<1>1. /\ UNCHANGED <<tpc, mounted, semDMA, clean>> /\ req[r].pc = "start"
      /\ hal = "READY" /\ dma' = [who |-> r, dir |-> req[r].dir]
      /\ req' = [req EXCEPT ![r].pc = "wait"]
  BY DEF Start, Request, To, detectVars, threadVars
<1>2. /\ req'[r].pc = "wait" /\ req'[r].dir = req[r].dir /\ req[r].dir \in Dirs
      /\ req'[r] \in ReqSet /\ \A q \in Requesters : q # r => req'[q] = req[q]
  BY <1>0, <1>1 DEF XferTypes, ReqSet
<1>3. XferTypes'
  BY <1>0, <1>1, <1>2 DEF XferTypes
<1>4. MountInv'
  BY <1>0, <1>1, <1>2 DEF MountInv, Requesters
<1>5. ASSUME clean' PROVE TokenInv'
  <2>1. \A q \in Requesters : q # r => req[q].pc = "none"
    BY <1>1, <1>5, Alone
  <2>2. \A d \in Dirs : ~semDMA[d]
    BY <1>0, <1>1, <1>5, <2>1 DEF TokenInv
  <2>3. dma'.who = r /\ dma'.dir = req'[r].dir
    BY <1>1, <1>2
  <2> QED
    BY <1>1, <1>2, <2>1, <2>2, <2>3 DEF TokenInv
<1> QED
  BY <1>3, <1>4, <1>5 DEF XferInv

\* The token that is taken is the one of the transfer that was waited for.
LEMMA AcquireInv ==
    ASSUME XferInv, NEW r \in Requesters, AcquireDMA(r)
    PROVE  XferInv'
<1>0. XferTypes /\ MountInv /\ (clean => TokenInv)
  BY DEF XferInv
<1>1. /\ UNCHANGED <<tpc, mounted, hal, dma, clean>> /\ req[r].pc = "wait"
      /\ semDMA[req[r].dir] /\ semDMA' = [semDMA EXCEPT ![req[r].dir] = FALSE]
      /\ req' = [req EXCEPT ![r] = [req[r] EXCEPT !.pc = "finish", !.ok = TRUE]]
  BY <1>0 DEF AcquireDMA, Request, detectVars, threadVars, XferTypes
<1>2. /\ req'[r].pc = "finish" /\ req'[r].done = req[r].done /\ req[r].dir \in Dirs
      /\ req'[r] \in ReqSet /\ \A q \in Requesters : q # r => req'[q] = req[q]
  BY <1>0, <1>1 DEF XferTypes, ReqSet
<1>3. /\ semDMA' \in [Dirs -> BOOLEAN] /\ ~semDMA'[req[r].dir]
      /\ \A d \in Dirs : d # req[r].dir => semDMA'[d] = semDMA[d]
  BY <1>0, <1>1, <1>2 DEF XferTypes
<1>4. XferTypes'
  BY <1>0, <1>1, <1>2, <1>3 DEF XferTypes
<1>5. MountInv'
  BY <1>1, <1>2, MountKept
<1>6. ASSUME clean' PROVE TokenInv'
  <2>1. \A q \in Requesters : q # r => req[q].pc = "none"
    BY <1>1, <1>6, Alone
  <2>2. dma = NoDma /\ req[r].done /\ \A d \in Dirs : ~semDMA'[d]
    BY <1>0, <1>1, <1>2, <1>3, <1>6, <2>1 DEF TokenInv
  <2> QED
    BY <1>1, <1>2, <2>1, <2>2 DEF TokenInv
<1> QED
  BY <1>4, <1>5, <1>6 DEF XferInv

\* A timeout ends the clean history.
LEMMA TimeoutInv ==
    ASSUME XferInv, NEW r \in Requesters, AcquireTimeout(r)
    PROVE  XferInv'
<1>0. XferTypes /\ MountInv /\ req \in [Requesters -> ReqSet]
  BY DEF XferInv, XferTypes
<1>1. /\ UNCHANGED <<tpc, mounted, hal, dma, semDMA>> /\ ~clean' /\ req[r].pc = "wait"
      /\ req' = [req EXCEPT ![r].pc = "finish"]
  BY DEF AcquireTimeout, Request, To, detectVars, threadVars
<1>2. /\ req' \in [Requesters -> ReqSet]
      /\ \A q \in Requesters : q # r => req'[q] = req[q]
  BY <1>0, <1>1 DEF ReqSet
<1>3. XferTypes'
  BY <1>0, <1>1, <1>2 DEF XferTypes
<1>4. MountInv'
  BY <1>1, <1>2, MountKept
<1> QED
  BY <1>1, <1>3, <1>4 DEF XferInv

\* The card is ready again, and the request is answered.
LEMMA FinishInv ==
    ASSUME XferInv, NEW r \in Requesters, Finish(r)
    PROVE  XferInv'
<1>0. XferTypes /\ req \in [Requesters -> ReqSet]
  BY DEF XferInv, XferTypes
<1>1. /\ UNCHANGED <<tpc, hal, mounted, dma, semDMA, clean>> /\ req[r].pc = "finish"
      /\ req' = [req EXCEPT ![r] = [req[r] EXCEPT !.pc = "end"]]
  BY <1>0 DEF Finish, Request, To, detectVars, threadVars
<1>2. [req[r] EXCEPT !.pc = "end"] \in ReqSet /\ [req[r] EXCEPT !.pc = "end"].pc = "end"
  BY <1>0, ReqParts DEF Dirs
<1>3. MountInv'
  BY <1>0, <1>1, <1>2, MountKept
<1> QED
  BY <1>1, <1>2, <1>3, RequestMoves

\* A user enters the mounted volume, or leaves it.
LEMMA UserInv ==
    ASSUME XferInv, UserAsks \/ UserGoesOn
    PROVE  XferInv'
<1>0. XferTypes /\ MountInv /\ "user" \in Requesters /\ req \in [Requesters -> ReqSet]
  BY DEF XferInv, XferTypes, Requesters
<1>1. UNCHANGED <<tpc, hal, mounted, dma, semDMA, clean>>
  BY DEF UserAsks, UserGoesOn, Request, detectVars, threadVars
<1>2. CASE UserAsks
  <2>1. PICK d \in Dirs :
            req' = [req EXCEPT !["user"] = [NoRequest EXCEPT !.pc = "check", !.dir = d]]
    BY <1>0, <1>2 DEF UserAsks, XferTypes
  <2>2. /\ [NoRequest EXCEPT !.pc = "check", !.dir = d] \in ReqSet
        /\ [NoRequest EXCEPT !.pc = "check", !.dir = d].pc = "check"
    BY <1>0, ReqParts
  <2>3. mounted /\ req["user"].pc = "none" /\ req'["thread"] = req["thread"]
    BY <1>0, <1>2, <2>1 DEF UserAsks, Request, Requesters
  <2>4. MountInv'
    BY <1>0, <1>1, <2>3 DEF MountInv, Mounting
  <2> QED
    BY <1>0, <1>1, <2>1, <2>2, <2>3, <2>4, RequestMoves
<1>3. CASE UserGoesOn
  <2>1. req["user"].pc = "end" /\ req' = [req EXCEPT !["user"] = NoRequest]
    BY <1>3 DEF UserGoesOn, Request
  <2>2. NoRequest \in ReqSet /\ NoRequest.pc = "none"
    BY <1>0, ReqParts DEF Dirs
  <2>3. MountInv'
    BY <1>0, <1>1, <2>1, <2>2, MountKept
  <2> QED
    BY <1>0, <1>1, <2>1, <2>2, <2>3, RequestMoves
<1> QED
  BY <1>2, <1>3

\* The completion interrupt gives the token to the request it is for.
LEMMA DataEndInv ==
    ASSUME XferInv, DataEnd
    PROVE  XferInv'
<1>0. XferTypes /\ MountInv /\ (clean => TokenInv)
  BY DEF XferInv
<1>1. /\ UNCHANGED <<tpc, mounted, clean>> /\ dma # NoDma /\ dma' = NoDma
      /\ hal = "BUSY" /\ hal' = "READY"
      /\ semDMA' = [semDMA EXCEPT ![dma.dir] = TRUE]
      /\ req' = [req EXCEPT ![dma.who].done = TRUE]
  BY DEF DataEnd, Hardware, detectVars, threadVars
<1> DEFINE w == dma.who
           e == dma.dir
<1>2. w \in Requesters /\ e \in Dirs
  BY <1>0, <1>1 DEF XferTypes
<1> HIDE DEF w, e
<1>3. /\ req'[w].pc = req[w].pc /\ req'[w].dir = req[w].dir /\ req'[w].done
      /\ req' \in [Requesters -> ReqSet]
      /\ \A q \in Requesters : q # w => req'[q] = req[q]
  BY <1>0, <1>1, <1>2 DEF XferTypes, ReqSet, w
<1>4. /\ semDMA' \in [Dirs -> BOOLEAN]
      /\ \A d \in Dirs : d # e => semDMA'[d] = semDMA[d]
  BY <1>0, <1>1, <1>2 DEF XferTypes, e
<1>5. XferTypes'
  BY <1>1, <1>3, <1>4 DEF XferTypes
<1>6. MountInv'
  BY <1>0, <1>1, <1>2, <1>3 DEF MountInv, Requesters
<1>7. ASSUME clean' PROVE TokenInv'
  <2>1. req[w].pc = "wait" /\ req[w].dir = e /\ \A d \in Dirs : ~semDMA[d]
    BY <1>0, <1>1, <1>7 DEF TokenInv, w, e
  <2>2. \A q \in Requesters : q # w => req[q].pc = "none"
    BY <1>1, <1>2, <1>7, <2>1, Alone
  <2>3. \A d \in Dirs : semDMA'[d] => req'[w].pc = "wait" /\ req'[w].dir = d /\ req'[w].done
    BY <1>3, <1>4, <2>1
  <2>4. \A q \in Requesters : req'[q].pc # "finish"
    BY <1>3, <2>1, <2>2
  <2> QED
    BY <1>1, <1>2, <2>3, <2>4 DEF TokenInv
<1> QED
  BY <1>5, <1>6, <1>7 DEF XferInv

\* After an error there is no token, and the card may go back to its state.
LEMMA DataErrorInv ==
    ASSUME XferInv, DataError \/ CardDone
    PROVE  XferInv'
<1>0. XferTypes /\ MountInv /\ (clean => TokenInv)
  BY DEF XferInv
<1>1. /\ UNCHANGED <<tpc, mounted, clean, semDMA, req>>
      /\ dma' \in {dma, NoDma}
      /\ hal' = hal \/ (hal = "BUSY" /\ hal' = "READY")
  BY DEF DataError, CardDone, Hardware, detectVars, threadVars
<1>2. XferTypes'
  BY <1>0, <1>1 DEF XferTypes
<1>3. MountInv'
  BY <1>0, <1>1 DEF MountInv
<1>4. ASSUME clean' PROVE TokenInv'
  BY <1>0, <1>1, <1>4 DEF TokenInv
<1> QED
  BY <1>2, <1>3, <1>4 DEF XferInv

\* Moving the card ends the clean history if somebody is inside, and nothing
\* else of the slot and its interrupts concerns the transfers.
LEMMA SlotInv ==
    ASSUME XferInv, Slot
    PROVE  XferInv'
<1>0. XferTypes /\ MountInv /\ (clean => TokenInv)
  BY DEF XferInv
<1>1. UNCHANGED <<tpc, mounted, hal, dma, semDMA, req>> /\ (clean' => clean)
  <2>1. CASE /\ Move
             /\ clean' = (clean /\ \A r \in DOMAIN req : ~Waiting(r))
             /\ UNCHANGED <<hal, busy, dma, semDMA, req, faulty>>
    <3>1. clean' => clean
      BY <2>1, Zenon
    <3> QED
      BY <2>1, <3>1 DEF Move, threadVars
  <2>2. CASE (Chatter \/ Settle \/ Irq \/ TimerExpires) /\ UNCHANGED xferVars
    BY <2>2 DEF Chatter, Settle, Irq, TimerExpires, ExtiIrq, DetectInserted, DetectRemoved,
       DetectEarly, DetectAgain, StabilityChecked, SuppressionEnds, xferVars, threadVars
  <2> QED
    BY <2>1, <2>2 DEF Slot
<1>2. XferTypes'
  BY <1>0, <1>1 DEF XferTypes
<1>3. MountInv'
  BY <1>0, <1>1 DEF MountInv
<1>4. ASSUME clean' PROVE TokenInv'
  BY <1>0, <1>1, <1>4 DEF TokenInv
<1> QED
  BY <1>2, <1>3, <1>4 DEF XferInv

\* The boot goes on; the thread waits for the card and unmounts it.
LEMMA ThreadWaitInv ==
    ASSUME XferInv, DetectITConfig \/ InitAcquire \/ InitDetect \/ DeInitAcquire \/ Unmount,
           UNCHANGED xferVars
    PROVE  XferInv'
<1>0. XferTypes /\ MountInv /\ (clean => TokenInv)
  BY DEF XferInv
<1>1. UNCHANGED <<hal, dma, semDMA, req, clean>>
  BY DEF xferVars
<1>2. XferTypes' /\ (clean' => TokenInv')
  BY <1>0, <1>1 DEF XferTypes, TokenInv
<1>3. /\ \/ tpc \in Booting /\ tpc' \in Booting \cup {"init"} /\ mounted' = mounted
         \/ tpc = "init" /\ tpc' = "detect" /\ mounted' = mounted
         \/ tpc = "detect" /\ tpc' \in {"hal", "parked"} /\ mounted' = mounted
         \/ tpc = "deinit" /\ tpc' = "halDeInit" /\ mounted' = mounted
         \/ tpc = "unmount" /\ tpc' = "init" /\ ~mounted'
  BY DEF DetectITConfig, Notify, EnableIrq, GetHandle, RegisterCallback, InitTimer, Boot, Booting,
     InitAcquire, InitDetect, DeInitAcquire, Unmount, Acquire, Thread
<1>4. MountInv'
  BY <1>0, <1>1, <1>3 DEF MountInv, Mounting, Off, Booting
<1> QED
  BY <1>2, <1>4 DEF XferInv

\* A card is initialised: the tokens that are left are taken, and the history is
\* clean if nobody is caught inside.
LEMMA InitHalInv ==
    ASSUME XferInv, InitHal
    PROVE  XferInv'
<1>0. XferTypes /\ MountInv
  BY DEF XferInv
<1>1. /\ tpc = "hal" /\ UNCHANGED <<mounted, dma, req>>
      /\ tpc' \in {"mount", "parked"}
      /\ semDMA' = [d \in Dirs |-> FALSE]
      /\ clean' <=> req["user"].pc = "none"
  BY <1>0 DEF InitHal, Thread, Waiting, XferTypes
<1>2. dma = NoDma /\ req["thread"].pc = "none" /\ ~mounted
  BY <1>0, <1>1 DEF MountInv, Off, Mounting, Booting
<1>3. XferTypes'
  BY <1>0, <1>1 DEF XferTypes
<1>4. MountInv'
  BY <1>1, <1>2 DEF MountInv, Off, Mounting, Booting
<1>5. ASSUME clean' PROVE TokenInv'
  <2>1. \A r \in Requesters : req'[r].pc = "none"
    BY <1>1, <1>2, <1>5 DEF Requesters
  <2>2. dma' = NoDma /\ \A d \in Dirs : ~semDMA'[d]
    BY <1>1, <1>2
  <2> QED
    BY <2>1, <2>2 DEF TokenInv
<1> QED
  BY <1>3, <1>4, <1>5 DEF XferInv

\* f_mount and f_mkfs ask for a transfer, and go on when it is answered.
LEMMA MountsInv ==
    ASSUME XferInv, Mount
    PROVE  XferInv'
<1>0. XferTypes /\ MountInv /\ "thread" \in Requesters /\ req \in [Requesters -> ReqSet]
  BY DEF XferInv, XferTypes, Requesters
<1>1. ASSUME NEW step \in Mounting, NEW d \in Dirs, MountAsks(step, d) PROVE XferInv'
  <2>1. /\ UNCHANGED <<tpc, mounted, hal, dma, semDMA, clean>> /\ tpc = step
        /\ req["thread"].pc = "none"
        /\ req' = [req EXCEPT !["thread"] = [NoRequest EXCEPT !.pc = "check", !.dir = d]]
    BY <1>1 DEF MountAsks, Request, detectVars, threadVars
  <2>2. /\ [NoRequest EXCEPT !.pc = "check", !.dir = d] \in ReqSet
        /\ [NoRequest EXCEPT !.pc = "check", !.dir = d].pc = "check"
    BY <1>0, ReqParts
  <2>3. req'["user"] = req["user"]
    BY <1>0, <2>1 DEF Requesters
  <2>4. MountInv'
    BY <1>0, <2>1, <2>3 DEF MountInv
  <2> QED
    BY <1>0, <2>1, <2>2, <2>4, RequestMoves
<1>2. ASSUME NEW step \in Mounting, NEW ok \in BOOLEAN,
             NEW next \in {"mkfs", "remount", "deinit"}, MountGoesOn(step, ok, next)
      PROVE  XferInv'
  <2>1. /\ UNCHANGED <<hal, dma, semDMA, clean>> /\ tpc = step /\ tpc' = next
        /\ req["thread"].pc = "end" /\ mounted' = (ok /\ next = "deinit")
        /\ req' = [req EXCEPT !["thread"] = NoRequest]
    BY <1>2 DEF MountGoesOn, Thread
  <2>2. NoRequest \in ReqSet /\ NoRequest.pc = "none"
    BY <1>0, ReqParts DEF Dirs
  <2>3. req'["user"] = req["user"] /\ req'["thread"].pc = "none"
    BY <1>0, <2>1, <2>2 DEF Requesters
  <2>4. mounted' => next = "deinit"
    BY <2>1
  <2>5. MountInv'
    BY <1>0, <2>1, <2>3, <2>4 DEF MountInv, Mounting, Off, Booting
  <2> QED
    BY <1>0, <2>1, <2>2, <2>5, RequestMoves
<1> QED
  BY <1>1, <1>2 DEF Mount, Mounting, Dirs

\* The controller is switched off, whatever it was doing.
LEMMA DeInitInv ==
    ASSUME XferInv, DeInitHal
    PROVE  XferInv'
<1>0. XferTypes /\ MountInv /\ (clean => TokenInv)
  BY DEF XferInv
<1>1. /\ UNCHANGED <<mounted, semDMA, req, clean>> /\ tpc = "halDeInit" /\ tpc' = "unmount"
      /\ hal' = "RESET" /\ dma' = NoDma
  BY DEF DeInitHal, Thread
<1>2. XferTypes' /\ (clean' => TokenInv')
  BY <1>0, <1>1 DEF XferTypes, TokenInv
<1>3. MountInv'
  BY <1>0, <1>1 DEF MountInv, Mounting, Off, Booting
<1> QED
  BY <1>2, <1>3 DEF XferInv

\* Every step of the card, its driver and its users keeps it.
LEMMA XferStep == XferInv /\ [SdNext]_sdVars => XferInv'
<1> SUFFICES ASSUME XferInv, [SdNext]_sdVars PROVE XferInv'
  OBVIOUS
<1>1. CASE Slot
  BY <1>1, SlotInv
<1>2. CASE SdThread
  BY <1>2, ThreadWaitInv, InitHalInv, MountsInv, DeInitInv DEF SdThread
<1>3. CASE UserAsks \/ UserGoesOn
  BY <1>3, UserInv
<1>4. ASSUME NEW r \in DOMAIN req, Transfer(r) PROVE XferInv'
  <2>1. r \in Requesters
    BY <1>4 DEF XferInv, XferTypes
  <2> QED
    BY <1>4, <2>1, CheckInv, StartInv, AcquireInv, TimeoutInv, FinishInv DEF Transfer
<1>5. CASE DataEnd
  BY <1>5, DataEndInv
<1>6. CASE DataError \/ CardDone
  BY <1>6, DataErrorInv
<1>7. CASE UNCHANGED sdVars
  BY <1>7 DEF sdVars, detectVars, threadVars, xferVars, XferInv, XferTypes, MountInv, TokenInv
<1> QED
  BY <1>1, <1>2, <1>3, <1>4, <1>5, <1>6, <1>7 DEF SdNext

\* It holds before the first card.
LEMMA XferInit == SdInit => XferInv
<1> SUFFICES ASSUME SdInit PROVE XferInv
  OBVIOUS
<1>1. /\ tpc = "notify" /\ ~mounted /\ hal = "RESET" /\ dma = NoDma
      /\ semDMA = [d \in Dirs |-> FALSE] /\ req = [r \in Requesters |-> NoRequest]
  BY DEF SdInit, DetectInit, Dirs, Requesters
<1>2. NoRequest \in ReqSet /\ NoRequest.pc = "none"
  BY DEF NoRequest, ReqSet, Dirs
<1>3. XferTypes
  BY <1>1, <1>2 DEF XferTypes
<1>4. MountInv /\ TokenInv
  BY <1>1, <1>2 DEF MountInv, TokenInv, Mounting, Requesters
<1> QED
  BY <1>3, <1>4 DEF XferInv

\* BSP_SD_ReadBlocks_DMA and BSP_SD_WriteBlocks_DMA report success only for a
\* transfer that took place, as long as no transfer has timed out and no card was
\* changed under one since the last initialisation with nobody inside: for any
\* number of moves of the card, and every interleaving of the mount, a user, the
\* completion interrupt and the removal.
THEOREM SuccessIsDone == SdSpec => []SuccessMeansDone
<1>1. XferInv => SuccessMeansDone
  BY DEF XferInv, XferTypes, TokenInv, SuccessMeansDone
<1> QED
  BY <1>1, XferInit, XferStep, PTL DEF SdSpec
=============================================================================
