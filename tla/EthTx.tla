------------------------------- MODULE EthTx -------------------------------
(***************************************************************************)
(* The transmit path and the link thread of CM7/core/src/ethernetif.c.     *)
(*                                                                         *)
(* Senders copy their frame into the one tx_Buff under tx_ptk_mutex, hand  *)
(* a descriptor that points to it to the DMA and wait, still holding the   *)
(* mutex, for the transmit interrupt or a timeout.  The link thread polls  *)
(* the PHY and stops or restarts the MAC under the senders' feet.          *)
(*                                                                         *)
(* A frame is the number of its send; what tx_Buff holds is such a number. *)
(***************************************************************************)
EXTENDS Integers

CONSTANTS
    NTx,        \* ETH_TX_DESC_CNT
    Senders,    \* threads that call carbon_lwip_output
    NoSender,
    Modes,      \* speed and duplex the PHY can negotiate
    NoFrame,
    MaxSends    \* bound of the model: frames accepted in a behaviour

ASSUME EthTxAssumption ==
    /\ NTx \in Nat \ {0}
    /\ NoSender \notin Senders
    /\ Modes # {}
    /\ Modes \cap {"down", "autoneg"} = {}
    /\ NoFrame \notin Nat
    /\ MaxSends \in Nat

Index     == 0 .. (NTx - 1)
PhyStates == Modes \cup {"down", "autoneg"}

VARIABLES
    phy,            \* what LAN8742_GetLinkState answers
    linkUp,         \* netif_is_link_up
    lpc,            \* where the link thread is
    linkchanged, mode, \* its locals
    macMode,        \* speed and duplex the MAC is configured for
    gState,
    txState,
    running,        \* DMA transmission is on, and its interrupts are enabled
                    \* (but for the start of it)
    tx_ptk_mutex,
    spc, frame,     \* where each sender is, and its frame
    tx_Buff,
    own, asked,     \* OWN bit and frame of each descriptor
    tail,           \* DMACTDTPR
    cur,            \* descriptor the DMA uses next
    TI,             \* transmit interrupt pending
    txPktSemaphore,
    frames,         \* history: frames accepted,
    transmitted,    \*   those the DMA has sent,
    corrupted,      \*   those it sent with the bytes of another frame,
    ok,             \*   those carbon_lwip_output returned ERR_OK for
    timeouts        \*   whether a wait for the interrupt has timed out

linkVars == <<linkUp, lpc, linkchanged, mode, macMode>>
macVars  == <<gState, running>>
sendVars == <<tx_ptk_mutex, spc, frame, frames, ok, timeouts>>
dmaVars  == <<own, asked, tail, cur>>
wireVars == <<transmitted, corrupted>>
vars == <<phy, linkVars, macVars, txState, sendVars, tx_Buff, dmaVars, TI,
          txPktSemaphore, wireVars>>
-----------------------------------------------------------------------------
increase(i) == IF i = NTx - 1 THEN 0 ELSE i + 1

\* carbon_hw_ethernet_low_level_init: the interface is started when the PHY
\* has a link; a mode that is not negotiated yet gets the default.
Init ==
    /\ phy \in PhyStates
    /\ linkUp = (phy # "down")
    /\ lpc = "poll"
    /\ linkchanged = FALSE
    /\ mode \in Modes
    /\ macMode \in Modes
    /\ phy \in Modes => macMode = phy
    /\ gState = IF linkUp THEN "busy" ELSE "ready"
    /\ txState = IF linkUp THEN "busy" ELSE "ready"
    /\ running = linkUp
    /\ tx_ptk_mutex = NoSender
    /\ spc = [s \in Senders |-> "idle"]
    /\ frame = [s \in Senders |-> NoFrame]
    /\ tx_Buff = NoFrame
    /\ own = [i \in Index |-> FALSE]
    /\ asked = [i \in Index |-> NoFrame]
    /\ tail = 0
    /\ cur = 0
    /\ TI = FALSE
    /\ txPktSemaphore = FALSE
    /\ frames = 0
    /\ transmitted = {}
    /\ corrupted = {}
    /\ ok = {}
    /\ timeouts = FALSE

(* The hardware.                                                           *)
PhyChange(x) ==
    /\ phy' = x
    /\ phy # x
    /\ UNCHANGED <<linkVars, macVars, txState, sendVars, tx_Buff, dmaVars, TI,
                   txPktSemaphore, wireVars>>

DmaTransmit ==
    /\ running
    /\ own[cur]
    /\ transmitted' = transmitted \cup {asked[cur]}
    /\ corrupted' = IF tx_Buff = asked[cur] THEN corrupted
                    ELSE corrupted \cup {asked[cur]}
    /\ own' = [own EXCEPT ![cur] = FALSE]
    /\ cur' = increase(cur)
    /\ TI' = TRUE
    /\ UNCHANGED <<phy, linkVars, macVars, txState, sendVars, tx_Buff, asked,
                   tail, txPktSemaphore>>

(* carbon_hw_ethernet_isr, transmit and error parts.                       *)
IsrTransmit ==
    /\ running /\ TI /\ lpc # "clear"
    /\ txPktSemaphore' = TRUE
    /\ TI' = FALSE
    /\ UNCHANGED <<phy, linkVars, macVars, txState, sendVars, tx_Buff, dmaVars,
                   wireVars>>

\* A fatal bus error also masks the interrupts until the next start; nothing
\* below needs an interrupt to be taken.
IsrError ==
    /\ running /\ lpc # "clear"
    /\ gState' = "error"
    /\ UNCHANGED <<phy, linkVars, running, txState, sendVars, tx_Buff, dmaVars,
                   TI, txPktSemaphore, wireVars>>
-----------------------------------------------------------------------------
(* carbon_lwip_output.  A call that finds the transmitter stopped, or a    *)
(* frame that is too long, changes nothing.                                *)

SendLock(s) ==
    /\ spc[s] = "idle"
    /\ tx_ptk_mutex = NoSender
    /\ txState = "busy"
    /\ frames < MaxSends
    /\ tx_ptk_mutex' = s
    /\ frame' = [frame EXCEPT ![s] = frames]
    /\ frames' = frames + 1
    /\ spc' = [spc EXCEPT ![s] = "copy"]
    /\ UNCHANGED <<phy, linkVars, macVars, txState, ok, timeouts, tx_Buff,
                   dmaVars, TI, txPktSemaphore, wireVars>>

SendCopy(s) ==
    /\ spc[s] = "copy"
    /\ tx_Buff' = frame[s]
    /\ spc' = [spc EXCEPT ![s] = "issue"]
    /\ UNCHANGED <<phy, linkVars, macVars, txState, tx_ptk_mutex, frame, frames,
                   ok, timeouts, dmaVars, TI, txPktSemaphore, wireVars>>

Return(s) ==
    /\ tx_ptk_mutex' = NoSender
    /\ spc' = [spc EXCEPT ![s] = "idle"]
    /\ frame' = [frame EXCEPT ![s] = NoFrame]

\* The buffers of the chain hold more than tot_len: ERR_IF after some copying.
SendMismatch(s) ==
    /\ spc[s] = "copy"
    /\ tx_Buff' = frame[s]
    /\ Return(s)
    /\ UNCHANGED <<phy, linkVars, macVars, txState, frames, ok, timeouts,
                   dmaVars, TI, txPktSemaphore, wireVars>>

\* "tail pointer owned by the DMA"
SendOwned(s) ==
    /\ spc[s] = "issue"
    /\ own[tail]
    /\ Return(s)
    /\ UNCHANGED <<phy, linkVars, macVars, txState, frames, ok, timeouts,
                   tx_Buff, dmaVars, TI, txPktSemaphore, wireVars>>

SendIssue(s) ==
    /\ spc[s] = "issue"
    /\ ~own[tail]
    /\ own' = [own EXCEPT ![tail] = TRUE]
    /\ asked' = [asked EXCEPT ![tail] = frame[s]]
    /\ tail' = increase(tail)
    /\ spc' = [spc EXCEPT ![s] = "wait"]
    /\ UNCHANGED <<phy, linkVars, macVars, txState, tx_ptk_mutex, frame, frames,
                   ok, timeouts, tx_Buff, cur, TI, txPktSemaphore, wireVars>>

SendDone_no_wait(s) ==
    /\ spc[s] = "wait"
    /\ ok' = ok \cup {frame[s]}
    /\ Return(s)
    /\ UNCHANGED <<phy, linkVars, macVars, txState, frames, timeouts, tx_Buff,
                   dmaVars, TI, txPktSemaphore, wireVars>>

SendDone(s) ==
    /\ spc[s] = "wait"
    /\ txPktSemaphore
    /\ txPktSemaphore' = FALSE
    /\ ok' = ok \cup {frame[s]}
    /\ Return(s)
    /\ UNCHANGED <<phy, linkVars, macVars, txState, frames, timeouts, tx_Buff,
                   dmaVars, TI, wireVars>>

SendTimeout_keep_mutex(s) ==
    /\ spc[s] = "wait"
    /\ ~txPktSemaphore
    /\ timeouts' = TRUE
    /\ spc' = [spc EXCEPT ![s] = "idle"]
    /\ UNCHANGED <<phy, linkVars, macVars, txState, frames, ok, tx_Buff, dmaVars,
                   TI, txPktSemaphore, wireVars, tx_ptk_mutex, frame>>

SendTimeout_wait_forever(s) == FALSE

\* ETH_DMA_TRANSMIT_TIMEOUT passes; the descriptor stays with the DMA.
SendTimeout(s) ==
    /\ spc[s] = "wait"
    /\ ~txPktSemaphore
    /\ timeouts' = TRUE
    /\ Return(s)
    /\ UNCHANGED <<phy, linkVars, macVars, txState, frames, ok, tx_Buff, dmaVars,
                   TI, txPktSemaphore, wireVars>>
-----------------------------------------------------------------------------
(* carbon_lwip_link_thread, with carbon_hw_ethernet_stop and _start.       *)

LinkPollDown ==
    /\ lpc = "poll"
    /\ linkUp /\ phy = "down"
    /\ linkUp' = FALSE
    /\ lpc' = "stop"
    /\ UNCHANGED <<phy, linkchanged, mode, macMode, macVars, txState, sendVars,
                   tx_Buff, dmaVars, TI, txPktSemaphore, wireVars>>

LinkStop_keep_gState ==
    /\ lpc = "stop"
    /\ running' = FALSE
    /\ lpc' = "stopTx"
    /\ UNCHANGED <<phy, linkUp, linkchanged, mode, macMode, gState, txState,
                   sendVars, tx_Buff, dmaVars, TI, txPktSemaphore, wireVars>>

LinkStop ==
    /\ lpc = "stop"
    /\ running' = FALSE
    /\ gState' = "ready"
    /\ lpc' = "stopTx"
    /\ UNCHANGED <<phy, linkUp, linkchanged, mode, macMode, txState, sendVars,
                   tx_Buff, dmaVars, TI, txPktSemaphore, wireVars>>

LinkStopTx ==
    /\ lpc = "stopTx"
    /\ tx_ptk_mutex = NoSender
    /\ txState' = "ready"
    /\ lpc' = "poll"
    /\ UNCHANGED <<phy, linkUp, linkchanged, mode, macMode, macVars, sendVars,
                   tx_Buff, dmaVars, TI, txPktSemaphore, wireVars>>

\* linkchanged is never reset: once a mode was found, a poll that finds none
\* configures the one found before.
LinkPollUp ==
    /\ lpc = "poll"
    /\ ~linkUp /\ phy # "down"
    /\ mode' = IF phy \in Modes THEN phy ELSE mode
    /\ linkchanged' = (linkchanged \/ phy \in Modes)
    /\ IF linkchanged'
       THEN macMode' = mode' /\ lpc' = "start"
       ELSE UNCHANGED <<macMode, lpc>>
    /\ UNCHANGED <<phy, linkUp, macVars, txState, sendVars, tx_Buff, dmaVars,
                   TI, txPktSemaphore, wireVars>>

\* carbon_hw_ethernet_tx_dec_list_init and the start of the MAC and the DMA,
\* refused when gState is not READY ("could not be started").
LinkStart ==
    /\ lpc = "start"
    /\ own' = [i \in Index |-> FALSE]
    /\ asked' = [i \in Index |-> NoFrame]
    /\ tail' = 0
    /\ cur' = 0
    /\ IF gState = "ready"
       THEN running' = TRUE /\ lpc' = "clear"
       ELSE UNCHANGED running /\ lpc' = "up"
    /\ UNCHANGED <<phy, linkUp, linkchanged, mode, macMode, gState, txState,
                   sendVars, tx_Buff, TI, txPktSemaphore, wireVars>>

\* DMACSR |= (TPS | RPS) writes back what it reads to flags that are cleared
\* by writing 1: a TI that is pending is lost.  Then the interrupts are
\* enabled and gState is set.
LinkStartClear ==
    /\ lpc = "clear"
    /\ TI' = FALSE
    /\ gState' = "busy"
    /\ lpc' = "startTx"
    /\ UNCHANGED <<phy, linkUp, linkchanged, mode, macMode, running, txState,
                   sendVars, tx_Buff, dmaVars, txPktSemaphore, wireVars>>

LinkStartTx ==
    /\ lpc = "startTx"
    /\ tx_ptk_mutex = NoSender
    /\ txState' = "busy"
    /\ lpc' = "up"
    /\ UNCHANGED <<phy, linkUp, linkchanged, mode, macMode, macVars, sendVars,
                   tx_Buff, dmaVars, TI, txPktSemaphore, wireVars>>

LinkSetUp ==
    /\ lpc = "up"
    /\ linkUp' = TRUE
    /\ lpc' = "poll"
    /\ UNCHANGED <<phy, linkchanged, mode, macMode, macVars, txState, sendVars,
                   tx_Buff, dmaVars, TI, txPktSemaphore, wireVars>>

Send(s) ==
    \/ SendCopy(s) \/ SendMismatch(s) \/ SendOwned(s) \/ SendIssue(s)
    \/ SendDone(s) \/ SendTimeout(s)

Link ==
    \/ LinkPollDown \/ LinkStop \/ LinkStopTx
    \/ LinkPollUp \/ LinkStart \/ LinkStartClear \/ LinkStartTx \/ LinkSetUp

Next ==
    \/ \E x \in PhyStates : PhyChange(x)
    \/ DmaTransmit \/ IsrTransmit \/ IsrError
    \/ \E s \in Senders : SendLock(s) \/ Send(s)
    \/ Link

Spec == Init /\ [][Next]_vars

\* The link thread polls for ever and gets the mutex when its turn comes
\* (FreeRTOS hands it to the waiter), and a sender inside carbon_lwip_output
\* goes on: its wait is bounded by the timeout.  Nothing is assumed of the
\* DMA, of the PHY and of the interrupts.
FairSpec ==
    /\ Spec
    /\ SF_vars(Link)
    /\ \A s \in Senders : WF_vars(Send(s))
-----------------------------------------------------------------------------
(* Properties.                                                             *)

TypeOK ==
    /\ phy \in PhyStates
    /\ linkUp \in BOOLEAN
    /\ lpc \in {"poll", "stop", "stopTx", "start", "clear", "startTx", "up"}
    /\ linkchanged \in BOOLEAN /\ mode \in Modes /\ macMode \in Modes
    /\ gState \in {"ready", "busy", "error"}
    /\ txState \in {"ready", "busy"}
    /\ running \in BOOLEAN
    /\ tx_ptk_mutex \in Senders \cup {NoSender}
    /\ spc \in [Senders -> {"idle", "copy", "issue", "wait"}]
    /\ frame \in [Senders -> Nat \cup {NoFrame}]
    /\ tx_Buff \in Nat \cup {NoFrame}
    /\ own \in [Index -> BOOLEAN]
    /\ asked \in [Index -> Nat \cup {NoFrame}]
    /\ tail \in Index /\ cur \in Index
    /\ TI \in BOOLEAN /\ txPktSemaphore \in BOOLEAN
    /\ frames \in Nat
    /\ transmitted \subseteq Nat /\ corrupted \subseteq Nat /\ ok \subseteq Nat
    /\ timeouts \in BOOLEAN

\* As long as no send has timed out, carbon_lwip_output returns ERR_OK only
\* for a frame the DMA has sent, and no frame leaves with another's bytes:
\* the mutex held across the wait is what makes the single tx_Buff enough.
SentAsAsked == ~timeouts => ok \subseteq transmitted /\ corrupted = {}

\* The comment on txPktSemaphore takes a token for the end of the send that
\* waits for it: ERR_OK is returned only for a frame that was sent.
OkMeansSent == ok \subseteq transmitted

\* Between two polls the transmitter is open exactly when lwIP thinks the
\* link is up: a restart is never refused because of an old DMA error.
LinkMatchesTransmitter == lpc = "poll" => (linkUp <=> txState = "busy")

\* Every send returns: the timeout ends the wait whatever the DMA does.
SendReturns == \A s \in Senders : (spc[s] # "idle") ~> (spc[s] = "idle")

\* When the PHY keeps a negotiated link, the interface gets up and stays up.
LinkComesUp == <>[](phy \in Modes) => <>[](linkUp /\ txState = "busy")
=============================================================================
