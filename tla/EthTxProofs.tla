----------------------------- MODULE EthTxProofs -----------------------------
(***************************************************************************)
(* Proofs about the transmit path and the link thread, for every number of *)
(* descriptors, every set of senders and every number of frames.           *)
(***************************************************************************)
EXTENDS EthTx, TLAPS

(* The link thread.  While lwIP thinks the link is down the MAC is ready   *)
(* to be started and stopped, so that no DMA error can come in between.    *)
LinkInv ==
    /\ lpc \in {"poll", "stop", "stopTx", "start", "clear", "startTx", "up"}
    /\ lpc # "poll" => ~linkUp
    /\ lpc \in {"stopTx", "start"} \/ (lpc = "poll" /\ ~linkUp)
           => gState = "ready" /\ ~running
    /\ lpc = "up" => txState = "busy"
    /\ LinkMatchesTransmitter

\* carbon_hw_ethernet_low_level_init
LEMMA LinkInvInit == Init => LinkInv
<1> SUFFICES ASSUME Init PROVE LinkInv
  OBVIOUS
<1>1. CASE linkUp
  BY <1>1 DEF Init, LinkInv, LinkMatchesTransmitter
<1>2. CASE ~linkUp
  BY <1>2 DEF Init, LinkInv, LinkMatchesTransmitter
<1> QED
  BY <1>1, <1>2

\* Neither the senders and the hardware nor the link thread break it.
LEMMA LinkInvStep == LinkInv /\ [Next]_vars => LinkInv'
<1> SUFFICES ASSUME LinkInv, [Next]_vars PROVE LinkInv'
  OBVIOUS
<1> USE DEF LinkInv, LinkMatchesTransmitter
<1>1. ASSUME UNCHANGED <<linkVars, macVars, txState>> PROVE LinkInv'
  BY <1>1 DEF linkVars, macVars
<1>2. CASE \E x \in PhyStates : PhyChange(x)
  BY <1>1, <1>2 DEF PhyChange
<1>3. CASE DmaTransmit \/ IsrTransmit
  BY <1>1, <1>3 DEF DmaTransmit, IsrTransmit
<1>4. CASE IsrError
  BY <1>4 DEF IsrError, linkVars
<1>5. CASE \E s \in Senders : SendLock(s) \/ Send(s)
  BY <1>1, <1>5 DEF SendLock, Send, SendCopy, SendMismatch, SendOwned, SendIssue,
     SendDone, SendTimeout
<1>6. CASE LinkPollDown
  BY <1>6 DEF LinkPollDown, macVars
<1>7. CASE LinkStop
  BY <1>7 DEF LinkStop
<1>8. CASE LinkStopTx
  BY <1>8 DEF LinkStopTx, macVars
<1>9. CASE LinkPollUp
  BY <1>9 DEF LinkPollUp, macVars
<1>10. CASE LinkStart \/ LinkStartClear
  BY <1>10 DEF LinkStart, LinkStartClear
<1>11. CASE LinkStartTx
  BY <1>11 DEF LinkStartTx, macVars
<1>12. CASE LinkSetUp
  BY <1>12 DEF LinkSetUp, macVars
<1>13. CASE UNCHANGED vars
  BY <1>1, <1>13 DEF vars
<1> QED
  BY <1>2, <1>3, <1>4, <1>5, <1>6, <1>7, <1>8, <1>9, <1>10, <1>11, <1>12, <1>13
  DEF Next, Link

\* Between two polls the transmitter is open exactly when lwIP thinks the link
\* is up, whatever the PHY does and whenever the DMA reports an error.
THEOREM LinkMatches == Spec => []LinkMatchesTransmitter
<1>1. LinkInv => LinkMatchesTransmitter
  BY DEF LinkInv
<1> QED
  BY <1>1, LinkInvInit, LinkInvStep, PTL DEF Spec
-----------------------------------------------------------------------------
(* The senders.  Who is inside carbon_lwip_output has the mutex, and a     *)
(* frame of its own.                                                       *)
MutexInv ==
    \A s \in Senders : spc[s] # "idle" => tx_ptk_mutex = s /\ frame[s] \in Nat

OwnedInv == \A i \in Index : own[i] => asked[i] \in Nat

(* As long as no wait has timed out, a descriptor of the DMA, the pending  *)
(* interrupt and the token are all of the one sender that waits, and only  *)
(* one of them is there at a time; after the descriptor is done its frame  *)
(* has been sent.                                                          *)
Waits(f) == \E s \in Senders : spc[s] = "wait" /\ frame[s] = f

TokenInv ==
    /\ \A i \in Index : own[i] => Waits(asked[i]) /\ ~TI /\ ~txPktSemaphore
    /\ \A i, j \in Index : own[i] /\ own[j] => i = j
    /\ ~(TI /\ txPktSemaphore)
    /\ TI \/ txPktSemaphore => \E f \in transmitted : Waits(f)
    /\ \A s \in Senders : spc[s] \in {"issue", "wait"} => tx_Buff = frame[s]

SendInv ==
    /\ TypeOK
    /\ MutexInv
    /\ OwnedInv
    /\ ~timeouts => TokenInv
    /\ SentAsAsked

\* Initially nobody sends.
LEMMA SendInvInit == Init => SendInv
<1> SUFFICES ASSUME Init PROVE SendInv
  OBVIOUS
<1>1. TypeOK
  <2>1. /\ linkUp \in BOOLEAN /\ linkchanged \in BOOLEAN /\ running \in BOOLEAN
        /\ TI \in BOOLEAN /\ txPktSemaphore \in BOOLEAN /\ timeouts \in BOOLEAN
        /\ own \in [Index -> BOOLEAN]
    BY Zenon DEF Init
  <2>2. 0 \in Index
    BY EthTxAssumption DEF Index
  <2>3. gState \in {"ready", "busy"} /\ txState \in {"ready", "busy"}
    BY Zenon DEF Init
  <2> QED
    BY <2>1, <2>2, <2>3 DEF Init, TypeOK
<1>2. MutexInv /\ OwnedInv /\ TokenInv /\ SentAsAsked
  BY DEF Init, MutexInv, OwnedInv, TokenInv, SentAsAsked
<1> QED
  BY <1>1, <1>2 DEF SendInv

\* The ring of descriptors is left by no step of its indices.
LEMMA IncreaseInIndex == \A i \in Index : increase(i) \in Index
  BY EthTxAssumption DEF Index, increase

\* What the variables of the link thread and of the MAC are after a step.
LinkTypes ==
    /\ phy \in PhyStates
    /\ linkUp \in BOOLEAN
    /\ lpc \in {"poll", "stop", "stopTx", "start", "clear", "startTx", "up"}
    /\ linkchanged \in BOOLEAN /\ mode \in Modes /\ macMode \in Modes
    /\ gState \in {"ready", "busy", "error"}
    /\ txState \in {"ready", "busy"}
    /\ running \in BOOLEAN

\* The other variables: those of the senders and of the DMA.
SendTypes ==
    /\ tx_ptk_mutex \in Senders \cup {NoSender}
    /\ spc \in [Senders -> {"idle", "copy", "issue", "wait"}]
    /\ frame \in [Senders -> Nat \cup {NoFrame}]
    /\ tx_Buff \in Nat \cup {NoFrame}
    /\ own \in [Index -> BOOLEAN]
    /\ asked \in [Index -> Nat \cup {NoFrame}]
    /\ tail \in Index /\ cur \in Index
    /\ TI \in BOOLEAN /\ txPktSemaphore \in BOOLEAN
    /\ frames \in Nat
    /\ transmitted \subseteq Nat /\ corrupted \subseteq Nat /\ ok \subseteq Nat
    /\ timeouts \in BOOLEAN

\* The two together are the type invariant.
LEMMA TypeParts == TypeOK <=> LinkTypes /\ SendTypes
  BY Zenon DEF TypeOK, LinkTypes, SendTypes

\* Every step leaves the variables of the link thread in their types.
LEMMA LinkTypesStep == LinkTypes /\ [Next]_vars => LinkTypes'
<1> SUFFICES ASSUME LinkTypes, [Next]_vars PROVE LinkTypes'
  OBVIOUS
<1> USE DEF LinkTypes
<1>1. ASSUME UNCHANGED <<phy, linkVars, macVars, txState>> PROVE LinkTypes'
  BY <1>1, Zenon DEF linkVars, macVars
<1>2. CASE \E x \in PhyStates : PhyChange(x)
  BY <1>2, Zenon DEF PhyChange, linkVars, macVars
<1>3. CASE DmaTransmit \/ IsrTransmit
  BY <1>1, <1>3 DEF DmaTransmit, IsrTransmit
<1>4. CASE IsrError
  BY <1>4, Zenon DEF IsrError, linkVars
<1>5. CASE \E s \in Senders : SendLock(s) \/ Send(s)
  BY <1>1, <1>5 DEF SendLock, Send, SendCopy, SendMismatch, SendOwned, SendIssue,
     SendDone, SendTimeout
<1>6. CASE LinkPollDown
  BY <1>6, Zenon DEF LinkPollDown, macVars
<1>7. CASE LinkStop
  BY <1>7, Zenon DEF LinkStop
<1>8. CASE LinkStopTx
  BY <1>8, Zenon DEF LinkStopTx, macVars
<1>9. CASE LinkPollUp
  <2>1. mode' \in Modes /\ linkchanged' \in BOOLEAN
    BY <1>9, Zenon DEF LinkPollUp
  <2>2. macMode' \in Modes /\ lpc' \in {"start", lpc}
    BY <1>9, <2>1, Zenon DEF LinkPollUp
  <2>3. UNCHANGED <<phy, linkUp, gState, running, txState>>
    BY <1>9, Zenon DEF LinkPollUp, macVars
  <2> QED
    BY <2>1, <2>2, <2>3, Zenon
<1>10. CASE LinkStart \/ LinkStartClear
  <2>1. gState' \in {"busy", gState} /\ lpc' \in {"clear", "startTx", "up"}
    BY <1>10, Zenon DEF LinkStart, LinkStartClear
  <2>2. running' \in BOOLEAN
    BY <1>10, Zenon DEF LinkStart, LinkStartClear
  <2>3. UNCHANGED <<phy, linkUp, linkchanged, mode, macMode, txState>>
    BY <1>10, Zenon DEF LinkStart, LinkStartClear
  <2> QED
    BY <2>1, <2>2, <2>3, Zenon
<1>11. CASE LinkStartTx
  BY <1>11, Zenon DEF LinkStartTx, macVars
<1>12. CASE LinkSetUp
  BY <1>12, Zenon DEF LinkSetUp, macVars
<1>13. CASE UNCHANGED vars
  BY <1>1, <1>13 DEF vars
<1> QED
  BY <1>2, <1>3, <1>4, <1>5, <1>6, <1>7, <1>8, <1>9, <1>10, <1>11, <1>12, <1>13
  DEF Next, Link

SendCore ==
    /\ SendTypes
    /\ MutexInv
    /\ OwnedInv
    /\ ~timeouts => TokenInv
    /\ SentAsAsked

\* Two senders are never inside together.
LEMMA OneSender ==
    ASSUME MutexInv, NEW s \in Senders, NEW t \in Senders, spc[s] # "idle", spc[t] # "idle"
    PROVE  s = t
  BY DEF MutexInv

\* While nobody waits, nothing is left of earlier sends.
LEMMA NothingPending ==
    ASSUME TokenInv, \A s \in Senders : spc[s] # "wait"
    PROVE  ~TI /\ ~txPktSemaphore /\ \A i \in Index : ~own[i]
  BY DEF TokenInv, Waits

\* The DMA sends what a sender asked for and is still waiting for.
LEMMA DmaTransmitInv == SendCore /\ DmaTransmit => SendCore'
<1> SUFFICES ASSUME SendCore, DmaTransmit PROVE SendCore'
  OBVIOUS
<1>0. SendTypes /\ MutexInv /\ OwnedInv /\ SentAsAsked /\ cur \in Index
  BY DEF SendCore, SendTypes
<1>1. own[cur] /\ asked[cur] \in Nat
  BY <1>0 DEF DmaTransmit, OwnedInv
<1>2. UNCHANGED <<tx_ptk_mutex, spc, frame, frames, ok, timeouts, tx_Buff, asked, tail,
                 txPktSemaphore>>
  BY DEF DmaTransmit, sendVars
<1>3. own'[cur] = FALSE /\ \A i \in Index : i # cur => own'[i] = own[i]
  BY <1>0 DEF DmaTransmit, SendTypes
<1>4. transmitted' = transmitted \cup {asked[cur]} /\ TI' = TRUE /\ cur' \in Index
  BY <1>0, IncreaseInIndex DEF DmaTransmit
<1>5. SendTypes'
  <2>1. own' \in [Index -> BOOLEAN]
    BY <1>0 DEF DmaTransmit, SendTypes
  <2>2. transmitted' \subseteq Nat /\ corrupted' \subseteq Nat
    BY <1>0, <1>1 DEF DmaTransmit, SendTypes
  <2> QED
    BY <1>0, <1>2, <1>4, <2>1, <2>2, Zenon DEF SendTypes
<1>6. MutexInv' /\ OwnedInv'
  BY <1>0, <1>2, <1>3 DEF MutexInv, OwnedInv
<1>7. ASSUME ~timeouts PROVE TokenInv' /\ SentAsAsked'
  <2>1. TokenInv
    BY <1>7 DEF SendCore
  <2>2. PICK s \in Senders : spc[s] = "wait" /\ frame[s] = asked[cur]
    BY <1>0, <1>1, <2>1 DEF TokenInv, Waits
  <2>3. tx_Buff = asked[cur]
    BY <2>1, <2>2 DEF TokenInv
  <2>4. corrupted' = corrupted
    BY <2>3 DEF DmaTransmit
  <2>5. \A i \in Index : ~own'[i]
    BY <1>0, <1>1, <1>3, <2>1 DEF TokenInv
  <2>6. ~txPktSemaphore'
    BY <1>0, <1>1, <1>2, <2>1 DEF TokenInv
  <2>7. \E f \in transmitted' : Waits(f)'
    BY <1>2, <1>4, <2>2 DEF Waits
  <2>8. \A t \in Senders : spc'[t] \in {"issue", "wait"} => tx_Buff' = frame'[t]
    BY <1>2, <2>1 DEF TokenInv
  <2> QED
    BY <1>0, <1>2, <1>4, <1>7, <2>4, <2>5, <2>6, <2>7, <2>8 DEF TokenInv, SentAsAsked
<1> QED
  BY <1>2, <1>5, <1>6, <1>7 DEF SendCore, SentAsAsked

\* carbon_hw_ethernet_isr turns the pending interrupt into a token.
LEMMA IsrTransmitInv == SendCore /\ IsrTransmit => SendCore'
<1> SUFFICES ASSUME SendCore, IsrTransmit PROVE SendCore'
  OBVIOUS
<1>1. UNCHANGED <<tx_ptk_mutex, spc, frame, frames, ok, timeouts, tx_Buff, own, asked, tail,
                 cur, transmitted, corrupted>>
  BY DEF IsrTransmit, sendVars, dmaVars, wireVars
<1>2. TI /\ TI' = FALSE /\ txPktSemaphore' = TRUE
  BY DEF IsrTransmit
<1>3. SendTypes'
  BY <1>1, <1>2, Zenon DEF SendCore, SendTypes
<1>4. MutexInv' /\ OwnedInv' /\ SentAsAsked'
  BY <1>1 DEF SendCore, MutexInv, OwnedInv, SentAsAsked
<1>5. ASSUME TokenInv PROVE TokenInv'
  <2>1. \A f : Waits(f)' <=> Waits(f)
    BY <1>1 DEF Waits
  <2> QED
    BY <1>1, <1>2, <1>5, <2>1 DEF TokenInv
<1> QED
  BY <1>1, <1>3, <1>4, <1>5 DEF SendCore

\* A sender gets the mutex; it has nothing to do with earlier sends.
LEMMA SendLockInv ==
    ASSUME SendCore, NEW s \in Senders, SendLock(s)
    PROVE  SendCore'
<1>0. SendTypes /\ MutexInv /\ OwnedInv /\ SentAsAsked
  BY DEF SendCore
<1>1. UNCHANGED <<ok, timeouts, tx_Buff, own, asked, tail, cur, TI, txPktSemaphore,
                 transmitted, corrupted>>
  BY DEF SendLock, dmaVars, wireVars
<1>2. /\ tx_ptk_mutex = NoSender /\ tx_ptk_mutex' = s
      /\ spc'[s] = "copy" /\ frame'[s] = frames /\ frames \in Nat
      /\ \A t \in Senders : t # s => spc'[t] = spc[t] /\ frame'[t] = frame[t]
  BY <1>0 DEF SendLock, SendTypes
<1>3. \A t \in Senders : spc[t] = "idle"
  BY <1>0, <1>2, EthTxAssumption DEF MutexInv
<1>4. SendTypes'
  <2>1. spc' \in [Senders -> {"idle", "copy", "issue", "wait"}]
    BY <1>0 DEF SendLock, SendTypes
  <2>2. frame' \in [Senders -> Nat \cup {NoFrame}]
    BY <1>0 DEF SendLock, SendTypes
  <2>3. frames' \in Nat
    BY <1>0 DEF SendLock, SendTypes
  <2> QED
    BY <1>0, <1>1, <1>2, <2>1, <2>2, <2>3, Zenon DEF SendTypes
<1>5. MutexInv'
  BY <1>2, <1>3 DEF MutexInv
<1>6. OwnedInv' /\ SentAsAsked'
  BY <1>0, <1>1 DEF OwnedInv, SentAsAsked
<1>7. ASSUME TokenInv PROVE TokenInv'
  <2>1. ~TI' /\ ~txPktSemaphore' /\ \A i \in Index : ~own'[i]
    BY <1>1, <1>3, <1>7, NothingPending
  <2>2. \A t \in Senders : spc'[t] \notin {"issue", "wait"}
    BY <1>2, <1>3
  <2> QED
    BY <2>1, <2>2 DEF TokenInv
<1> QED
  BY <1>1, <1>4, <1>5, <1>6, <1>7 DEF SendCore

\* The frame is copied into tx_Buff, which no descriptor uses then.
LEMMA SendCopyInv ==
    ASSUME SendCore, NEW s \in Senders, SendCopy(s)
    PROVE  SendCore'
<1>0. SendTypes /\ MutexInv /\ OwnedInv /\ SentAsAsked
  BY DEF SendCore
<1>1. UNCHANGED <<tx_ptk_mutex, frame, frames, ok, timeouts, own, asked, tail, cur, TI,
                 txPktSemaphore, transmitted, corrupted>>
  BY DEF SendCopy, dmaVars, wireVars
<1>2. /\ spc[s] = "copy" /\ spc'[s] = "issue" /\ tx_Buff' = frame[s]
      /\ \A t \in Senders : t # s => spc'[t] = spc[t]
  BY <1>0 DEF SendCopy, SendTypes
<1>3. \A t \in Senders : t # s => spc[t] = "idle"
  BY <1>0, <1>2, OneSender
<1>4. SendTypes'
  <2>1. spc' \in [Senders -> {"idle", "copy", "issue", "wait"}]
    BY <1>0 DEF SendCopy, SendTypes
  <2>2. tx_Buff' \in Nat \cup {NoFrame}
    BY <1>0, <1>2 DEF SendTypes
  <2> QED
    BY <1>0, <1>1, <2>1, <2>2, Zenon DEF SendTypes
<1>5. MutexInv'
  BY <1>0, <1>1, <1>2, <1>3 DEF MutexInv
<1>6. OwnedInv' /\ SentAsAsked'
  BY <1>0, <1>1 DEF OwnedInv, SentAsAsked
<1>7. ASSUME TokenInv PROVE TokenInv'
  <2>1. ~TI' /\ ~txPktSemaphore' /\ \A i \in Index : ~own'[i]
    BY <1>1, <1>2, <1>3, <1>7, NothingPending
  <2>2. \A t \in Senders : spc'[t] \in {"issue", "wait"} => tx_Buff' = frame'[t]
    BY <1>1, <1>2, <1>3
  <2> QED
    BY <2>1, <2>2 DEF TokenInv
<1> QED
  BY <1>1, <1>4, <1>5, <1>6, <1>7 DEF SendCore

\* What Return(s) does to the senders, once the others are known to be idle.
LEMMA ReturnEffect ==
    ASSUME SendTypes, MutexInv, NEW s \in Senders, spc[s] # "idle", Return(s)
    PROVE  /\ \A t \in Senders : spc'[t] = "idle"
           /\ spc' \in [Senders -> {"idle", "copy", "issue", "wait"}]
           /\ frame' \in [Senders -> Nat \cup {NoFrame}]
           /\ tx_ptk_mutex' = NoSender
<1>1. \A t \in Senders : t # s => spc[t] = "idle"
  BY OneSender
<1> QED
  BY <1>1 DEF Return, SendTypes

\* A call that gives up before it has asked for anything.
LEMMA SendGivesUpInv ==
    ASSUME SendCore, NEW s \in Senders, SendMismatch(s) \/ SendOwned(s)
    PROVE  SendCore'
<1>0. SendTypes /\ MutexInv /\ OwnedInv /\ SentAsAsked
  BY DEF SendCore
<1>1. UNCHANGED <<frames, ok, timeouts, own, asked, tail, cur, TI, txPktSemaphore,
                 transmitted, corrupted>>
  BY DEF SendMismatch, SendOwned, dmaVars, wireVars
<1>2. spc[s] \in {"copy", "issue"} /\ Return(s) /\ tx_Buff' \in {tx_Buff, frame[s]}
  BY DEF SendMismatch, SendOwned
<1>3. /\ \A t \in Senders : spc'[t] = "idle"
      /\ spc' \in [Senders -> {"idle", "copy", "issue", "wait"}]
      /\ frame' \in [Senders -> Nat \cup {NoFrame}]
      /\ tx_ptk_mutex' = NoSender
  BY <1>0, <1>2, ReturnEffect
<1>4. \A t \in Senders : spc[t] # "wait"
  BY <1>0, <1>2, OneSender
<1>5. SendTypes'
  <2>1. tx_Buff' \in Nat \cup {NoFrame}
    BY <1>0, <1>2 DEF SendTypes
  <2> QED
    BY <1>0, <1>1, <1>3, <2>1, Zenon DEF SendTypes
<1>6. MutexInv' /\ OwnedInv' /\ SentAsAsked'
  BY <1>0, <1>1, <1>3 DEF MutexInv, OwnedInv, SentAsAsked
<1>7. ASSUME TokenInv PROVE TokenInv'
  <2>1. ~TI' /\ ~txPktSemaphore' /\ \A i \in Index : ~own'[i]
    BY <1>1, <1>4, <1>7, NothingPending
  <2> QED
    BY <1>3, <2>1 DEF TokenInv
<1> QED
  BY <1>1, <1>5, <1>6, <1>7 DEF SendCore

\* The descriptor at the tail becomes the only one of the DMA.
LEMMA SendIssueInv ==
    ASSUME SendCore, NEW s \in Senders, SendIssue(s)
    PROVE  SendCore'
<1>0. SendTypes /\ MutexInv /\ OwnedInv /\ SentAsAsked /\ tail \in Index
  BY DEF SendCore, SendTypes
<1>1. UNCHANGED <<tx_ptk_mutex, frame, frames, ok, timeouts, tx_Buff, cur, TI,
                 txPktSemaphore, transmitted, corrupted>>
  BY DEF SendIssue, wireVars
<1>2. /\ spc[s] = "issue" /\ spc'[s] = "wait" /\ frame[s] \in Nat
      /\ \A t \in Senders : t # s => spc'[t] = spc[t]
  BY <1>0 DEF SendIssue, SendTypes, MutexInv
<1>3. \A t \in Senders : t # s => spc[t] = "idle"
  BY <1>0, <1>2, OneSender
<1>4. /\ own'[tail] = TRUE /\ asked'[tail] = frame[s]
      /\ \A i \in Index : i # tail => own'[i] = own[i] /\ asked'[i] = asked[i]
  BY <1>0 DEF SendIssue, SendTypes
<1>5. SendTypes'
  <2>1. own' \in [Index -> BOOLEAN]
    BY <1>0 DEF SendIssue, SendTypes
  <2>2. asked' \in [Index -> Nat \cup {NoFrame}]
    BY <1>0, <1>2 DEF SendIssue, SendTypes
  <2>3. tail' \in Index
    BY <1>0, IncreaseInIndex DEF SendIssue
  <2>4. spc' \in [Senders -> {"idle", "copy", "issue", "wait"}]
    BY <1>0 DEF SendIssue, SendTypes
  <2> QED
    BY <1>0, <1>1, <2>1, <2>2, <2>3, <2>4, Zenon DEF SendTypes
<1>6. MutexInv'
  BY <1>0, <1>1, <1>2, <1>3 DEF MutexInv
<1>7. OwnedInv' /\ SentAsAsked'
  BY <1>0, <1>1, <1>2, <1>4 DEF OwnedInv, SentAsAsked
<1>8. ASSUME TokenInv PROVE TokenInv'
  <2>1. ~TI' /\ ~txPktSemaphore' /\ \A i \in Index : ~own[i]
    BY <1>1, <1>2, <1>3, <1>8, NothingPending
  <2>2. \A i \in Index : own'[i] => i = tail
    BY <1>4, <2>1
  <2>3. spc'[s] = "wait" /\ frame'[s] = asked'[tail]
    BY <1>1, <1>2, <1>4
  <2>4. \A i \in Index : own'[i] => (\E t \in Senders : spc'[t] = "wait" /\ frame'[t] = asked'[i])
    BY <2>2, <2>3
  <2>5. \A t \in Senders : spc'[t] \in {"issue", "wait"} => tx_Buff' = frame'[t]
    BY <1>1, <1>2, <1>3, <1>8 DEF TokenInv
  <2> QED
    BY <2>1, <2>2, <2>4, <2>5 DEF TokenInv, Waits
<1> QED
  BY <1>1, <1>5, <1>6, <1>7, <1>8 DEF SendCore

\* The token is the one of the sender that takes it: its frame was sent.
LEMMA SendDoneInv ==
    ASSUME SendCore, NEW s \in Senders, SendDone(s)
    PROVE  SendCore'
<1>0. SendTypes /\ MutexInv /\ OwnedInv /\ SentAsAsked
  BY DEF SendCore
<1>1. UNCHANGED <<frames, timeouts, tx_Buff, own, asked, tail, cur, TI, transmitted,
                 corrupted>>
  BY DEF SendDone, dmaVars, wireVars
<1>2. /\ spc[s] = "wait" /\ Return(s) /\ txPktSemaphore /\ txPktSemaphore' = FALSE
      /\ ok' = ok \cup {frame[s]} /\ frame[s] \in Nat
  BY <1>0 DEF SendDone, MutexInv
<1>3. /\ \A t \in Senders : spc'[t] = "idle"
      /\ spc' \in [Senders -> {"idle", "copy", "issue", "wait"}]
      /\ frame' \in [Senders -> Nat \cup {NoFrame}]
      /\ tx_ptk_mutex' = NoSender
  BY <1>0, <1>2, ReturnEffect
<1>4. SendTypes'
  <2>1. ok' \subseteq Nat
    BY <1>0, <1>2 DEF SendTypes
  <2> QED
    BY <1>0, <1>1, <1>2, <1>3, <2>1, Zenon DEF SendTypes
<1>5. MutexInv' /\ OwnedInv'
  BY <1>0, <1>1, <1>3 DEF MutexInv, OwnedInv
<1>6. ASSUME ~timeouts PROVE TokenInv' /\ SentAsAsked'
  <2>1. TokenInv
    BY <1>6 DEF SendCore
  <2>2. PICK f \in transmitted : Waits(f)
    BY <1>2, <2>1 DEF TokenInv
  <2>3. frame[s] \in transmitted
    BY <1>0, <1>2, <2>2, OneSender DEF Waits
  <2>4. ~TI' /\ \A i \in Index : ~own'[i]
    BY <1>1, <1>2, <2>1 DEF TokenInv
  <2>5. ok' \subseteq transmitted' /\ corrupted' = {}
    BY <1>0, <1>1, <1>2, <1>6, <2>3 DEF SentAsAsked
  <2> QED
    BY <1>2, <1>3, <2>4, <2>5 DEF TokenInv, SentAsAsked
<1> QED
  BY <1>1, <1>4, <1>5, <1>6 DEF SendCore, SentAsAsked

\* After a timeout the properties of the tokens are given up.
LEMMA SendTimeoutInv ==
    ASSUME SendCore, NEW s \in Senders, SendTimeout(s)
    PROVE  SendCore'
<1>0. SendTypes /\ MutexInv /\ OwnedInv
  BY DEF SendCore
<1>1. UNCHANGED <<frames, ok, tx_Buff, own, asked, tail, cur, TI, txPktSemaphore,
                 transmitted, corrupted>>
  BY DEF SendTimeout, dmaVars, wireVars
<1>2. spc[s] = "wait" /\ Return(s) /\ timeouts' = TRUE
  BY DEF SendTimeout
<1>3. /\ \A t \in Senders : spc'[t] = "idle"
      /\ spc' \in [Senders -> {"idle", "copy", "issue", "wait"}]
      /\ frame' \in [Senders -> Nat \cup {NoFrame}]
      /\ tx_ptk_mutex' = NoSender
  BY <1>0, <1>2, ReturnEffect
<1>4. SendTypes'
  BY <1>0, <1>1, <1>2, <1>3, Zenon DEF SendTypes
<1>5. MutexInv' /\ OwnedInv'
  BY <1>0, <1>1, <1>3 DEF MutexInv, OwnedInv
<1> QED
  BY <1>2, <1>4, <1>5 DEF SendCore, SentAsAsked

\* A restart of the link takes the descriptors away from the DMA; a sender
\* that waits for one of them can only time out.
LEMMA LinkStartInv == SendCore /\ LinkStart => SendCore'
<1> SUFFICES ASSUME SendCore, LinkStart PROVE SendCore'
  OBVIOUS
<1>1. UNCHANGED <<tx_ptk_mutex, spc, frame, frames, ok, timeouts, tx_Buff, TI,
                 txPktSemaphore, transmitted, corrupted>>
  BY DEF LinkStart, sendVars, wireVars
<1>2. /\ own' = [i \in Index |-> FALSE] /\ asked' = [i \in Index |-> NoFrame]
      /\ tail' = 0 /\ cur' = 0
  BY DEF LinkStart
<1>3. SendTypes'
  <2>1. own' \in [Index -> BOOLEAN] /\ asked' \in [Index -> Nat \cup {NoFrame}]
    BY <1>2
  <2>2. 0 \in Index
    BY EthTxAssumption DEF Index
  <2> QED
    BY <1>1, <1>2, <2>1, <2>2, Zenon DEF SendCore, SendTypes
<1>4. MutexInv' /\ OwnedInv' /\ SentAsAsked'
  BY <1>1, <1>2 DEF SendCore, MutexInv, OwnedInv, SentAsAsked
<1>5. ASSUME TokenInv PROVE TokenInv'
  <2>1. \A f : Waits(f)' <=> Waits(f)
    BY <1>1 DEF Waits
  <2>2. \A i \in Index : ~own'[i]
    BY <1>2
  <2> QED
    BY <1>1, <1>5, <2>1, <2>2 DEF TokenInv
<1> QED
  BY <1>1, <1>3, <1>4, <1>5 DEF SendCore

\* A transmit interrupt that the start erases is a token the less.
LEMMA LinkStartClearInv == SendCore /\ LinkStartClear => SendCore'
<1> SUFFICES ASSUME SendCore, LinkStartClear PROVE SendCore'
  OBVIOUS
<1>1. UNCHANGED <<tx_ptk_mutex, spc, frame, frames, ok, timeouts, tx_Buff, own, asked,
                 tail, cur, txPktSemaphore, transmitted, corrupted>>
  BY DEF LinkStartClear, sendVars, wireVars, dmaVars
<1>2. TI' = FALSE
  BY DEF LinkStartClear
<1>3. SendTypes'
  BY <1>1, <1>2, Zenon DEF SendCore, SendTypes
<1>4. MutexInv' /\ OwnedInv' /\ SentAsAsked'
  BY <1>1 DEF SendCore, MutexInv, OwnedInv, SentAsAsked
<1>5. ASSUME TokenInv PROVE TokenInv'
  BY <1>1, <1>2, <1>5 DEF TokenInv, Waits
<1> QED
  BY <1>1, <1>3, <1>4, <1>5 DEF SendCore

\* Every step keeps what is known of the senders and the tokens.
LEMMA SendCoreStep == SendCore /\ [Next]_vars => SendCore'
<1> SUFFICES ASSUME SendCore, [Next]_vars PROVE SendCore'
  OBVIOUS
<1>1. ASSUME UNCHANGED <<sendVars, tx_Buff, dmaVars, TI, txPktSemaphore, wireVars>>
      PROVE  SendCore'
  BY <1>1 DEF sendVars, dmaVars, wireVars, SendCore, SendTypes, MutexInv, OwnedInv,
     TokenInv, SentAsAsked, Waits
<1>2. CASE \E x \in PhyStates : PhyChange(x)
  BY <1>1, <1>2 DEF PhyChange
<1>3. CASE DmaTransmit \/ IsrTransmit
  BY <1>3, DmaTransmitInv, IsrTransmitInv
<1>4. CASE IsrError
  BY <1>1, <1>4 DEF IsrError
<1>5. CASE \E s \in Senders : SendLock(s) \/ Send(s)
  BY <1>5, SendLockInv, SendCopyInv, SendGivesUpInv, SendIssueInv, SendDoneInv, SendTimeoutInv
  DEF Send
<1>6. CASE LinkStart \/ LinkStartClear
  BY <1>6, LinkStartInv, LinkStartClearInv
<1>7. CASE Link /\ ~LinkStart /\ ~LinkStartClear
  BY <1>1, <1>7 DEF Link, LinkPollDown, LinkStop, LinkStopTx, LinkPollUp, LinkStartTx,
     LinkSetUp
<1>8. CASE UNCHANGED vars
  BY <1>1, <1>8 DEF vars
<1> QED
  BY <1>2, <1>3, <1>4, <1>5, <1>6, <1>7, <1>8 DEF Next

\* The invariant of the senders holds all the way.
LEMMA SendInvariant == Spec => []SendInv
<1>1. Init => SendInv
  BY SendInvInit
<1>2. SendInv /\ [Next]_vars => SendInv'
  <2>1. SendInv <=> LinkTypes /\ SendCore
    BY TypeParts, Zenon DEF SendInv, SendCore
  <2>2. SendInv' <=> LinkTypes' /\ SendCore'
    BY <2>1, PTL
  <2> QED
    BY <2>1, <2>2, LinkTypesStep, SendCoreStep
<1> QED
  BY <1>1, <1>2, PTL DEF Spec

\* Every variable of the transmit path has its type; the frames the DMA has
\* sent are frames that were accepted.
THEOREM TxTypes == Spec => []TypeOK
<1>1. SendInv => TypeOK
  BY DEF SendInv
<1> QED
  BY <1>1, SendInvariant, PTL

\* With one tx_Buff and one semaphore for all senders, and a link thread that
\* takes the descriptors away at any moment: as long as no send has timed out,
\* ERR_OK means that the frame was sent, and no frame leaves with another's
\* bytes.
THEOREM OkIsSent == Spec => []SentAsAsked
<1>1. SendInv => SentAsAsked
  BY DEF SendInv
<1> QED
  BY <1>1, SendInvariant, PTL
=============================================================================
