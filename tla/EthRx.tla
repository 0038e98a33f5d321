------------------------------- MODULE EthRx -------------------------------
(***************************************************************************)
(* The zero-copy receive path of CM7/core/src/ethernetif.c.                *)
(*                                                                         *)
(* The DMA fills the buffers of a ring of descriptors; its interrupt wakes *)
(* the input thread, which wraps each filled buffer into a pbuf and gives  *)
(* it to lwIP.  Whatever thread drops the last reference of a pbuf hands   *)
(* its buffer back, at the tail of the ring, in whatever order that        *)
(* happens.  Ring, input thread, freeing threads, interrupt handler, DMA   *)
(* and the link thread (which starts and stops the DMA) run concurrently.  *)
(*                                                                         *)
(* The k-th frame the DMA receives is the number k; the packet length the  *)
(* DMA writes into DESC3 is abstracted to the number of its frame, and the *)
(* 0 that prepare_rx_desc writes there to NoFrame.                         *)
(***************************************************************************)
EXTENDS Integers, FiniteSets

CONSTANTS
    N,          \* ETH_RX_DESC_CNT descriptors and as many buffers
    PoolSize,   \* pbufs in rx_pool
    Freers,     \* threads of the stack that drop pbufs
    Input,      \* the thread running carbon_lwip_input
    NoThread,
    NoFrame,
    MaxFrames   \* bound of the model: frames received in a behaviour

ASSUME EthRxAssumption ==
    /\ N \in Nat \ {0, 1}
    /\ PoolSize \in Nat
    /\ MaxFrames \in Nat
    /\ Input \notin Freers
    /\ NoThread \notin Freers \cup {Input}
    /\ NoFrame \notin Nat

Index   == 0 .. (N - 1)   \* descriptors of dmaRxDscrTab
Buffers == 0 .. (N - 1)   \* rows of rx_Buff
Threads == Freers \cup {Input}

VARIABLES
    desc0,        \* buffer address of each descriptor
    own,          \* OWN bit of each descriptor
    len,          \* packet length of each descriptor
    good,         \* FD and LD set, CTXT clear, length within the buffer
    content,      \* the frame each buffer holds
    cur,          \* DMACCARDR: descriptor the DMA uses next
    tail,         \* DMACRDTPR: descriptor the DMA stops at
    toProcess,    \* rxDescList.toProcessPointer
    link,         \* where the link thread is in starting or stopping the DMA
    RI,           \* receive interrupt pending
    isr,          \* where the interrupt handler is
    rxPktSemaphore,
    ipc,          \* where the input thread is
    bufferPtr,    \* its locals: what it read from the descriptor
    bufferLength,
    why,          \* why low_level_input last returned NULL
    stack,        \* buffers of the pbufs the stack holds
    pbufLen,      \* length of the pbuf made of each buffer
    rx_ptk_mutex, \* thread that holds it
    fpc,          \* where each thread is in handing a buffer back
    fbuf,         \* the buffer it hands back
    pool,         \* pbufs taken from rx_pool
    error,        \* Error_Handler was called
    received, processed, recycled, \* history: frames and buffers so far
    frameOf,      \* history: the frame each buffer was taken for
    erased        \* history: RI was cleared with no release and none came since

ringVars   == <<desc0, own, len, good>>
dmaVars    == <<content, cur, received>>
isrVars    == <<link, RI, isr, erased>>
inputVars  == <<toProcess, processed, frameOf, pbufLen, bufferPtr, bufferLength>>
returnVars == <<rx_ptk_mutex, fpc, fbuf, tail, recycled, error>>
vars == <<desc0, own, len, good, content, cur, tail, toProcess, link, RI,
          isr, rxPktSemaphore, ipc, bufferPtr, bufferLength, why, stack,
          pbufLen, rx_ptk_mutex, fpc, fbuf, pool, error, received, processed,
          recycled, frameOf, erased>>
-----------------------------------------------------------------------------
increase(i) == IF i = N - 1 THEN 0 ELSE i + 1

\* The descriptor at toProcess is not filled yet.
Empty == toProcess = cur \/ own[toProcess]

\* The input thread has osPriorityRealtime and every other thread less, so
\* on this single core the others run only while it waits.
InputBlocked_same_priority == TRUE

InputBlocked ==
    \/ ipc = "wait" /\ ~rxPktSemaphore
    \/ /\ rx_ptk_mutex \notin {NoThread, Input}
       /\ ipc = "reject" \/ (ipc = "test" /\ ~Empty /\ ~good[toProcess])

MayRun(t) == isr = "idle" /\ (t = Input \/ InputBlocked)

\* carbon_hw_ethernet_rx_dec_list_init, the semaphore and the pool.
Init ==
    /\ desc0 = [i \in Index |-> i]
    /\ own = [i \in Index |-> TRUE]
    /\ len = [i \in Index |-> NoFrame]
    /\ good = [i \in Index |-> FALSE]
    /\ content = [b \in Buffers |-> NoFrame]
    /\ cur = 0
    /\ tail = N - 1
    /\ toProcess = 0
    /\ link = "stopped"
    /\ RI = FALSE
    /\ isr = "idle"
    /\ rxPktSemaphore = FALSE
    /\ ipc = "wait"
    /\ bufferPtr = 0
    /\ bufferLength = NoFrame
    /\ why = "empty"
    /\ stack = {}
    /\ pbufLen = [b \in Buffers |-> NoFrame]
    /\ rx_ptk_mutex = NoThread
    /\ fpc = [t \in Threads |-> "idle"]
    /\ fbuf = [t \in Threads |-> 0]
    /\ pool = 0
    /\ error = FALSE
    /\ received = 0
    /\ processed = 0
    /\ recycled = 0
    /\ frameOf = [b \in Buffers |-> NoFrame]
    /\ erased = FALSE

(* The hardware: the DMA fills the next descriptor it owns, up to the tail *)
(* pointer.  A descriptor of a frame cut in pieces, of a frame that is too *)
(* long or of a context is not good.                                       *)
DmaReceive(g) ==
    /\ link # "stopped"
    /\ received < MaxFrames
    /\ cur # tail
    /\ own[cur]
    /\ content' = [content EXCEPT ![desc0[cur]] = received]
    /\ own' = [own EXCEPT ![cur] = FALSE]
    /\ len' = [len EXCEPT ![cur] = received]
    /\ good' = [good EXCEPT ![cur] = g]
    /\ cur' = increase(cur)
    /\ received' = received + 1
    /\ RI' = TRUE
    /\ erased' = FALSE
    /\ UNCHANGED <<desc0, link, isr, rxPktSemaphore, ipc, why, stack, pool,
                   inputVars, returnVars>>

(* carbon_hw_ethernet_start and _stop, called by the link thread, which    *)
(* has a lower priority than the input thread.                             *)
LinkThread(from, to) ==
    /\ isr = "idle" /\ InputBlocked
    /\ link = from
    /\ link' = to
    /\ UNCHANGED <<ringVars, dmaVars, isr, rxPktSemaphore, ipc, why, stack, pool,
                   inputVars, returnVars>>

\* The DMA receives from here on, with its interrupts still disabled.
StartDma ==
    /\ LinkThread("stopped", "started")
    /\ UNCHANGED <<RI, erased>>

\* DMACSR |= (TPS | RPS): a flag of this register is cleared by writing 1,
\* so that writing back what was read clears an RI that was pending when it
\* was read.  An RI that comes between the read and the write is as if it
\* came before both, when one was pending, and after both otherwise.
StartClear ==
    /\ LinkThread("started", "cleared")
    /\ RI' = FALSE
    /\ erased' = (erased \/ RI)

StartIrqs ==
    /\ LinkThread("cleared", "up")
    /\ UNCHANGED <<RI, erased>>

\* The interrupts are disabled before the DMA is stopped.
StopIrqs ==
    /\ LinkThread("up", "masked")
    /\ UNCHANGED <<RI, erased>>

StopDma ==
    /\ LinkThread("masked", "stopped")
    /\ UNCHANGED <<RI, erased>>

LinkFinish == StartClear \/ StartIrqs \/ StopDma
LinkStep   == StartDma \/ StopIrqs \/ LinkFinish

(* carbon_hw_ethernet_isr, receive part.  No thread runs before it ends,   *)
(* but the DMA does.                                                       *)
IsrRelease ==
    /\ link = "up" /\ RI /\ isr = "idle"
    /\ rxPktSemaphore' = TRUE
    /\ isr' = "clear"
    /\ UNCHANGED <<ringVars, dmaVars, link, RI, erased, ipc, why, stack, pool,
                   inputVars, returnVars>>

IsrClear ==
    /\ isr = "clear"
    /\ RI' = FALSE
    /\ isr' = "idle"
    /\ UNCHANGED <<ringVars, dmaVars, link, erased, rxPktSemaphore, ipc, why,
                   stack, pool, inputVars, returnVars>>
-----------------------------------------------------------------------------
(* carbon_lwip_input and carbon_lwip_low_level_input.                      *)

InputWake ==
    /\ isr = "idle" /\ ipc = "wait" /\ rxPktSemaphore
    /\ rxPktSemaphore' = FALSE
    /\ ipc' = "read"
    /\ erased' = FALSE
    /\ UNCHANGED <<ringVars, dmaVars, link, RI, isr, why, stack, pool,
                   inputVars, returnVars>>

\* DESC0 and the length are read before anything is known of the descriptor.
InputRead ==
    /\ isr = "idle" /\ ipc = "read"
    /\ bufferPtr' = desc0[toProcess]
    /\ bufferLength' = len[toProcess]
    /\ ipc' = "test"
    /\ UNCHANGED <<ringVars, dmaVars, isrVars, rxPktSemaphore, why, stack, pool,
                   toProcess, processed, frameOf, pbufLen, returnVars>>

\* low_level_input returns NULL and changes nothing: the loop ends.
InputNone ==
    /\ isr = "idle" /\ ipc = "test"
    /\ \/ Empty /\ why' = "empty"
       \/ ~Empty /\ good[toProcess] /\ pool = PoolSize /\ why' = "no pbuf"
    /\ ipc' = "wait"
    /\ UNCHANGED <<ringVars, dmaVars, isrVars, rxPktSemaphore, stack, pool,
                   inputVars, returnVars>>

Advance ==
    /\ toProcess' = increase(toProcess)
    /\ processed' = processed + 1
    /\ frameOf' = [frameOf EXCEPT ![bufferPtr] = processed]

\* DISCARD_DESCRIPTOR up to its call of carbon_lwip_prepare_rx_descriptor.
InputDiscard ==
    /\ isr = "idle" /\ ipc = "test"
    /\ ~Empty /\ ~good[toProcess]
    /\ rx_ptk_mutex = NoThread
    /\ rx_ptk_mutex' = Input
    /\ fpc' = [fpc EXCEPT ![Input] = "prepare"]
    /\ fbuf' = [fbuf EXCEPT ![Input] = bufferPtr]
    /\ ipc' = "discard"
    /\ Advance
    /\ UNCHANGED <<ringVars, dmaVars, isrVars, rxPktSemaphore, why, stack, pool,
                   pbufLen, bufferPtr, bufferLength, tail, recycled, error>>

InputTake ==
    /\ isr = "idle" /\ ipc = "test"
    /\ ~Empty /\ good[toProcess]
    /\ pool < PoolSize
    /\ pool' = pool + 1
    /\ pbufLen' = [pbufLen EXCEPT ![bufferPtr] = bufferLength]
    /\ ipc' = "deliver"
    /\ Advance
    /\ UNCHANGED <<ringVars, dmaVars, isrVars, rxPktSemaphore, why, stack,
                   bufferPtr, bufferLength, returnVars>>

InputDeliver_one_per_wakeup ==
    /\ isr = "idle" /\ ipc = "deliver"
    /\ stack' = stack \cup {bufferPtr}
    /\ ipc' = "wait"
    /\ UNCHANGED <<ringVars, dmaVars, isrVars, rxPktSemaphore, why, pool,
                   inputVars, returnVars>>

\* netif->input(p, netif) returns ERR_OK.
InputDeliver ==
    /\ isr = "idle" /\ ipc = "deliver"
    /\ stack' = stack \cup {bufferPtr}
    /\ ipc' = "read"
    /\ UNCHANGED <<ringVars, dmaVars, isrVars, rxPktSemaphore, why, pool,
                   inputVars, returnVars>>

\* netif->input(p, netif) fails: pbuf_free(p), in the input thread.
InputReject ==
    /\ isr = "idle" /\ ipc = "deliver"
    /\ ipc' = "reject"
    /\ UNCHANGED <<ringVars, dmaVars, isrVars, rxPktSemaphore, why, stack, pool,
                   inputVars, returnVars>>

InputFree_kept_by_stack ==
    /\ isr = "idle" /\ ipc = "reject"
    /\ rx_ptk_mutex = NoThread
    /\ rx_ptk_mutex' = Input
    /\ fpc' = [fpc EXCEPT ![Input] = "prepare"]
    /\ fbuf' = [fbuf EXCEPT ![Input] = bufferPtr]
    /\ ipc' = "free"
    /\ stack' = stack \cup {bufferPtr}
    /\ UNCHANGED <<ringVars, dmaVars, isrVars, rxPktSemaphore, why, pool,
                   inputVars, tail, recycled, error>>

InputFree ==
    /\ isr = "idle" /\ ipc = "reject"
    /\ rx_ptk_mutex = NoThread
    /\ rx_ptk_mutex' = Input
    /\ fpc' = [fpc EXCEPT ![Input] = "prepare"]
    /\ fbuf' = [fbuf EXCEPT ![Input] = bufferPtr]
    /\ ipc' = "free"
    /\ UNCHANGED <<ringVars, dmaVars, isrVars, rxPktSemaphore, why, stack, pool,
                   inputVars, tail, recycled, error>>
-----------------------------------------------------------------------------
(* pbuf_free_custom in a thread of the stack, and, for every thread,       *)
(* carbon_lwip_prepare_rx_descriptor under rx_ptk_mutex.                   *)

StackFree(t, b) ==
    /\ MayRun(t)
    /\ fpc[t] = "idle" /\ b \in stack
    /\ rx_ptk_mutex = NoThread
    /\ rx_ptk_mutex' = t
    /\ fpc' = [fpc EXCEPT ![t] = "prepare"]
    /\ fbuf' = [fbuf EXCEPT ![t] = b]
    /\ stack' = stack \ {b}
    /\ UNCHANGED <<ringVars, dmaVars, isrVars, rxPktSemaphore, ipc, why, pool,
                   inputVars, tail, recycled, error>>

\* The two "critical error" tests; Error_Handler never returns.
PrepareCheck(t) ==
    /\ MayRun(t) /\ fpc[t] = "prepare"
    /\ IF cur = increase(tail) \/ toProcess = increase(tail)
       THEN error' = TRUE /\ fpc' = [fpc EXCEPT ![t] = "error"]
       ELSE error' = error /\ fpc' = [fpc EXCEPT ![t] = "write"]
    /\ UNCHANGED <<ringVars, dmaVars, isrVars, rxPktSemaphore, ipc, why, stack,
                   pool, inputVars, rx_ptk_mutex, fbuf, tail, recycled>>

\* The descriptor at the tail is written, the tail moved, the mutex freed;
\* after a discard low_level_input returns NULL.
PrepareWrite_keep_length(t) ==
    /\ MayRun(t) /\ fpc[t] = "write"
    /\ desc0' = [desc0 EXCEPT ![tail] = fbuf[t]]
    /\ own' = [own EXCEPT ![tail] = TRUE]
    /\ tail' = increase(tail)
    /\ recycled' = recycled + 1
    /\ rx_ptk_mutex' = NoThread
    /\ IF t = Input /\ ipc = "discard"
       THEN /\ fpc' = [fpc EXCEPT ![t] = "idle"]
            /\ ipc' = "wait"
            /\ why' = "discard"
       ELSE fpc' = [fpc EXCEPT ![t] = "pool"] /\ UNCHANGED <<ipc, why>>
    /\ UNCHANGED <<dmaVars, isrVars, rxPktSemaphore, stack, pool, inputVars,
                   len, good, fbuf, error>>

PrepareWrite(t) ==
    /\ MayRun(t) /\ fpc[t] = "write"
    /\ desc0' = [desc0 EXCEPT ![tail] = fbuf[t]]
    /\ own' = [own EXCEPT ![tail] = TRUE]
    /\ len' = [len EXCEPT ![tail] = NoFrame]
    /\ good' = [good EXCEPT ![tail] = FALSE]
    /\ tail' = increase(tail)
    /\ recycled' = recycled + 1
    /\ rx_ptk_mutex' = NoThread
    /\ IF t = Input /\ ipc = "discard"
       THEN /\ fpc' = [fpc EXCEPT ![t] = "idle"]
            /\ ipc' = "wait"
            /\ why' = "discard"
       ELSE fpc' = [fpc EXCEPT ![t] = "pool"] /\ UNCHANGED <<ipc, why>>
    /\ UNCHANGED <<dmaVars, isrVars, rxPktSemaphore, stack, pool, inputVars,
                   fbuf, error>>

\* LWIP_MEMPOOL_FREE(rx_pool, custom_pbuf), after the mutex is released.
PoolFree(t) ==
    /\ MayRun(t) /\ fpc[t] = "pool"
    /\ pool' = pool - 1
    /\ fpc' = [fpc EXCEPT ![t] = "idle"]
    /\ ipc' = IF t = Input THEN "read" ELSE ipc
    /\ UNCHANGED <<ringVars, dmaVars, isrVars, rxPktSemaphore, why, stack,
                   inputVars, rx_ptk_mutex, fbuf, tail, recycled, error>>

Isr == IsrRelease \/ IsrClear

GiveBack(t) == PrepareCheck(t) \/ PrepareWrite(t) \/ PoolFree(t)

InputStep ==
    \/ InputWake \/ InputRead \/ InputNone \/ InputDiscard
    \/ InputTake \/ InputDeliver \/ InputReject \/ InputFree

Next ==
    \/ \E g \in BOOLEAN : DmaReceive(g)
    \/ LinkStep
    \/ Isr
    \/ InputStep
    \/ \E t \in Freers, b \in stack : StackFree(t, b)
    \/ \E t \in Threads : GiveBack(t)

Spec == Init /\ [][Next]_vars

\* The link thread finishes a start or a stop it began, an enabled interrupt
\* is taken, the input thread (osPriorityRealtime) is scheduled, and so is the
\* thread that holds the mutex it may wait for.  Nothing forces the cable to
\* come back, a frame to arrive or the stack to drop a pbuf.
FairSpec ==
    /\ Spec
    /\ SF_vars(LinkFinish)
    /\ SF_vars(Isr)
    /\ SF_vars(InputStep \/ GiveBack(Input))
    /\ SF_vars(\E t \in Freers : rx_ptk_mutex = t /\ GiveBack(t))
-----------------------------------------------------------------------------
(* Properties.                                                             *)

TypeOK ==
    /\ desc0 \in [Index -> Buffers]
    /\ own \in [Index -> BOOLEAN]
    /\ len \in [Index -> Nat \cup {NoFrame}]
    /\ good \in [Index -> BOOLEAN]
    /\ content \in [Buffers -> Nat \cup {NoFrame}]
    /\ cur \in Index /\ tail \in Index /\ toProcess \in Index
    /\ link \in {"stopped", "started", "cleared", "up", "masked"}
    /\ RI \in BOOLEAN /\ erased \in BOOLEAN
    /\ isr \in {"idle", "clear"}
    /\ rxPktSemaphore \in BOOLEAN
    /\ ipc \in {"wait", "read", "test", "deliver", "reject", "discard", "free"}
    /\ bufferPtr \in Buffers
    /\ bufferLength \in Nat \cup {NoFrame}
    /\ why \in {"empty", "no pbuf", "discard"}
    /\ stack \subseteq Buffers
    /\ pbufLen \in [Buffers -> Nat \cup {NoFrame}]
    /\ rx_ptk_mutex \in Threads \cup {NoThread}
    /\ fpc \in [Threads -> {"idle", "prepare", "write", "pool", "error"}]
    /\ fbuf \in [Threads -> Buffers]
    /\ pool \in 0..PoolSize
    /\ error \in BOOLEAN
    /\ received \in Nat /\ processed \in Nat /\ recycled \in Nat
    /\ frameOf \in [Buffers -> Nat \cup {NoFrame}]

\* Buffers that are out of the ring: in the stack, in the hands of the input
\* thread, or in those of the thread that is handing one back.
InHand(t) == fpc[t] \in {"prepare", "write", "error"}
Out == stack \cup (IF ipc \in {"deliver", "reject"} THEN {bufferPtr} ELSE {})
             \cup {fbuf[t] : t \in {u \in Threads : InHand(u)}}

\* The k-th descriptor since the start, and those between the input thread
\* and the tail pointer: filled ones, then empty ones.
At(k)  == k % N
Window == processed .. (recycled + N - 2)

\* The two states carbon_lwip_prepare_rx_descriptor calls a critical error
\* are never reached: the tail never catches up with the DMA or with the
\* input thread, in whatever order the stack drops the pbufs.
NoCriticalError == ~error

\* The DMA never writes into a buffer that a pbuf still uses: every buffer
\* out of the ring still holds the frame it was taken for, and frames are
\* taken in the order the DMA received them (frameOf is set to processed).
HeldFramesIntact == \A b \in Out : content[b] = frameOf[b] /\ frameOf[b] \in Nat

\* A buffer is in one place: no two descriptors of the window share one, and
\* none of them points to a buffer that is out of the ring.
OneOwner ==
    /\ \A j, k \in Window : j # k => desc0[At(j)] # desc0[At(k)]
    /\ \A k \in Window : desc0[At(k)] \notin Out

\* A pbuf has the length of its own frame, or length 0 when the input thread
\* read DESC3 just before the DMA wrote it: never that of an older frame.
LengthNotStale ==
    \A b \in Out : \/ pbufLen[b] \in {frameOf[b], NoFrame}
                   \/ ipc = "discard" /\ b = bufferPtr

\* The pool has a pbuf for each buffer that can be out while a frame waits, and
\* one for each thread that has returned its buffer and not yet its pbuf.  The
\* firmware has 9 descriptors and 10 pbufs: enough for two such threads.
PoolSuffices ==
    /\ IsFiniteSet(Freers)
    /\ PoolSize >= (N - 1) + Cardinality(Freers)

\* Why a frame may be left in the ring by a thread that goes to sleep: the
\* drain ended at a discarded descriptor, or for want of a pbuf, which takes
\* a pool too small for the threads that free, or carbon_hw_ethernet_start
\* erased the interrupt of a frame received while it or _stop was running.
LeftBehind ==
    \/ why = "discard"
    \/ why = "no pbuf" /\ ~PoolSuffices
    \/ erased

\* No other wake-up is lost: when the input thread waits and nothing is going
\* to wake it before the next frame, it has taken every frame, or one of the
\* three ways to leave frames behind has happened since it last woke up.
NoLostWakeup ==
    ipc = "wait" /\ ~rxPktSemaphore /\ ~RI => processed = received \/ LeftBehind

\* Every received frame is eventually taken out of the ring: the input thread
\* goes on taking frames for ever, or time and again has taken all there are,
\* as long as none is left behind and the link is not down for good.
EventuallyTaken ==
    \/ []<><<processed' # processed>>_vars
    \/ []<>(processed = received \/ (ipc = "wait" /\ LeftBehind))
    \/ <>[](link = "stopped")
=============================================================================
