---------------------------- MODULE EthRxProofs ----------------------------
(***************************************************************************)
(* Proofs for the receive path: every buffer has one owner, the frames the *)
(* stack holds stay intact and have their own length, the tail of the ring *)
(* never catches up with the DMA or the input thread, and no wake-up is    *)
(* lost, for every number of descriptors, pbufs and threads.               *)
(***************************************************************************)
EXTENDS EthRx, FiniteSetTheorems, TLAPS

\* Where the three counters are in the ring, and that they keep their order.
RingInv ==
    /\ recycled <= processed /\ processed <= received
    /\ received <= recycled + (N - 1)
    /\ cur = At(received) /\ toProcess = At(processed)
    /\ tail = At(recycled + (N - 1))

\* What the DMA has written into the window, and what it has not.
FilledInv ==
    \A k \in Window :
        IF k < received
        THEN ~own[At(k)] /\ len[At(k)] = k /\ content[desc0[At(k)]] = k
        ELSE len[At(k)] = NoFrame

\* The mutex is held by the thread that hands a buffer back.
MutexInv == \A t \in Threads : rx_ptk_mutex = t <=> InHand(t)

\* The input thread hands one back only after a discard or a rejected frame.
PlaceOfInput ==
    /\ ipc = "discard" => InHand(Input) /\ fbuf[Input] = bufferPtr
    /\ ipc \notin {"discard", "free"} => fpc[Input] = "idle"

\* What the input thread read from the descriptor is still there when it tests
\* it; the length may have been read before the DMA wrote it.
ReadInv ==
    ipc = "test" /\ processed < recycled + (N - 1)
        => bufferPtr = desc0[toProcess] /\ bufferLength \in {NoFrame, processed}

HandInv == MutexInv /\ PlaceOfInput /\ ReadInv

\* The input thread holds a buffer it has made a pbuf of.
Holding == ipc \in {"deliver", "reject"}

\* A buffer out of the ring is in one place.
PlaceInv ==
    /\ Holding => bufferPtr \notin stack
    /\ rx_ptk_mutex # NoThread => fbuf[rx_ptk_mutex] \notin stack
    /\ rx_ptk_mutex # NoThread /\ Holding => fbuf[rx_ptk_mutex] # bufferPtr

One(p) == IF p THEN 1 ELSE 0

\* As many buffers are out of the ring as were processed and not recycled.
CountInv ==
    Cardinality(stack) + One(Holding) + One(rx_ptk_mutex # NoThread) = processed - recycled

\* Threads on their way to give a pbuf back to the pool.
Freeing == {t \in Threads : fpc[t] # "idle" /\ ~(t = Input /\ ipc = "discard")}

\* A pbuf is in the stack, with the input thread, or with a thread that frees it.
PoolInv ==
    /\ IsFiniteSet(Freeing)
    /\ pool = Cardinality(stack) + One(Holding) + Cardinality(Freeing)
-----------------------------------------------------------------------------
(* The ring: descriptors are counted modulo N.                             *)

\* What the assumptions say of the constants.
LEMMA Constants ==
    /\ N \in Nat /\ N > 1
    /\ PoolSize \in Nat
    /\ Input \in Threads /\ Input \notin Freers /\ NoThread \notin Threads
    /\ NoFrame \notin Nat
  BY EthRxAssumption DEF Threads

\* The descriptor is what whole rounds leave of the count.
LEMMA Remainder ==
    ASSUME NEW n \in Nat, NEW q \in Nat, NEW r \in 0..(N - 1), n = (N * q) + r
    PROVE  n % N = r
  BY Constants

\* The next descriptor of a ring of N, with the case split of increase.
LEMMA AtNext ==
    ASSUME NEW k \in Nat
    PROVE  At(k) \in Index /\ At(k) \in Buffers /\ increase(At(k)) = At(k + 1)
<1> DEFINE q == k \div N
           r == k % N
<1>1. q \in Nat /\ r \in 0..(N - 1) /\ k = (N * q) + r
  BY Constants
<1> HIDE DEF q, r
<1>2. CASE r = N - 1
  <2>1. k + 1 = (N * (q + 1)) + 0 /\ q + 1 \in Nat /\ 0 \in 0..(N - 1) /\ k + 1 \in Nat
    BY <1>1, <1>2, Constants
  <2>2. (k + 1) % N = 0
    BY <2>1, Remainder
  <2> QED
    BY <1>1, <1>2, <2>2, Constants DEF At, increase, Index, Buffers, r
<1>3. CASE r # N - 1
  <2>1. k + 1 = (N * q) + (r + 1) /\ r + 1 \in 0..(N - 1)
    BY <1>1, <1>3, Constants
  <2>2. (k + 1) % N = r + 1
    BY <1>1, <2>1, Constants
  <2> QED
    BY <1>1, <1>3, <2>2, Constants DEF At, increase, Index, Buffers, r
<1> QED
  BY <1>2, <1>3

\* Fewer than N descriptors in a row are different ones.
LEMMA AtApart ==
    ASSUME NEW a \in Nat, NEW b \in Nat, a <= b, b < a + N, At(a) = At(b)
    PROVE  a = b
<1> DEFINE qa == a \div N
           qb == b \div N
           r  == a % N
<1>1. qa \in Nat /\ qb \in Nat /\ r \in 0..(N - 1) /\ a = (N * qa) + r
  BY Constants
<1>2. b = (N * qb) + r
  BY Constants DEF At
<1> HIDE DEF qa, qb, r
<1>3. N * qa \in Nat /\ N * qb \in Nat /\ N * (qa + 1) = N * qa + N /\ N * (qb + 1) = N * qb + N
  BY <1>1, Constants
<1>4. qa < qb => N * (qa + 1) <= N * qb
  BY <1>1, Constants
<1>5. qb < qa => N * (qb + 1) <= N * qa
  BY <1>1, Constants
<1>6. qa = qb
  BY <1>1, <1>2, <1>3, <1>4, <1>5, Constants
<1> QED
  BY <1>1, <1>2, <1>6

\* Once round the ring.
LEMMA AtRound ==
    ASSUME NEW k \in Nat
    PROVE  At(k + N) = At(k)
<1> DEFINE q == k \div N
           r == k % N
<1>1. q \in Nat /\ r \in 0..(N - 1) /\ k = (N * q) + r
  BY Constants
<1> HIDE DEF q, r
<1>2. k + N = (N * (q + 1)) + r /\ q + 1 \in Nat
  BY <1>1, Constants
<1>3. (k + N) % N = r
  BY <1>1, <1>2, Remainder, Constants
<1> QED
  BY <1>3 DEF At, r
-----------------------------------------------------------------------------
(* Types.                                                                  *)

\* Turning a descriptor's index stays in the ring.
LEMMA IncreaseType ==
    ASSUME NEW i \in Index
    PROVE  increase(i) \in Index
  BY Constants DEF increase, Index

\* The stack holds finitely many buffers.
LEMMA StackFinite ==
    ASSUME TypeOK
    PROVE  IsFiniteSet(stack) /\ Cardinality(stack) \in Nat
<1>1. stack \subseteq 0..(N - 1)
  BY DEF TypeOK, Buffers
<1>2. IsFiniteSet(0..(N - 1))
  BY FS_Interval, Constants
<1>3. IsFiniteSet(stack)
  BY <1>1, <1>2, FS_Subset
<1> QED
  BY <1>3, FS_CardinalityType

\* A thread that gives its pbuf back took it from the pool.
LEMMA PoolTaken ==
    ASSUME TypeOK, PoolInv, NEW t \in Threads, fpc[t] = "pool", HandInv
    PROVE  pool >= 1
<1>1. t \in Freeing
  BY DEF Freeing, HandInv, PlaceOfInput, InHand
<1>2. IsFiniteSet(stack)
  BY StackFinite
<1>3. Cardinality(stack) \in Nat /\ Cardinality(Freeing) \in Nat
  BY <1>2, FS_CardinalityType DEF PoolInv
<1>4. Cardinality(Freeing) # 0
  BY <1>1, FS_EmptySet DEF PoolInv
<1>5. One(Holding) \in {0, 1}
  BY DEF One
<1> QED
  BY <1>3, <1>4, <1>5 DEF PoolInv

\* The type invariant in two parts: the link and its interrupt, and the ring.
WakeTypes ==
    /\ link \in {"stopped", "started", "cleared", "up", "masked"}
    /\ RI \in BOOLEAN /\ erased \in BOOLEAN
    /\ isr \in {"idle", "clear"}
    /\ rxPktSemaphore \in BOOLEAN

RingTypes ==
    /\ desc0 \in [Index -> Buffers]
    /\ own \in [Index -> BOOLEAN]
    /\ len \in [Index -> Nat \cup {NoFrame}]
    /\ good \in [Index -> BOOLEAN]
    /\ content \in [Buffers -> Nat \cup {NoFrame}]
    /\ cur \in Index /\ tail \in Index /\ toProcess \in Index
    /\ ipc \in {"wait", "read", "test", "deliver", "reject", "discard", "free"}
    /\ bufferPtr \in Buffers
    /\ bufferLength \in Nat \cup {NoFrame}
    /\ why \in {"empty", "no pbuf", "discard"}
    /\ stack \subseteq Buffers
    /\ pbufLen \in [Buffers -> Nat \cup {NoFrame}]
    /\ rx_ptk_mutex \in Threads \cup {NoThread}
    /\ fpc \in [Threads -> {"idle", "prepare", "write", "pool", "error"}]
    /\ fbuf \in [Threads -> Buffers]
    /\ pool \in 0..PoolSize
    /\ error \in BOOLEAN
    /\ received \in Nat /\ processed \in Nat /\ recycled \in Nat
    /\ frameOf \in [Buffers -> Nat \cup {NoFrame}]

\* The two together are the type invariant.
LEMMA TypeParts == TypeOK <=> WakeTypes /\ RingTypes
  BY ZenonT(30) DEF TypeOK, WakeTypes, RingTypes

\* Every action keeps the types of the link and its interrupt.
LEMMA WakeTypesStep ==
    ASSUME WakeTypes, [Next]_vars
    PROVE  WakeTypes'
<1> USE DEF WakeTypes
<1>1. ASSUME UNCHANGED <<link, RI, erased, isr>>, rxPktSemaphore' \in BOOLEAN PROVE WakeTypes'
  BY <1>1, Zenon
<1>2. ASSUME NEW g \in BOOLEAN, DmaReceive(g) PROVE WakeTypes'
  BY <1>2, Zenon DEF DmaReceive
<1>3. ASSUME LinkStep PROVE WakeTypes'
  <2>1. link' \in {"stopped", "started", "cleared", "up", "masked"}
    BY <1>3 DEF LinkStep, LinkFinish, StartDma, StartClear, StartIrqs, StopIrqs, StopDma, LinkThread
  <2>2. RI' \in BOOLEAN /\ erased' \in BOOLEAN
    BY <1>3, Zenon DEF LinkStep, LinkFinish, StartDma, StartClear, StartIrqs, StopIrqs, StopDma
  <2>3. UNCHANGED <<isr, rxPktSemaphore>>
    BY <1>3, Zenon DEF LinkStep, LinkFinish, StartDma, StartClear, StartIrqs, StopIrqs, StopDma,
       LinkThread
  <2> QED
    BY <2>1, <2>2, <2>3, Zenon
<1>4. ASSUME Isr PROVE WakeTypes'
  BY <1>4, Zenon DEF Isr, IsrRelease, IsrClear
<1>5. ASSUME InputWake PROVE WakeTypes'
  BY <1>5, Zenon DEF InputWake
<1>6. ASSUME InputStep, ~InputWake PROVE WakeTypes'
  <2>1. UNCHANGED <<link, RI, erased, isr, rxPktSemaphore>>
    BY <1>6, Zenon DEF InputStep, InputRead, InputNone, InputDiscard, InputTake, InputDeliver,
       InputReject, InputFree, isrVars
  <2> QED
    BY <1>1, <2>1, Zenon
<1>7. ASSUME \/ \E t \in Freers, b \in stack : StackFree(t, b)
             \/ \E t \in Threads : GiveBack(t)
      PROVE  WakeTypes'
  <2>1. UNCHANGED <<link, RI, erased, isr, rxPktSemaphore>>
    BY <1>7, Zenon DEF StackFree, GiveBack, PrepareCheck, PrepareWrite, PoolFree, isrVars
  <2> QED
    BY <1>1, <2>1, Zenon
<1>8. ASSUME UNCHANGED vars PROVE WakeTypes'
  BY <1>1, <1>8, Zenon DEF vars
<1> QED
  BY <1>2, <1>3, <1>4, <1>5, <1>6, <1>7, <1>8, Zenon DEF Next

\* Every action keeps the types of the ring.
LEMMA RingTypesStep ==
    ASSUME TypeOK, RingTypes, HandInv, PoolInv, [Next]_vars
    PROVE  RingTypes'
<1>a. \A n \in Nat : n + 1 \in Nat
  OBVIOUS
<1>b. pool \in 0..PoolSize
  BY DEF RingTypes
<1>c. pool < PoolSize => pool + 1 \in 0..PoolSize
  BY <1>b, Constants
<1>d. ASSUME NEW t \in Threads, fpc[t] = "pool" PROVE pool - 1 \in 0..PoolSize
  BY <1>b, <1>d, PoolTaken, Constants
<1> USE DEF RingTypes, ringVars, dmaVars, isrVars, inputVars, returnVars
<1>1. ASSUME NEW g \in BOOLEAN, DmaReceive(g) PROVE RingTypes'
  <2>1. desc0[cur] \in Buffers /\ received \in Nat /\ received + 1 \in Nat
    BY <1>a
  <2>2. cur' \in Index
    BY <1>1, IncreaseType DEF DmaReceive
  <2>3. /\ content' \in [Buffers -> Nat \cup {NoFrame}]
        /\ len' \in [Index -> Nat \cup {NoFrame}]
    BY <1>1, <2>1 DEF DmaReceive
  <2>4. own' \in [Index -> BOOLEAN] /\ good' \in [Index -> BOOLEAN]
    BY <1>1, Zenon DEF DmaReceive
  <2> QED
    BY <1>1, <2>1, <2>2, <2>3, <2>4, Zenon DEF DmaReceive
<1>2. ASSUME LinkStep PROVE RingTypes'
  BY <1>2, Zenon DEF LinkStep, LinkFinish, StartDma, StartClear, StartIrqs, StopIrqs, StopDma, LinkThread
<1>3. ASSUME Isr PROVE RingTypes'
  BY <1>3, Zenon DEF Isr, IsrRelease, IsrClear
<1>4. ASSUME InputWake \/ InputNone \/ InputReject PROVE RingTypes'
  BY <1>4, Zenon DEF InputWake, InputNone, InputReject
<1>5. ASSUME InputRead PROVE RingTypes'
  <2>1. desc0[toProcess] \in Buffers /\ len[toProcess] \in Nat \cup {NoFrame}
    OBVIOUS
  <2> QED
    BY <1>5, <2>1, Zenon DEF InputRead
<1>6. ASSUME InputDiscard PROVE RingTypes'
  <2>1. toProcess' \in Index
    BY <1>6, IncreaseType DEF InputDiscard, Advance
  <2>2. processed' \in Nat
    BY <1>6, <1>a DEF InputDiscard, Advance
  <2>3. frameOf' \in [Buffers -> Nat \cup {NoFrame}]
    BY <1>6 DEF InputDiscard, Advance
  <2>4. /\ rx_ptk_mutex' \in Threads \cup {NoThread} /\ fbuf' \in [Threads -> Buffers]
        /\ fpc' \in [Threads -> {"idle", "prepare", "write", "pool", "error"}]
    BY <1>6, Constants DEF InputDiscard
  <2> QED
    BY <1>6, <2>1, <2>2, <2>3, <2>4, Zenon DEF InputDiscard
<1>7. ASSUME InputTake PROVE RingTypes'
  <2>1. toProcess' \in Index
    BY <1>7, IncreaseType DEF InputTake, Advance
  <2>2. processed' \in Nat
    BY <1>7, <1>a DEF InputTake, Advance
  <2>3. frameOf' \in [Buffers -> Nat \cup {NoFrame}]
    BY <1>7 DEF InputTake, Advance
  <2>4. pool' \in 0..PoolSize
    BY <1>7, <1>c, Zenon DEF InputTake
  <2>5. pbufLen' \in [Buffers -> Nat \cup {NoFrame}]
    BY <1>7 DEF InputTake
  <2> QED
    BY <1>7, <2>1, <2>2, <2>3, <2>4, <2>5, Zenon DEF InputTake
<1>8. ASSUME InputDeliver PROVE RingTypes'
  BY <1>8, Zenon DEF InputDeliver
<1>9. ASSUME InputFree PROVE RingTypes'
  <2>1. /\ rx_ptk_mutex' \in Threads \cup {NoThread} /\ fbuf' \in [Threads -> Buffers]
        /\ fpc' \in [Threads -> {"idle", "prepare", "write", "pool", "error"}]
    BY <1>9, Constants DEF InputFree
  <2> QED
    BY <1>9, <2>1, Zenon DEF InputFree
<1>10. ASSUME NEW t \in Freers, NEW b \in stack, StackFree(t, b) PROVE RingTypes'
  <2>1. /\ rx_ptk_mutex' \in Threads \cup {NoThread} /\ fbuf' \in [Threads -> Buffers]
        /\ fpc' \in [Threads -> {"idle", "prepare", "write", "pool", "error"}]
        /\ stack' \subseteq Buffers
    BY <1>10 DEF StackFree, Threads
  <2> QED
    BY <1>10, <2>1, Zenon DEF StackFree
<1>11. ASSUME NEW t \in Threads, PrepareCheck(t) PROVE RingTypes'
  <2>1. /\ fpc' \in [Threads -> {"idle", "prepare", "write", "pool", "error"}]
        /\ error' \in BOOLEAN
    BY <1>11 DEF PrepareCheck
  <2> QED
    BY <1>11, <2>1, Zenon DEF PrepareCheck
<1>12. ASSUME NEW t \in Threads, PrepareWrite(t) PROVE RingTypes'
  <2>1. /\ desc0' \in [Index -> Buffers] /\ len' \in [Index -> Nat \cup {NoFrame}]
        /\ rx_ptk_mutex' \in Threads \cup {NoThread}
    BY <1>12 DEF PrepareWrite
  <2>4. tail' \in Index
    BY <1>12, IncreaseType DEF PrepareWrite
  <2>5. recycled' \in Nat
    BY <1>12, <1>a DEF PrepareWrite
  <2>2. own' \in [Index -> BOOLEAN] /\ good' \in [Index -> BOOLEAN]
    BY <1>12, Zenon DEF PrepareWrite
  <2>3. /\ fpc' \in [Threads -> {"idle", "prepare", "write", "pool", "error"}]
        /\ ipc' \in {"wait", "read", "test", "deliver", "reject", "discard", "free"}
        /\ why' \in {"empty", "no pbuf", "discard"}
    BY <1>12 DEF PrepareWrite
  <2> QED
    BY <1>12, <2>1, <2>2, <2>3, <2>4, <2>5, Zenon DEF PrepareWrite
<1>13. ASSUME NEW t \in Threads, PoolFree(t) PROVE RingTypes'
  <2>1. pool' \in 0..PoolSize
    BY <1>13, <1>d, Zenon DEF PoolFree
  <2>2. /\ fpc' \in [Threads -> {"idle", "prepare", "write", "pool", "error"}]
        /\ ipc' \in {"wait", "read", "test", "deliver", "reject", "discard", "free"}
    BY <1>13 DEF PoolFree
  <2> QED
    BY <1>13, <2>1, <2>2, Zenon DEF PoolFree
<1>14. ASSUME UNCHANGED vars PROVE RingTypes'
  BY <1>14, ZenonT(30) DEF vars
<1> QED
  BY <1>1, <1>2, <1>3, <1>4, <1>5, <1>6, <1>7, <1>8, <1>9, <1>10, <1>11, <1>12, <1>13, <1>14,
     Zenon DEF Next, InputStep, GiveBack
\* Every action keeps the types.
LEMMA TypeStep ==
    ASSUME TypeOK, HandInv, PoolInv, [Next]_vars
    PROVE  TypeOK'
<1>1. WakeTypes /\ RingTypes
  BY TypeParts
<1>2. WakeTypes' /\ RingTypes'
  BY <1>1, WakeTypesStep, RingTypesStep
<1>3. TypeOK' <=> WakeTypes' /\ RingTypes'
  BY TypeParts, PTL
<1> QED
  BY <1>2, <1>3
-----------------------------------------------------------------------------
(* What the counters say of the ring.                                      *)

\* The window, between the input thread and the tail.
LEMMA InWindow ==
    ASSUME TypeOK
    PROVE  \A k : k \in Window <=> k \in Nat /\ processed <= k /\ k < recycled + (N - 1)
<1>1. processed \in Nat /\ recycled \in Nat
  BY DEF TypeOK
<1> QED
  BY <1>1, Constants DEF Window

\* Its descriptors are different ones, and the one at the tail is none of them.
LEMMA WindowApart ==
    ASSUME TypeOK, RingInv
    PROVE  /\ \A k \in Window : At(k) \in Index /\ At(k) # tail
           /\ \A j, k \in Window : At(j) = At(k) => j = k
<1>1. processed \in Nat /\ recycled \in Nat /\ received \in Nat
  BY DEF TypeOK
<1>2. recycled <= processed /\ tail = At(recycled + (N - 1))
  BY DEF RingInv
<1>3. ASSUME NEW k \in Window PROVE At(k) \in Index /\ At(k) # tail
  <2>1. k \in Nat /\ processed <= k /\ k < recycled + (N - 1)
    BY <1>3, InWindow
  <2>2. recycled + (N - 1) \in Nat /\ k <= recycled + (N - 1) /\ recycled + (N - 1) < k + N
    BY <1>1, <1>2, <2>1, Constants
  <2>3. At(k) # At(recycled + (N - 1))
    BY <2>1, <2>2, AtApart
  <2> QED
    BY <1>2, <2>1, <2>3, AtNext
<1>4. ASSUME NEW j \in Window, NEW k \in Window, At(j) = At(k) PROVE j = k
  <2>1. j \in Nat /\ k \in Nat /\ j < k + N /\ k < j + N
    <3>1. j \in Nat /\ processed <= j /\ j < recycled + (N - 1)
      BY <1>4, InWindow
    <3>2. k \in Nat /\ processed <= k /\ k < recycled + (N - 1)
      BY <1>4, InWindow
    <3> QED
      BY <1>1, <1>2, <3>1, <3>2, Constants
  <2>2. CASE j <= k
    BY <1>4, <2>1, <2>2, AtApart
  <2>3. CASE k <= j
    BY <1>4, <2>1, <2>3, AtApart
  <2> QED
    BY <2>1, <2>2, <2>3
<1> QED
  BY <1>3, <1>4

\* The tests of the code on indices, in terms of the counters: what the tail
\* catches up with, where the DMA stops, and when the input thread finds nothing.
LEMMA IndexTests ==
    ASSUME TypeOK, RingInv, FilledInv
    PROVE  /\ cur = increase(tail) <=> received = recycled
           /\ toProcess = increase(tail) <=> processed = recycled
           /\ cur # tail => received < recycled + (N - 1)
           /\ Empty <=> processed = received
           /\ processed < received => processed \in Window
           /\ received < recycled + (N - 1) => received \in Window
<1>1. processed \in Nat /\ recycled \in Nat /\ received \in Nat
  BY DEF TypeOK
<1>2. /\ recycled <= processed /\ processed <= received /\ received <= recycled + (N - 1)
      /\ cur = At(received) /\ toProcess = At(processed) /\ tail = At(recycled + (N - 1))
  BY DEF RingInv
<1>3. increase(tail) = At(recycled)
  <2>1. recycled + (N - 1) \in Nat /\ (recycled + (N - 1)) + 1 = recycled + N
    BY <1>1, Constants
  <2>2. increase(tail) = At(recycled + N)
    BY <1>2, <2>1, AtNext
  <2> QED
    BY <1>1, <2>2, AtRound
<1>4. received < recycled + N /\ processed < recycled + N /\ received < processed + N
      /\ recycled <= received
  BY <1>1, <1>2, Constants
<1>5. cur = increase(tail) <=> received = recycled
  BY <1>1, <1>2, <1>3, <1>4, AtApart
<1>6. toProcess = increase(tail) <=> processed = recycled
  BY <1>1, <1>2, <1>3, <1>4, AtApart
<1>7. cur # tail => received < recycled + (N - 1)
  BY <1>1, <1>2, Constants
<1>8. processed < received => processed \in Window
  BY <1>1, <1>2, InWindow, Constants
<1>9. received < recycled + (N - 1) => received \in Window
  BY <1>1, <1>2, InWindow, Constants
<1>10. Empty <=> processed = received
  <2>1. CASE processed = received
    BY <1>2, <2>1 DEF Empty
  <2>2. CASE processed # received
    <3>1. processed < received
      BY <1>1, <1>2, <2>2
    <3>2. ~own[toProcess]
      BY <1>2, <1>8, <3>1 DEF FilledInv
    <3>3. toProcess # cur
      BY <1>1, <1>2, <1>4, <2>2, AtApart
    <3> QED
      BY <2>2, <3>2, <3>3 DEF Empty
  <2> QED
    BY <2>1, <2>2
<1> QED
  BY <1>5, <1>6, <1>7, <1>8, <1>9, <1>10
-----------------------------------------------------------------------------
(* Who holds the mutex, and what the input thread has read.                *)

\* The mutex is taken by one thread and released by that thread.
LEMMA MutexStep ==
    ASSUME TypeOK, MutexInv, PlaceOfInput, [Next]_vars
    PROVE  MutexInv' /\ PlaceOfInput'
<1> USE DEF MutexInv, PlaceOfInput, InHand
<1>1. /\ rx_ptk_mutex \in Threads \cup {NoThread}
      /\ fpc \in [Threads -> {"idle", "prepare", "write", "pool", "error"}]
      /\ fbuf \in [Threads -> Buffers]
      /\ Input \in Threads /\ NoThread \notin Threads
  BY Constants DEF TypeOK
<1>2. ASSUME UNCHANGED <<rx_ptk_mutex, fpc, fbuf, ipc, bufferPtr>> PROVE MutexInv' /\ PlaceOfInput'
  BY <1>2
<1>3. ASSUME NEW g \in BOOLEAN, DmaReceive(g) PROVE MutexInv' /\ PlaceOfInput'
  BY <1>2, <1>3 DEF DmaReceive, returnVars, inputVars
<1>4. ASSUME LinkStep \/ Isr PROVE MutexInv' /\ PlaceOfInput'
  BY <1>2, <1>4 DEF LinkStep, LinkFinish, StartDma, StartClear, StartIrqs, StopIrqs, StopDma, LinkThread, Isr, IsrRelease, IsrClear, returnVars, inputVars
<1>5. ASSUME InputWake \/ InputNone \/ InputReject \/ InputRead \/ InputTake \/ InputDeliver
      PROVE  MutexInv' /\ PlaceOfInput'
  <2>1. /\ UNCHANGED <<rx_ptk_mutex, fpc, fbuf>>
        /\ ipc \notin {"discard", "free"} /\ ipc' \notin {"discard", "free"}
    BY <1>5 DEF InputWake, InputNone, InputReject, InputRead, InputTake, InputDeliver, returnVars
  <2> QED
    BY <2>1
<1>6. ASSUME InputDiscard \/ InputFree PROVE MutexInv' /\ PlaceOfInput'
  <2>1. /\ rx_ptk_mutex = NoThread /\ rx_ptk_mutex' = Input /\ ipc' \in {"discard", "free"}
        /\ fpc' = [fpc EXCEPT ![Input] = "prepare"]
        /\ fbuf' = [fbuf EXCEPT ![Input] = bufferPtr]
        /\ bufferPtr' = bufferPtr
    BY <1>6 DEF InputDiscard, InputFree, inputVars
  <2>2. fpc'[Input] = "prepare" /\ fbuf'[Input] = bufferPtr
        /\ \A t \in Threads : t # Input => fpc'[t] = fpc[t]
    BY <1>1, <2>1
  <2>3. PlaceOfInput'
    BY <2>1, <2>2
  <2>4. MutexInv'
    BY <1>1, <2>1, <2>2
  <2> QED
    BY <2>3, <2>4
<1>7. ASSUME NEW t \in Freers, NEW b \in stack, StackFree(t, b) PROVE MutexInv' /\ PlaceOfInput'
  <2>1. /\ rx_ptk_mutex = NoThread /\ rx_ptk_mutex' = t
        /\ fpc' = [fpc EXCEPT ![t] = "prepare"]
        /\ fbuf' = [fbuf EXCEPT ![t] = b]
        /\ bufferPtr' = bufferPtr /\ ipc' = ipc
    BY <1>7 DEF StackFree, inputVars
  <2>2. t \in Threads /\ t # Input
    BY Constants DEF Threads
  <2>3. /\ fpc'[t] = "prepare"
        /\ \A u \in Threads : u # t => fpc'[u] = fpc[u] /\ fbuf'[u] = fbuf[u]
    BY <1>1, <2>1, <2>2
  <2>4. PlaceOfInput'
    BY <1>1, <2>1, <2>2, <2>3
  <2>5. MutexInv'
    BY <1>1, <2>1, <2>2, <2>3
  <2> QED
    BY <2>4, <2>5
<1>8. ASSUME NEW t \in Threads, PrepareCheck(t) PROVE MutexInv' /\ PlaceOfInput'
  <2>1. /\ UNCHANGED <<rx_ptk_mutex, fbuf, ipc, bufferPtr>>
        /\ fpc[t] = "prepare"
        /\ \E s \in {"error", "write"} : fpc' = [fpc EXCEPT ![t] = s]
    BY <1>8 DEF PrepareCheck, inputVars
  <2>2. /\ fpc'[t] \in {"error", "write"}
        /\ \A u \in Threads : u # t => fpc'[u] = fpc[u]
    BY <1>1, <2>1
  <2>3. PlaceOfInput'
    BY <1>1, <2>1, <2>2
  <2>4. MutexInv'
    BY <1>1, <2>1, <2>2
  <2> QED
    BY <2>3, <2>4
<1>9. ASSUME NEW t \in Threads, PrepareWrite(t) PROVE MutexInv' /\ PlaceOfInput'
  <2>1. /\ rx_ptk_mutex' = NoThread /\ UNCHANGED <<fbuf, bufferPtr>>
        /\ fpc[t] = "write"
        /\ t = Input /\ ipc = "discard" => fpc' = [fpc EXCEPT ![t] = "idle"] /\ ipc' = "wait"
        /\ ~(t = Input /\ ipc = "discard") => fpc' = [fpc EXCEPT ![t] = "pool"] /\ ipc' = ipc
    BY <1>9 DEF PrepareWrite, inputVars
  <2>2. /\ t = Input /\ ipc = "discard" => fpc'[t] = "idle"
        /\ ~(t = Input /\ ipc = "discard") => fpc'[t] = "pool"
        /\ \A u \in Threads : u # t => fpc'[u] = fpc[u]
    BY <1>1, <2>1
  <2>3. rx_ptk_mutex = t
    BY <2>1
  <2>4. PlaceOfInput'
    BY <1>1, <2>1, <2>2, <2>3
  <2>5. MutexInv'
    BY <1>1, <2>1, <2>2, <2>3
  <2> QED
    BY <2>4, <2>5
<1>10. ASSUME NEW t \in Threads, PoolFree(t) PROVE MutexInv' /\ PlaceOfInput'
  <2>1. /\ UNCHANGED <<rx_ptk_mutex, fbuf, bufferPtr>>
        /\ fpc[t] = "pool" /\ fpc' = [fpc EXCEPT ![t] = "idle"]
        /\ ipc' = IF t = Input THEN "read" ELSE ipc
    BY <1>10 DEF PoolFree, inputVars
  <2>2. fpc'[t] = "idle" /\ \A u \in Threads : u # t => fpc'[u] = fpc[u]
    BY <1>1, <2>1
  <2>3. PlaceOfInput'
    BY <1>1, <2>1, <2>2
  <2>4. MutexInv'
    BY <1>1, <2>1, <2>2
  <2> QED
    BY <2>3, <2>4
<1>11. ASSUME UNCHANGED vars PROVE MutexInv' /\ PlaceOfInput'
  BY <1>2, <1>11 DEF vars
<1> QED
  BY <1>3, <1>4, <1>5, <1>6, <1>7, <1>8, <1>9, <1>10, <1>11, Zenon DEF Next, InputStep, GiveBack

\* Nobody but the DMA runs between the read and the test, unless the descriptor
\* is filled already.
LEMMA ReadStep ==
    ASSUME TypeOK, RingInv, FilledInv, HandInv, [Next]_vars
    PROVE  ReadInv'
<1> USE DEF ReadInv
<1>1. /\ processed \in Nat /\ recycled \in Nat /\ received \in Nat
      /\ desc0 \in [Index -> Buffers] /\ tail \in Index /\ toProcess \in Index
  BY DEF TypeOK
<1>2. ReadInv /\ MutexInv /\ PlaceOfInput
  BY DEF HandInv
<1>3. ASSUME ipc' # "test" PROVE ReadInv'
  BY <1>3
<1>4. ASSUME UNCHANGED <<ipc, processed, recycled, bufferPtr, desc0, toProcess, bufferLength>>
      PROVE  ReadInv'
  BY <1>2, <1>4
<1>5. ASSUME NEW g \in BOOLEAN, DmaReceive(g) PROVE ReadInv'
  BY <1>4, <1>5 DEF DmaReceive, returnVars, inputVars
<1>6. ASSUME LinkStep \/ Isr PROVE ReadInv'
  BY <1>4, <1>6 DEF LinkStep, LinkFinish, StartDma, StartClear, StartIrqs, StopIrqs, StopDma, LinkThread, Isr, IsrRelease, IsrClear, returnVars,
     inputVars, ringVars
<1>7. ASSUME InputWake \/ InputNone \/ InputReject \/ InputTake \/ InputDeliver \/ InputDiscard
             \/ InputFree
      PROVE  ReadInv'
  BY <1>3, <1>7 DEF InputWake, InputNone, InputReject, InputTake, InputDeliver, InputDiscard, InputFree
<1>8. ASSUME InputRead PROVE ReadInv'
  <2>1. /\ bufferPtr' = desc0[toProcess] /\ bufferLength' = len[toProcess]
        /\ UNCHANGED <<desc0, toProcess, processed, recycled>>
    BY <1>8 DEF InputRead, ringVars, returnVars
  <2>2. ASSUME processed < recycled + (N - 1) PROVE len[toProcess] \in {NoFrame, processed}
    <3>1. processed \in Window /\ toProcess = At(processed)
      BY <1>1, <2>2, InWindow DEF RingInv
    <3> QED
      BY <3>1 DEF FilledInv
  <2> QED
    BY <2>1, <2>2
<1>9. ASSUME NEW t \in Freers, NEW b \in stack, StackFree(t, b) PROVE ReadInv'
  BY <1>4, <1>9 DEF StackFree, inputVars, ringVars
<1>10. ASSUME NEW t \in Threads, PrepareCheck(t) PROVE ReadInv'
  BY <1>4, <1>10 DEF PrepareCheck, inputVars, ringVars
<1>11. ASSUME NEW t \in Threads, PrepareWrite(t) PROVE ReadInv'
  <2> SUFFICES ASSUME ipc' = "test" PROVE ReadInv'
    BY <1>3
  <2>1. ipc = "test" /\ t # Input
    BY <1>2, <1>11 DEF PrepareWrite, PlaceOfInput
  <2>2. ~Empty
    BY <1>11, <2>1 DEF PrepareWrite, MayRun, InputBlocked
  <2>3. processed < received /\ processed < recycled + (N - 1)
    <3>1. processed # received
      BY <2>2, IndexTests
    <3>2. processed <= received /\ received <= recycled + (N - 1)
      BY DEF RingInv
    <3> QED
      BY <1>1, <3>1, <3>2, Constants
  <2>4. toProcess # tail
    BY <2>3, IndexTests, WindowApart DEF RingInv
  <2>5. desc0'[toProcess] = desc0[toProcess] /\ UNCHANGED <<toProcess, bufferPtr, bufferLength, processed>>
    BY <1>1, <1>11, <2>4 DEF PrepareWrite, inputVars
  <2> QED
    BY <1>2, <2>1, <2>3, <2>5
<1>12. ASSUME NEW t \in Threads, PoolFree(t) PROVE ReadInv'
  <2>1. CASE t = Input
    BY <1>3, <1>12, <2>1 DEF PoolFree
  <2>2. CASE t # Input
    BY <1>4, <1>12, <2>2 DEF PoolFree, inputVars, ringVars
  <2> QED
    BY <2>1, <2>2
<1>13. ASSUME UNCHANGED vars PROVE ReadInv'
  BY <1>4, <1>13 DEF vars
<1> QED
  BY <1>5, <1>6, <1>7, <1>8, <1>9, <1>10, <1>11, <1>12, <1>13, Zenon DEF Next, InputStep, GiveBack

\* Both.
LEMMA HandStep ==
    ASSUME TypeOK, RingInv, FilledInv, HandInv, [Next]_vars
    PROVE  HandInv'
  BY MutexStep, ReadStep DEF HandInv
-----------------------------------------------------------------------------
(* What a step does to the ring and to the set of buffers out of it.       *)

\* A buffer out of the ring is with the stack, the input thread or the holder of
\* the mutex.
IsOut(b) ==
    \/ b \in stack
    \/ Holding /\ b = bufferPtr
    \/ rx_ptk_mutex # NoThread /\ b = fbuf[rx_ptk_mutex]

OutIsKnown == \A b : b \in Out <=> IsOut(b)

\* So says the definition of Out, as only the holder of the mutex hands one back.
LEMMA OutIs == TypeOK /\ MutexInv => OutIsKnown
<1> SUFFICES ASSUME TypeOK, MutexInv, NEW b
             PROVE  b \in Out <=> IsOut(b)
  BY DEF OutIsKnown
<1>1. rx_ptk_mutex \in Threads \cup {NoThread} /\ NoThread \notin Threads
  BY Constants DEF TypeOK
<1> DEFINE S == {fbuf[t] : t \in {u \in Threads : InHand(u)}}
<1>2. b \in S <=> (rx_ptk_mutex # NoThread /\ b = fbuf[rx_ptk_mutex])
  <2>1. ASSUME rx_ptk_mutex # NoThread, b = fbuf[rx_ptk_mutex]
        PROVE  b \in S
    BY <1>1, <2>1 DEF MutexInv
  <2>2. ASSUME NEW t \in Threads, InHand(t), b = fbuf[t]
        PROVE  rx_ptk_mutex # NoThread /\ b = fbuf[rx_ptk_mutex]
    BY <1>1, <2>2 DEF MutexInv
  <2> QED
    BY <2>1, <2>2
<1>3. b \in Out <=> (b \in stack \/ (Holding /\ b = bufferPtr) \/ b \in S)
  BY DEF Out, Holding
<1> HIDE DEF S
<1> QED
  BY <1>2, <1>3 DEF IsOut

\* The same after a step.
LEMMA OutIsNext == TypeOK' /\ MutexInv' => OutIsKnown'
  BY OutIs, PTL

\* The buffer of a discarded descriptor never became a pbuf.
Excused == IF ipc = "discard" THEN {bufferPtr} ELSE {}

\* Neither the ring nor the set of buffers out of it changes.
Quiet ==
    /\ UNCHANGED <<desc0, own, len, content, cur, received, tail, recycled>>
    /\ UNCHANGED <<toProcess, processed, frameOf, pbufLen>>
    /\ Out' = Out /\ Excused' = Excused

\* The DMA fills the descriptor it is at.
Receives ==
    /\ cur # tail
    /\ content' = [content EXCEPT ![desc0[cur]] = received]
    /\ own' = [own EXCEPT ![cur] = FALSE]
    /\ len' = [len EXCEPT ![cur] = received]
    /\ cur' = increase(cur) /\ received' = received + 1
    /\ UNCHANGED <<desc0, tail, recycled, toProcess, processed, frameOf, pbufLen>>
    /\ Out' = Out /\ Excused' = Excused

\* The input thread takes the buffer it has read, or discards it.
Takes ==
    /\ ~Empty
    /\ bufferPtr = desc0[toProcess]
    /\ Advance
    /\ \/ pbufLen' = pbufLen /\ Excused' = {bufferPtr}
       \/ /\ bufferLength \in {NoFrame, processed}
          /\ pbufLen' = [pbufLen EXCEPT ![bufferPtr] = bufferLength]
    /\ UNCHANGED <<desc0, own, len, content, cur, received, tail, recycled>>
    /\ \A c : c \in Out' <=> c \in Out \/ c = bufferPtr
    /\ Excused = {}

\* Buffer b is handed back at the tail.
Returns(b) ==
    /\ recycled < processed
    /\ b \in Out
    /\ desc0' = [desc0 EXCEPT ![tail] = b]
    /\ own' = [own EXCEPT ![tail] = TRUE]
    /\ len' = [len EXCEPT ![tail] = NoFrame]
    /\ tail' = increase(tail) /\ recycled' = recycled + 1
    /\ UNCHANGED <<content, cur, received, toProcess, processed, frameOf, pbufLen>>
    /\ \A c : c \in Out' <=> c \in Out /\ c # b
    /\ \A c \in Excused : c \in Excused' \/ c = b

\* While a thread hands a buffer back, one is out.
LEMMA OneIsOut ==
    ASSUME TypeOK, CountInv, rx_ptk_mutex # NoThread
    PROVE  recycled < processed
<1>1. Cardinality(stack) \in Nat /\ processed \in Nat /\ recycled \in Nat
  BY StackFinite DEF TypeOK
<1>2. One(Holding) \in {0, 1} /\ One(rx_ptk_mutex # NoThread) = 1
  BY DEF One
<1> QED
  BY <1>1, <1>2 DEF CountInv

\* Every step is one of these.
LEMMA Kinds ==
    ASSUME TypeOK, TypeOK', HandInv, HandInv', RingInv, FilledInv, PlaceInv, CountInv, [Next]_vars
    PROVE  Quiet \/ Receives \/ Takes \/ \E b \in Buffers : Returns(b)
<1>1. \A b : b \in Out <=> IsOut(b)
  BY OutIs DEF OutIsKnown, HandInv
<1>2. \A b : b \in Out' <=> IsOut(b)'
  BY OutIsNext DEF OutIsKnown, HandInv
<1>3. /\ rx_ptk_mutex \in Threads \cup {NoThread}
      /\ fpc \in [Threads -> {"idle", "prepare", "write", "pool", "error"}]
      /\ fbuf \in [Threads -> Buffers]
      /\ Input \in Threads /\ NoThread \notin Threads
  BY Constants DEF TypeOK
<1>4. MutexInv /\ PlaceOfInput /\ ReadInv
  BY DEF HandInv
<1>5. ASSUME UNCHANGED <<stack, ipc, bufferPtr, rx_ptk_mutex, fbuf>>
      PROVE  Out' = Out /\ Excused' = Excused
  <2>1. \A b : IsOut(b)' <=> IsOut(b)
    BY <1>5 DEF IsOut, Holding
  <2> QED
    BY <1>1, <1>2, <1>5, <2>1 DEF Excused
<1>6. ASSUME NEW g \in BOOLEAN, DmaReceive(g) PROVE Receives
  <2>1. Out' = Out /\ Excused' = Excused
    BY <1>5, <1>6 DEF DmaReceive, inputVars, returnVars
  <2> QED
    BY <1>6, <2>1 DEF DmaReceive, inputVars, returnVars, Receives
<1>7. ASSUME LinkStep \/ Isr PROVE Quiet
  <2>1. /\ UNCHANGED <<desc0, own, len, content, cur, received, tail, recycled>>
        /\ UNCHANGED <<toProcess, processed, frameOf, pbufLen>>
        /\ UNCHANGED <<stack, ipc, bufferPtr, rx_ptk_mutex, fbuf>>
    BY <1>7 DEF LinkStep, LinkFinish, StartDma, StartClear, StartIrqs, StopIrqs, StopDma, LinkThread, Isr, IsrRelease, IsrClear, ringVars, dmaVars,
       inputVars, returnVars
  <2> QED
    BY <1>5, <2>1 DEF Quiet
<1>8. ASSUME InputWake \/ InputRead \/ InputNone \/ InputReject PROVE Quiet
  <2>1. /\ UNCHANGED <<desc0, own, len, content, cur, received, tail, recycled>>
        /\ UNCHANGED <<toProcess, processed, frameOf, pbufLen>>
        /\ UNCHANGED <<stack, rx_ptk_mutex, fbuf>>
    BY <1>8 DEF InputWake, InputRead, InputNone, InputReject, ringVars, dmaVars, inputVars, returnVars
  <2>2. \/ bufferPtr' = bufferPtr /\ Holding /\ Holding'
        \/ ~Holding /\ ~Holding'
    BY <1>8 DEF InputWake, InputRead, InputNone, InputReject, inputVars, Holding
  <2>3. ipc # "discard" /\ ipc' # "discard"
    BY <1>8 DEF InputWake, InputRead, InputNone, InputReject
  <2>4. \A b : IsOut(b)' <=> IsOut(b)
    BY <2>1, <2>2 DEF IsOut
  <2> QED
    BY <1>1, <1>2, <2>1, <2>3, <2>4 DEF Quiet, Excused
<1>9. ASSUME InputDiscard \/ InputTake PROVE Takes
  <2>1. /\ UNCHANGED <<desc0, own, len, content, cur, received, tail, recycled, stack, bufferPtr>>
        /\ ~Empty /\ Advance /\ ipc = "test"
    BY <1>9 DEF InputDiscard, InputTake, ringVars, dmaVars, returnVars
  <2>2. bufferPtr = desc0[toProcess] /\ bufferLength \in {NoFrame, processed}
    <3>1. processed # received /\ processed \in Nat /\ received \in Nat /\ recycled \in Nat
      BY <2>1, IndexTests DEF TypeOK
    <3>2. processed <= received /\ received <= recycled + (N - 1)
      BY DEF RingInv
    <3>3. processed < recycled + (N - 1)
      BY <3>1, <3>2, Constants
    <3> QED
      BY <1>4, <2>1, <3>3 DEF ReadInv
  <2>3. \/ pbufLen' = pbufLen /\ Excused' = {bufferPtr}
        \/ pbufLen' = [pbufLen EXCEPT ![bufferPtr] = bufferLength]
    BY <1>9 DEF InputDiscard, InputTake, Excused
  <2>4. Excused = {} /\ ~Holding
    BY <2>1 DEF Excused, Holding
  <2>5. \A b : IsOut(b)' <=> IsOut(b) \/ b = bufferPtr
    <3>1. CASE InputDiscard
      <4>1. /\ rx_ptk_mutex = NoThread /\ rx_ptk_mutex' = Input /\ ~Holding'
            /\ fbuf' = [fbuf EXCEPT ![Input] = bufferPtr]
        BY <3>1 DEF InputDiscard, Holding
      <4>2. fbuf'[Input] = bufferPtr /\ Input # NoThread
        BY <1>3, <4>1
      <4> QED
        BY <2>1, <2>4, <4>1, <4>2 DEF IsOut
    <3>2. CASE InputTake
      <4>1. UNCHANGED <<rx_ptk_mutex, fbuf>> /\ Holding'
        BY <3>2 DEF InputTake, returnVars, Holding
      <4> QED
        BY <2>1, <2>4, <4>1 DEF IsOut
    <3> QED
      BY <1>9, <3>1, <3>2
  <2> QED
    BY <1>1, <1>2, <2>1, <2>2, <2>3, <2>4, <2>5 DEF Takes
<1>10. ASSUME InputDeliver PROVE Quiet
  <2>1. /\ UNCHANGED <<desc0, own, len, content, cur, received, tail, recycled>>
        /\ UNCHANGED <<toProcess, processed, frameOf, pbufLen, bufferPtr, rx_ptk_mutex, fbuf>>
        /\ stack' = stack \cup {bufferPtr} /\ ipc = "deliver" /\ ipc' = "read"
    BY <1>10 DEF InputDeliver, ringVars, dmaVars, inputVars, returnVars
  <2>2. \A b : IsOut(b)' <=> IsOut(b)
    BY <2>1 DEF IsOut, Holding
  <2> QED
    BY <1>1, <1>2, <2>1, <2>2 DEF Quiet, Excused
<1>11. ASSUME InputFree PROVE Quiet
  <2>1. /\ UNCHANGED <<desc0, own, len, content, cur, received, tail, recycled>>
        /\ UNCHANGED <<toProcess, processed, frameOf, pbufLen, bufferPtr, stack>>
        /\ ipc = "reject" /\ ipc' = "free"
        /\ rx_ptk_mutex = NoThread /\ rx_ptk_mutex' = Input
        /\ fbuf' = [fbuf EXCEPT ![Input] = bufferPtr]
    BY <1>11 DEF InputFree, ringVars, dmaVars, inputVars, returnVars
  <2>2. fbuf'[Input] = bufferPtr /\ Input # NoThread
    BY <1>3, <2>1
  <2>3. \A b : IsOut(b)' <=> IsOut(b)
    BY <2>1, <2>2 DEF IsOut, Holding
  <2> QED
    BY <1>1, <1>2, <2>1, <2>3 DEF Quiet, Excused
<1>12. ASSUME NEW t \in Freers, NEW b \in stack, StackFree(t, b) PROVE Quiet
  <2>1. /\ UNCHANGED <<desc0, own, len, content, cur, received, tail, recycled>>
        /\ UNCHANGED <<toProcess, processed, frameOf, pbufLen, bufferPtr, ipc>>
        /\ rx_ptk_mutex = NoThread /\ rx_ptk_mutex' = t
        /\ fbuf' = [fbuf EXCEPT ![t] = b] /\ stack' = stack \ {b}
    BY <1>12 DEF StackFree, ringVars, dmaVars, inputVars, returnVars
  <2>2. fbuf'[t] = b /\ t # NoThread
    BY <1>3, <2>1 DEF Threads
  <2>3. \A c : IsOut(c)' <=> IsOut(c)
    BY <2>1, <2>2 DEF IsOut, Holding
  <2> QED
    BY <1>1, <1>2, <2>1, <2>3 DEF Quiet, Excused
<1>13. ASSUME NEW t \in Threads, PrepareCheck(t) PROVE Quiet
  <2>1. /\ UNCHANGED <<desc0, own, len, content, cur, received, tail, recycled>>
        /\ UNCHANGED <<toProcess, processed, frameOf, pbufLen>>
        /\ UNCHANGED <<stack, ipc, bufferPtr, rx_ptk_mutex, fbuf>>
    BY <1>13 DEF PrepareCheck, ringVars, dmaVars, inputVars
  <2> QED
    BY <1>5, <2>1 DEF Quiet
<1>14. ASSUME NEW t \in Threads, PrepareWrite(t) PROVE \E b \in Buffers : Returns(b)
  <2>1. /\ desc0' = [desc0 EXCEPT ![tail] = fbuf[t]]
        /\ own' = [own EXCEPT ![tail] = TRUE]
        /\ len' = [len EXCEPT ![tail] = NoFrame]
        /\ tail' = increase(tail) /\ recycled' = recycled + 1
        /\ UNCHANGED <<content, cur, received, toProcess, processed, frameOf, pbufLen>>
        /\ UNCHANGED <<stack, bufferPtr, fbuf>>
        /\ rx_ptk_mutex' = NoThread
        /\ fpc[t] = "write"
        /\ t = Input /\ ipc = "discard" => ipc' = "wait"
        /\ ~(t = Input /\ ipc = "discard") => ipc' = ipc
    BY <1>14 DEF PrepareWrite, dmaVars, inputVars
  <2>2. rx_ptk_mutex = t /\ t # NoThread /\ fbuf[t] \in Buffers
    BY <1>3, <1>4, <2>1 DEF MutexInv, InHand
  <2>3. recycled < processed
    BY <2>2, OneIsOut
  <2>4. fbuf[t] \in Out
    BY <1>1, <2>2 DEF IsOut
  <2>5. Holding' <=> Holding
    BY <2>1 DEF Holding
  <2>6. \A c : IsOut(c)' <=> (IsOut(c) /\ c # fbuf[t])
    BY <2>1, <2>2, <2>5 DEF IsOut, PlaceInv
  <2>7. \A c \in Excused : c \in Excused' \/ c = fbuf[t]
    <3>1. CASE ipc = "discard" /\ t = Input
      BY <1>4, <3>1 DEF Excused, PlaceOfInput
    <3>2. CASE ~(ipc = "discard" /\ t = Input)
      BY <2>1, <3>2 DEF Excused
    <3> QED
      BY <3>1, <3>2
  <2>8. \A c : c \in Out' <=> c \in Out /\ c # fbuf[t]
    BY <1>1, <1>2, <2>6
  <2>9. Returns(fbuf[t])
    BY <2>1, <2>3, <2>4, <2>7, <2>8 DEF Returns
  <2> QED
    BY <2>2, <2>9
<1>15. ASSUME NEW t \in Threads, PoolFree(t) PROVE Quiet
  <2>1. /\ UNCHANGED <<desc0, own, len, content, cur, received, tail, recycled>>
        /\ UNCHANGED <<toProcess, processed, frameOf, pbufLen>>
        /\ UNCHANGED <<stack, bufferPtr, rx_ptk_mutex, fbuf>>
        /\ fpc[t] = "pool"
        /\ ipc' = IF t = Input THEN "read" ELSE ipc
    BY <1>15 DEF PoolFree, ringVars, dmaVars, inputVars
  <2>2. t = Input => ipc = "free"
    BY <1>4, <2>1 DEF PlaceOfInput, InHand
  <2>3. (Holding' <=> Holding) /\ Excused' = Excused
    BY <2>1, <2>2 DEF Holding, Excused
  <2>4. \A c : IsOut(c)' <=> IsOut(c)
    BY <2>1, <2>3 DEF IsOut
  <2> QED
    BY <1>1, <1>2, <2>1, <2>3, <2>4 DEF Quiet
<1>16. ASSUME UNCHANGED vars PROVE Quiet
  BY <1>5, <1>16 DEF vars, Quiet
<1> QED
  BY <1>6, <1>7, <1>8, <1>9, <1>10, <1>11, <1>12, <1>13, <1>14, <1>15, <1>16, Zenon
  DEF Next, InputStep, GiveBack
-----------------------------------------------------------------------------
(* The ring and the buffers out of it, kind by kind.                       *)

\* What the ring promises about buffers and frames.
BufferInv == RingInv /\ FilledInv /\ OneOwner /\ HeldFramesIntact /\ LengthNotStale

\* A length that is not the frame's own is that of a discarded descriptor.
LEMMA LengthIs ==
    LengthNotStale <=> \A b \in Out : pbufLen[b] \in {frameOf[b], NoFrame} \/ b \in Excused
  BY DEF LengthNotStale, Excused

\* The same after a step.
LEMMA LengthIsNext ==
    LengthNotStale' <=> (\A b \in Out : pbufLen[b] \in {frameOf[b], NoFrame} \/ b \in Excused)'
  BY LengthIs, PTL

\* What is out of the ring are buffers.
LEMMA OutTypes ==
    ASSUME TypeOK
    PROVE  Out \subseteq Buffers
<1>1. stack \subseteq Buffers /\ bufferPtr \in Buffers /\ \A t \in Threads : fbuf[t] \in Buffers
  BY DEF TypeOK
<1> QED
  BY <1>1 DEF Out

\* Steps that leave the ring alone.
LEMMA QuietBuffers ==
    ASSUME BufferInv, Quiet
    PROVE  BufferInv'
<1>1. Window' = Window
  BY DEF Quiet, Window
<1>2. RingInv'
  BY DEF BufferInv, RingInv, Quiet, At
<1>3. FilledInv'
  BY <1>1 DEF BufferInv, FilledInv, Quiet, At
<1>4. OneOwner'
  BY <1>1 DEF BufferInv, OneOwner, Quiet, At
<1>5. HeldFramesIntact'
  BY DEF BufferInv, HeldFramesIntact, Quiet
<1>6. LengthNotStale'
  BY LengthIs, LengthIsNext DEF BufferInv, Quiet
<1> QED
  BY <1>2, <1>3, <1>4, <1>5, <1>6 DEF BufferInv

\* The DMA writes into a buffer of the window, which nobody else has.
LEMMA ReceiveBuffers ==
    ASSUME TypeOK, BufferInv, Receives
    PROVE  BufferInv'
<1>1. /\ processed \in Nat /\ recycled \in Nat /\ received \in Nat
      /\ desc0 \in [Index -> Buffers] /\ len \in [Index -> Nat \cup {NoFrame}]
      /\ own \in [Index -> BOOLEAN] /\ content \in [Buffers -> Nat \cup {NoFrame}]
  BY DEF TypeOK
<1>2. RingInv /\ FilledInv /\ OneOwner /\ HeldFramesIntact /\ LengthNotStale
  BY DEF BufferInv
<1>3. /\ cur = At(received) /\ received < recycled + (N - 1) /\ received \in Window
  BY <1>2, IndexTests DEF RingInv, Receives
<1>4. /\ received' = received + 1 /\ cur' = increase(cur)
      /\ UNCHANGED <<desc0, tail, recycled, toProcess, processed, frameOf, pbufLen>>
      /\ Out' = Out /\ Excused' = Excused
  BY DEF Receives
<1>5. Window' = Window
  BY <1>4 DEF Window
<1>6. RingInv'
  <2>1. /\ recycled <= processed /\ processed <= received
        /\ toProcess = At(processed) /\ tail = At(recycled + (N - 1))
    BY <1>2 DEF RingInv
  <2>2. processed <= received + 1 /\ received + 1 <= recycled + (N - 1)
    BY <1>1, <1>3, <2>1, Constants
  <2>3. cur' = At(received + 1)
    BY <1>1, <1>3, <1>4, AtNext
  <2> QED
    BY <1>4, <2>1, <2>2, <2>3 DEF RingInv, At
<1> DEFINE b0 == desc0[cur]
<1>7. b0 \in Buffers /\ cur \in Index /\ b0 = desc0[At(received)]
  BY <1>1, <1>2, <1>3, WindowApart
<1>8. /\ content'[b0] = received /\ ~own'[cur] /\ len'[cur] = received
      /\ \A b \in Buffers : b # b0 => content'[b] = content[b]
      /\ \A i \in Index : i # cur => own'[i] = own[i] /\ len'[i] = len[i]
  BY <1>1, <1>7 DEF Receives
<1> HIDE DEF b0
<1>9. FilledInv'
  <2> SUFFICES ASSUME NEW k \in Window
               PROVE  IF k < received + 1
                      THEN ~own'[At(k)] /\ len'[At(k)] = k /\ content'[desc0[At(k)]] = k
                      ELSE len'[At(k)] = NoFrame
    BY <1>4, <1>5 DEF FilledInv, At
  <2>1. CASE k = received
    BY <1>1, <1>3, <1>7, <1>8, <2>1
  <2>2. CASE k # received
    <3>1. k \in Nat /\ At(k) # cur /\ At(k) \in Index
      BY <1>2, <1>3, <2>2, InWindow, WindowApart
    <3>2. desc0[At(k)] # b0 /\ desc0[At(k)] \in Buffers
      BY <1>1, <1>2, <1>3, <1>7, <2>2, <3>1 DEF OneOwner
    <3>3. (k < received + 1) <=> (k < received)
      BY <1>1, <2>2, <3>1
    <3>4. IF k < received
          THEN ~own[At(k)] /\ len[At(k)] = k /\ content[desc0[At(k)]] = k
          ELSE len[At(k)] = NoFrame
      BY <1>2 DEF FilledInv
    <3> QED
      BY <1>8, <3>1, <3>2, <3>3, <3>4
  <2> QED
    BY <2>1, <2>2
<1>10. OneOwner'
  BY <1>2, <1>4, <1>5 DEF OneOwner, At
<1>11. HeldFramesIntact'
  <2> SUFFICES ASSUME NEW b \in Out PROVE content'[b] = frameOf[b] /\ frameOf[b] \in Nat
    BY <1>4 DEF HeldFramesIntact
  <2>1. b # b0
    BY <1>2, <1>3, <1>7 DEF OneOwner
  <2>2. content[b] = frameOf[b] /\ frameOf[b] \in Nat
    BY <1>2 DEF HeldFramesIntact
  <2>3. content' = [content EXCEPT ![b0] = received]
    BY DEF Receives, b0
  <2>4. content'[b] = content[b]
    BY <1>1, <1>8, <2>1, OutTypes
  <2> QED
    BY <2>2, <2>4
<1>12. LengthNotStale'
  BY <1>2, <1>4, LengthIs, LengthIsNext
<1> QED
  BY <1>6, <1>9, <1>10, <1>11, <1>12 DEF BufferInv

\* The input thread takes the next filled buffer out of the window.
LEMMA TakeBuffers ==
    ASSUME TypeOK, BufferInv, Takes
    PROVE  BufferInv'
<1>1. /\ processed \in Nat /\ recycled \in Nat /\ received \in Nat
      /\ frameOf \in [Buffers -> Nat \cup {NoFrame}] /\ pbufLen \in [Buffers -> Nat \cup {NoFrame}]
      /\ bufferPtr \in Buffers
  BY DEF TypeOK
<1>2. RingInv /\ FilledInv /\ OneOwner /\ HeldFramesIntact /\ LengthNotStale
  BY DEF BufferInv
<1>3. /\ toProcess = At(processed) /\ processed < received /\ processed \in Window
  <2>1. processed # received /\ processed <= received /\ toProcess = At(processed)
    BY <1>2, IndexTests DEF RingInv, Takes
  <2>2. processed < received
    BY <1>1, <2>1
  <2> QED
    BY <1>2, <2>1, <2>2, IndexTests
<1>4. /\ UNCHANGED <<desc0, own, len, content, cur, received, tail, recycled>>
      /\ processed' = processed + 1 /\ toProcess' = increase(toProcess)
      /\ frameOf' = [frameOf EXCEPT ![bufferPtr] = processed]
      /\ bufferPtr = desc0[At(processed)]
      /\ \A c : c \in Out' <=> c \in Out \/ c = bufferPtr
  BY <1>3 DEF Takes, Advance
<1>5. \A k : k \in Window' <=> k \in Window /\ k # processed
  <2>1. Window' = (processed + 1) .. (recycled + N - 2) /\ Window = processed .. (recycled + N - 2)
    BY <1>4 DEF Window
  <2> QED
    BY <1>1, <1>3, <2>1, Constants
<1>6. RingInv'
  <2>1. /\ recycled <= processed /\ received <= recycled + (N - 1)
        /\ cur = At(received) /\ tail = At(recycled + (N - 1))
    BY <1>2 DEF RingInv
  <2>2. recycled <= processed + 1 /\ processed + 1 <= received
    BY <1>1, <1>3, <2>1, Constants
  <2>3. toProcess' = At(processed + 1)
    BY <1>1, <1>3, <1>4, AtNext
  <2> QED
    BY <1>4, <2>1, <2>2, <2>3 DEF RingInv, At
<1>7. FilledInv'
  BY <1>2, <1>4, <1>5 DEF FilledInv, At
<1>8. bufferPtr \notin Out
  BY <1>2, <1>3, <1>4 DEF OneOwner
<1>9. OneOwner'
  <2>1. \A j, k \in Window : j # k => desc0[At(j)] # desc0[At(k)]
    BY <1>2 DEF OneOwner
  <2>2. \A k \in Window : desc0[At(k)] \notin Out
    BY <1>2 DEF OneOwner
  <2>3. \A j, k \in Window' : j # k => desc0[At(j)] # desc0[At(k)]
    BY <1>5, <2>1
  <2>4. \A k \in Window' : desc0[At(k)] \notin Out'
    BY <1>3, <1>4, <1>5, <2>1, <2>2
  <2> QED
    BY <1>4, <2>3, <2>4 DEF OneOwner, At
<1>10. /\ frameOf'[bufferPtr] = processed
       /\ \A b \in Out : frameOf'[b] = frameOf[b]
  BY <1>1, <1>4, <1>8, OutTypes
<1>11. HeldFramesIntact'
  <2>1. content[bufferPtr] = processed
    BY <1>2, <1>3, <1>4 DEF FilledInv
  <2>2. \A b \in Out : content[b] = frameOf[b] /\ frameOf[b] \in Nat
    BY <1>2 DEF HeldFramesIntact
  <2> QED
    BY <1>1, <1>4, <1>10, <2>1, <2>2 DEF HeldFramesIntact
<1>12. LengthNotStale'
  <2>1. \A b \in Out : pbufLen[b] \in {frameOf[b], NoFrame}
    BY <1>2, LengthIs DEF Takes
  <2>2. CASE pbufLen' = pbufLen /\ Excused' = {bufferPtr}
    <3>1. \A b \in Out' : pbufLen'[b] \in {frameOf'[b], NoFrame} \/ b \in Excused'
      BY <1>4, <1>10, <2>1, <2>2
    <3> QED
      BY <3>1, LengthIsNext
  <2>3. CASE /\ bufferLength \in {NoFrame, processed}
             /\ pbufLen' = [pbufLen EXCEPT ![bufferPtr] = bufferLength]
    <3>1. /\ pbufLen'[bufferPtr] \in {processed, NoFrame}
          /\ \A b \in Out : pbufLen'[b] = pbufLen[b]
      BY <1>1, <1>8, <2>3, OutTypes
    <3>2. \A b \in Out' : pbufLen'[b] \in {frameOf'[b], NoFrame}
      BY <1>4, <1>10, <2>1, <3>1
    <3> QED
      BY <3>2, LengthIsNext
  <2> QED
    BY <2>2, <2>3 DEF Takes
<1> QED
  BY <1>6, <1>7, <1>9, <1>11, <1>12 DEF BufferInv

\* A buffer that was out becomes the last one of the window.
LEMMA ReturnBuffers ==
    ASSUME TypeOK, BufferInv, NEW b \in Buffers, Returns(b)
    PROVE  BufferInv'
<1>1. /\ processed \in Nat /\ recycled \in Nat /\ received \in Nat
      /\ desc0 \in [Index -> Buffers] /\ len \in [Index -> Nat \cup {NoFrame}]
      /\ own \in [Index -> BOOLEAN] /\ tail \in Index
  BY DEF TypeOK
<1>2. RingInv /\ FilledInv /\ OneOwner /\ HeldFramesIntact /\ LengthNotStale
  BY DEF BufferInv
<1>3. /\ UNCHANGED <<content, cur, received, toProcess, processed, frameOf, pbufLen>>
      /\ recycled' = recycled + 1 /\ tail' = increase(tail)
      /\ b \in Out /\ \A c : c \in Out' <=> c \in Out /\ c # b
      /\ recycled < processed
  BY DEF Returns
<1> DEFINE last == recycled + (N - 1)
<1>4. last \in Nat /\ tail = At(last) /\ processed <= received /\ received <= last
  BY <1>1, <1>2, Constants DEF RingInv
<1>5. /\ desc0'[tail] = b /\ len'[tail] = NoFrame
      /\ \A i \in Index : i # tail => desc0'[i] = desc0[i] /\ own'[i] = own[i] /\ len'[i] = len[i]
  BY <1>1 DEF Returns
<1>6. \A k : k \in Window' <=> k \in Window \/ k = last
  <2>1. /\ Window' = processed .. ((recycled + 1) + (N - 2))
        /\ Window = processed .. (recycled + (N - 2))
    BY <1>3 DEF Window
  <2> QED
    BY <1>1, <1>4, <2>1, Constants
<1>7. RingInv'
  <2>1. cur = At(received) /\ toProcess = At(processed)
    BY <1>2 DEF RingInv
  <2>2. /\ recycled + 1 <= processed /\ received <= (recycled + 1) + (N - 1)
        /\ last + 1 = (recycled + 1) + (N - 1)
    BY <1>1, <1>3, <1>4, Constants
  <2>3. tail' = At(last + 1)
    BY <1>3, <1>4, AtNext
  <2> HIDE DEF last
  <2> QED
    BY <1>3, <1>4, <2>1, <2>2, <2>3 DEF RingInv, At
<1> HIDE DEF last
<1>8. \A k \in Window : At(k) \in Index /\ At(k) # tail
  BY <1>2, WindowApart
<1>9. FilledInv'
  <2> SUFFICES ASSUME NEW k \in Window'
               PROVE  IF k < received
                      THEN ~own'[At(k)] /\ len'[At(k)] = k /\ content[desc0'[At(k)]] = k
                      ELSE len'[At(k)] = NoFrame
    BY <1>3 DEF FilledInv, At
  <2>1. CASE k = last
    BY <1>1, <1>4, <1>5, <2>1
  <2>2. CASE k \in Window
    <3>1. IF k < received
          THEN ~own[At(k)] /\ len[At(k)] = k /\ content[desc0[At(k)]] = k
          ELSE len[At(k)] = NoFrame
      BY <1>2, <2>2 DEF FilledInv
    <3> QED
      BY <1>5, <1>8, <2>2, <3>1
  <2> QED
    BY <1>6, <2>1, <2>2
<1>10. OneOwner'
  <2>1. /\ \A j, k \in Window : j # k => desc0[At(j)] # desc0[At(k)]
        /\ \A k \in Window : desc0[At(k)] \notin Out
    BY <1>2 DEF OneOwner
  <2>2. \A k \in Window : desc0'[At(k)] = desc0[At(k)]
    BY <1>5, <1>8
  <2>3. desc0'[At(last)] = b
    BY <1>4, <1>5
  <2>4. \A j, k \in Window' : j # k => desc0'[At(j)] # desc0'[At(k)]
    BY <1>3, <1>6, <2>1, <2>2, <2>3
  <2>5. \A k \in Window' : desc0'[At(k)] \notin Out'
    BY <1>3, <1>6, <2>1, <2>2, <2>3
  <2> QED
    BY <2>4, <2>5 DEF OneOwner, At
<1>11. HeldFramesIntact'
  BY <1>2, <1>3 DEF HeldFramesIntact
<1>12. LengthNotStale'
  <2>1. \A c \in Out : pbufLen[c] \in {frameOf[c], NoFrame} \/ c \in Excused
    BY <1>2, LengthIs
  <2>2. \A c \in Excused : c \in Excused' \/ c = b
    BY DEF Returns
  <2>3. \A c \in Out' : pbufLen'[c] \in {frameOf'[c], NoFrame} \/ c \in Excused'
    BY <1>3, <2>1, <2>2
  <2> QED
    BY <2>3, LengthIsNext
<1> QED
  BY <1>7, <1>9, <1>10, <1>11, <1>12 DEF BufferInv
-----------------------------------------------------------------------------
(* Where the buffers and the pbufs are.                                    *)

WhereInv == PlaceInv /\ CountInv /\ PoolInv

\* Adding one to a finite set and taking one away.
LEMMA OneMore ==
    ASSUME NEW S, IsFiniteSet(S), NEW x, x \notin S, NEW T, T = S \cup {x}
    PROVE  IsFiniteSet(T) /\ Cardinality(T) = Cardinality(S) + 1
  BY FS_AddElement

\* The reverse.
LEMMA OneLess ==
    ASSUME NEW S, IsFiniteSet(S), NEW x, x \in S, NEW T, T = S \ {x}
    PROVE  IsFiniteSet(T) /\ Cardinality(T) = Cardinality(S) - 1
  BY FS_RemoveElement

\* The thread at a step of carbon_lwip_prepare_rx_descriptor is its only one, and
\* neither "critical error" test can succeed.
LEMMA CheckPasses ==
    ASSUME TypeOK, RingInv, FilledInv, MutexInv, CountInv, NEW t \in Threads, PrepareCheck(t)
    PROVE  error' = error /\ fpc' = [fpc EXCEPT ![t] = "write"]
<1>1. rx_ptk_mutex = t /\ t # NoThread
  BY Constants DEF MutexInv, InHand, PrepareCheck
<1>2. recycled < processed
  BY <1>1, OneIsOut
<1>3. processed <= received /\ processed \in Nat /\ received \in Nat /\ recycled \in Nat
  BY DEF RingInv, TypeOK
<1>4. ~(cur = increase(tail) \/ toProcess = increase(tail))
  BY <1>2, <1>3, IndexTests
<1> QED
  BY <1>4 DEF PrepareCheck

\* A buffer moves from one place to the next.
LEMMA WhereStep ==
    ASSUME TypeOK, BufferInv, HandInv, WhereInv, [Next]_vars
    PROVE  WhereInv'
<1>1. /\ rx_ptk_mutex \in Threads \cup {NoThread}
      /\ fpc \in [Threads -> {"idle", "prepare", "write", "pool", "error"}]
      /\ fbuf \in [Threads -> Buffers]
      /\ Input \in Threads /\ NoThread \notin Threads
  BY Constants DEF TypeOK
<1>2. MutexInv /\ PlaceOfInput /\ ReadInv /\ PlaceInv /\ CountInv /\ PoolInv
  BY DEF HandInv, WhereInv
<1>3. /\ IsFiniteSet(stack) /\ Cardinality(stack) \in Nat
      /\ IsFiniteSet(Freeing) /\ Cardinality(Freeing) \in Nat
      /\ processed \in Nat /\ recycled \in Nat /\ pool \in Int
  <2>1. IsFiniteSet(Freeing)
    BY <1>2 DEF PoolInv
  <2>2. processed \in Nat /\ recycled \in Nat /\ pool \in 0..PoolSize
    BY DEF TypeOK
  <2> QED
    BY <2>1, <2>2, StackFinite, FS_CardinalityType, Constants
<1>4. /\ Cardinality(stack) + One(Holding) + One(rx_ptk_mutex # NoThread) = processed - recycled
      /\ pool = Cardinality(stack) + One(Holding) + Cardinality(Freeing)
  BY <1>2 DEF CountInv, PoolInv
<1>5. One(TRUE) = 1 /\ One(FALSE) = 0
  BY DEF One
<1>6. One(Holding) \in {0, 1} /\ One(rx_ptk_mutex # NoThread) \in {0, 1}
  BY DEF One
<1>7. ASSUME UNCHANGED <<stack, rx_ptk_mutex, fbuf, processed, recycled, pool>>,
             Holding' <=> Holding, Holding => bufferPtr' = bufferPtr, Freeing' = Freeing
      PROVE  WhereInv'
  <2>1. PlaceInv'
    BY <1>2, <1>7 DEF PlaceInv
  <2>2. One(Holding') = One(Holding)
    BY <1>7 DEF One
  <2>3. CountInv' /\ PoolInv'
    BY <1>2, <1>7, <2>2 DEF CountInv, PoolInv, One
  <2> QED
    BY <2>1, <2>3 DEF WhereInv
<1>8. ASSUME UNCHANGED <<fpc, ipc>> PROVE Freeing' = Freeing /\ (Holding' <=> Holding)
  BY <1>8 DEF Freeing, Holding
<1>9. ASSUME NEW g \in BOOLEAN, DmaReceive(g) PROVE WhereInv'
  BY <1>7, <1>8, <1>9 DEF DmaReceive, inputVars, returnVars
<1>10. ASSUME LinkStep \/ Isr PROVE WhereInv'
  <2>1. UNCHANGED <<stack, rx_ptk_mutex, fbuf, processed, recycled, pool, bufferPtr, fpc, ipc>>
    BY <1>10 DEF LinkStep, LinkFinish, StartDma, StartClear, StartIrqs, StopIrqs, StopDma, LinkThread, Isr, IsrRelease, IsrClear, inputVars, returnVars
  <2> QED
    BY <1>7, <1>8, <2>1
<1>11. ASSUME InputWake \/ InputRead \/ InputNone \/ InputReject PROVE WhereInv'
  <2>1. UNCHANGED <<stack, rx_ptk_mutex, fbuf, processed, recycled, pool, fpc>>
    BY <1>11 DEF InputWake, InputRead, InputNone, InputReject, inputVars, returnVars
  <2>2. /\ Holding' <=> Holding
        /\ Holding => bufferPtr' = bufferPtr
        /\ ipc # "discard" /\ ipc' # "discard"
    BY <1>11 DEF InputWake, InputRead, InputNone, InputReject, Holding, inputVars
  <2>3. Freeing' = Freeing
    BY <2>1, <2>2 DEF Freeing
  <2> QED
    BY <1>7, <2>1, <2>2, <2>3
<1>12. ASSUME InputDiscard \/ InputTake PROVE ~Holding /\ bufferPtr \notin Out
  <2>1. ~Empty /\ ipc = "test"
    BY <1>12 DEF InputDiscard, InputTake
  <2>2. processed # received /\ processed <= received /\ received <= recycled + (N - 1)
        /\ received \in Nat /\ toProcess = At(processed)
    BY <2>1, IndexTests DEF BufferInv, RingInv, TypeOK
  <2>3. processed < received /\ processed < recycled + (N - 1)
    BY <1>3, <2>2, Constants
  <2>4. bufferPtr = desc0[At(processed)] /\ processed \in Window
    BY <1>2, <2>1, <2>2, <2>3, IndexTests DEF ReadInv, BufferInv
  <2> QED
    BY <2>1, <2>4 DEF BufferInv, OneOwner, Holding
<1>13. ASSUME InputDiscard PROVE WhereInv'
  <2>1. /\ UNCHANGED <<stack, recycled, pool, bufferPtr>>
        /\ ipc = "test" /\ ipc' = "discard"
        /\ rx_ptk_mutex = NoThread /\ rx_ptk_mutex' = Input
        /\ fpc' = [fpc EXCEPT ![Input] = "prepare"]
        /\ fbuf' = [fbuf EXCEPT ![Input] = bufferPtr]
        /\ processed' = processed + 1
    BY <1>13 DEF InputDiscard, Advance
  <2>2. /\ fbuf'[Input] = bufferPtr /\ fpc'[Input] = "prepare"
        /\ \A u \in Threads : u # Input => fpc'[u] = fpc[u]
    BY <1>1, <2>1
  <2>3. ~Holding /\ ~Holding' /\ bufferPtr \notin stack
    BY <1>12, <1>13, <2>1 DEF Out, Holding
  <2>4. Freeing' = Freeing
    BY <1>1, <1>2, <2>1, <2>2 DEF Freeing, PlaceOfInput
  <2>5. PlaceInv'
    BY <1>1, <2>1, <2>2, <2>3 DEF PlaceInv
  <2>6. CountInv'
    <3>1. One(Holding') = 0 /\ One(Holding) = 0 /\ One(rx_ptk_mutex # NoThread) = 0
          /\ One(rx_ptk_mutex' # NoThread) = 1
      BY <1>1, <2>1, <2>3 DEF One
    <3> QED
      BY <1>3, <1>4, <2>1, <3>1 DEF CountInv
  <2>7. PoolInv'
    BY <1>2, <2>1, <2>3, <2>4 DEF PoolInv, One
  <2> QED
    BY <2>5, <2>6, <2>7 DEF WhereInv
<1>14. ASSUME InputTake PROVE WhereInv'
  <2>1. /\ UNCHANGED <<stack, recycled, bufferPtr, rx_ptk_mutex, fbuf, fpc>>
        /\ ipc = "test" /\ ipc' = "deliver"
        /\ processed' = processed + 1 /\ pool' = pool + 1
    BY <1>14 DEF InputTake, Advance, returnVars
  <2>2. ~Holding /\ Holding'
    BY <2>1 DEF Holding
  <2>3. bufferPtr \notin stack /\ (rx_ptk_mutex # NoThread => fbuf[rx_ptk_mutex] # bufferPtr)
    <3>1. ~IsOut(bufferPtr)
      BY <1>2, <1>12, <1>14, OutIs DEF OutIsKnown
    <3> QED
      BY <3>1 DEF IsOut
  <2>4. Freeing' = Freeing
    BY <2>1 DEF Freeing
  <2>5. PlaceInv'
    BY <1>2, <2>1, <2>2, <2>3 DEF PlaceInv
  <2>6. One(Holding') = 1 /\ One(Holding) = 0
    BY <2>2 DEF One
  <2>7. CountInv'
    BY <1>3, <1>4, <1>6, <2>1, <2>6 DEF CountInv
  <2>8. PoolInv'
    BY <1>3, <1>4, <2>1, <2>4, <2>6 DEF PoolInv
  <2> QED
    BY <2>5, <2>7, <2>8 DEF WhereInv
<1>15. ASSUME InputDeliver PROVE WhereInv'
  <2>1. /\ UNCHANGED <<processed, recycled, bufferPtr, rx_ptk_mutex, fbuf, fpc, pool>>
        /\ ipc = "deliver" /\ ipc' = "read" /\ stack' = stack \cup {bufferPtr}
    BY <1>15 DEF InputDeliver, inputVars, returnVars
  <2>2. Holding /\ ~Holding' /\ bufferPtr \notin stack
    BY <1>2, <2>1 DEF Holding, PlaceInv
  <2>3. Cardinality(stack') = Cardinality(stack) + 1
    BY <1>3, <2>1, <2>2, OneMore
  <2>4. Freeing' = Freeing
    BY <2>1 DEF Freeing
  <2>5. PlaceInv'
    BY <1>2, <2>1, <2>2 DEF PlaceInv
  <2>6. One(Holding') = 0 /\ One(Holding) = 1
    BY <2>2 DEF One
  <2>7. CountInv'
    BY <1>3, <1>4, <1>6, <2>1, <2>3, <2>6 DEF CountInv
  <2>8. PoolInv'
    BY <1>3, <1>4, <2>1, <2>3, <2>4, <2>6 DEF PoolInv
  <2> QED
    BY <2>5, <2>7, <2>8 DEF WhereInv
<1>16. ASSUME InputFree PROVE WhereInv'
  <2>1. /\ UNCHANGED <<processed, recycled, bufferPtr, stack, pool>>
        /\ ipc = "reject" /\ ipc' = "free"
        /\ rx_ptk_mutex = NoThread /\ rx_ptk_mutex' = Input
        /\ fpc' = [fpc EXCEPT ![Input] = "prepare"]
        /\ fbuf' = [fbuf EXCEPT ![Input] = bufferPtr]
    BY <1>16 DEF InputFree, inputVars
  <2>2. /\ fbuf'[Input] = bufferPtr /\ fpc'[Input] = "prepare" /\ fpc[Input] = "idle"
        /\ \A u \in Threads : u # Input => fpc'[u] = fpc[u]
    BY <1>1, <1>2, <2>1 DEF PlaceOfInput
  <2>3. Holding /\ ~Holding' /\ bufferPtr \notin stack
    BY <1>2, <2>1 DEF Holding, PlaceInv
  <2>4. Freeing' = Freeing \cup {Input} /\ Input \notin Freeing
    BY <1>1, <2>1, <2>2 DEF Freeing
  <2>5. IsFiniteSet(Freeing') /\ Cardinality(Freeing') = Cardinality(Freeing) + 1
    BY <1>3, <2>4, OneMore
  <2>6. PlaceInv'
    BY <1>1, <2>1, <2>2, <2>3 DEF PlaceInv
  <2>7. One(Holding') = 0 /\ One(Holding) = 1 /\ One(rx_ptk_mutex # NoThread) = 0
        /\ One(rx_ptk_mutex' # NoThread) = 1
    BY <1>1, <2>1, <2>3 DEF One
  <2>8. CountInv'
    BY <1>3, <1>4, <2>1, <2>7 DEF CountInv
  <2>9. PoolInv'
    BY <1>3, <1>4, <2>1, <2>5, <2>7 DEF PoolInv
  <2> QED
    BY <2>6, <2>8, <2>9 DEF WhereInv
<1>17. ASSUME NEW t \in Freers, NEW b \in stack, StackFree(t, b) PROVE WhereInv'
  <2>1. /\ UNCHANGED <<processed, recycled, bufferPtr, pool, ipc>>
        /\ rx_ptk_mutex = NoThread /\ rx_ptk_mutex' = t /\ fpc[t] = "idle"
        /\ fpc' = [fpc EXCEPT ![t] = "prepare"]
        /\ fbuf' = [fbuf EXCEPT ![t] = b]
        /\ stack' = stack \ {b}
    BY <1>17 DEF StackFree, inputVars
  <2>2. t \in Threads /\ t # Input /\ t # NoThread
    BY <1>1, Constants DEF Threads
  <2>3. /\ fbuf'[t] = b /\ fpc'[t] = "prepare"
        /\ \A u \in Threads : u # t => fpc'[u] = fpc[u]
    BY <1>1, <2>1, <2>2
  <2>4. Holding' <=> Holding
    BY <2>1 DEF Holding
  <2>5. Freeing' = Freeing \cup {t} /\ t \notin Freeing
    BY <2>1, <2>2, <2>3 DEF Freeing
  <2>6. /\ IsFiniteSet(Freeing') /\ Cardinality(Freeing') = Cardinality(Freeing) + 1
        /\ Cardinality(stack') = Cardinality(stack) - 1
    BY <1>3, <2>1, <2>5, OneMore, OneLess
  <2>7. PlaceInv'
    BY <1>2, <2>1, <2>3, <2>4 DEF PlaceInv
  <2>8. One(Holding') = One(Holding) /\ One(rx_ptk_mutex # NoThread) = 0
        /\ One(rx_ptk_mutex' # NoThread) = 1
    BY <2>1, <2>2, <2>4 DEF One
  <2>9. CountInv'
    BY <1>3, <1>4, <1>6, <2>1, <2>6, <2>8 DEF CountInv
  <2>10. PoolInv'
    BY <1>3, <1>4, <1>6, <2>1, <2>6, <2>8 DEF PoolInv
  <2> QED
    BY <2>7, <2>9, <2>10 DEF WhereInv
<1>18. ASSUME NEW t \in Threads, PrepareCheck(t) PROVE WhereInv'
  <2>1. /\ UNCHANGED <<stack, rx_ptk_mutex, fbuf, processed, recycled, pool, bufferPtr, ipc>>
        /\ fpc[t] = "prepare" /\ fpc' = [fpc EXCEPT ![t] = "write"]
    BY <1>2, <1>18, CheckPasses DEF PrepareCheck, inputVars, BufferInv
  <2>2. fpc'[t] = "write" /\ \A u \in Threads : u # t => fpc'[u] = fpc[u]
    BY <1>1, <2>1
  <2>3. Freeing' = Freeing /\ (Holding' <=> Holding)
    BY <2>1, <2>2 DEF Freeing, Holding
  <2> QED
    BY <1>7, <2>1, <2>3
<1>19. ASSUME NEW t \in Threads, PrepareWrite(t) PROVE WhereInv'
  <2>1. /\ UNCHANGED <<stack, processed, pool, bufferPtr, fbuf>>
        /\ recycled' = recycled + 1 /\ rx_ptk_mutex' = NoThread
        /\ fpc[t] = "write"
        /\ t = Input /\ ipc = "discard" => fpc' = [fpc EXCEPT ![t] = "idle"] /\ ipc' = "wait"
        /\ ~(t = Input /\ ipc = "discard") => fpc' = [fpc EXCEPT ![t] = "pool"] /\ ipc' = ipc
    BY <1>19 DEF PrepareWrite, inputVars
  <2>2. rx_ptk_mutex = t /\ t # NoThread
    BY <1>1, <1>2, <2>1 DEF MutexInv, InHand
  <2>3. /\ t = Input /\ ipc = "discard" => fpc'[t] = "idle"
        /\ ~(t = Input /\ ipc = "discard") => fpc'[t] = "pool"
        /\ \A u \in Threads : u # t => fpc'[u] = fpc[u]
    BY <1>1, <2>1
  <2>4. Holding' <=> Holding
    BY <2>1 DEF Holding
  <2>5. Freeing' = Freeing
    BY <2>1, <2>3 DEF Freeing
  <2>6. PlaceInv'
    BY <1>2, <2>1, <2>4 DEF PlaceInv
  <2>7. One(Holding') = One(Holding) /\ One(rx_ptk_mutex # NoThread) = 1
        /\ One(rx_ptk_mutex' # NoThread) = 0
    BY <2>1, <2>2, <2>4 DEF One
  <2>8. CountInv'
    BY <1>3, <1>4, <1>6, <2>1, <2>7 DEF CountInv
  <2>9. PoolInv'
    BY <1>3, <1>4, <2>1, <2>5, <2>7 DEF PoolInv
  <2> QED
    BY <2>6, <2>8, <2>9 DEF WhereInv
<1>20. ASSUME NEW t \in Threads, PoolFree(t) PROVE WhereInv'
  <2>1. /\ UNCHANGED <<stack, rx_ptk_mutex, fbuf, processed, recycled, bufferPtr>>
        /\ fpc[t] = "pool" /\ fpc' = [fpc EXCEPT ![t] = "idle"]
        /\ ipc' = IF t = Input THEN "read" ELSE ipc
        /\ pool' = pool - 1
    BY <1>20 DEF PoolFree, inputVars
  <2>2. fpc'[t] = "idle" /\ \A u \in Threads : u # t => fpc'[u] = fpc[u]
    BY <1>1, <2>1
  <2>3. t = Input => ipc = "free"
    BY <1>2, <2>1 DEF PlaceOfInput, InHand
  <2>4. Holding' <=> Holding
    BY <2>1, <2>3 DEF Holding
  <2>5. t \in Freeing /\ Freeing' = Freeing \ {t}
    BY <2>1, <2>2, <2>3 DEF Freeing
  <2>6. IsFiniteSet(Freeing') /\ Cardinality(Freeing') = Cardinality(Freeing) - 1
    BY <1>3, <2>5, OneLess
  <2>7. PlaceInv'
    BY <1>2, <2>1, <2>4 DEF PlaceInv
  <2>8. One(Holding') = One(Holding)
    BY <2>4 DEF One
  <2>9. CountInv'
    BY <1>4, <2>1, <2>8 DEF CountInv
  <2>10. PoolInv'
    BY <1>3, <1>4, <1>6, <2>1, <2>6, <2>8 DEF PoolInv
  <2> QED
    BY <2>7, <2>9, <2>10 DEF WhereInv
<1>21. ASSUME UNCHANGED vars PROVE WhereInv'
  BY <1>7, <1>8, <1>21 DEF vars
<1> QED
  BY <1>9, <1>10, <1>11, <1>13, <1>14, <1>15, <1>16, <1>17, <1>18, <1>19, <1>20, <1>21, Zenon
  DEF Next, InputStep, GiveBack
-----------------------------------------------------------------------------
(* The theorems.                                                           *)

\* The inductive invariant.
RxInv == TypeOK /\ BufferInv /\ HandInv /\ WhereInv /\ NoCriticalError

\* The ring is set up with all of its buffers but the last in the window.
LEMMA RxInit == Init => RxInv
<1> SUFFICES ASSUME Init PROVE RxInv
  OBVIOUS
<1>1. TypeOK
  <2>1. 0 \in Index /\ N - 1 \in Index /\ 0 \in Buffers /\ 0 \in 0..PoolSize
    BY Constants DEF Index, Buffers
  <2>2. desc0 \in [Index -> Buffers]
    BY DEF Init, Index, Buffers
  <2> QED
    BY <2>1, <2>2, Zenon DEF Init, TypeOK
<1>2. /\ desc0 = [i \in Index |-> i] /\ len = [i \in Index |-> NoFrame]
      /\ cur = 0 /\ tail = N - 1 /\ toProcess = 0
      /\ received = 0 /\ processed = 0 /\ recycled = 0
      /\ stack = {} /\ ipc = "wait" /\ rx_ptk_mutex = NoThread /\ pool = 0 /\ error = FALSE
      /\ fpc = [t \in Threads |-> "idle"]
  BY DEF Init
<1>3. /\ 0 % N = 0
      /\ \A k \in 0..(N - 1) : k % N = k
  <2>1. ASSUME NEW k \in 0..(N - 1) PROVE k % N = k
    <3>1. k = (N * 0) + k /\ k \in Nat
      BY Constants
    <3> QED
      BY <3>1, Remainder
  <2> QED
    BY <2>1, Constants
<1>4. RingInv
  BY <1>2, <1>3, Constants DEF RingInv, At
<1>5. \A k \in Window : k \in Nat /\ At(k) = k /\ k \in Index
  BY <1>1, <1>2, <1>3, InWindow, Constants DEF At, Index
<1>6. FilledInv
  BY <1>2, <1>5 DEF FilledInv
<1>7. Out = {}
  BY <1>2 DEF Out, InHand
<1>8. OneOwner
  BY <1>2, <1>5, <1>7 DEF OneOwner
<1>9. HeldFramesIntact /\ LengthNotStale
  BY <1>7 DEF HeldFramesIntact, LengthNotStale
<1>10. HandInv
  BY <1>2, Constants DEF HandInv, MutexInv, PlaceOfInput, ReadInv, InHand
<1>11. WhereInv
  <2>1. ~Holding /\ Freeing = {}
    BY <1>2 DEF Holding, Freeing
  <2>2. IsFiniteSet({}) /\ Cardinality({}) = 0
    BY FS_EmptySet
  <2>3. One(Holding) = 0 /\ One(rx_ptk_mutex # NoThread) = 0
    BY <1>2, <2>1 DEF One
  <2> QED
    BY <1>2, <2>1, <2>2, <2>3 DEF WhereInv, PlaceInv, CountInv, PoolInv
<1> QED
  BY <1>1, <1>2, <1>4, <1>6, <1>8, <1>9, <1>10, <1>11 DEF RxInv, BufferInv, NoCriticalError

\* Every step keeps it.
LEMMA RxStep == RxInv /\ [Next]_vars => RxInv'
<1> SUFFICES ASSUME RxInv, [Next]_vars PROVE RxInv'
  OBVIOUS
<1>1. TypeOK /\ BufferInv /\ HandInv /\ WhereInv /\ NoCriticalError
  BY DEF RxInv
<1>2. RingInv /\ FilledInv /\ PlaceInv /\ CountInv /\ PoolInv /\ MutexInv
  BY <1>1 DEF BufferInv, WhereInv, HandInv
<1>3. TypeOK'
  BY <1>1, <1>2, TypeStep
<1>4. HandInv'
  BY <1>1, <1>2, HandStep
<1>5. BufferInv'
  <2>1. Quiet \/ Receives \/ Takes \/ \E b \in Buffers : Returns(b)
    BY <1>1, <1>2, <1>3, <1>4, Kinds
  <2> QED
    BY <1>1, <2>1, QuietBuffers, ReceiveBuffers, TakeBuffers, ReturnBuffers
<1>6. WhereInv'
  BY <1>1, WhereStep
<1>7. NoCriticalError'
  <2>1. ASSUME NEW t \in Threads, PrepareCheck(t) PROVE error' = error
    BY <1>1, <1>2, <2>1, CheckPasses
  <2>2. error' = error
    BY <2>1, Zenon DEF Next, vars, DmaReceive, LinkStep, LinkFinish, StartDma, StartClear, StartIrqs, StopIrqs, StopDma, LinkThread, Isr, IsrRelease, IsrClear,
       InputStep, InputWake, InputRead, InputNone, InputDiscard, InputTake, InputDeliver,
       InputReject, InputFree, StackFree, GiveBack, PrepareWrite, PoolFree, returnVars
  <2> QED
    BY <1>1, <2>2 DEF NoCriticalError
<1> QED
  BY <1>3, <1>4, <1>5, <1>6, <1>7 DEF RxInv

\* So it always holds.
LEMMA RxAlways == Spec => []RxInv
  BY RxInit, RxStep, PTL DEF Spec

\* The variables of the driver keep their types: the pool of pbufs neither
\* underflows nor overflows, whatever the threads that free them do.
THEOREM RxTypes == Spec => []TypeOK
<1>1. RxInv => TypeOK
  BY DEF RxInv
<1> QED
  BY <1>1, RxAlways, PTL

\* carbon_lwip_prepare_rx_descriptor never reaches its two "critical errors".
THEOREM TailStaysBehind == Spec => []NoCriticalError
<1>1. RxInv => NoCriticalError
  BY DEF RxInv
<1> QED
  BY <1>1, RxAlways, PTL

\* The DMA never writes into a buffer that was handed to the stack and has not come
\* back, and frames are handed over in the order in which they were received.
THEOREM FramesStayIntact == Spec => []HeldFramesIntact
<1>1. RxInv => HeldFramesIntact
  BY DEF RxInv, BufferInv
<1> QED
  BY <1>1, RxAlways, PTL

\* A buffer is in one descriptor or out of the ring, never both, however many
\* threads hand theirs back and in whatever order.
THEOREM BuffersHaveOneOwner == Spec => []OneOwner
<1>1. RxInv => OneOwner
  BY DEF RxInv, BufferInv
<1> QED
  BY <1>1, RxAlways, PTL

\* A pbuf made by carbon_lwip_low_level_input never has the length of an older frame.
THEOREM LengthsAreTheirOwn == Spec => []LengthNotStale
<1>1. RxInv => LengthNotStale
  BY DEF RxInv, BufferInv
<1> QED
  BY <1>1, RxAlways, PTL
-----------------------------------------------------------------------------
(* Wake-ups.                                                               *)

\* The handler released the semaphore before it clears the interrupt, and when
\* nothing is going to wake the input thread it has nothing to do, or ended its
\* last drain at a discard or without a pbuf, or the start of the link erased
\* the interrupt.
WakeInv ==
    /\ isr = "clear" => rxPktSemaphore
    /\ ipc = "wait" /\ ~rxPktSemaphore /\ ~RI
           => processed = received \/ why \in {"discard", "no pbuf"} \/ erased

\* The interrupt handler and the input thread keep it, for any pool.
LEMMA WakeStep ==
    ASSUME RxInv, WakeInv, [Next]_vars
    PROVE  WakeInv'
<1>1. TypeOK /\ RingInv /\ FilledInv
  BY DEF RxInv, BufferInv
<1>2. ASSUME UNCHANGED <<isr, rxPktSemaphore, ipc, RI, processed, received, why, erased>> PROVE WakeInv'
  BY <1>2 DEF WakeInv
<1>3. ASSUME NEW g \in BOOLEAN, DmaReceive(g) PROVE WakeInv'
  BY <1>3 DEF DmaReceive, WakeInv
<1>4. ASSUME LinkStep PROVE WakeInv'
  <2>1. UNCHANGED <<isr, rxPktSemaphore, ipc, processed, received, why>>
    BY <1>4 DEF LinkStep, LinkFinish, StartDma, StartClear, StartIrqs, StopIrqs, StopDma,
       LinkThread, dmaVars, inputVars
  <2>2. UNCHANGED <<RI, erased>> \/ (erased' = (erased \/ RI))
    BY <1>4, Zenon DEF LinkStep, LinkFinish, StartDma, StartClear, StartIrqs, StopIrqs, StopDma
  <2>3. CASE UNCHANGED <<RI, erased>>
    BY <1>2, <2>1, <2>3
  <2>4. CASE erased' = (erased \/ RI)
    <3>1. erased \/ RI => erased'
      BY <2>4
    <3> QED
      BY <2>1, <3>1 DEF WakeInv
  <2> QED
    BY <2>2, <2>3, <2>4
<1>5. ASSUME Isr PROVE WakeInv'
  BY <1>5 DEF Isr, IsrRelease, IsrClear, WakeInv
<1>6. ASSUME InputWake \/ InputRead \/ InputDiscard \/ InputTake \/ InputDeliver \/ InputReject \/ InputFree
      PROVE  WakeInv'
  <2>1. isr = "idle" /\ isr' = isr /\ ipc' # "wait"
    BY <1>6 DEF InputWake, InputRead, InputDiscard, InputTake, InputDeliver, InputReject, InputFree, isrVars
  <2> QED
    BY <2>1 DEF WakeInv
<1>7. ASSUME InputNone PROVE WakeInv'
  <2>1. /\ isr = "idle" /\ UNCHANGED <<isr, processed, received>>
        /\ (Empty /\ why' = "empty") \/ why' = "no pbuf"
    BY <1>7 DEF InputNone, isrVars, inputVars, dmaVars
  <2>2. Empty => processed = received
    BY <1>1, IndexTests
  <2> QED
    BY <2>1, <2>2 DEF WakeInv
<1>8. ASSUME NEW t \in Freers, NEW b \in stack, StackFree(t, b) PROVE WakeInv'
  BY <1>2, <1>8 DEF StackFree, dmaVars, inputVars, isrVars
<1>9. ASSUME NEW t \in Threads, PrepareCheck(t) PROVE WakeInv'
  BY <1>2, <1>9 DEF PrepareCheck, dmaVars, inputVars, isrVars
<1>10. ASSUME NEW t \in Threads, PrepareWrite(t) PROVE WakeInv'
  BY <1>10 DEF PrepareWrite, dmaVars, inputVars, isrVars, WakeInv
<1>11. ASSUME NEW t \in Threads, PoolFree(t) PROVE WakeInv'
  BY <1>11 DEF PoolFree, dmaVars, inputVars, isrVars, WakeInv
<1>12. ASSUME UNCHANGED vars PROVE WakeInv'
  BY <1>2, <1>12 DEF vars
<1> QED
  BY <1>3, <1>4, <1>5, <1>6, <1>7, <1>8, <1>9, <1>10, <1>11, <1>12, Zenon DEF Next, InputStep, GiveBack

\* With a pool that suffices the input thread always finds a pbuf.
LEMMA PbufLeft ==
    ASSUME PoolSuffices, RxInv, ipc = "test", ~Empty
    PROVE  pool # PoolSize
<1>1. TypeOK /\ RingInv /\ FilledInv /\ CountInv /\ PoolInv /\ PlaceOfInput
  BY DEF RxInv, BufferInv, WhereInv, HandInv
<1>2. processed \in Nat /\ recycled \in Nat /\ received \in Nat /\ pool \in 0..PoolSize
  BY <1>1 DEF TypeOK
<1>3. processed # received /\ processed <= received /\ received <= recycled + (N - 1)
  BY <1>1, IndexTests DEF RingInv
<1>4. Freeing \subseteq Freers
  BY <1>1 DEF Freeing, PlaceOfInput, Threads
<1>5. Cardinality(Freeing) <= Cardinality(Freers) /\ Cardinality(Freeing) \in Nat
      /\ Cardinality(Freers) \in Nat
  BY <1>1, <1>4, FS_Subset, FS_CardinalityType DEF PoolSuffices, PoolInv
<1>6. Cardinality(stack) \in Nat /\ One(Holding) = 0 /\ One(rx_ptk_mutex # NoThread) \in {0, 1}
  BY <1>1, StackFinite DEF One, Holding
<1>7. Cardinality(stack) <= processed - recycled
  BY <1>1, <1>2, <1>6 DEF CountInv
<1>8. pool = Cardinality(stack) + Cardinality(Freeing)
  BY <1>1, <1>5, <1>6 DEF PoolInv
<1> QED
  BY <1>2, <1>3, <1>5, <1>6, <1>7, <1>8, Constants DEF PoolSuffices

\* With one pbuf for each buffer that can be out and one for each thread that can
\* be between handing back its buffer and its pbuf, carbon_lwip_low_level_input
\* never gives up for want of a pbuf.
THEOREM PbufsSuffice == PoolSuffices => (Spec => [](why # "no pbuf"))
<1> SUFFICES ASSUME PoolSuffices PROVE Spec => [](why # "no pbuf")
  OBVIOUS
<1> DEFINE Found == why # "no pbuf"
<1>1. Init => Found
  BY DEF Init
<1>2. RxInv /\ Found /\ [Next]_vars => Found'
  <2> SUFFICES ASSUME RxInv, why # "no pbuf", [Next]_vars, why' = "no pbuf" PROVE FALSE
    OBVIOUS
  <2>1. InputNone /\ ~Empty /\ pool = PoolSize /\ ipc = "test"
    <3>1. CASE InputNone
      BY <3>1 DEF InputNone
    <3>2. CASE ~InputNone
      <4>1. why' = why \/ why' = "discard"
        BY <3>2, Zenon DEF Next, vars, DmaReceive, LinkStep, LinkFinish, StartDma, StartClear,
           StartIrqs, StopIrqs, StopDma, LinkThread, Isr, IsrRelease, IsrClear, InputStep,
           InputWake, InputRead, InputDiscard, InputTake, InputDeliver, InputReject, InputFree,
           StackFree, GiveBack, PrepareCheck, PrepareWrite, PoolFree
      <4> QED
        BY <4>1
    <3> QED
      BY <3>1, <3>2
  <2>2. pool # PoolSize
    BY <2>1, PbufLeft
  <2> QED
    BY <2>1, <2>2, Zenon
<1> HIDE DEF Found
<1>3. Spec => []Found
  BY <1>1, <1>2, RxAlways, PTL DEF Spec
<1> QED
  BY <1>3 DEF Found

\* For every ring, pool and set of threads: an input thread that waits with no
\* wake-up on its way has taken every frame, or its last drain ended at a discard
\* or, with a pool that is too small, without a pbuf, or carbon_hw_ethernet_start
\* erased the interrupt of a frame it left behind.
THEOREM NoWakeUpIsLost == Spec => []NoLostWakeup
<1>1. Init => WakeInv
  BY DEF Init, WakeInv
<1>2. RxInv /\ WakeInv /\ [Next]_vars => WakeInv'
  BY WakeStep
<1>3. Spec => []WakeInv
  BY <1>1, <1>2, RxAlways, PTL DEF Spec
<1>4. CASE PoolSuffices
  <2>1. WakeInv /\ why # "no pbuf" => NoLostWakeup
    BY DEF WakeInv, NoLostWakeup, LeftBehind
  <2>2. Spec => [](why # "no pbuf")
    BY <1>4, PbufsSuffice
  <2> QED
    BY <1>3, <2>1, <2>2, PTL
<1>5. CASE ~PoolSuffices
  <2>1. WakeInv => NoLostWakeup
    BY <1>5 DEF WakeInv, NoLostWakeup, LeftBehind
  <2> QED
    BY <1>3, <2>1, PTL
<1> QED
  BY <1>4, <1>5
=============================================================================
