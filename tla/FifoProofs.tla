----------------------------- MODULE FifoProofs -----------------------------
(***************************************************************************)
(* Proofs about the ring buffer of fifo.hpp with the pop() consumer and    *)
(* with the ContextPull consumer, for every capacity, word width, set of   *)
(* producers and batch size that satisfy WordsFit.                         *)
(***************************************************************************)
EXTENDS MCFifo, FifoPull, SequenceTheorems, TLAPS

(* Words: division by the word width is monotone, and within a word the    *)
(* order of the remainders is the order of the bits.                       *)

\* A bit number is its word and its place in the word (x / 8u and x % 8u).
LEMMA DivMod ==
    ASSUME NEW i \in Nat
    PROVE  /\ i \div W \in Nat
           /\ i % W \in 0..(W - 1)
           /\ i = (W * (i \div W)) + (i % W)
  BY FifoAssumption, SMT

\* Bits in order lie in words in order.
LEMMA DivMonotone ==
    ASSUME NEW i \in Nat, NEW j \in Nat, i <= j
    PROVE  i \div W <= j \div W
<1> DEFINE a == i \div W
           b == j \div W
<1>1. a \in Nat /\ b \in Nat /\ i >= W * a /\ j < (W * b) + W
  BY DivMod, FifoAssumption, SMT
<1>2. SUFFICES ASSUME b < a PROVE FALSE
  BY <1>1, SMT
<1> HIDE DEF a, b
<1>3. W * a >= W * (b + 1)
  BY <1>1, <1>2, FifoAssumption, SMT
<1>4. W * (b + 1) = (W * b) + W
  BY <1>1, FifoAssumption, SMT
<1> QED
  BY <1>1, <1>3, <1>4, FifoAssumption, SMT

\* Bits a whole word apart lie in different words.
LEMMA DivStrict ==
    ASSUME NEW i \in Nat, NEW j \in Nat, i + W <= j
    PROVE  i \div W < j \div W
<1> DEFINE a == i \div W
           b == j \div W
<1>1. a \in Nat /\ b \in Nat /\ i >= W * a /\ j < (W * b) + W
  BY DivMod, FifoAssumption, SMT
<1>2. SUFFICES ASSUME b <= a PROVE FALSE
  BY <1>1, SMT
<1> HIDE DEF a, b
<1>3. W * a >= W * b
  BY <1>1, <1>2, FifoAssumption, SMT
<1> QED
  BY <1>1, <1>3, FifoAssumption, SMT

\* Within a word, places are ordered as bits are.
LEMMA SameWord ==
    ASSUME NEW i \in Nat, NEW j \in Nat, i \div W = j \div W
    PROVE  i % W <= j % W <=> i <= j
  BY DivMod, FifoAssumption, SMT

\* tail_ready_ has a bit for every slot (bit_field_size_).
LEMMA IndexInBits == Index \subseteq Bits
<1> SUFFICES ASSUME NEW i \in Index PROVE i \in Bits
  OBVIOUS
<1> DEFINE q == BUFFER_SIZE \div W
<1>1. q \in Nat /\ BUFFER_SIZE < (W * q) + W
  BY DivMod, FifoAssumption DEF BUFFER_SIZE
<1> HIDE DEF q
<1>2. W * (q + 1) = (W * q) + W
  BY <1>1, FifoAssumption
<1>3. i < W * (q + 1) /\ i \in Nat
  BY <1>1, <1>2, FifoAssumption DEF Index, BUFFER_SIZE
<1>4. W * (q + 1) \in Nat
  BY <1>1, FifoAssumption
<1> QED
  BY <1>3, <1>4 DEF Bits, q

(* ~ContextPush marks the slots s..e, cyclically, and no others.           *)
Span(s, e) == {b \in Index : IF s <= e THEN s <= b /\ b <= e
                             ELSE s <= b \/ b <= e}

\* With the words fitting the ring, the destructor's arithmetic on whole
\* words marks exactly the reserved slots, whether or not they wrap.
LEMMA MarkedIsSpan ==
    ASSUME WordsFit, NEW ready \in SUBSET Index, NEW s \in Index, NEW e \in Index,
           e < s => e + W <= s
    PROVE  Marked(ready, s, e) = ready \cup Span(s, e)
<1> DEFINE w(i) == i \div W
           last == w(NElements)
<1>0. s \in Nat /\ e \in Nat /\ NElements \in Nat /\ W \in Nat /\ W > 0
      /\ s <= NElements /\ e <= NElements /\ Index \subseteq Nat
      /\ Bits \subseteq Nat
  BY FifoAssumption DEF Index, Bits
<1>1. \A i \in Nat : w(i) \in Nat /\ i % W \in 0..(W - 1)
  BY DivMod
<1>2. \A i, j \in Nat : i <= j => w(i) <= w(j)
  BY DivMonotone
<1>3. \A i, j \in Nat : w(i) = w(j) => (i % W <= j % W <=> i <= j)
  BY SameWord
<1>4. NElements % W = 0
  BY DEF WordsFit
<1>5. \A b \in Bits : w(b) = last => NElements <= b
  BY <1>0, <1>1, <1>3, <1>4
<1>6. \A b : b \in UpToBit(NElements) <=> b = NElements
  <2>1. NElements \in Bits
    BY <1>0, IndexInBits DEF Index
  <2>2. \A b \in Bits : w(b) = last /\ b % W <= NElements % W => b = NElements
    BY <1>0, <1>3, <1>5
  <2>3. \A b : b \in UpToBit(NElements) <=>
                b \in Bits /\ w(b) = last /\ b % W <= NElements % W
    BY DEF UpToBit, Word
  <2>4. NElements % W <= NElements % W
    BY <1>0, <1>3
  <2> HIDE DEF w, last
  <2> QED
    BY <2>1, <2>2, <2>3, <2>4 DEF last
<1>7. \A b : b \in FromBit(s) <=> b \in Bits /\ w(b) = w(s) /\ s <= b
  BY <1>0, <1>1, <1>3 DEF FromBit, Word
<1>8. \A b : b \in UpToBit(e) <=> b \in Bits /\ w(b) = w(e) /\ b <= e
  BY <1>0, <1>1, <1>3 DEF UpToBit, Word
<1>9. \A i, j \in Int : \A b : b \in WordsBetween(i, j) <=>
                              b \in Bits /\ i < w(b) /\ w(b) < j
  BY DEF WordsBetween
<1>10. w(s) <= last /\ w(e) <= last /\ w(s) \in Nat /\ w(e) \in Nat /\ last \in Nat
  BY <1>0, <1>1, <1>2
<1>11. \A b : b \in Index <=> b \in Bits /\ b <= NElements
  BY <1>0, IndexInBits DEF Index, Bits
<1>12. \A b : b \in Word(last) <=> b \in Bits /\ w(b) = last
  BY DEF Word
<1>13. \A b : b \in Span(s, e) <=>
              b \in Index /\ (IF s <= e THEN s <= b /\ b <= e ELSE s <= b \/ b <= e)
  BY DEF Span
<1>14. \A b \in Bits : b \in Nat /\ w(b) \in Nat
  BY <1>0, <1>1
<1>15. w(NElements) = last
  OBVIOUS
<1> HIDE DEF w, last
<1>16. CASE w(s) = w(e)
  <2>1. s <= e
    BY <1>0, <1>16, DivStrict DEF w
  <2>2. Marked(ready, s, e) = ready \cup (FromBit(s) \cap UpToBit(e))
    BY <1>16 DEF Marked, w
  <2>3. \A b \in Index : s <= b /\ b <= e => w(b) = w(s)
    BY <1>0, <1>2, <1>10, <1>11, <1>14, <1>16
  <2>4. \A b : b \in FromBit(s) \cap UpToBit(e) <=> b \in Span(s, e)
    <3>1. \A b \in Bits : b <= e => b <= NElements
      BY <1>0, <1>14
    <3>2. \A b : b \in Span(s, e) <=> b \in Index /\ s <= b /\ b <= e
      BY <1>13, <2>1, Zenon
    <3> QED
      BY <1>7, <1>8, <1>11, <1>16, <2>3, <3>1, <3>2, Zenon
  <2> QED
    BY <2>2, <2>4
<1>17. CASE w(s) < w(e)
  <2>1. s < e
    BY <1>0, <1>2, <1>10, <1>17
  <2>2. Marked(ready, s, e) = ready \cup FromBit(s) \cup UpToBit(e)
                                \cup WordsBetween(w(s), w(e))
    BY <1>10, <1>17 DEF Marked, w
  <2>3. ASSUME NEW b \in Bits
        PROVE  s <= b /\ b <= e <=>
                   \/ w(b) = w(s) /\ s <= b
                   \/ w(b) = w(e) /\ b <= e
                   \/ w(s) < w(b) /\ w(b) < w(e)
    <3>1. (s <= b => w(s) <= w(b)) /\ (b <= e => w(b) <= w(e))
          /\ (b <= s => w(b) <= w(s)) /\ (e <= b => w(e) <= w(b))
      BY <1>0, <1>2, <1>14
    <3> QED
      BY <3>1, <1>0, <1>10, <1>14, <1>17, <2>1
  <2>4. \A b : b \in ready \cup Span(s, e) <=>
               b \in ready \cup FromBit(s) \cup UpToBit(e) \cup WordsBetween(w(s), w(e))
    <3>1. \A b \in Bits : b \in WordsBetween(w(s), w(e)) <=> w(s) < w(b) /\ w(b) < w(e)
      BY <1>9, <1>10
    <3>2. \A b : b \in WordsBetween(w(s), w(e)) => b \in Bits
      BY DEF WordsBetween
    <3>3. \A b \in Bits : b <= e => b <= NElements
      BY <1>0, <1>14
    <3>4. \A b : b \in Span(s, e) <=> b \in Bits /\ s <= b /\ b <= e
      <4>1. s <= e
        BY <1>0, <2>1
      <4> QED
        BY <1>11, <1>13, <3>3, <4>1, Zenon
    <3> QED
      BY <1>7, <1>8, <2>3, <3>1, <3>2, <3>4
  <2> QED
    BY <2>2, <2>4
<1>18. CASE w(s) > w(e)
  <2>1. e < s
    BY <1>0, <1>2, <1>10, <1>18
  <2> DEFINE middle == WordsBetween(w(s), last)
             low    == WordsBetween(-1, w(e))
  <2>2. Marked(ready, s, e) =
            ((ready \cup FromBit(s) \cup UpToBit(e) \cup middle) \ Word(last))
                \cup UpToBit(NElements) \cup low
    BY <1>10, <1>18 DEF Marked, w, last
  <2>3. \A b : b \in middle <=> b \in Bits /\ w(s) < w(b) /\ w(b) < last
    BY <1>9, <1>10
  <2>4. \A b : b \in low <=> b \in Bits /\ w(b) < w(e)
    BY <1>9, <1>10, <1>14
  <2> HIDE DEF middle, low
  <2>5. ASSUME NEW b \in Bits
        PROVE  b <= e <=> w(b) < w(e) \/ (w(b) = w(e) /\ b <= e)
    BY <1>0, <1>2, <1>10, <1>14
  <2>6. ASSUME NEW b \in Bits, w(b) # last
        PROVE  s <= b /\ b <= NElements <=>
                   (w(s) < w(b) /\ w(b) < last) \/ (w(b) = w(s) /\ s <= b)
    <3>1. (s <= b => w(s) <= w(b)) /\ (b <= NElements => w(b) <= last)
          /\ (b <= s => w(b) <= w(s)) /\ (NElements <= b => last <= w(b))
      BY <1>0, <1>2, <1>14, <1>15
    <3> QED
      BY <3>1, <2>6, <1>0, <1>10, <1>14
  <2>7. ASSUME NEW b
        PROVE  b \in ready \cup Span(s, e) <=>
                 \/ b \in ready \cup FromBit(s) \cup UpToBit(e) \cup middle
                    /\ b \notin Word(last)
                 \/ b = NElements
                 \/ b \in low
    <3>1. b \in Span(s, e) <=> b \in Bits /\ b <= NElements /\ (s <= b \/ b <= e)
      BY <1>0, <1>11, <1>13, <1>14, <2>1
    <3>2. NElements \in Bits /\ s <= NElements /\ NElements <= NElements
      BY <1>0, <1>11, IndexInBits DEF Index
    <3>3. b \in ready => b \in Bits /\ b <= NElements
      BY <1>11
    <3>4. CASE b \in Bits /\ w(b) = last
      <4>1. b \in ready \cup Span(s, e) <=> b = NElements
        <5>1. b <= NElements => b = NElements
          BY <1>0, <1>5, <1>14, <3>4 DEF w, last
        <5> QED
          BY <3>1, <3>2, <3>3, <5>1
      <4>2. b \notin low
        BY <1>10, <2>4, <3>4
      <4> QED
        BY <4>1, <4>2, <3>4, <1>12
    <3>5. CASE b \in Bits /\ w(b) # last
      <4>1. b # NElements /\ b \notin Word(last)
        BY <3>5, <1>12, <1>15
      <4>2. b <= e => b <= NElements
        BY <1>0, <1>14, <3>5
      <4> QED
        BY <3>1, <3>5, <4>1, <4>2, <2>3, <2>4, <2>5, <2>6, <1>7, <1>8
    <3>6. CASE b \notin Bits
      BY <3>1, <3>2, <3>3, <3>6, <1>7, <1>8, <2>3, <2>4
    <3> QED
      BY <3>4, <3>5, <3>6
  <2> QED
    BY <2>2, <2>7, <1>6
<1> QED
  BY <1>10, <1>16, <1>17, <1>18
-----------------------------------------------------------------------------
(* Slots: the ring position of an object, by its absolute position.        *)

\* The objects that fit into the ring at once have slots of their own, and
\* increment() walks through them in order, also when head_ moves on.
LEMMA SlotFacts ==
    ASSUME NEW h \in Index, NEW c \in Nat
    PROVE  /\ SlotAt(h, c, c) = h
           /\ \A k \in c..(c + NElements) : SlotAt(h, c, k) \in Index
           /\ \A k, l \in c..(c + NElements) :
                  SlotAt(h, c, k) = SlotAt(h, c, l) => k = l
           /\ \A k \in c..(c + NElements - 1) :
                  increment(SlotAt(h, c, k)) = SlotAt(h, c, k + 1)
           /\ \A k \in (c + 1)..(c + NElements) :
                  SlotAt(increment(h), c + 1, k) = SlotAt(h, c, k)
           /\ increment(h) \in Index
  BY FifoAssumption DEF SlotAt, increment, Index, BUFFER_SIZE

\* increment(index, n) is n times increment(index).
LEMMA IncrementBySlot ==
    ASSUME NEW h \in Index, NEW c \in Nat, NEW k \in Nat, NEW n \in Nat,
           c <= k, k + n <= c + NElements
    PROVE  incrementBy(SlotAt(h, c, k), n) = SlotAt(h, c, k + n)
  BY FifoAssumption DEF SlotAt, incrementBy, Index, BUFFER_SIZE

\* The slots between the first and the last slot of a reservation are the
\* slots of its objects.
LEMMA SpanIsSlots ==
    ASSUME NEW h \in Index, NEW c \in Nat, NEW f \in Nat, NEW n \in Nat \ {0},
           c <= f, f + n <= c + NElements
    PROVE  \A b : b \in Span(SlotAt(h, c, f), SlotAt(h, c, f + n - 1)) <=>
                    \E k \in f..(f + n - 1) : b = SlotAt(h, c, k)
<1>1. ASSUME NEW k \in f..(f + n - 1)
      PROVE  SlotAt(h, c, k) \in Span(SlotAt(h, c, f), SlotAt(h, c, f + n - 1))
  BY FifoAssumption DEF SlotAt, Span, Index, BUFFER_SIZE
<1>2. ASSUME NEW b \in Span(SlotAt(h, c, f), SlotAt(h, c, f + n - 1))
      PROVE  \E k \in f..(f + n - 1) : b = SlotAt(h, c, k)
  <2> DEFINE k == IF b >= h THEN c + (b - h) ELSE c + (b - h) + BUFFER_SIZE
  <2>1. b \in Index
    BY DEF Span
  <2>2. k \in f..(f + n - 1) /\ b = SlotAt(h, c, k)
    BY <2>1, FifoAssumption DEF SlotAt, Span, Index, BUFFER_SIZE
  <2> QED
    BY <2>2
<1> QED
  BY <1>1, <1>2

\* A batch of at most MaxBatch objects never wraps back into its first word.
LEMMA WrapLeavesWord ==
    ASSUME WordsFit, NEW h \in Index, NEW c \in Nat, NEW f \in Nat,
           NEW n \in 1..MaxBatch, c <= f, f + n <= c + NElements,
           SlotAt(h, c, f + n - 1) < SlotAt(h, c, f)
    PROVE  SlotAt(h, c, f + n - 1) + W <= SlotAt(h, c, f)
  BY FifoAssumption DEF WordsFit, SlotAt, Index, BUFFER_SIZE

\* isFull(n) is exactly "n more objects do not fit", isFull() is isFull(1).
LEMMA RoomTest ==
    ASSUME RingTypeOK, WithinCapacity
    PROVE  /\ \A n \in 1..NElements :
                  isFullFor(n) <=> reserved - consumed + n > NElements
           /\ isFull <=> reserved - consumed = NElements
  BY FifoAssumption DEF RingTypeOK, WithinCapacity, isFullFor, isFull, increment,
                        Slot, SlotAt, Index, BUFFER_SIZE
-----------------------------------------------------------------------------
(* The inductive invariant, one lemma per kind of step.                    *)

\* RingInv says of tail_ready_: bit b is set iff b is the slot of a queued
\* object nobody owns.
LEMMA ReadyBit ==
    ASSUME ReadyExactlyCommitted
    PROVE  \A b : b \in tail_ready <=>
                \E k \in Queued : b = Slot(k) /\ \A p \in Producers : ~Owns(p, k)
  BY DEF ReadyExactlyCommitted

\* Every queued object has a slot of the ring.
LEMMA QueuedSlots ==
    ASSUME RingTypeOK, WithinCapacity
    PROVE  /\ \A k \in Queued : Slot(k) \in Index
           /\ \A k, l \in Queued : Slot(k) = Slot(l) => k = l
<1>1. /\ head \in Index /\ consumed \in Nat /\ reserved \in Nat
      /\ reserved <= consumed + NElements /\ NElements \in Nat
  BY FifoAssumption DEF RingTypeOK, WithinCapacity
<1>2. \A k \in Queued : k \in consumed..(consumed + NElements)
  BY <1>1 DEF Queued
<1> QED
  BY <1>1, <1>2, SlotFacts DEF Slot

\* Reserving room for n objects at tail_reserved_ (push, ContextPush).
LEMMA ReserveStep ==
    ASSUME RingInv, NEW p \in Producers, NEW n \in 1..MaxBatch,
           NEW l \in {"insert", "context"}, l = "insert" => n = 1,
           pc[p] = "idle", pc' = [pc EXCEPT ![p] = l],
           reserved - consumed + n <= NElements,
           Reserve(p, n, tail_reserved, incrementBy(tail_reserved, n - 1))
    PROVE  RingInv'
<1> DEFINE e == incrementBy(tail_reserved, n - 1)
<1>1. /\ RingTypeOK /\ WithinCapacity /\ Disjoint /\ ReadyExactlyCommitted
      /\ DataInPlace /\ ConsumerInv /\ \A q \in Producers : ProducerInv(q)
  BY DEF RingInv
<1>2. /\ head \in Index /\ consumed \in Nat /\ reserved \in Nat /\ n \in Nat /\ n >= 1
      /\ consumed <= reserved /\ reserved + n <= consumed + NElements
      /\ NElements \in Nat /\ n <= MaxBatch /\ MaxBatch \in Nat
  BY <1>1, FifoAssumption DEF RingTypeOK, WithinCapacity
<1>3. tail_reserved = SlotAt(head, consumed, reserved)
  BY <1>1 DEF WithinCapacity, Slot
<1>4. e = SlotAt(head, consumed, reserved + n - 1)
  <2>1. e = SlotAt(head, consumed, reserved + (n - 1))
    BY <1>2, <1>3, IncrementBySlot
  <2> QED
    BY <1>2, <2>1
<1>5. increment(e) = SlotAt(head, consumed, reserved + n)
  <2>1. reserved + n - 1 \in consumed..(consumed + NElements - 1)
    BY <1>2
  <2>2. increment(e) = SlotAt(head, consumed, (reserved + n - 1) + 1)
    BY <1>2, <1>4, <2>1, SlotFacts
  <2> QED
    BY <1>2, <2>2
<1>6. e \in Index /\ increment(e) \in Index
  BY <1>2, <1>4, <1>5, SlotFacts
<1> HIDE DEF e
<1>7. /\ tail_reserved' = increment(e)
      /\ fifo_pos_start' = [fifo_pos_start EXCEPT ![p] = tail_reserved]
      /\ fifo_pos_end' = [fifo_pos_end EXCEPT ![p] = e]
      /\ index' = [index EXCEPT ![p] = tail_reserved]
      /\ nObjects' = [nObjects EXCEPT ![p] = n]
      /\ first' = [first EXCEPT ![p] = reserved]
      /\ reserved' = reserved + n
      /\ pushed' = pushed /\ head' = head /\ tail_ready' = tail_ready
      /\ buffer' = buffer /\ consumed' = consumed /\ cpc' = cpc
      /\ current_head' = current_head /\ object' = object
  BY DEF Reserve, consVars, e
<1>8. RingTypeOK'
  BY <1>1, <1>2, <1>6, <1>7 DEF RingTypeOK
<1>9. WithinCapacity'
  BY <1>2, <1>5, <1>7 DEF WithinCapacity, Slot
<1>10. /\ \A k : Slot(k)' = Slot(k)
       /\ \A q \in Producers : q # p => (Holds(q)' <=> Holds(q))
       /\ \A q \in Producers : \A k : q # p => (Owns(q, k)' <=> Owns(q, k))
       /\ \A k : Owns(p, k)' <=> k \in reserved..(reserved + n - 1)
       /\ Holds(p)' /\ ~Holds(p)
  BY <1>1, <1>7 DEF Slot, Holds, Owns, RingTypeOK
<1>11. ASSUME NEW q \in Producers PROVE ProducerInv(q)'
  <2>1. CASE q = p
    <3>1. /\ pc'[p] = l /\ nObjects'[p] = n /\ pushed'[p] = 0 /\ first'[p] = reserved
          /\ index'[p] = tail_reserved /\ fifo_pos_start'[p] = tail_reserved
          /\ fifo_pos_end'[p] = e
      BY <1>1, <1>7 DEF RingTypeOK, ProducerInv
    <3>2. /\ SlotAt(head', consumed', reserved) = tail_reserved
          /\ SlotAt(head', consumed', reserved + n - 1) = e
      BY <1>3, <1>4, <1>7
    <3>3. reserved + 0 = reserved
      BY <1>2
    <3> QED
      BY <1>2, <1>7, <2>1, <3>1, <3>2, <3>3 DEF ProducerInv, Slot
  <2>2. CASE q # p
    <3>1. /\ pc'[q] = pc[q] /\ nObjects'[q] = nObjects[q] /\ pushed'[q] = pushed[q]
          /\ first'[q] = first[q] /\ index'[q] = index[q]
          /\ fifo_pos_start'[q] = fifo_pos_start[q] /\ fifo_pos_end'[q] = fifo_pos_end[q]
      BY <1>1, <1>7, <2>2 DEF RingTypeOK
    <3>2. first[q] \in Nat /\ nObjects[q] \in Nat
      BY <1>1, <1>2 DEF RingTypeOK
    <3> QED
      BY <1>1, <1>2, <1>7, <1>10, <2>2, <3>1, <3>2 DEF ProducerInv
  <2> QED
    BY <2>1, <2>2
<1>12. Disjoint'
  <2> SUFFICES ASSUME NEW a \in Producers, NEW b \in Producers,
                      a # b, Holds(a)', Holds(b)'
               PROVE  \/ first'[a] + nObjects'[a] <= first'[b]
                      \/ first'[b] + nObjects'[b] <= first'[a]
    BY DEF Disjoint
  <2>1. \A q \in Producers : q # p =>
            first'[q] = first[q] /\ nObjects'[q] = nObjects[q]
    BY <1>1, <1>7 DEF RingTypeOK
  <2>2. first'[p] = reserved
    BY <1>1, <1>7 DEF RingTypeOK
  <2>3. \A q \in Producers : q # p /\ Holds(q) => first[q] + nObjects[q] <= reserved
    BY <1>1 DEF ProducerInv
  <2> QED
    BY <1>1, <1>10, <2>1, <2>2, <2>3 DEF Disjoint
<1>13. ReadyExactlyCommitted'
  <2>1. \A k : k \in Queued' /\ (\A q \in Producers : ~Owns(q, k)') <=>
               k \in Queued /\ (\A q \in Producers : ~Owns(q, k))
    <3>1. \A k : k \in Queued' <=> k \in Queued \/ k \in reserved..(reserved + n - 1)
      BY <1>2, <1>7 DEF Queued
    <3>2. \A k \in Queued : k \notin reserved..(reserved + n - 1)
      BY <1>2 DEF Queued
    <3>3. \A k : ~Owns(p, k)
      BY <1>10 DEF Owns
    <3> QED
      BY <1>10, <3>1, <3>2, <3>3
  <2> QED
    BY <1>1, <1>7, <1>10, <2>1 DEF ReadyExactlyCommitted
<1>14. DataInPlace'
  <2> SUFFICES ASSUME NEW k \in Queued',
                      \A q \in Producers : Owns(q, k)' => k < first'[q] + pushed'[q]
               PROVE  buffer'[Slot(k)'] = k
    BY DEF DataInPlace
  <2>1. first'[p] = reserved /\ pushed'[p] = 0
    BY <1>1, <1>7 DEF RingTypeOK, ProducerInv
  <2>2. k \notin reserved..(reserved + n - 1)
    BY <1>2, <1>10, <2>1
  <2>3. k \in Queued
    BY <1>2, <1>7, <2>2 DEF Queued
  <2>4. \A q \in Producers : Owns(q, k) => k < first[q] + pushed[q]
    BY <1>1, <1>7, <1>10 DEF RingTypeOK, Owns
  <2> QED
    BY <1>1, <1>7, <1>10, <2>3, <2>4 DEF DataInPlace
<1>15. ConsumerInv'
  BY <1>1, <1>7 DEF ConsumerInv, ConsumerInOrder
<1> QED
  BY <1>8, <1>9, <1>11, <1>12, <1>13, <1>14, <1>15 DEF RingInv

\* Writing one object of a reservation with the lock released.
LEMMA WriteStep ==
    ASSUME RingInv, NEW p \in Producers, PushInsert(p) \/ ContextPushObject(p)
    PROVE  RingInv'
<1> DEFINE k0 == first[p] + pushed[p]
<1>1. /\ RingTypeOK /\ WithinCapacity /\ Disjoint /\ ReadyExactlyCommitted
      /\ DataInPlace /\ ConsumerInv /\ \A q \in Producers : ProducerInv(q)
  BY DEF RingInv
<1>2. /\ head \in Index /\ consumed \in Nat /\ reserved \in Nat
      /\ consumed <= reserved /\ reserved <= consumed + NElements
      /\ NElements \in Nat /\ MaxBatch \in Nat
      /\ first[p] \in Nat /\ pushed[p] \in Nat /\ nObjects[p] \in 0..MaxBatch
  BY <1>1, FifoAssumption DEF RingTypeOK, WithinCapacity
<1>3. Holds(p) /\ pushed[p] < nObjects[p]
  BY <1>1, <1>2 DEF PushInsert, ContextPushObject, Holds, ProducerInv
<1>4. /\ consumed <= first[p] /\ first[p] + nObjects[p] <= reserved
      /\ fifo_pos_start[p] = Slot(first[p])
      /\ pc[p] = "context" => index[p] = Slot(k0)
      /\ pc[p] = "insert" => pushed[p] = 0 /\ nObjects[p] = 1
  BY <1>1, <1>3 DEF ProducerInv
<1>5. k0 \in Queued /\ k0 < reserved /\ consumed <= k0 /\ k0 \in Nat
  BY <1>2, <1>3, <1>4 DEF Queued
<1>6. k0 \in consumed..(consumed + NElements) /\ reserved \in consumed..(consumed + NElements)
  BY <1>2, <1>5
<1>7. Slot(k0) \in Index /\ Slot(k0) # tail_reserved
      /\ increment(Slot(k0)) = Slot(k0 + 1)
  <2>1. tail_reserved = SlotAt(head, consumed, reserved)
    BY <1>1 DEF WithinCapacity, Slot
  <2>2. k0 \in consumed..(consumed + NElements - 1)
    BY <1>2, <1>5
  <2> HIDE DEF k0
  <2> QED
    BY <1>2, <1>5, <1>6, <2>1, <2>2, SlotFacts DEF Slot
<1>8. /\ buffer' = [buffer EXCEPT ![Slot(k0)] = k0]
      /\ pushed' = [pushed EXCEPT ![p] = pushed[p] + 1]
      /\ pc' = [pc EXCEPT ![p] = IF pc[p] = "insert" THEN "ready" ELSE "context"]
      /\ index' = [index EXCEPT ![p] = IF pc[p] = "insert" THEN index[p]
                                       ELSE Slot(k0 + 1)]
      /\ pc[p] \in {"insert", "context"}
      /\ UNCHANGED <<tail_reserved, head, tail_ready, reserved, fifo_pos_start,
                     fifo_pos_end, nObjects, first, cpc, current_head, object,
                     consumed>>
  <2>1. CASE PushInsert(p)
    <3>1. k0 = first[p] /\ pushed[p] + 1 = 1 /\ fifo_pos_start[p] = Slot(k0)
      BY <1>2, <1>4, <2>1 DEF PushInsert
    <3> HIDE DEF k0
    <3> QED
      BY <1>1, <1>2, <2>1, <3>1
      DEF PushInsert, reservation, consVars, RingTypeOK
  <2>2. CASE ContextPushObject(p)
    <3>1. index[p] = Slot(k0) /\ index[p] # tail_reserved
      BY <1>4, <1>7, <2>2 DEF ContextPushObject
    <3> QED
      BY <1>1, <1>2, <1>7, <2>2, <3>1
      DEF ContextPushObject, reservation, consVars, RingTypeOK
  <2> QED
    BY <2>1, <2>2
<1>9. RingTypeOK'
  <2>1. Slot(k0 + 1) \in Index
    <3>1. k0 + 1 \in consumed..(consumed + NElements)
      BY <1>2, <1>5
    <3> HIDE DEF k0
    <3> QED
      BY <1>2, <3>1, SlotFacts DEF Slot
  <2>2. pushed[p] + 1 \in 0..MaxBatch
    BY <1>2, <1>3
  <2> HIDE DEF k0
  <2> QED
    BY <1>1, <1>5, <1>7, <1>8, <2>1, <2>2 DEF RingTypeOK
<1>10. /\ \A k : Slot(k)' = Slot(k)
       /\ \A q \in Producers : Holds(q)' <=> Holds(q)
       /\ \A q \in Producers : \A k : Owns(q, k)' <=> Owns(q, k)
       /\ Queued' = Queued
  <2> HIDE DEF k0
  <2> QED
    BY <1>1, <1>8 DEF Slot, Holds, Owns, RingTypeOK, Queued
<1>11. WithinCapacity' /\ ReadyExactlyCommitted'
  BY <1>1, <1>8, <1>10 DEF WithinCapacity, ReadyExactlyCommitted, Slot
<1>12. Disjoint'
  BY <1>1, <1>8, <1>10 DEF Disjoint
<1>13. ASSUME NEW q \in Producers PROVE ProducerInv(q)'
  <2>1. CASE q = p
    <3>1. /\ pushed'[p] = pushed[p] + 1 /\ first'[p] = first[p]
          /\ nObjects'[p] = nObjects[p]
          /\ pc[p] = "insert" => pc'[p] = "ready"
          /\ pc[p] = "context" => pc'[p] = "context" /\ index'[p] = Slot(k0 + 1)
      BY <1>1, <1>8 DEF RingTypeOK
    <3>2. first'[p] + pushed'[p] = k0 + 1
      BY <1>2, <3>1
    <3>3. pc[p] = "context" => index'[p] = SlotAt(head', consumed', first'[p] + pushed'[p])
      BY <1>8, <3>1, <3>2 DEF Slot
    <3> HIDE DEF k0
    <3> QED
      BY <1>1, <1>2, <1>3, <1>4, <1>8, <1>10, <2>1, <3>1, <3>3
      DEF ProducerInv, Slot
  <2>2. CASE q # p
    <3>1. pc'[q] = pc[q] /\ pushed'[q] = pushed[q] /\ index'[q] = index[q]
      BY <1>1, <1>8, <2>2 DEF RingTypeOK
    <3> QED
      BY <1>1, <1>8, <1>10, <3>1 DEF ProducerInv, Slot
  <2> QED
    BY <2>1, <2>2
<1>14. DataInPlace'
  <2> SUFFICES ASSUME NEW k \in Queued,
                      \A q \in Producers : Owns(q, k) => k < first[q] + pushed'[q]
               PROVE  buffer'[Slot(k)] = k
    BY <1>8, <1>10 DEF DataInPlace
  <2>1. CASE k = k0
    BY <1>1, <1>7, <1>8, <2>1 DEF RingTypeOK
  <2>2. CASE k # k0
    <3>1. k \in consumed..(consumed + NElements) /\ k \in Nat
      BY <1>2 DEF Queued
    <3>2. Slot(k) # Slot(k0) /\ Slot(k) \in Index
      <4> HIDE DEF k0
      <4> QED
        BY <1>2, <1>6, <2>2, <3>1, SlotFacts DEF Slot
    <3>3. buffer'[Slot(k)] = buffer[Slot(k)]
      <4> HIDE DEF k0
      <4> QED
        BY <1>1, <1>8, <3>2 DEF RingTypeOK
    <3>4. ASSUME NEW q \in Producers, Owns(q, k)
          PROVE  k < first[q] + pushed[q]
      <4>1. CASE q = p
        <5>1. k < first[p] + (pushed[p] + 1)
          BY <1>1, <1>8, <3>4, <4>1 DEF RingTypeOK
        <5> QED
          BY <1>2, <2>2, <3>1, <4>1, <5>1
      <4>2. CASE q # p
        BY <1>1, <1>8, <3>4, <4>2 DEF RingTypeOK
      <4> QED
        BY <4>1, <4>2
    <3> QED
      BY <1>1, <3>3, <3>4 DEF DataInPlace
  <2> QED
    BY <2>1, <2>2
<1>15. ConsumerInv'
  BY <1>1, <1>8 DEF ConsumerInv, ConsumerInOrder
<1> QED
  BY <1>9, <1>11, <1>12, <1>13, <1>14, <1>15 DEF RingInv

\* Returning from a push: the producer's reservation, if it had one, is gone,
\* and the slots of its objects are the ones added to the ready bits.
LEMMA ReturnStep ==
    ASSUME RingInv, NEW p \in Producers, Return(p),
           Holds(p) => pushed[p] = nObjects[p],
           \A b : b \in tail_ready' <=>
                 b \in tail_ready \/ \E k : Owns(p, k) /\ b = Slot(k)
    PROVE  RingInv'
<1>1. /\ RingTypeOK /\ WithinCapacity /\ Disjoint /\ ReadyExactlyCommitted
      /\ DataInPlace /\ ConsumerInv /\ \A q \in Producers : ProducerInv(q)
  BY DEF RingInv
<1>2. /\ head \in Index /\ consumed \in Nat /\ reserved \in Nat
      /\ consumed <= reserved /\ reserved <= consumed + NElements
      /\ NElements \in Nat /\ MaxBatch \in Nat
      /\ \A q \in Producers : first[q] \in Nat /\ nObjects[q] \in Nat
                               /\ pushed[q] \in Nat
  BY <1>1, FifoAssumption DEF RingTypeOK, WithinCapacity
<1>3. /\ pc' = [pc EXCEPT ![p] = "idle"]
      /\ fifo_pos_start' = [fifo_pos_start EXCEPT ![p] = 0]
      /\ fifo_pos_end' = [fifo_pos_end EXCEPT ![p] = 0]
      /\ index' = [index EXCEPT ![p] = 0]
      /\ nObjects' = [nObjects EXCEPT ![p] = 0]
      /\ pushed' = [pushed EXCEPT ![p] = 0]
      /\ first' = [first EXCEPT ![p] = 0]
      /\ UNCHANGED <<tail_reserved, head, buffer, reserved, cpc, current_head,
                     object, consumed>>
  BY DEF Return, consVars
<1>4. /\ \A k : Slot(k)' = Slot(k)
      /\ Queued' = Queued
      /\ ~Holds(p)'
      /\ \A q \in Producers : q # p =>
            /\ Holds(q)' <=> Holds(q)
            /\ \A k : Owns(q, k)' <=> Owns(q, k)
            /\ pc'[q] = pc[q] /\ first'[q] = first[q] /\ nObjects'[q] = nObjects[q]
            /\ pushed'[q] = pushed[q] /\ index'[q] = index[q]
            /\ fifo_pos_start'[q] = fifo_pos_start[q]
            /\ fifo_pos_end'[q] = fifo_pos_end[q]
  BY <1>1, <1>3 DEF Slot, Queued, Holds, Owns, RingTypeOK
<1>5. \A k : Owns(p, k) => k \in Queued /\ \A q \in Producers : q # p => ~Owns(q, k)
  <2> SUFFICES ASSUME NEW k, Owns(p, k)
               PROVE  k \in Queued /\ \A q \in Producers : q # p => ~Owns(q, k)
    OBVIOUS
  <2>1. /\ Holds(p) /\ k \in first[p]..(first[p] + nObjects[p] - 1)
        /\ consumed <= first[p] /\ first[p] + nObjects[p] <= reserved
    BY <1>1 DEF Owns, ProducerInv
  <2>2. k \in Queued
    BY <1>2, <2>1 DEF Queued
  <2>3. ASSUME NEW q \in Producers, q # p, Owns(q, k) PROVE FALSE
    <3>1. Holds(q) /\ k \in first[q]..(first[q] + nObjects[q] - 1)
      BY <2>3 DEF Owns
    <3> QED
      BY <1>1, <1>2, <2>1, <2>3, <3>1 DEF Disjoint
  <2> QED
    BY <2>2, <2>3
<1>6. tail_ready' \subseteq Bits
  BY <1>1, <1>5, QueuedSlots, IndexInBits DEF RingTypeOK
<1>7. RingTypeOK'
  BY <1>1, <1>2, <1>3, <1>6, FifoAssumption DEF RingTypeOK, Index
<1>8. WithinCapacity'
  BY <1>1, <1>3 DEF WithinCapacity, Slot
<1>9. ASSUME NEW q \in Producers PROVE ProducerInv(q)'
  <2>1. CASE q = p
    <3>1. pc'[p] = "idle" /\ pushed'[p] = 0
      BY <1>1, <1>3 DEF RingTypeOK
    <3> QED
      BY <1>4, <2>1, <3>1 DEF ProducerInv
  <2>2. CASE q # p
    BY <1>1, <1>3, <1>4, <2>2 DEF ProducerInv, Slot
  <2> QED
    BY <2>1, <2>2
<1>10. Disjoint'
  BY <1>1, <1>4 DEF Disjoint
<1>11. ReadyExactlyCommitted'
  <2>1. \A k : (\A q \in Producers : ~Owns(q, k)') <=>
               (\A q \in Producers : ~Owns(q, k)) \/ Owns(p, k)
    <3>1. \A k : ~Owns(p, k)'
      BY <1>4 DEF Owns
    <3> QED
      BY <1>4, <1>5, <3>1
  <2>2. \A b : b \in tail_ready' <=>
            \E k \in Queued : b = Slot(k) /\ \A q \in Producers : ~Owns(q, k)'
    BY <1>1, <1>5, <2>1, ReadyBit
  <2> QED
    BY <1>4, <2>2 DEF ReadyExactlyCommitted
<1>12. DataInPlace'
  <2> SUFFICES ASSUME NEW k \in Queued,
                      \A q \in Producers : Owns(q, k)' => k < first'[q] + pushed'[q]
               PROVE  buffer[Slot(k)] = k
    BY <1>3, <1>4 DEF DataInPlace
  <2>1. ASSUME NEW q \in Producers, Owns(q, k)
        PROVE  k < first[q] + pushed[q]
    <3>1. CASE q = p
      BY <1>2, <2>1, <3>1 DEF Owns
    <3>2. CASE q # p
      BY <1>4, <2>1, <3>2
    <3> QED
      BY <3>1, <3>2
  <2> QED
    BY <1>1, <2>1 DEF DataInPlace
<1>13. ConsumerInv'
  BY <1>1, <1>3 DEF ConsumerInv, ConsumerInOrder
<1> QED
  BY <1>7, <1>8, <1>9, <1>10, <1>11, <1>12, <1>13 DEF RingInv

\* The second locked region of push and the destructor ~ContextPush.
LEMMA ReadyStep ==
    ASSUME WordsFit, RingInv, NEW p \in Producers, PushReady(p) \/ ContextPushReady(p)
    PROVE  RingInv'
<1>1. RingTypeOK /\ WithinCapacity /\ ProducerInv(p) /\ ReadyExactlyCommitted
  BY DEF RingInv
<1>2. /\ head \in Index /\ consumed \in Nat /\ reserved \in Nat
      /\ reserved <= consumed + NElements /\ NElements \in Nat /\ MaxBatch \in Nat
      /\ first[p] \in Nat /\ nObjects[p] \in 0..MaxBatch
  BY <1>1, FifoAssumption DEF RingTypeOK, WithinCapacity
<1>3. Holds(p) /\ Return(p)
  BY DEF PushReady, ContextPushReady, Holds
<1>4. /\ nObjects[p] >= 1 /\ consumed <= first[p]
      /\ first[p] + nObjects[p] <= reserved
      /\ fifo_pos_start[p] = Slot(first[p])
      /\ fifo_pos_end[p] = Slot(first[p] + nObjects[p] - 1)
      /\ pc[p] = "ready" => pushed[p] = 1 /\ nObjects[p] = 1
  BY <1>1, <1>3 DEF ProducerInv
<1>5. \A k : Owns(p, k) <=> k \in first[p]..(first[p] + nObjects[p] - 1)
  BY <1>3 DEF Owns
<1>6. pushed[p] = nObjects[p]
  BY <1>4 DEF PushReady, ContextPushReady
<1>7. \A b : b \in tail_ready' <=>
          b \in tail_ready \/ \E k : Owns(p, k) /\ b = Slot(k)
  <2>1. CASE PushReady(p)
    <3>1. nObjects[p] = 1 /\ tail_ready' = tail_ready \cup {Slot(first[p])}
      BY <1>4, <2>1 DEF PushReady
    <3>2. \A k : Owns(p, k) <=> k = first[p]
      BY <1>2, <1>5, <3>1
    <3> QED
      BY <3>1, <3>2
  <2>2. CASE ContextPushReady(p)
    <3> DEFINE s == SlotAt(head, consumed, first[p])
               e == SlotAt(head, consumed, first[p] + nObjects[p] - 1)
    <3>1. tail_ready' = Marked(tail_ready, s, e)
      BY <1>4, <2>2 DEF ContextPushReady, Slot
    <3>2. s \in Index /\ e \in Index
      <4>1. /\ first[p] \in consumed..(consumed + NElements)
            /\ first[p] + nObjects[p] - 1 \in consumed..(consumed + NElements)
        BY <1>2, <1>4
      <4> QED
        BY <1>2, <4>1, SlotFacts
    <3>3. tail_ready \in SUBSET Index
      BY <1>1, QueuedSlots, ReadyBit
    <3>4. e < s => e + W <= s
      <4>1. first[p] + nObjects[p] <= consumed + NElements /\ nObjects[p] \in 1..MaxBatch
        BY <1>2, <1>4
      <4> QED
        BY <1>2, <1>4, <4>1, WrapLeavesWord
    <3>5. \A b : b \in Span(s, e) <=> \E k \in first[p]..(first[p] + nObjects[p] - 1) :
                                        b = SlotAt(head, consumed, k)
      <4>1. first[p] + nObjects[p] <= consumed + NElements /\ nObjects[p] \in Nat \ {0}
        BY <1>2, <1>4
      <4> QED
        BY <1>2, <1>4, <4>1, SpanIsSlots
    <3> HIDE DEF s, e
    <3>6. tail_ready' = tail_ready \cup Span(s, e)
      BY <3>1, <3>2, <3>3, <3>4, MarkedIsSpan
    <3> QED
      BY <1>5, <3>5, <3>6 DEF Slot
  <2> QED
    BY <2>1, <2>2
<1> QED
  BY <1>3, <1>6, <1>7, ReturnStep

\* A push that finds no room, and the return from it.
LEMMA OverflowStep ==
    ASSUME RingInv, NEW p \in Producers, NEW n \in 1..MaxBatch, Overflow(p, n)
    PROVE  RingInv'
<1>1. /\ RingTypeOK /\ WithinCapacity /\ Disjoint /\ ReadyExactlyCommitted
      /\ DataInPlace /\ ConsumerInv /\ \A q \in Producers : ProducerInv(q)
  BY DEF RingInv
<1>2. /\ pc[p] = "idle"
      /\ pc' = [pc EXCEPT ![p] = "overflow"]
      /\ nObjects' = [nObjects EXCEPT ![p] = n]
      /\ UNCHANGED <<tail_reserved, head, tail_ready, buffer, reserved,
                     fifo_pos_start, fifo_pos_end, first, index, pushed, cpc,
                     current_head, object, consumed>>
  BY DEF Overflow, ringVars, progress, consVars
<1>3. RingTypeOK'
  BY <1>1, <1>2, FifoAssumption DEF RingTypeOK
<1>4. /\ \A k : Slot(k)' = Slot(k)
      /\ Queued' = Queued
      /\ \A q \in Producers : Holds(q)' <=> Holds(q)
      /\ \A q \in Producers : \A k : Owns(q, k)' <=> Owns(q, k)
      /\ \A q \in Producers : Holds(q) => pc'[q] = pc[q] /\ nObjects'[q] = nObjects[q]
      /\ \A q \in Producers : q # p => pc'[q] = pc[q]
      /\ pc'[p] = "overflow"
  BY <1>1, <1>2 DEF Slot, Queued, Holds, Owns, RingTypeOK
<1>5. WithinCapacity' /\ ReadyExactlyCommitted' /\ DataInPlace' /\ ConsumerInv'
  BY <1>1, <1>2, <1>4
  DEF WithinCapacity, Slot, ReadyExactlyCommitted, DataInPlace, ConsumerInv,
      ConsumerInOrder
<1>6. Disjoint'
  BY <1>1, <1>2, <1>4 DEF Disjoint
<1>7. ASSUME NEW q \in Producers PROVE ProducerInv(q)'
  <2>1. CASE q = p
    BY <1>1, <1>2, <1>4, <2>1 DEF ProducerInv, Holds
  <2>2. CASE q # p
    <3>1. nObjects'[q] = nObjects[q]
      BY <1>1, <1>2, <2>2 DEF RingTypeOK
    <3> QED
      BY <1>1, <1>2, <1>4, <2>2, <3>1 DEF ProducerInv, Slot
  <2> QED
    BY <2>1, <2>2
<1> QED
  BY <1>3, <1>5, <1>6, <1>7 DEF RingInv

\* head_ moves on to the slot of a later object; the other slots keep their
\* objects.
LEMMA SlotMoves ==
    ASSUME NEW h \in Index, NEW c \in Nat, NEW n \in 0..NElements
    PROVE  /\ SlotAt(h, c, c + n) \in Index
           /\ \A k \in (c + n)..(c + NElements) :
                  SlotAt(SlotAt(h, c, c + n), c + n, k) = SlotAt(h, c, k)
  BY FifoAssumption DEF SlotAt, Index, BUFFER_SIZE

\* The consumer gives back the n oldest objects, all of them ready (pop,
\* ~ContextPull).
LEMMA AdvanceStep ==
    ASSUME RingInv, NEW n \in 1..NElements, consumed + n <= reserved,
           \A p \in Producers : \A k \in consumed..(consumed + n - 1) : ~Owns(p, k),
           head' = Slot(consumed + n), consumed' = consumed + n,
           tail_ready' = tail_ready \ {Slot(k) : k \in consumed..(consumed + n - 1)},
           cpc' = "idle", current_head' = 0,
           UNCHANGED <<tail_reserved, buffer, reserved, pc, fifo_pos_start,
                       fifo_pos_end, nObjects, first, index, pushed, object>>
    PROVE  RingInv'
<1>1. /\ RingTypeOK /\ WithinCapacity /\ Disjoint /\ ReadyExactlyCommitted
      /\ DataInPlace /\ ConsumerInv /\ \A q \in Producers : ProducerInv(q)
  BY DEF RingInv
<1>2. /\ head \in Index /\ consumed \in Nat /\ reserved \in Nat /\ n \in Nat /\ 1 <= n
      /\ n <= NElements /\ consumed + n <= reserved /\ reserved <= consumed + NElements
      /\ NElements \in Nat \ {0}
  BY <1>1, FifoAssumption DEF RingTypeOK, WithinCapacity
<1>3. /\ head' \in Index
      /\ \A k \in (consumed + n)..(consumed + NElements) :
            SlotAt(head', consumed', k) = SlotAt(head, consumed, k)
  BY <1>2, SlotMoves DEF Slot
<1>4. \A k \in (consumed + n)..reserved : Slot(k)' = Slot(k)
  BY <1>2, <1>3 DEF Slot
<1>5. RingTypeOK'
  BY <1>1, <1>2, <1>3 DEF RingTypeOK, Index
<1>6. WithinCapacity'
  <2>1. SlotAt(head', consumed', reserved) = Slot(reserved)
    BY <1>2, <1>3 DEF Slot
  <2> QED
    BY <1>1, <1>2, <2>1 DEF WithinCapacity, Slot
<1>7. ASSUME NEW p \in Producers, Holds(p)
      PROVE  /\ consumed + n <= first[p]
             /\ first[p] \in (consumed + n)..reserved
             /\ first[p] + nObjects[p] - 1 \in (consumed + n)..reserved
             /\ first[p] + pushed[p] \in (consumed + n)..reserved
  <2>1. /\ first[p] \in Nat /\ nObjects[p] \in Nat /\ pushed[p] \in Nat
        /\ consumed <= first[p] /\ nObjects[p] >= 1 /\ pushed[p] <= nObjects[p]
        /\ first[p] + nObjects[p] <= reserved
    BY <1>1, <1>7, FifoAssumption DEF RingTypeOK, ProducerInv
  <2>2. Owns(p, first[p])
    BY <1>7, <2>1 DEF Owns
  <2>3. first[p] \notin consumed..(consumed + n - 1)
    BY <2>2
  <2> QED
    BY <1>2, <2>1, <2>3
<1>8. ASSUME NEW p \in Producers PROVE ProducerInv(p)'
  <2>1. Holds(p)' <=> Holds(p)
    BY DEF Holds
  <2>2. CASE Holds(p)
    <3>1. /\ SlotAt(head', consumed', first[p]) = Slot(first[p])
          /\ SlotAt(head', consumed', first[p] + nObjects[p] - 1)
                = Slot(first[p] + nObjects[p] - 1)
          /\ SlotAt(head', consumed', first[p] + pushed[p])
                = Slot(first[p] + pushed[p])
      BY <1>4, <1>7, <2>2 DEF Slot
    <3> QED
      BY <1>1, <1>7, <2>1, <2>2, <3>1 DEF ProducerInv, Slot
  <2>3. CASE ~Holds(p)
    BY <1>1, <2>1, <2>3 DEF ProducerInv, Holds
  <2> QED
    BY <2>2, <2>3
<1>9. Disjoint'
  BY <1>1 DEF Disjoint, Holds
<1> DEFINE Old == consumed..(consumed + n - 1)
<1>10. /\ \A k : k \in Queued' <=> k \in Queued /\ k \notin Old
       /\ \A k \in Old : k \in Queued
       /\ \A k \in Queued : k \notin Old => k \in (consumed + n)..reserved
  BY <1>2 DEF Queued
<1>11. \A p \in Producers : \A k : Owns(p, k)' <=> Owns(p, k)
  BY DEF Owns, Holds
<1> HIDE DEF Old
<1>12. \A k \in Queued : k \notin Old => Slot(k)' = Slot(k)
  BY <1>4, <1>10
<1>13. ReadyExactlyCommitted'
  <2>1. \A k \in Queued : k \notin Old => \A l \in Old : Slot(k) # Slot(l)
    BY <1>1, <1>10, QueuedSlots
  <2>2. \A b : b \in tail_ready' <=> b \in tail_ready /\ \A l \in Old : b # Slot(l)
    BY DEF Old
  <2>3. \A b : b \in tail_ready' <=>
          \E k \in Queued : k \notin Old /\ b = Slot(k) /\ \A p \in Producers : ~Owns(p, k)
    BY <1>1, <2>1, <2>2, ReadyBit
  <2>4. \A b : b \in tail_ready' <=>
          b \in {Slot(k)' : k \in {q \in Queued' : \A p \in Producers : ~Owns(p, q)'}}
    BY <1>10, <1>11, <1>12, <2>3
  <2> QED
    BY <2>4 DEF ReadyExactlyCommitted
<1>14. DataInPlace'
  BY <1>1, <1>10, <1>11, <1>12 DEF DataInPlace
<1>15. ConsumerInv'
  BY DEF ConsumerInv, ConsumerInOrder
<1> QED
  BY <1>5, <1>6, <1>8, <1>9, <1>13, <1>14, <1>15 DEF RingInv

\* The three steps of pop(): the slot at head_ holds the object whose turn it
\* is, and giving it back leaves every other object where it is.
LEMMA PopStep ==
    ASSUME RingInv, Pop
    PROVE  RingInv'
<1>1. /\ RingTypeOK /\ WithinCapacity /\ Disjoint /\ ReadyExactlyCommitted
      /\ DataInPlace /\ ConsumerInv /\ \A q \in Producers : ProducerInv(q)
  BY DEF RingInv
<1>2. /\ head \in Index /\ consumed \in Nat /\ reserved \in Nat
      /\ consumed <= reserved /\ reserved <= consumed + NElements
      /\ NElements \in Nat \ {0}
  BY <1>1, FifoAssumption DEF RingTypeOK, WithinCapacity
<1>3. Slot(consumed) = head
  BY <1>2, SlotFacts DEF Slot
<1>4. head \in tail_ready =>
          consumed \in Queued /\ \A p \in Producers : ~Owns(p, consumed)
  <2> SUFFICES ASSUME head \in tail_ready
               PROVE  consumed \in Queued /\ \A p \in Producers : ~Owns(p, consumed)
    OBVIOUS
  <2>1. PICK k \in Queued : head = Slot(k) /\ \A p \in Producers : ~Owns(p, k)
    BY <1>1, ReadyBit
  <2>2. consumed \in Queued
    BY <1>2, <2>1 DEF Queued
  <2>3. k = consumed
    BY <1>1, <1>3, <2>1, <2>2, QueuedSlots
  <2> QED
    BY <2>1, <2>3
<1>5. CASE PopCheck \/ PopRemove
  <2>1. UNCHANGED <<tail_reserved, head, tail_ready, buffer, reserved, consumed,
                    pc, fifo_pos_start, fifo_pos_end, nObjects, first, index,
                    pushed>>
    BY <1>5 DEF PopCheck, PopRemove, ringVars, reservation, progress
  <2>2. WithinCapacity' /\ ReadyExactlyCommitted' /\ DataInPlace' /\ Disjoint'
        /\ \A q \in Producers : ProducerInv(q)'
    BY <1>1, <2>1
    DEF WithinCapacity, Slot, ReadyExactlyCommitted, DataInPlace, Disjoint, Owns,
        Holds, Queued, ProducerInv
  <2>3. RingTypeOK'
    BY <1>1, <1>5, <2>1 DEF RingTypeOK, PopCheck, PopRemove
  <2>4. ConsumerInv'
    <3>1. CASE PopCheck
      BY <1>1, <2>1, <3>1 DEF ConsumerInv, ConsumerInOrder, PopCheck
    <3>2. CASE PopRemove
      <4>1. current_head = head /\ head \in tail_ready /\ object' = buffer[head]
        BY <1>1, <3>2 DEF ConsumerInv, PopRemove
      <4>2. buffer[head] = consumed
        BY <1>1, <1>3, <1>4, <4>1 DEF DataInPlace
      <4> QED
        BY <2>1, <3>2, <4>1, <4>2 DEF ConsumerInv, ConsumerInOrder, PopRemove
    <3> QED
      BY <1>5, <3>1, <3>2
  <2> QED
    BY <2>2, <2>3, <2>4 DEF RingInv
<1>6. CASE PopAdvance
  <2>1. /\ head' = increment(head)
        /\ tail_ready' = tail_ready \ {head}
        /\ consumed' = consumed + 1
        /\ cpc' = "idle" /\ current_head' = 0
        /\ UNCHANGED <<tail_reserved, buffer, reserved, pc, fifo_pos_start,
                       fifo_pos_end, nObjects, first, index, pushed, object>>
        /\ head \in tail_ready
    BY <1>1, <1>6 DEF PopAdvance, ConsumerInv, reservation, progress
  <2>2. consumed < reserved /\ \A p \in Producers : ~Owns(p, consumed)
    BY <1>2, <1>4, <2>1 DEF Queued
  <2>3. 1 \in 1..NElements /\ consumed + 1 <= reserved
    BY <1>2, <2>2
  <2>4. increment(head) = Slot(consumed + 1)
    BY <1>2, <1>3, SlotFacts DEF Slot
  <2>5. \A k : k \in consumed..(consumed + 1 - 1) <=> k = consumed
    BY <1>2
  <2>6. tail_ready' = tail_ready \ {Slot(k) : k \in consumed..(consumed + 1 - 1)}
    BY <1>3, <2>1, <2>5
  <2>7. \A p \in Producers : \A k \in consumed..(consumed + 1 - 1) : ~Owns(p, k)
    BY <2>2, <2>5
  <2> QED
    BY <2>1, <2>3, <2>4, <2>6, <2>7, AdvanceStep
<1> QED
  BY <1>5, <1>6 DEF Pop

\* The invariant holds of an empty ring.
LEMMA RingInvInit == Init => RingInv
<1> SUFFICES ASSUME Init PROVE RingInv
  OBVIOUS
<1>1. Queued = {}
  BY DEF Init, Queued
<1> QED
  BY <1>1, FifoAssumption
  DEF Init, RingInv, RingTypeOK, WithinCapacity, ProducerInv, Holds, Disjoint, Slot,
      SlotAt, ReadyExactlyCommitted, DataInPlace, ConsumerInv, ConsumerInOrder,
      Index

\* Every step of push, ContextPush and pop preserves the invariant.
LEMMA RingInvNext ==
    ASSUME WordsFit, RingInv, [Next]_vars
    PROVE  RingInv'
<1>1. CASE UNCHANGED vars
  BY <1>1
  DEF vars, RingInv, RingTypeOK, WithinCapacity, ProducerInv, Holds, Disjoint, Slot,
      ReadyExactlyCommitted, DataInPlace, ConsumerInv, ConsumerInOrder, Queued, Owns
<1>2. CASE Pop
  BY <1>2, PopStep
<1>3. ASSUME NEW p \in Producers, PushReserve(p) PROVE RingInv'
  <2>1. reserved - consumed + 1 <= NElements /\ 1 \in 1..MaxBatch
    BY <1>3, RoomTest, FifoAssumption DEF PushReserve, RingInv, RingTypeOK, WithinCapacity
  <2>2. incrementBy(tail_reserved, 1 - 1) = tail_reserved
    BY FifoAssumption DEF incrementBy, RingInv, RingTypeOK, Index, BUFFER_SIZE
  <2> QED
    BY <1>3, <2>1, <2>2, ReserveStep DEF PushReserve
<1>4. ASSUME NEW p \in Producers, NEW n \in 1..MaxBatch, ContextPushReserve(p, n)
      PROVE  RingInv'
  <2>1. reserved - consumed + n <= NElements
    <3>1. n \in 1..NElements
      BY FifoAssumption
    <3> QED
      BY <1>4, <3>1, RoomTest, FifoAssumption
      DEF ContextPushReserve, RingInv, RingTypeOK, WithinCapacity
  <2> QED
    BY <1>4, <2>1, ReserveStep DEF ContextPushReserve
<1>5. ASSUME NEW p \in Producers, PushOverflow(p) PROVE RingInv'
  BY <1>5, OverflowStep, FifoAssumption DEF PushOverflow
<1>6. ASSUME NEW p \in Producers, NEW n \in 1..MaxBatch, ContextPushOverflow(p, n)
      PROVE  RingInv'
  BY <1>6, OverflowStep DEF ContextPushOverflow
<1>7. ASSUME NEW p \in Producers, PushInsert(p) \/ ContextPushObject(p) PROVE RingInv'
  BY <1>7, WriteStep
<1>8. ASSUME NEW p \in Producers, PushReady(p) \/ ContextPushReady(p) PROVE RingInv'
  BY <1>8, ReadyStep
<1>9. ASSUME NEW p \in Producers, OverflowReturn(p) PROVE RingInv'
  BY <1>9, ReturnStep DEF OverflowReturn, Holds, Owns
<1> QED
  BY <1>1, <1>2, <1>3, <1>4, <1>5, <1>6, <1>7, <1>8, <1>9 DEF Next, Start, Produce

\* The invariant of the ring holds in every reachable state.
THEOREM FifoInvariant == WordsFit => (Spec => []FifoInv)
<1> SUFFICES ASSUME WordsFit PROVE Spec => []FifoInv
  OBVIOUS
<1>1. Init => FifoInv
  BY RingInvInit DEF FifoInv, InPop, Init
<1>2. FifoInv /\ [Next]_vars => FifoInv'
  <2> SUFFICES ASSUME FifoInv, [Next]_vars PROVE FifoInv'
    OBVIOUS
  <2>1. RingInv'
    BY RingInvNext DEF FifoInv
  <2>2. InPop'
    BY DEF FifoInv, InPop, Next, Start, Produce, PushReserve, ContextPushReserve, Reserve,
           PushOverflow, ContextPushOverflow, Overflow, PushInsert, PushReady, Return,
           ContextPushObject, ContextPushReady, OverflowReturn, Pop, PopCheck, PopRemove,
           PopAdvance, consVars, vars
  <2> QED
    BY <2>1, <2>2 DEF FifoInv
<1> QED
  BY <1>1, <1>2, PTL DEF Spec

\* The variables of fifo.hpp stay within their types; in particular no index
\* ever leaves the ring.
THEOREM FifoTypeCorrect == WordsFit => (Spec => []TypeOK)
<1>1. FifoInv => TypeOK
  BY DEF FifoInv, RingInv, TypeOK
<1> QED
  BY <1>1, FifoInvariant, PTL

\* pop() yields the objects in the order room was reserved for them, none
\* lost, duplicated or read before it was written.
THEOREM FifoInOrder == WordsFit => (Spec => []ConsumerInOrder)
<1>1. FifoInv => ConsumerInOrder
  BY DEF FifoInv, RingInv, ConsumerInv
<1> QED
  BY <1>1, FifoInvariant, PTL

\* The ready bits are those of the queued objects no producer works on.
THEOREM FifoReadyBits == WordsFit => (Spec => []ReadyExactlyCommitted)
<1>1. FifoInv => ReadyExactlyCommitted
  BY DEF FifoInv, RingInv
<1> QED
  BY <1>1, FifoInvariant, PTL

\* At most NElements objects are queued and the indices agree with that.
THEOREM FifoCapacity == WordsFit => (Spec => []WithinCapacity)
<1>1. FifoInv => WithinCapacity
  BY DEF FifoInv, RingInv
<1> QED
  BY <1>1, FifoInvariant, PTL

\* The unlocked comparison in ContextPush::push never turns away an object
\* that has a reserved slot.
THEOREM FifoNeverRefused == WordsFit => (Spec => []NeverRefused)
<1>1. FifoInv => NeverRefused
  <2> SUFFICES ASSUME RingInv, NEW p \in Producers, pc[p] = "context",
                      pushed[p] < nObjects[p]
               PROVE  index[p] # tail_reserved
    BY DEF NeverRefused, FifoInv
  <2>1. /\ head \in Index /\ consumed \in Nat /\ reserved \in Nat
        /\ reserved <= consumed + NElements /\ consumed <= reserved
        /\ NElements \in Nat /\ MaxBatch \in Nat
        /\ first[p] \in Nat /\ pushed[p] \in Nat /\ nObjects[p] \in 0..MaxBatch
        /\ tail_reserved = SlotAt(head, consumed, reserved)
    BY FifoAssumption DEF RingInv, RingTypeOK, WithinCapacity, Slot
  <2> DEFINE k == first[p] + pushed[p]
  <2>2. /\ index[p] = SlotAt(head, consumed, k)
        /\ consumed <= first[p] /\ first[p] + nObjects[p] <= reserved
    BY DEF RingInv, ProducerInv, Holds, Slot
  <2>3. /\ k \in consumed..(consumed + NElements)
        /\ reserved \in consumed..(consumed + NElements)
        /\ k # reserved
    BY <2>1, <2>2
  <2> HIDE DEF k
  <2>4. \A i, j \in consumed..(consumed + NElements) :
            SlotAt(head, consumed, i) = SlotAt(head, consumed, j) => i = j
    BY <2>1, SlotFacts
  <2> QED
    BY <2>1, <2>2, <2>3, <2>4
<1> QED
  BY <1>1, FifoInvariant, PTL

\* A push is turned away only when its objects do not fit.
THEOREM FifoOverflowOnlyWhenFull == WordsFit => (Spec => OverflowOnlyWhenFull)
<1> SUFFICES ASSUME WordsFit PROVE Spec => OverflowOnlyWhenFull
  OBVIOUS
<1> DEFINE A == \A p \in Producers :
                    pc[p] # "overflow" /\ pc'[p] = "overflow" =>
                        reserved - consumed + nObjects'[p] > NElements
<1>1. FifoInv /\ [Next]_vars => [A]_vars
  <2> SUFFICES ASSUME RingInv, Next, NEW p \in Producers,
                      pc[p] # "overflow", pc'[p] = "overflow"
               PROVE  reserved - consumed + nObjects'[p] > NElements
    BY DEF FifoInv
  <2>1. RingTypeOK /\ WithinCapacity
    BY DEF RingInv
  <2>2. \E n \in 1..MaxBatch :
            nObjects' = [nObjects EXCEPT ![p] = n] /\ (isFullFor(n) \/ (n = 1 /\ isFull))
    <3>1. ~Pop
      BY DEF Pop, PopCheck, PopRemove, PopAdvance
    <3>2. PICK q \in Producers : Start(q) \/ Produce(q)
      BY <3>1 DEF Next
    <3>3. ~Produce(q)
      BY <2>1 DEF Produce, PushInsert, PushReady, ContextPushObject,
                  ContextPushReady, OverflowReturn, Return, RingTypeOK
    <3>4. PushOverflow(q) \/ \E n \in 1..MaxBatch : ContextPushOverflow(q, n)
      BY <2>1, <3>2, <3>3 DEF Start, PushReserve, ContextPushReserve, RingTypeOK
    <3>5. pc' = [pc EXCEPT ![q] = "overflow"]
      BY <3>4 DEF PushOverflow, ContextPushOverflow, Overflow
    <3>6. q = p
      BY <2>1, <3>5 DEF RingTypeOK
    <3>7. CASE PushOverflow(q)
      <4>1. 1 \in 1..MaxBatch /\ isFull /\ nObjects' = [nObjects EXCEPT ![p] = 1]
        BY <3>6, <3>7, FifoAssumption DEF PushOverflow, Overflow
      <4> QED
        BY <4>1
    <3>8. CASE \E n \in 1..MaxBatch : ContextPushOverflow(q, n)
      <4>1. PICK n \in 1..MaxBatch : ContextPushOverflow(q, n)
        BY <3>8
      <4>2. isFullFor(n) /\ nObjects' = [nObjects EXCEPT ![p] = n]
        BY <3>6, <4>1 DEF ContextPushOverflow, Overflow
      <4> QED
        BY <4>2
    <3> QED
      BY <3>4, <3>7, <3>8
  <2>3. PICK n \in 1..MaxBatch :
            nObjects' = [nObjects EXCEPT ![p] = n] /\ (isFullFor(n) \/ (n = 1 /\ isFull))
    BY <2>2
  <2>4. nObjects'[p] = n /\ n \in 1..NElements
    BY <2>1, <2>3, FifoAssumption DEF RingTypeOK
  <2> QED
    BY <2>1, <2>3, <2>4, RoomTest, FifoAssumption DEF RingTypeOK
<1> QED
  BY <1>1, FifoInvariant, PTL DEF Spec, OverflowOnlyWhenFull
-----------------------------------------------------------------------------
(* The ring implements the queue of FifoAbs.  The queue is determined by   *)
(* the objects from consumed to reserved and the set of those that are     *)
(* ready.                                                                  *)

\* The queue of objects c to r - 1, of which those in S are ready.
QueueOf(c, r, S) == [i \in 1..(r - c) |-> [id |-> c + (i - 1), ready |-> (c + (i - 1)) \in S]]

\* The objects that are queued and that no producer works on.
Committed == {k \in Queued : \A p \in Producers : ~Owns(p, k)}

\* What the refinement mapping makes of the ring is that queue: a ready slot holds
\* the object whose slot it is.
LEMMA QueueIs == RingInv => AbsQueue = QueueOf(consumed, reserved, Committed)
<1> SUFFICES ASSUME RingInv PROVE AbsQueue = QueueOf(consumed, reserved, Committed)
  OBVIOUS
<1>1. RingTypeOK /\ WithinCapacity /\ ReadyExactlyCommitted /\ DataInPlace
  BY DEF RingInv
<1>2. consumed \in Nat /\ reserved \in Nat
  BY <1>1 DEF RingTypeOK
<1>3. ASSUME NEW k \in Queued PROVE Entry(k) = [id |-> k, ready |-> k \in Committed]
  <2>1. Slot(k) \in tail_ready <=> k \in Committed
    <3>1. ASSUME Slot(k) \in tail_ready PROVE k \in Committed
      <4>1. PICK l \in Queued : Slot(k) = Slot(l) /\ \A p \in Producers : ~Owns(p, l)
        BY <1>1, <3>1, ReadyBit
      <4>2. k = l
        BY <1>1, <4>1, QueuedSlots
      <4> QED
        BY <4>1, <4>2 DEF Committed
    <3>2. ASSUME k \in Committed PROVE Slot(k) \in tail_ready
      BY <1>1, <3>2, ReadyBit DEF Committed
    <3> QED
      BY <3>1, <3>2
  <2>2. k \in Committed => buffer[Slot(k)] = k
    BY <1>1 DEF DataInPlace, Committed
  <2>3. CASE k \in Committed
    BY <2>1, <2>2, <2>3 DEF Entry
  <2>4. CASE k \notin Committed
    BY <2>1, <2>4 DEF Entry
  <2> QED
    BY <2>3, <2>4
<1>4. ASSUME NEW i \in 1..(reserved - consumed)
      PROVE  consumed + (i - 1) \in Queued
  BY <1>2 DEF Queued
<1> QED
  BY <1>3, <1>4 DEF AbsQueue, QueueOf

\* The same after a step.
LEMMA QueueIsNext == RingInv' => AbsQueue' = QueueOf(consumed', reserved', Committed')
<1>1. (RingInv => AbsQueue = QueueOf(consumed, reserved, Committed))'
  BY QueueIs, PTL
<1> QED
  BY <1>1 DEF QueueOf
-----------------------------------------------------------------------------
(* Operations on such queues.                                              *)

\* Its entries and its length.
LEMMA QueueFacts ==
    ASSUME NEW c \in Nat, NEW r \in Nat, c <= r, NEW S
    PROVE  /\ QueueOf(c, r, S) \in Seq([id : Nat, ready : BOOLEAN])
           /\ Len(QueueOf(c, r, S)) = r - c
           /\ \A i \in 1..(r - c) :
                 QueueOf(c, r, S)[i] = [id |-> c + (i - 1), ready |-> (c + (i - 1)) \in S]
<1> DEFINE T == [id : Nat, ready : BOOLEAN]
<1>1. \A i \in 1..(r - c) : c + (i - 1) \in Nat
  OBVIOUS
<1>2. ASSUME NEW i \in 1..(r - c)
      PROVE  [id |-> c + (i - 1), ready |-> (c + (i - 1)) \in S] \in T
  <2>1. CASE (c + (i - 1)) \in S
    BY <1>1, <2>1
  <2>2. CASE (c + (i - 1)) \notin S
    BY <1>1, <2>2
  <2> QED
    BY <2>1, <2>2
<1>3. r - c \in Nat
  OBVIOUS
<1>4. QueueOf(c, r, S) \in [1..(r - c) -> T]
  BY <1>2 DEF QueueOf
<1> QED
  BY <1>3, <1>4, IsASeq, LenProperties DEF QueueOf

\* The entries r to r + n - 1, none of them ready.
PendingFrom(r, n) == [i \in 1..n |-> [id |-> r + (i - 1), ready |-> FALSE]]

\* The queue q with them at its end.
WithRoom(q, r, n) == q \o PendingFrom(r, n)

\* The queue q of length m once its entries a to b are ready.
ReadyIn(q, m, a, b) ==
    [i \in 1..m |-> IF i \in a..b THEN [id |-> q[i].id, ready |-> TRUE] ELSE q[i]]

\* Room for n objects that are not ready is appended.
LEMMA QueueGrows ==
    ASSUME NEW c \in Nat, NEW r \in Nat, c <= r, NEW n \in Nat, NEW S, \A k \in S : k < r,
           NEW v, v = r + n
    PROVE  QueueOf(c, v, S) = WithRoom(QueueOf(c, r, S), r, n)
<1> DEFINE T == [id : Nat, ready : BOOLEAN]
           s == QueueOf(c, r, S)
           t == PendingFrom(r, n)
           u == QueueOf(c, r + n, S)
<1>1. s \in Seq(T) /\ Len(s) = r - c
      /\ \A i \in 1..(r - c) : s[i] = [id |-> c + (i - 1), ready |-> (c + (i - 1)) \in S]
  BY QueueFacts
<1>2. u \in Seq(T) /\ Len(u) = (r + n) - c
      /\ \A i \in 1..((r + n) - c) : u[i] = [id |-> c + (i - 1), ready |-> (c + (i - 1)) \in S]
  <2>1. r + n \in Nat /\ c <= r + n
    OBVIOUS
  <2> QED
    BY <2>1, QueueFacts
<1>3. t \in Seq(T) /\ Len(t) = n /\ \A i \in 1..n : t[i] = [id |-> r + (i - 1), ready |-> FALSE]
  <2>1. \A i \in 1..n : r + (i - 1) \in Nat
    OBVIOUS
  <2>2. t \in [1..n -> T]
    BY <2>1 DEF PendingFrom
  <2> QED
    BY <2>2, IsASeq, LenProperties DEF PendingFrom
<1> HIDE DEF s, t, u
<1>4. /\ s \o t \in Seq(T) /\ Len(s \o t) = Len(s) + Len(t)
      /\ \A i \in 1..(Len(s) + Len(t)) : (s \o t)[i] = IF i <= Len(s) THEN s[i] ELSE t[i - Len(s)]
  BY <1>1, <1>3, ConcatProperties
<1>5. Len(u) = Len(s \o t)
  BY <1>1, <1>2, <1>3, <1>4
<1>6. ASSUME NEW i \in 1..Len(u) PROVE u[i] = (s \o t)[i]
  <2>1. i \in 1..((r + n) - c) /\ i \in 1..(Len(s) + Len(t))
    BY <1>1, <1>2, <1>3, <1>6
  <2>2. CASE i <= r - c
    <3>1. i \in 1..(r - c)
      BY <2>1, <2>2
    <3> QED
      BY <1>1, <1>2, <1>4, <2>1, <2>2, <3>1
  <2>3. CASE ~(i <= r - c)
    <3>1. i - (r - c) \in 1..n /\ r + ((i - (r - c)) - 1) = c + (i - 1) /\ ~((c + (i - 1)) < r)
      BY <2>1, <2>3
    <3>2. (s \o t)[i] = t[i - (r - c)]
      BY <1>1, <1>4, <2>1, <2>3
    <3>3. t[i - (r - c)] = [id |-> c + (i - 1), ready |-> FALSE]
      BY <1>3, <3>1
    <3>4. ((c + (i - 1)) \in S) = FALSE
      BY <3>1
    <3>5. u[i] = [id |-> c + (i - 1), ready |-> (c + (i - 1)) \in S]
      BY <1>2, <2>1
    <3> QED
      BY <3>2, <3>3, <3>4, <3>5, Zenon
  <2> QED
    BY <2>2, <2>3
<1>7. u = s \o t
  BY <1>2, <1>4, <1>5, <1>6, SeqEqual
<1> QED
  BY <1>7, Zenon DEF s, t, u, WithRoom

\* The oldest entry, and the queue without it.
LEMMA QueueShrinks ==
    ASSUME NEW c \in Nat, NEW r \in Nat, c < r, NEW S
    PROVE  /\ QueueOf(c, r, S) # <<>>
           /\ Head(QueueOf(c, r, S)) = [id |-> c, ready |-> c \in S]
           /\ Tail(QueueOf(c, r, S)) = QueueOf(c + 1, r, S \ {c})
<1> DEFINE T == [id : Nat, ready : BOOLEAN]
           s == QueueOf(c, r, S)
           u == QueueOf(c + 1, r, S \ {c})
<1>1. s \in Seq(T) /\ Len(s) = r - c
      /\ \A i \in 1..(r - c) : s[i] = [id |-> c + (i - 1), ready |-> (c + (i - 1)) \in S]
  BY QueueFacts
<1>2. u \in Seq(T) /\ Len(u) = r - (c + 1)
      /\ \A i \in 1..(r - (c + 1)) :
            u[i] = [id |-> (c + 1) + (i - 1), ready |-> ((c + 1) + (i - 1)) \in S \ {c}]
  <2>1. c + 1 \in Nat /\ c + 1 <= r
    OBVIOUS
  <2> QED
    BY <2>1, QueueFacts
<1> HIDE DEF s, u
<1>3. s # <<>>
  BY <1>1, EmptySeq
<1>4. /\ Head(s) = s[1] /\ Tail(s) \in Seq(T) /\ Len(Tail(s)) = Len(s) - 1
      /\ \A i \in 1..(Len(s) - 1) : Tail(s)[i] = s[i + 1]
  BY <1>1, <1>3, HeadTailProperties
<1>5. Head(s) = [id |-> c, ready |-> c \in S]
  <2>1. 1 \in 1..(r - c) /\ c + (1 - 1) = c
    OBVIOUS
  <2> QED
    BY <1>1, <1>4, <2>1
<1>6. Len(u) = Len(Tail(s))
  BY <1>1, <1>2, <1>4
<1>7. ASSUME NEW i \in 1..Len(u) PROVE u[i] = Tail(s)[i]
  <2>1. i \in 1..(r - (c + 1))
    BY <1>2, <1>7
  <2>2. /\ i + 1 \in 1..(r - c) /\ i \in 1..((r - c) - 1)
        /\ c + ((i + 1) - 1) = (c + 1) + (i - 1) /\ (c + 1) + (i - 1) # c
    BY <2>1
  <2> DEFINE k == (c + 1) + (i - 1)
  <2>3. u[i] = [id |-> k, ready |-> k \in S \ {c}]
    BY <1>2, <2>1
  <2>4. Tail(s)[i] = s[i + 1]
    BY <1>1, <1>4, <2>2
  <2>5. s[i + 1] = [id |-> k, ready |-> k \in S]
    BY <1>1, <2>2
  <2>6. k # c
    BY <2>2
  <2> HIDE DEF k
  <2>7. (k \in S \ {c}) = (k \in S)
    BY <2>6
  <2> QED
    BY <2>3, <2>4, <2>5, <2>7, Zenon
<1>8. u = Tail(s)
  BY <1>2, <1>4, <1>6, <1>7, SeqEqual
<1> QED
  BY <1>3, <1>5, <1>8 DEF s, u

\* The consecutive entries a to b become ready.
LEMMA QueuePublishes ==
    ASSUME NEW c \in Nat, NEW r \in Nat, c <= r, NEW S, NEW U, NEW a \in Nat, NEW b \in Nat,
           U = S \cup (c + (a - 1))..(c + (b - 1))
    PROVE  QueueOf(c, r, U) = ReadyIn(QueueOf(c, r, S), r - c, a, b)
<1>1. \A i \in 1..(r - c) :
         QueueOf(c, r, S)[i] = [id |-> c + (i - 1), ready |-> (c + (i - 1)) \in S]
  BY QueueFacts
<1> DEFINE F == (c + (a - 1))..(c + (b - 1))
<1>2. ASSUME NEW i \in 1..(r - c)
      PROVE  i \in a..b <=> (c + (i - 1)) \in F
  OBVIOUS
<1> DEFINE q(i) == IF i \in a..b
                   THEN [id |-> QueueOf(c, r, S)[i].id, ready |-> TRUE]
                   ELSE QueueOf(c, r, S)[i]
<1>3. ASSUME NEW i \in 1..(r - c)
      PROVE  [id |-> c + (i - 1), ready |-> (c + (i - 1)) \in U] = q(i)
  <2> DEFINE k == c + (i - 1)
  <2>1. QueueOf(c, r, S)[i] = [id |-> k, ready |-> k \in S]
    BY <1>1
  <2>2. i \in a..b <=> k \in F
    BY <1>2
  <2> HIDE DEF k
  <2>3. CASE k \in F
    <3>1. q(i) = [id |-> k, ready |-> TRUE]
      <4>1. q(i) = [id |-> QueueOf(c, r, S)[i].id, ready |-> TRUE]
        BY <2>2, <2>3, Zenon
      <4>2. QueueOf(c, r, S)[i].id = k
        BY <2>1
      <4> QED
        BY <4>1, <4>2, Zenon
    <3>2. (k \in U) = TRUE
      BY <2>3
    <3> QED
      BY <3>1, <3>2, Zenon DEF k
  <2>4. CASE k \notin F
    <3>1. q(i) = [id |-> k, ready |-> k \in S]
      BY <2>1, <2>2, <2>4
    <3>2. (k \in U) = (k \in S)
      BY <2>4
    <3> QED
      BY <3>1, <3>2, Zenon DEF k
  <2> QED
    BY <2>3, <2>4
<1>4. QueueOf(c, r, U) = [i \in 1..(r - c) |-> [id |-> c + (i - 1), ready |-> (c + (i - 1)) \in U]]
  BY DEF QueueOf
<1> HIDE DEF q
<1>5. QueueOf(c, r, U) = [i \in 1..(r - c) |-> q(i)]
  BY <1>3, <1>4, Zenon
<1> QED
  BY <1>5, Zenon DEF q, ReadyIn
-----------------------------------------------------------------------------
(* The steps of the ring are steps of the queue.                           *)

\* Reserving room (push, ContextPush) leaves the objects that are ready alone.
LEMMA ReserveKeepsCommitted ==
    ASSUME RingInv, NEW p \in Producers, NEW n \in 1..MaxBatch,
           NEW l \in {"insert", "context"}, pc[p] = "idle", pc' = [pc EXCEPT ![p] = l],
           NEW s, NEW e, Reserve(p, n, s, e)
    PROVE  Committed' = Committed
<1>1. RingTypeOK
  BY DEF RingInv
<1>2. consumed \in Nat /\ reserved \in Nat /\ consumed' = consumed /\ reserved' = reserved + n
      /\ n \in Nat /\ 1 <= n
  BY <1>1, FifoAssumption DEF RingTypeOK, Reserve, consVars
<1>3. ASSUME NEW q \in Producers, NEW k, q # p PROVE Owns(q, k)' <=> Owns(q, k)
  BY <1>1, <1>3 DEF RingTypeOK, Reserve, Owns, Holds
<1>4. ASSUME NEW k PROVE ~Owns(p, k)
  BY DEF Owns, Holds
<1>5. ASSUME NEW k PROVE Owns(p, k)' <=> k \in reserved..(reserved + n - 1)
  BY <1>1 DEF RingTypeOK, Reserve, Owns, Holds
<1>6. ASSUME NEW k \in Committed PROVE k \in Committed'
  <2>1. k \in Queued /\ \A q \in Producers : ~Owns(q, k)
    BY <1>6 DEF Committed
  <2>2. k \in Queued' /\ k \notin reserved..(reserved + n - 1)
    BY <1>2, <2>1 DEF Queued
  <2> QED
    BY <1>3, <1>5, <2>1, <2>2 DEF Committed
<1>7. ASSUME NEW k \in Committed' PROVE k \in Committed
  <2>1. k \in Queued' /\ \A q \in Producers : ~(Owns(q, k)')
    BY <1>7 DEF Committed
  <2>2. k \notin reserved..(reserved + n - 1)
    BY <1>5, <2>1
  <2>3. k \in Queued
    BY <1>2, <2>1, <2>2 DEF Queued
  <2> QED
    BY <1>3, <1>4, <2>1, <2>3 DEF Committed
<1> QED
  BY <1>6, <1>7

\* A step that neither reserves, publishes nor consumes leaves them alone.
LEMMA OthersKeepCommitted ==
    ASSUME UNCHANGED <<reserved, consumed>>,
           \A p \in Producers : \A k : Owns(p, k)' <=> Owns(p, k)
    PROVE  Committed' = Committed
<1>1. Queued' = Queued
  BY DEF Queued
<1> QED
  BY <1>1 DEF Committed

\* A producer that is done (push, ~ContextPush) makes its own objects ready.
LEMMA ReturnCommits ==
    ASSUME RingInv, NEW p \in Producers, Holds(p), Return(p)
    PROVE  /\ Committed' = Committed \cup first[p]..(first[p] + (nObjects[p] - 1))
           /\ \A k \in first[p]..(first[p] + (nObjects[p] - 1)) : k \notin Committed
<1> DEFINE F == first[p]..(first[p] + (nObjects[p] - 1))
<1>1. RingTypeOK /\ ProducerInv(p) /\ Disjoint
  BY DEF RingInv
<1>2. consumed \in Nat /\ reserved \in Nat /\ consumed' = consumed /\ reserved' = reserved
      /\ first[p] \in Nat /\ nObjects[p] \in Nat
  BY <1>1, FifoAssumption DEF RingTypeOK, Return, consVars
<1>3. consumed <= first[p] /\ first[p] + nObjects[p] <= reserved
  BY <1>1 DEF ProducerInv
<1>4. ASSUME NEW q \in Producers, NEW k, q # p PROVE Owns(q, k)' <=> Owns(q, k)
  BY <1>1, <1>4 DEF RingTypeOK, Return, Owns, Holds
<1>5. ASSUME NEW k PROVE ~(Owns(p, k)')
  BY <1>1 DEF RingTypeOK, Return, Owns, Holds
<1>6. ASSUME NEW k PROVE Owns(p, k) <=> k \in F
  BY DEF Owns
<1>7. ASSUME NEW k \in F, NEW q \in Producers, q # p PROVE ~Owns(q, k)
  <2>1. first[q] \in Nat /\ nObjects[q] \in Nat
    BY <1>1, FifoAssumption DEF RingTypeOK
  <2> QED
    BY <1>1, <1>2, <1>7, <2>1 DEF Disjoint, Owns
<1>8. ASSUME NEW k \in F PROVE k \in Queued
  BY <1>2, <1>3 DEF Queued
<1>9. Queued' = Queued
  BY <1>2 DEF Queued
<1> HIDE DEF F
<1>10. \A k \in F : k \notin Committed
  BY <1>6 DEF Committed
<1>11. ASSUME NEW k \in Committed' PROVE k \in Committed \cup F
  <2>1. k \in Queued /\ \A q \in Producers : q # p => ~Owns(q, k)
    BY <1>4, <1>9, <1>11 DEF Committed
  <2> QED
    BY <1>6, <2>1 DEF Committed
<1>12. ASSUME NEW k \in Committed PROVE k \in Committed'
  BY <1>4, <1>5, <1>9, <1>12 DEF Committed
<1>13. ASSUME NEW k \in F PROVE k \in Committed'
  BY <1>4, <1>5, <1>7, <1>8, <1>9, <1>13 DEF Committed
<1>14. Committed' = Committed \cup F
  BY <1>11, <1>12, <1>13
<1> QED
  BY <1>10, <1>14 DEF F

\* Room made for n objects is room for n entries at the end of the queue.
LEMMA ReserveMakesRoom ==
    ASSUME RingInv, RingInv', NEW p \in Producers, NEW n \in 1..MaxBatch,
           NEW l \in {"insert", "context"}, pc[p] = "idle", pc' = [pc EXCEPT ![p] = l],
           reserved - consumed + n <= NElements,
           NEW s, NEW e, Reserve(p, n, s, e)
    PROVE  Abs!MakeRoom
<1> DEFINE c == consumed
           r == reserved
           S == Committed
<1>1. c \in Nat /\ r \in Nat /\ c <= r /\ n \in Nat /\ n \in 1..NElements
  BY FifoAssumption DEF RingInv, RingTypeOK, WithinCapacity
<1>2. consumed' = c /\ reserved' = r + n /\ cpc' = cpc /\ object' = object
  BY DEF Reserve, consVars
<1>3. \A k \in S : k < r
  BY <1>1 DEF Committed, Queued
<1>4. Committed' = S
  BY ReserveKeepsCommitted
<1> DEFINE v == reserved'
<1>5. AbsQueue = QueueOf(c, r, S) /\ AbsQueue' = QueueOf(c, v, S)
  BY <1>2, <1>4, QueueIs, QueueIsNext
<1>6. Len(AbsQueue) = r - c
  BY <1>1, <1>5, QueueFacts
<1>7. v = r + n
  BY <1>2
<1> HIDE DEF S, v
<1>8. AbsQueue' = WithRoom(AbsQueue, r, n)
  <2> HIDE DEF c, r
  <2>1. QueueOf(c, v, S) = WithRoom(QueueOf(c, r, S), r, n)
    BY <1>1, <1>3, <1>7, QueueGrows
  <2> QED
    BY <1>5, <2>1, Zenon
<1> QED
  BY <1>1, <1>2, <1>6, <1>8 DEF Abs!MakeRoom, Abs!Pending, PendingFrom, WithRoom

\* What a producer is done with becomes ready.
LEMMA ReturnPublishes ==
    ASSUME RingInv, RingInv', NEW p \in Producers, Holds(p), Return(p)
    PROVE  Abs!Publish
<1> DEFINE c == consumed
           r == reserved
           S == Committed
           U == Committed'
           f == first[p]
           n == nObjects[p]
           a == (f - c) + 1
           b == (f - c) + n
<1>1. c \in Nat /\ r \in Nat /\ c <= r /\ f \in Nat /\ n \in Nat /\ 1 <= n /\ c <= f /\ f + n <= r
  BY FifoAssumption DEF RingInv, RingTypeOK, WithinCapacity, ProducerInv
<1>2. consumed' = c /\ reserved' = r /\ cpc' = cpc /\ object' = object
  BY DEF Return, consVars
<1>3. U = S \cup f..(f + (n - 1)) /\ \A k \in f..(f + (n - 1)) : k \notin S
  BY ReturnCommits
<1>4. AbsQueue = QueueOf(c, r, S) /\ AbsQueue' = QueueOf(c, r, U)
  BY <1>2, QueueIs, QueueIsNext
<1> HIDE DEF S, U, f, n
<1>5. Len(AbsQueue) = r - c
  BY <1>1, <1>4, QueueFacts
<1>6. AbsQueue' = ReadyIn(AbsQueue, Len(AbsQueue), a, b)
  <2>1. QueueOf(c, r, U) = ReadyIn(QueueOf(c, r, S), r - c, a, b)
    <3>1. a \in Nat /\ b \in Nat /\ c + (a - 1) = f /\ c + (b - 1) = f + (n - 1)
      BY <1>1
    <3>2. U = S \cup (c + (a - 1))..(c + (b - 1))
      BY <1>3, <3>1
    <3> HIDE DEF a, b
    <3> QED
      BY <1>1, <3>1, <3>2, QueuePublishes
  <2> QED
    BY <1>4, <1>5, <2>1, Zenon
<1>7. a \in 1..Len(AbsQueue) /\ b \in a..Len(AbsQueue)
  BY <1>1, <1>5
<1>8. ASSUME NEW i \in a..b PROVE ~AbsQueue[i].ready
  <2>1. i \in 1..(r - c) /\ c + (i - 1) \in f..(f + (n - 1))
    BY <1>1, <1>8
  <2>2. AbsQueue[i] = [id |-> c + (i - 1), ready |-> (c + (i - 1)) \in S]
    <3>1. QueueOf(c, r, S)[i] = [id |-> c + (i - 1), ready |-> (c + (i - 1)) \in S]
      BY <2>1 DEF QueueOf
    <3> QED
      BY <1>4, <3>1, Zenon
  <2>3. ((c + (i - 1)) \in S) = FALSE
    BY <1>3, <2>1
  <2>4. AbsQueue[i] = [id |-> c + (i - 1), ready |-> FALSE]
    BY <2>2, <2>3, Zenon
  <2> QED
    BY <2>4
<1> HIDE DEF a, b
<1> QED
  BY <1>2, <1>6, <1>7, <1>8 DEF Abs!Publish, ReadyIn

\* pop() takes the oldest entry, which is ready, and then drops it.
LEMMA PopTakesAndDrops ==
    ASSUME RingInv, RingInv', Pop
    PROVE  Abs!Take \/ Abs!Drop \/ UNCHANGED Abs!absVars
<1> DEFINE c == consumed
           r == reserved
           S == Committed
<1>1. RingTypeOK /\ WithinCapacity /\ ReadyExactlyCommitted /\ DataInPlace /\ ConsumerInv
  BY DEF RingInv
<1>2. c \in Nat /\ r \in Nat /\ c <= r
  BY <1>1 DEF RingTypeOK, WithinCapacity
<1>3. AbsQueue = QueueOf(c, r, S) /\ AbsQueue' = QueueOf(consumed', reserved', Committed')
  BY QueueIs, QueueIsNext
<1>4. \A p \in Producers : \A k : Owns(p, k)' <=> Owns(p, k)
  BY DEF Pop, PopCheck, PopRemove, PopAdvance, reservation, Owns, Holds
<1>5. ASSUME cpc # "idle" PROVE current_head = head /\ c \in S /\ buffer[head] = c /\ c < r
  <2>1. current_head = head /\ head \in tail_ready
    BY <1>1, <1>5 DEF ConsumerInv
  <2>2. PICK k \in Queued : head = Slot(k) /\ \A p \in Producers : ~Owns(p, k)
    BY <1>1, <2>1, ReadyBit
  <2>3. c \in Queued /\ c < r
    BY <1>2, <2>2 DEF Queued
  <2>4. Slot(c) = head
    BY <1>1, <1>2, SlotFacts DEF Slot, RingTypeOK
  <2>5. k = c
    BY <1>1, <2>2, <2>3, <2>4, QueuedSlots
  <2>6. c \in S
    BY <2>2, <2>5 DEF Committed
  <2>7. buffer[head] = c
    BY <1>1, <2>2, <2>3, <2>4, <2>5 DEF DataInPlace
  <2> QED
    BY <2>1, <2>3, <2>6, <2>7
<1>6. CASE PopCheck
  <2>1. consumed' = c /\ reserved' = r /\ object' = object /\ cpc = "idle" /\ cpc' = "remove"
    BY <1>6 DEF PopCheck, ringVars
  <2>2. AbsQueue' = AbsQueue
    BY <1>3, <1>4, <2>1, OthersKeepCommitted
  <2> QED
    BY <2>1, <2>2 DEF Abs!absVars
<1>7. CASE PopRemove
  <2>1. consumed' = c /\ reserved' = r /\ object' = buffer[current_head]
        /\ cpc = "remove" /\ cpc' = "advance"
    BY <1>7 DEF PopRemove, ringVars
  <2>2. AbsQueue' = AbsQueue
    BY <1>3, <1>4, <2>1, OthersKeepCommitted
  <2>3. object' = c /\ c \in S /\ c < r
    BY <1>5, <2>1
  <2>4. AbsQueue # <<>> /\ Head(AbsQueue) = [id |-> c, ready |-> c \in S]
    BY <1>2, <1>3, <2>3, QueueShrinks
  <2>5. Head(AbsQueue).id = c /\ Head(AbsQueue).ready
    <3>1. (c \in S) = TRUE
      BY <2>3
    <3>2. Head(AbsQueue) = [id |-> c, ready |-> TRUE]
      BY <2>4, <3>1, Zenon
    <3> QED
      BY <3>2
  <2> QED
    BY <2>1, <2>2, <2>3, <2>4, <2>5 DEF Abs!Take
<1>8. CASE PopAdvance
  <2>1. consumed' = c + 1 /\ reserved' = r /\ object' = object /\ cpc = "advance" /\ cpc' = "idle"
    BY <1>8 DEF PopAdvance
  <2>2. c \in S /\ c < r
    BY <1>5, <2>1
  <2>3. \A k : k \in Queued' <=> k \in Queued /\ k # c
    BY <1>2, <2>1 DEF Queued
  <2>4. Committed' = S \ {c}
    BY <1>4, <2>3 DEF Committed
  <2> HIDE DEF S
  <2>5. AbsQueue' = Tail(AbsQueue)
    BY <1>2, <1>3, <2>1, <2>2, <2>4, QueueShrinks
  <2> QED
    BY <2>1, <2>5 DEF Abs!Drop
<1> QED
  BY <1>6, <1>7, <1>8 DEF Pop

\* Every step of the ring is a step of the queue or leaves it alone.
LEMMA StepOfQueue ==
    ASSUME WordsFit, RingInv, RingInv', [Next]_vars
    PROVE  [Abs!MakeRoom \/ Abs!Publish \/ Abs!Take \/ Abs!Drop]_(Abs!absVars)
<1> USE DEF Abs!absVars
<1>1. ASSUME UNCHANGED <<reserved, consumed, cpc, object>>,
             \A p \in Producers : \A k : Owns(p, k)' <=> Owns(p, k)
      PROVE  UNCHANGED Abs!absVars
  BY <1>1, OthersKeepCommitted, QueueIs, QueueIsNext
<1>2. CASE UNCHANGED vars
  BY <1>1, <1>2 DEF vars, Owns, Holds
<1>3. CASE Pop
  BY <1>3, PopTakesAndDrops
<1>4. ASSUME NEW p \in Producers, PushReserve(p) PROVE Abs!MakeRoom
  <2>1. reserved - consumed + 1 <= NElements /\ 1 \in 1..MaxBatch
    BY <1>4, RoomTest, FifoAssumption DEF PushReserve, RingInv, RingTypeOK, WithinCapacity
  <2> QED
    BY <1>4, <2>1, ReserveMakesRoom DEF PushReserve
<1>5. ASSUME NEW p \in Producers, NEW n \in 1..MaxBatch, ContextPushReserve(p, n)
      PROVE  Abs!MakeRoom
  <2>1. reserved - consumed + n <= NElements
    <3>1. n \in 1..NElements
      BY FifoAssumption
    <3> QED
      BY <1>5, <3>1, RoomTest, FifoAssumption
      DEF ContextPushReserve, RingInv, RingTypeOK, WithinCapacity
  <2> QED
    BY <1>5, <2>1, ReserveMakesRoom DEF ContextPushReserve
<1>6. ASSUME NEW p \in Producers, NEW n, Overflow(p, n) PROVE UNCHANGED Abs!absVars
  <2>1. ASSUME NEW q \in Producers, NEW k PROVE Owns(q, k)' <=> Owns(q, k)
    BY <1>6 DEF RingInv, RingTypeOK, Overflow, Owns, Holds
  <2> QED
    BY <1>1, <1>6, <2>1 DEF Overflow, ringVars, consVars
<1>7. ASSUME NEW p \in Producers, PushInsert(p) \/ ContextPushObject(p)
      PROVE  UNCHANGED Abs!absVars
  <2>1. ASSUME NEW q \in Producers, NEW k PROVE Owns(q, k)' <=> Owns(q, k)
    BY <1>7 DEF RingInv, RingTypeOK, PushInsert, ContextPushObject, reservation, Owns, Holds
  <2> QED
    BY <1>1, <1>7, <2>1 DEF PushInsert, ContextPushObject, consVars
<1>8. ASSUME NEW p \in Producers, PushReady(p) \/ ContextPushReady(p) PROVE Abs!Publish
  BY <1>8, ReturnPublishes DEF PushReady, ContextPushReady, Holds
<1>9. ASSUME NEW p \in Producers, OverflowReturn(p) PROVE UNCHANGED Abs!absVars
  <2>1. ASSUME NEW q \in Producers, NEW k PROVE Owns(q, k)' <=> Owns(q, k)
    BY <1>9 DEF RingInv, RingTypeOK, OverflowReturn, Return, Owns, Holds
  <2> QED
    BY <1>1, <1>9, <2>1 DEF OverflowReturn, Return, consVars
<1> QED
  BY <1>2, <1>3, <1>4, <1>5, <1>6, <1>7, <1>8, <1>9
  DEF Next, Start, Produce, PushOverflow, ContextPushOverflow

\* An empty ring is an empty queue.
LEMMA InitOfQueue == Init => Abs!AbsInit
<1> SUFFICES ASSUME Init PROVE Abs!AbsInit
  OBVIOUS
<1>1. reserved - consumed = 0 /\ reserved = 0 /\ cpc = "idle" /\ object = NoData
  BY DEF Init
<1>2. AbsQueue = <<>>
  BY <1>1 DEF AbsQueue
<1> QED
  BY <1>1, <1>2 DEF Abs!AbsInit

\* The ring of fifo.hpp implements the queue of FifoAbs: whatever the
\* interleaving of push, ContextPush and pop, for every capacity, word size and
\* set of producers, room is made, published, taken and dropped in one order.
THEOREM FifoImplementsQueue == WordsFit => (Spec => ImplementsQueue)
<1> SUFFICES ASSUME WordsFit PROVE Spec => ImplementsQueue
  OBVIOUS
<1>1. Spec => []FifoInv
  BY FifoInvariant
<1>2. FifoInv /\ FifoInv' /\ [Next]_vars
      => [Abs!MakeRoom \/ Abs!Publish \/ Abs!Take \/ Abs!Drop]_(Abs!absVars)
  BY StepOfQueue DEF FifoInv
<1> QED
  BY <1>1, <1>2, InitOfQueue, PTL DEF Spec, ImplementsQueue, Abs!AbsSpec
-----------------------------------------------------------------------------
(* The ring with the ContextPull consumer and one producer.                *)

\* The trace FIFO is filled by one producer.
OneProducer == \A p, q \in Producers : p = q

\* The number of slots a ContextPull hands out.
Batch == dataLength1 + dataLength2

\* The reservation of the one producer is the newest.
NewestHeld == \A p \in Producers : Holds(p) => first[p] + nObjects[p] = reserved

\* What is being pulled are the oldest objects, all of them ready, and the two
\* parts meet at the end of the ring.
BatchInv ==
    /\ dataLength1 \in Nat /\ dataLength2 \in Nat
    /\ Batch \in 1..NElements
    /\ consumed + Batch <= reserved
    /\ \A p \in Producers : Holds(p) => consumed + Batch <= first[p]
    /\ dataLength1 = IF head + Batch <= NElements THEN Batch ELSE BUFFER_SIZE - head

\* The inductive invariant of the ring with ContextPull.
PullInv ==
    /\ RingInv
    /\ cpc \in {"idle", "read", "release"}
    /\ NewestHeld
    /\ cpc # "idle" => BatchInv
    /\ cpc = "release" => pulled = [i \in 1..Batch |-> consumed + (i - 1)]

\* The loops of getElementReady stop at the one gap there is to find.
LEMMA GapIs ==
    ASSUME NEW lo \in Int, NEW hi \in Int, NEW g \in lo..(hi + 1),
           g <= hi => g \notin tail_ready, \A i \in lo..(g - 1) : i \in tail_ready
    PROVE  FirstGap(lo, hi) = g
<1> DEFINE P(x) == (x <= hi => x \notin tail_ready) /\ \A i \in lo..(x - 1) : i \in tail_ready
<1>1. P(g)
  OBVIOUS
<1>2. ASSUME NEW x \in lo..(hi + 1), P(x) PROVE x = g
  <2>1. ~(x < g)
    <3> SUFFICES ASSUME x < g PROVE FALSE
      OBVIOUS
    <3>1. x <= hi /\ x \in lo..(g - 1)
      OBVIOUS
    <3> QED
      BY <1>2, <3>1
  <2>2. ~(g < x)
    <3> SUFFICES ASSUME g < x PROVE FALSE
      OBVIOUS
    <3>1. g <= hi /\ g \in lo..(x - 1)
      OBVIOUS
    <3> QED
      BY <1>2, <3>1
  <2> QED
    BY <2>1, <2>2
<1>3. FirstGap(lo, hi) = CHOOSE x \in lo..(hi + 1) : P(x)
  BY DEF FirstGap
<1> HIDE DEF P
<1> QED
  BY <1>1, <1>2, <1>3

\* With one producer the ready objects are the oldest ones, up to some m.
LEMMA ReadyPrefix ==
    ASSUME RingInv, NewestHeld, OneProducer
    PROVE  \E m \in consumed..reserved :
              /\ \A k \in Queued : (\A p \in Producers : ~Owns(p, k)) <=> k < m
              /\ \A p \in Producers : Holds(p) => m <= first[p]
<1>1. RingTypeOK /\ WithinCapacity /\ \A p \in Producers : ProducerInv(p)
  BY DEF RingInv
<1>2. consumed \in Nat /\ reserved \in Nat /\ consumed <= reserved
  BY <1>1 DEF RingTypeOK, WithinCapacity
<1>3. CASE \A p \in Producers : ~Holds(p)
  <2>1. reserved \in consumed..reserved /\ \A k \in Queued : k < reserved
    BY <1>2 DEF Queued
  <2>2. \A k : \A p \in Producers : ~Owns(p, k)
    BY <1>3 DEF Owns
  <2> QED
    BY <1>3, <2>1, <2>2
<1>4. ASSUME NEW p \in Producers, Holds(p)
      PROVE  \E m \in consumed..reserved :
                /\ \A k \in Queued : (\A q \in Producers : ~Owns(q, k)) <=> k < m
                /\ \A q \in Producers : Holds(q) => m <= first[q]
  <2>1. /\ first[p] \in Nat /\ nObjects[p] \in Nat /\ consumed <= first[p]
        /\ first[p] + nObjects[p] = reserved
    BY <1>1, <1>4, FifoAssumption DEF RingTypeOK, ProducerInv, NewestHeld
  <2>2. first[p] \in consumed..reserved
    BY <1>2, <2>1
  <2>3. ASSUME NEW k \in Queued PROVE Owns(p, k) <=> ~(k < first[p])
    BY <1>2, <1>4, <2>1 DEF Queued, Owns
  <2>4. \A q \in Producers : q = p
    BY DEF OneProducer
  <2> QED
    BY <2>1, <2>2, <2>3, <2>4
<1> QED
  BY <1>3, <1>4

\* getElementReady counts exactly the ready objects, in the part up to the end
\* of the ring and the part from its start.
LEMMA CountsReady ==
    ASSUME RingInv, NewestHeld, OneProducer
    PROVE  \E d \in 0..NElements :
              /\ readyToEnd = IF head + d <= NElements THEN d ELSE BUFFER_SIZE - head
              /\ readyFromStart = d - readyToEnd
              /\ consumed + d <= reserved
              /\ \A p \in Producers : Holds(p) => consumed + d <= first[p]
              /\ d > 0 => head \in tail_ready
<1>1. RingTypeOK /\ WithinCapacity /\ ReadyExactlyCommitted
  BY DEF RingInv
<1>2. /\ consumed \in Nat /\ reserved \in Nat /\ consumed <= reserved
      /\ reserved <= consumed + NElements /\ NElements \in Nat \ {0} /\ head \in 0..NElements
  BY <1>1, FifoAssumption DEF RingTypeOK, WithinCapacity, Index
<1>3. PICK m \in consumed..reserved :
         /\ \A k \in Queued : (\A p \in Producers : ~Owns(p, k)) <=> k < m
         /\ \A p \in Producers : Holds(p) => m <= first[p]
  BY ReadyPrefix
<1> DEFINE d == m - consumed
<1>4. d \in 0..NElements /\ consumed + d = m /\ consumed + d <= reserved
  BY <1>2, <1>3
<1>5. ASSUME NEW b \in 0..NElements
      PROVE  b \in tail_ready <=>
                (head <= b /\ b < head + d) \/ (b < head /\ b + (NElements + 1) < head + d)
  <2>1. b \in tail_ready <=> \E k \in Queued : b = Slot(k) /\ k < m
    BY <1>1, <1>3, ReadyBit
  <2>2. ASSUME NEW k \in Queued, b = Slot(k), k < m
        PROVE  (head <= b /\ b < head + d) \/ (b < head /\ b + (NElements + 1) < head + d)
    BY <1>2, <1>3, <2>2 DEF Queued, Slot, SlotAt, BUFFER_SIZE
  <2>3. ASSUME head <= b, b < head + d PROVE \E k \in Queued : b = Slot(k) /\ k < m
    <3>1. /\ consumed + (b - head) \in Queued /\ consumed + (b - head) < m
          /\ b = Slot(consumed + (b - head))
      BY <1>2, <1>3, <2>3 DEF Queued, Slot, SlotAt, BUFFER_SIZE
    <3> QED
      BY <3>1
  <2>4. ASSUME b < head, b + (NElements + 1) < head + d
        PROVE  \E k \in Queued : b = Slot(k) /\ k < m
    <3> DEFINE k == consumed + ((b - head) + (NElements + 1))
    <3>1. k \in Queued /\ k < m /\ b = Slot(k)
      BY <1>2, <1>3, <2>4 DEF Queued, Slot, SlotAt, BUFFER_SIZE
    <3> QED
      BY <3>1
  <2> QED
    BY <2>1, <2>2, <2>3, <2>4
<1> HIDE DEF d
<1>6. readyToEnd = IF head + d <= NElements THEN d ELSE BUFFER_SIZE - head
  <2> DEFINE g == IF head + d <= NElements THEN head + d ELSE NElements + 1
  <2>1. g \in head..(NElements + 1) /\ g \in Int
    BY <1>2, <1>4
  <2>2. g <= NElements => g \notin tail_ready
    BY <1>2, <1>4, <1>5
  <2>3. \A i \in head..(g - 1) : i \in tail_ready
    BY <1>2, <1>4, <1>5
  <2> HIDE DEF g
  <2>4. FirstGap(head, NElements) = g
    BY <1>2, <2>1, <2>2, <2>3, GapIs
  <2> QED
    BY <1>2, <1>4, <2>4 DEF readyToEnd, g, BUFFER_SIZE
<1>7. wraps <=> head > 0 /\ head + d >= NElements
  <2>1. FirstGap(head, NElements) = head + (IF head + d <= NElements THEN d ELSE BUFFER_SIZE - head)
    <3>1. FirstGap(head, NElements) \in Int
      <4> DEFINE g == IF head + d <= NElements THEN head + d ELSE NElements + 1
      <4>1. g \in head..(NElements + 1) /\ g \in Int
        BY <1>2, <1>4
      <4>2. g <= NElements => g \notin tail_ready
        BY <1>2, <1>4, <1>5
      <4>3. \A i \in head..(g - 1) : i \in tail_ready
        BY <1>2, <1>4, <1>5
      <4> HIDE DEF g
      <4> QED
        BY <1>2, <4>1, <4>2, <4>3, GapIs
    <3> QED
      BY <1>2, <1>4, <1>6, <3>1 DEF readyToEnd, BUFFER_SIZE
  <2> QED
    BY <1>2, <1>4, <2>1 DEF wraps, BUFFER_SIZE
<1>8. readyFromStart = d - readyToEnd
  <2>1. CASE head + d <= NElements
    <3>1. readyToEnd = d
      BY <1>6, <2>1
    <3>2. wraps => FirstGap(0, head - 1) = 0
      <4> SUFFICES ASSUME wraps PROVE FirstGap(0, head - 1) = 0
        OBVIOUS
      <4>1. 0 \in 0..((head - 1) + 1) /\ 0 \in Int /\ head - 1 \in Int
        BY <1>2, <1>7
      <4>2. 0 \notin tail_ready /\ \A i \in 0..(0 - 1) : i \in tail_ready
        BY <1>2, <1>4, <1>5, <1>7, <2>1
      <4> QED
        BY <4>1, <4>2, GapIs
    <3> QED
      BY <1>4, <3>1, <3>2 DEF readyFromStart
  <2>2. CASE ~(head + d <= NElements)
    <3> DEFINE g == (head + d) - (NElements + 1)
    <3>1. readyToEnd = (NElements + 1) - head
      BY <1>6, <2>2 DEF BUFFER_SIZE
    <3>2. wraps
      BY <1>2, <1>4, <1>7, <2>2
    <3>3. g \in 0..((head - 1) + 1) /\ 0 \in Int /\ head - 1 \in Int /\ g < head
          /\ d - readyToEnd = g
      BY <1>2, <1>4, <2>2, <3>1
    <3>4. g \notin tail_ready
      BY <1>2, <1>4, <1>5, <3>3
    <3>5. \A i \in 0..(g - 1) : i \in tail_ready
      BY <1>2, <1>4, <1>5, <3>3
    <3> HIDE DEF g
    <3>6. FirstGap(0, head - 1) = g
      BY <3>3, <3>4, <3>5, GapIs
    <3> QED
      BY <3>2, <3>3, <3>6 DEF readyFromStart
  <2> QED
    BY <2>1, <2>2
<1>9. d > 0 => head \in tail_ready
  BY <1>2, <1>4, <1>5
<1>10. \A p \in Producers : Holds(p) => consumed + d <= first[p]
  BY <1>3, <1>4
<1> QED
  BY <1>4, <1>6, <1>8, <1>9, <1>10

\* The steps of ContextPull: it finds, reads and gives back the oldest objects.
LEMMA PullStep ==
    ASSUME PullInv, OneProducer, Pull
    PROVE  PullInv'
<1>1. RingInv /\ NewestHeld /\ cpc \in {"idle", "read", "release"}
  BY DEF PullInv
<1>2. /\ consumed \in Nat /\ reserved \in Nat /\ NElements \in Nat \ {0}
      /\ head \in 0..NElements /\ reserved <= consumed + NElements /\ consumed <= reserved
  BY <1>1, FifoAssumption DEF RingInv, RingTypeOK, WithinCapacity, Index
<1>3. NewestHeld'
  BY <1>1 DEF NewestHeld, Holds, Pull, ContextPull, ReadPulled, ContextPullEnd, reservation, ringVars
<1>4. ASSUME UNCHANGED <<tail_reserved, head, tail_ready, buffer, reserved, consumed, pc,
                         fifo_pos_start, fifo_pos_end, nObjects, first, index, pushed, object>>,
             current_head' = head, head \in tail_ready, cpc' # "advance"
      PROVE  RingInv'
  <2>1. WithinCapacity' /\ ReadyExactlyCommitted' /\ DataInPlace' /\ Disjoint'
        /\ \A q \in Producers : ProducerInv(q)'
    BY <1>1, <1>4
    DEF RingInv, WithinCapacity, Slot, ReadyExactlyCommitted, DataInPlace, Disjoint, Owns,
        Holds, Queued, ProducerInv
  <2>2. RingTypeOK' /\ ConsumerInv'
    BY <1>1, <1>4 DEF RingInv, RingTypeOK, ConsumerInv, ConsumerInOrder
  <2> QED
    BY <2>1, <2>2 DEF RingInv
<1>5. CASE ContextPull
  <2>1. /\ UNCHANGED <<tail_reserved, head, tail_ready, buffer, reserved, consumed, pc,
                       fifo_pos_start, fifo_pos_end, nObjects, first, index, pushed, object>>
        /\ dataLength1' = readyToEnd /\ dataLength2' = readyFromStart
        /\ current_head' = head /\ cpc' = "read" /\ readyToEnd + readyFromStart > 0
    BY <1>5 DEF ContextPull, ringVars, reservation, progress
  <2>2. PICK d \in 0..NElements :
           /\ readyToEnd = IF head + d <= NElements THEN d ELSE BUFFER_SIZE - head
           /\ readyFromStart = d - readyToEnd
           /\ consumed + d <= reserved
           /\ \A p \in Producers : Holds(p) => consumed + d <= first[p]
           /\ d > 0 => head \in tail_ready
    BY <1>1, CountsReady
  <2>3. readyToEnd \in Nat /\ readyFromStart \in Nat /\ readyToEnd + readyFromStart = d
    BY <1>2, <2>2 DEF BUFFER_SIZE
  <2>4. Batch' = d /\ d \in 1..NElements
    BY <2>1, <2>2, <2>3 DEF Batch
  <2>5. BatchInv'
    BY <2>1, <2>2, <2>3, <2>4 DEF BatchInv, Holds
  <2>6. RingInv'
    BY <1>4, <2>1, <2>2, <2>4
  <2> QED
    BY <1>3, <2>1, <2>5, <2>6 DEF PullInv
<1>6. CASE ReadPulled
  <2>1. /\ UNCHANGED <<tail_reserved, head, tail_ready, buffer, reserved, consumed, pc,
                       fifo_pos_start, fifo_pos_end, nObjects, first, index, pushed, object,
                       current_head, dataLength1, dataLength2>>
        /\ cpc = "read" /\ cpc' = "release"
        /\ pulled' = [i \in 1..Batch |-> IF i <= dataLength1 THEN buffer[current_head + (i - 1)]
                                         ELSE buffer[(i - dataLength1) - 1]]
    BY <1>6 DEF ReadPulled, ringVars, reservation, progress, Batch
  <2>2. current_head = head /\ head \in tail_ready /\ DataInPlace /\ BatchInv
    BY <1>1, <2>1 DEF PullInv, RingInv, ConsumerInv
  <2>3. RingInv'
    BY <1>4, <2>1, <2>2
  <2>4. BatchInv' /\ Batch' = Batch
    BY <2>1, <2>2 DEF BatchInv, Batch, Holds
  <2>5. ASSUME NEW i \in 1..Batch
        PROVE  (IF i <= dataLength1 THEN buffer[current_head + (i - 1)]
                ELSE buffer[(i - dataLength1) - 1]) = consumed + (i - 1)
    <3> DEFINE k == consumed + (i - 1)
    <3>1. k \in Queued /\ i \in Nat /\ Batch \in Nat /\ k < consumed + Batch
      BY <1>2, <2>2 DEF BatchInv, Queued
    <3>2. ASSUME NEW p \in Producers PROVE ~Owns(p, k)
      <4> SUFFICES ASSUME Holds(p) PROVE k < first[p]
        BY <1>1, FifoAssumption DEF Owns, RingInv, RingTypeOK
      <4>1. consumed + Batch <= first[p] /\ first[p] \in Nat
        BY <1>1, <2>2 DEF BatchInv, RingInv, RingTypeOK
      <4> QED
        BY <1>2, <3>1, <4>1
    <3>3. buffer[Slot(k)] = k
      BY <2>2, <3>1, <3>2 DEF DataInPlace
    <3>4. Slot(k) = IF i <= dataLength1 THEN current_head + (i - 1) ELSE (i - dataLength1) - 1
      BY <1>2, <2>2, <3>1 DEF BatchInv, Slot, SlotAt, BUFFER_SIZE
    <3> QED
      BY <3>3, <3>4
  <2>6. pulled' = [i \in 1..Batch |-> consumed + (i - 1)]
    BY <2>1, <2>5
  <2> QED
    BY <1>3, <2>1, <2>3, <2>4, <2>6 DEF PullInv
<1>7. CASE ContextPullEnd
  <2>1. /\ head' = Ahead(head, Batch) /\ consumed' = consumed + Batch
        /\ tail_ready' = tail_ready \ {Ahead(head, i) : i \in 0..(Batch - 1)}
        /\ cpc = "release" /\ cpc' = "idle" /\ current_head' = 0
        /\ UNCHANGED <<tail_reserved, buffer, reserved, pc, fifo_pos_start, fifo_pos_end,
                       nObjects, first, index, pushed, object>>
    BY <1>7 DEF ContextPullEnd, reservation, progress, Batch
  <2>2. BatchInv
    BY <2>1 DEF PullInv
  <2> DEFINE n == Batch
  <2>3. n \in 1..NElements /\ consumed + n <= reserved
    BY <2>2 DEF BatchInv
  <2>4. \A i \in 0..NElements : Ahead(head, i) = Slot(consumed + i)
    BY <1>2 DEF Ahead, Slot, SlotAt
  <2>5. \A p \in Producers : \A k \in consumed..(consumed + n - 1) : ~Owns(p, k)
    <3> SUFFICES ASSUME NEW p \in Producers, NEW k \in consumed..(consumed + n - 1), Holds(p)
                 PROVE  k < first[p]
      BY <1>1, <1>2, <2>3, FifoAssumption DEF Owns, RingInv, RingTypeOK
    <3>1. consumed + n <= first[p] /\ first[p] \in Nat
      BY <1>1, <2>2 DEF BatchInv, RingInv, RingTypeOK
    <3> QED
      BY <1>2, <2>3, <3>1
  <2> HIDE DEF n
  <2>6. {Ahead(head, i) : i \in 0..(n - 1)} = {Slot(k) : k \in consumed..(consumed + n - 1)}
    <3>1. ASSUME NEW i \in 0..(n - 1)
          PROVE  consumed + i \in consumed..(consumed + n - 1) /\ Ahead(head, i) = Slot(consumed + i)
      BY <1>2, <2>3, <2>4
    <3>2. ASSUME NEW k \in consumed..(consumed + n - 1)
          PROVE  k - consumed \in 0..(n - 1) /\ Ahead(head, k - consumed) = Slot(k)
      <4>1. k - consumed \in 0..(n - 1) /\ k - consumed \in 0..NElements
            /\ consumed + (k - consumed) = k
        BY <1>2, <2>3
      <4> QED
        BY <2>4, <4>1
    <3> QED
      BY <3>1, <3>2
  <2>7. head' = Slot(consumed + n)
    BY <2>1, <2>3, <2>4 DEF n
  <2>8. /\ consumed' = consumed + n
        /\ tail_ready' = tail_ready \ {Slot(k) : k \in consumed..(consumed + n - 1)}
    BY <2>1, <2>6 DEF n
  <2>9. RingInv'
    BY <1>1, <2>1, <2>3, <2>5, <2>7, <2>8, AdvanceStep
  <2> QED
    BY <1>3, <2>1, <2>9 DEF PullInv
<1> QED
  BY <1>5, <1>6, <1>7 DEF Pull

\* The steps of the one producer leave what is being pulled alone.
LEMMA PushDuringPull ==
    ASSUME WordsFit, PullInv, OneProducer, NEW p \in Producers, Start(p) \/ Produce(p),
           UNCHANGED pullVars
    PROVE  PullInv'
<1>1. RingInv'
  BY RingInvNext DEF PullInv, Next
<1>2. RingTypeOK /\ \A q \in Producers : ProducerInv(q)
  BY DEF PullInv, RingInv
<1>3. /\ consumed \in Nat /\ reserved \in Nat /\ first \in [Producers -> Nat]
      /\ MaxBatch \in Nat /\ consumed <= reserved
  BY FifoAssumption DEF PullInv, RingInv, RingTypeOK, WithinCapacity
<1>4. UNCHANGED <<cpc, head, consumed, dataLength1, dataLength2, pulled>>
  BY DEF Start, Produce, PushReserve, ContextPushReserve, Reserve, PushOverflow,
         ContextPushOverflow, Overflow, PushInsert, PushReady, Return, ContextPushObject,
         ContextPushReady, OverflowReturn, ringVars, consVars, pullVars
<1>5. \A q \in Producers : q = p
  BY DEF OneProducer
<1>6. /\ reserved' \in Nat /\ reserved <= reserved'
      /\ Holds(p)' => \/ first'[p] = reserved /\ first'[p] + nObjects'[p] = reserved'
                      \/ Holds(p) /\ first'[p] = first[p] /\ nObjects'[p] = nObjects[p]
                                  /\ reserved' = reserved
  <2>1. ASSUME NEW n \in 1..MaxBatch, NEW s, NEW e, Reserve(p, n, s, e)
        PROVE  /\ reserved' \in Nat /\ reserved <= reserved'
               /\ first'[p] = reserved /\ first'[p] + nObjects'[p] = reserved'
    BY <1>2, <1>3, <2>1 DEF Reserve, RingTypeOK
  <2>2. CASE PushReserve(p)
    <3>1. 1 \in 1..MaxBatch
      BY FifoAssumption
    <3> QED
      BY <2>1, <2>2, <3>1 DEF PushReserve
  <2>3. CASE \E n \in 1..MaxBatch : ContextPushReserve(p, n)
    BY <2>1, <2>3 DEF ContextPushReserve
  <2>4. CASE PushOverflow(p) \/ \E n \in 1..MaxBatch : ContextPushOverflow(p, n)
    BY <1>2, <1>3, <2>4 DEF PushOverflow, ContextPushOverflow, Overflow, ringVars, Holds, RingTypeOK
  <2>5. CASE PushInsert(p) \/ ContextPushObject(p)
    BY <1>2, <1>3, <2>5 DEF PushInsert, ContextPushObject, reservation, Holds, RingTypeOK
  <2>6. CASE PushReady(p) \/ ContextPushReady(p) \/ OverflowReturn(p)
    BY <1>2, <1>3, <2>6 DEF PushReady, ContextPushReady, OverflowReturn, Return, Holds, RingTypeOK
  <2> QED
    BY <2>2, <2>3, <2>4, <2>5, <2>6 DEF Start, Produce
<1>7. NewestHeld'
  <2>1. Holds(p)' => first'[p] + nObjects'[p] = reserved'
    BY <1>6 DEF PullInv, NewestHeld
  <2> QED
    BY <1>5, <2>1 DEF NewestHeld
<1>8. Batch' = Batch
  BY <1>4 DEF Batch
<1>9. cpc # "idle" => BatchInv'
  <2> SUFFICES ASSUME cpc # "idle" PROVE BatchInv'
    OBVIOUS
  <2>1. BatchInv
    BY DEF PullInv
  <2>2. Batch \in Nat
    BY <2>1, FifoAssumption DEF BatchInv
  <2>3. consumed + Batch <= reserved'
    BY <1>3, <1>6, <2>1, <2>2 DEF BatchInv
  <2>4. Holds(p)' => consumed + Batch <= first'[p]
    BY <1>3, <1>6, <2>1, <2>2 DEF BatchInv
  <2> QED
    BY <1>4, <1>5, <1>8, <2>1, <2>3, <2>4 DEF BatchInv
<1> QED
  BY <1>1, <1>4, <1>7, <1>8, <1>9 DEF PullInv

\* What a ContextPull hands out are the next objects in the order of their
\* reservation, for every size of the ring and of the batches, as long as there
\* is one producer, as the trace FIFO has (getElementReady, ~ContextPull).
THEOREM PullsInOrder == WordsFit /\ OneProducer => (PullSpec => []PulledInOrder)
<1> SUFFICES ASSUME WordsFit, OneProducer PROVE PullSpec => []PulledInOrder
  OBVIOUS
<1>1. PullInit => PullInv
  <2> SUFFICES ASSUME PullInit PROVE PullInv
    OBVIOUS
  <2>1. RingInv /\ cpc = "idle"
    BY RingInvInit DEF PullInit, Init
  <2>2. NewestHeld
    BY DEF PullInit, Init, NewestHeld, Holds
  <2> QED
    BY <2>1, <2>2 DEF PullInv
<1>2. PullInv /\ [PullNext]_allVars => PullInv'
  <2> SUFFICES ASSUME PullInv, [PullNext]_allVars PROVE PullInv'
    OBVIOUS
  <2>1. CASE UNCHANGED allVars
    <3>1. UNCHANGED vars /\ UNCHANGED pullVars
      BY <2>1 DEF allVars
    <3>2. RingInv'
      BY <3>1, RingInvNext DEF PullInv
    <3> QED
      BY <3>1, <3>2 DEF PullInv, NewestHeld, BatchInv, Batch, Holds, vars, pullVars
  <2>2. CASE Pull
    BY <2>2, PullStep
  <2>3. ASSUME NEW p \in Producers, (Start(p) \/ Produce(p)) /\ UNCHANGED pullVars
        PROVE  PullInv'
    BY <2>3, PushDuringPull
  <2> QED
    BY <2>1, <2>2, <2>3 DEF PullNext
<1>3. PullInv => PulledInOrder
  BY DEF PullInv, PulledInOrder
<1> QED
  BY <1>1, <1>2, <1>3, PTL DEF PullSpec
=============================================================================
