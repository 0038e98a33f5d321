-------------------------------- MODULE Fifo --------------------------------
(***************************************************************************)
(* The lock-protected ring buffer of common/include/carbon/fifo.hpp: many  *)
(* producers (threads, interrupt handlers, both cores) and one consumer.   *)
(*                                                                         *)
(* A producer first RESERVES slots under the lock, then writes them with   *)
(* the lock released, then marks them READY under the lock again.  The     *)
(* consumer only looks at the ready bit of the slot at head_.  Every       *)
(* locked region is one action, and so is every unlocked buffer access.    *)
(*                                                                         *)
(* The datum put into a slot is abstracted to its absolute position in the *)
(* order of reservations (0, 1, 2, ...), so that "nothing lost, nothing    *)
(* duplicated, nothing out of order, nothing unwritten" is one statement:  *)
(* the k-th object the consumer gets is k.                                 *)
(***************************************************************************)
EXTENDS Integers

CONSTANTS
    NElements,   \* capacity; the ring has one slot more
    W,           \* bits in a word of tail_ready_ (8: it is an array of uint8_t)
    Producers,   \* contexts that push
    MaxBatch,    \* largest ContextPush
    MaxItems,    \* bound of the model: objects reserved in a behaviour
    NoData       \* what a slot holds before it is first written

ASSUME FifoAssumption ==
    /\ NElements \in Nat \ {0}
    /\ W \in Nat \ {0}
    /\ MaxBatch \in 1..NElements
    /\ MaxItems \in Nat
    /\ NoData \notin Nat

\* The deployed rings (NElements = 4096 and 2048, W = 8) end in a word that
\* holds their last slot only, and their batches never wrap back into the
\* word they start in.  Where this fails ~ContextPush marks the wrong slots.
WordsFit == NElements % W = 0 /\ MaxBatch + W <= NElements + 2

BUFFER_SIZE == NElements + 1
Index       == 0..NElements

VARIABLES
    tail_reserved,  \* first slot not reserved yet
    head,           \* slot the consumer takes next
    tail_ready,     \* the bits of tail_ready_ that are set
    buffer,         \* what each slot holds
    pc,             \* where each producer is; its locals are 0 when idle:
    fifo_pos_start, \*   first and last slot of its reservation,
    fifo_pos_end,
    index,          \*   the slot it writes next,
    nObjects,       \*   the number of objects it asked room for,
    pushed,         \*   the number of objects it has handed over,
    first,          \*   history: the absolute position of the first of them
    cpc,            \* where the consumer is in pop()
    current_head,   \* pop()'s local copy of head_
    object,         \* what pop() copied out of the buffer
    reserved,       \* history: objects reserved so far
    consumed        \* history: objects consumed so far

reservation == <<fifo_pos_start, fifo_pos_end, nObjects, first>>
progress    == <<index, pushed>>
consVars    == <<cpc, current_head, object, consumed>>
ringVars    == <<tail_reserved, head, tail_ready, buffer, reserved>>
vars == <<tail_reserved, head, tail_ready, buffer, pc, fifo_pos_start,
          fifo_pos_end, index, nObjects, pushed, first, cpc, current_head,
          object, reserved, consumed>>
-----------------------------------------------------------------------------
(* The index arithmetic and the bit field.                                 *)

increment(i) == IF i < NElements THEN i + 1 ELSE 0

\* The two-argument increment leaves the index alone when n is too large.
incrementBy(i, n) ==
    IF n > NElements THEN i
    ELSE IF i + n < BUFFER_SIZE THEN i + n ELSE i + n - BUFFER_SIZE

isFull == head = increment(tail_reserved)

isFullFor_exact_room(n) ==
    /\ n <= NElements
    /\ \/ tail_reserved < head /\ n > head - tail_reserved
       \/ tail_reserved > head /\ n > BUFFER_SIZE - tail_reserved + head

isFullFor_too_early(n) ==
    /\ n <= NElements
    /\ \/ tail_reserved < head /\ n >= head - tail_reserved - 1
       \/ tail_reserved > head /\ n >= BUFFER_SIZE - tail_reserved + head - 1

isFullFor(n) ==
    /\ n <= NElements
    /\ \/ tail_reserved < head /\ n >= head - tail_reserved
       \/ tail_reserved > head /\ n >= BUFFER_SIZE - tail_reserved + head

Bits    == 0 .. (W * (BUFFER_SIZE \div W + 1) - 1)
Word(i) == {b \in Bits : b \div W = i}

WordsBetween(i, j) == {b \in Bits : i < b \div W /\ b \div W < j}

\* 0xFF << (i % 8) and 0xFF >> (7 - i % 8), in the word that holds bit i.
FromBit(i) == {b \in Word(i \div W) : b % W >= i % W}
UpToBit(i) == {b \in Word(i \div W) : b % W <= i % W}

Marked_keep_last_word(ready, s, e) ==
    LET w1   == s \div W
        w2   == e \div W
        last == NElements \div W
    IN  IF w1 = w2 THEN ready \cup (FromBit(s) \cap UpToBit(e))
        ELSE IF w1 < w2 THEN ready \cup FromBit(s) \cup UpToBit(e)
                          \cup WordsBetween(w1, w2)
        ELSE ready \cup FromBit(s) \cup UpToBit(e)
                          \cup WordsBetween(w1, last)
                          \cup WordsBetween(-1, w2)

\* ~ContextPush: the words after it has marked slots s..e (cyclically).
Marked(ready, s, e) ==
    LET w1   == s \div W
        w2   == e \div W
        last == NElements \div W
    IN  IF w1 = w2 THEN ready \cup (FromBit(s) \cap UpToBit(e))
        ELSE IF w1 < w2 THEN ready \cup FromBit(s) \cup UpToBit(e)
                          \cup WordsBetween(w1, w2)
        ELSE ((ready \cup FromBit(s) \cup UpToBit(e)
                            \cup WordsBetween(w1, last))
                          \ Word(last))
                          \cup UpToBit(NElements)
                          \cup WordsBetween(-1, w2)
-----------------------------------------------------------------------------
Init ==
    /\ tail_reserved = 0
    /\ head = 0
    /\ tail_ready = {}
    /\ buffer = [i \in Index |-> NoData]
    /\ pc = [p \in Producers |-> "idle"]
    /\ fifo_pos_start = [p \in Producers |-> 0]
    /\ fifo_pos_end = [p \in Producers |-> 0]
    /\ index = [p \in Producers |-> 0]
    /\ nObjects = [p \in Producers |-> 0]
    /\ pushed = [p \in Producers |-> 0]
    /\ first = [p \in Producers |-> 0]
    /\ cpc = "idle"
    /\ current_head = 0
    /\ object = NoData
    /\ reserved = 0
    /\ consumed = 0

\* A locked region that reserves the slots s..e for n objects.
Reserve(p, n, s, e) ==
    /\ reserved + n <= MaxItems
    /\ tail_reserved' = increment(e)
    /\ fifo_pos_start' = [fifo_pos_start EXCEPT ![p] = s]
    /\ fifo_pos_end' = [fifo_pos_end EXCEPT ![p] = e]
    /\ index' = [index EXCEPT ![p] = s]
    /\ nObjects' = [nObjects EXCEPT ![p] = n]
    /\ first' = [first EXCEPT ![p] = reserved]
    /\ reserved' = reserved + n
    /\ UNCHANGED <<head, tail_ready, buffer, pushed, consVars>>

\* A locked region that finds no room for n objects.
Overflow(p, n) ==
    /\ pc[p] = "idle"
    /\ pc' = [pc EXCEPT ![p] = "overflow"]
    /\ nObjects' = [nObjects EXCEPT ![p] = n]
    /\ UNCHANGED <<ringVars, fifo_pos_start, fifo_pos_end, first, progress,
                   consVars>>

\* The push returns to its caller: its locals are gone.
Return(p) ==
    /\ pc' = [pc EXCEPT ![p] = "idle"]
    /\ fifo_pos_start' = [fifo_pos_start EXCEPT ![p] = 0]
    /\ fifo_pos_end' = [fifo_pos_end EXCEPT ![p] = 0]
    /\ index' = [index EXCEPT ![p] = 0]
    /\ nObjects' = [nObjects EXCEPT ![p] = 0]
    /\ pushed' = [pushed EXCEPT ![p] = 0]
    /\ first' = [first EXCEPT ![p] = 0]
    /\ UNCHANGED <<tail_reserved, head, buffer, consVars, reserved>>

(* push(object): one object, reserved, written and marked ready.           *)
PushReserve_publish_first(p) ==
    /\ pc[p] = "idle"
    /\ ~isFull
    /\ pc' = [pc EXCEPT ![p] = "ready"]
    /\ Reserve(p, 1, tail_reserved, tail_reserved)

PushReserve(p) ==
    /\ pc[p] = "idle"
    /\ ~isFull
    /\ pc' = [pc EXCEPT ![p] = "insert"]
    /\ Reserve(p, 1, tail_reserved, tail_reserved)

PushOverflow(p) == isFull /\ Overflow(p, 1)

\* buffer_.insert(&object, fifo_pos) with the lock released.
PushInsert(p) ==
    /\ pc[p] = "insert"
    /\ buffer' = [buffer EXCEPT ![fifo_pos_start[p]] = first[p]]
    /\ pushed' = [pushed EXCEPT ![p] = 1]
    /\ pc' = [pc EXCEPT ![p] = "ready"]
    /\ UNCHANGED <<tail_reserved, head, tail_ready, reserved, reservation,
                   index, consVars>>

PushReady(p) ==
    /\ pc[p] = "ready"
    /\ tail_ready' = tail_ready \cup {fifo_pos_start[p]}
    /\ Return(p)

(* ContextPush: room for n objects is reserved by the constructor, the     *)
(* caller pushes them one by one, the destructor marks them ready.         *)
ContextPushReserve(p, n) ==
    /\ pc[p] = "idle"
    /\ ~isFullFor(n)
    /\ pc' = [pc EXCEPT ![p] = "context"]
    /\ Reserve(p, n, tail_reserved, incrementBy(tail_reserved, n - 1))

ContextPushOverflow(p, n) == isFullFor(n) /\ Overflow(p, n)

\* context.push(object).  tail_reserved_ is read without the lock; when the
\* push is refused ("cannot push in the buffer") the caller still goes on.
ContextPushObject(p) ==
    /\ pc[p] = "context"
    /\ pushed[p] < nObjects[p]
    /\ pushed' = [pushed EXCEPT ![p] = @ + 1]
    /\ IF index[p] # tail_reserved
       THEN /\ buffer' = [buffer EXCEPT ![index[p]] = first[p] + pushed[p]]
            /\ index' = [index EXCEPT ![p] = increment(@)]
       ELSE UNCHANGED <<buffer, index>>
    /\ UNCHANGED <<tail_reserved, head, tail_ready, reserved, pc, reservation,
                   consVars>>

\* ~ContextPush, once the caller has pushed everything.
ContextPushReady(p) ==
    /\ pc[p] = "context"
    /\ pushed[p] = nObjects[p]
    /\ tail_ready' = Marked(tail_ready, fifo_pos_start[p], fifo_pos_end[p])
    /\ Return(p)

\* The overflow callback or RAW_DIAG, and the early return of ~ContextPush.
OverflowReturn(p) ==
    /\ pc[p] = "overflow"
    /\ Return(p)
    /\ UNCHANGED tail_ready

(* pop(object).  An underflow changes nothing and is a stuttering step.    *)
PopCheck ==
    /\ cpc = "idle"
    /\ head \in tail_ready
    /\ current_head' = head
    /\ cpc' = "remove"
    /\ UNCHANGED <<ringVars, pc, reservation, progress, object, consumed>>

PopRemove ==
    /\ cpc = "remove"
    /\ object' = buffer[current_head]
    /\ cpc' = "advance"
    /\ UNCHANGED <<ringVars, pc, reservation, progress, current_head, consumed>>

PopAdvance ==
    /\ cpc = "advance"
    /\ head' = increment(head)
    /\ tail_ready' = tail_ready \ {current_head}
    /\ consumed' = consumed + 1
    /\ cpc' = "idle"
    /\ current_head' = 0
    /\ UNCHANGED <<tail_reserved, buffer, reserved, pc, reservation, progress,
                   object>>

Start(p) ==
    \/ PushReserve(p)
    \/ PushOverflow(p)
    \/ \E n \in 1..MaxBatch : \/ ContextPushReserve(p, n)
                              \/ ContextPushOverflow(p, n)

Produce(p) ==
    \/ PushInsert(p)
    \/ PushReady(p)
    \/ ContextPushObject(p)
    \/ ContextPushReady(p)
    \/ OverflowReturn(p)

Pop == PopCheck \/ PopRemove \/ PopAdvance

Next ==
    \/ \E p \in Producers : Start(p) \/ Produce(p)
    \/ Pop

Spec == Init /\ [][Next]_vars

\* A producer that is inside a push is scheduled again, and so is the
\* consumer; nobody has to start a push.
FairSpec ==
    /\ Spec
    /\ \A p \in Producers : WF_vars(Produce(p))
    /\ WF_vars(Pop)
-----------------------------------------------------------------------------
(* Properties.                                                             *)

\* The slot of the object with absolute position k (c <= k <= c + NElements)
\* when c objects are consumed and head_ is h.
SlotAt(h, c, k) ==
    IF h + (k - c) <= NElements THEN h + (k - c) ELSE h + (k - c) - BUFFER_SIZE

Slot(k) == SlotAt(head, consumed, k)

Queued == consumed .. (reserved - 1)

\* Producer p holds a reservation, and object k is part of it.
Holds(p)    == pc[p] \in {"insert", "ready", "context"}
Owns(p, k)  == Holds(p) /\ k \in first[p] .. (first[p] + nObjects[p] - 1)

RingTypeOK ==
    /\ tail_reserved \in Index
    /\ head \in Index
    /\ tail_ready \subseteq Bits
    /\ buffer \in [Index -> Nat \cup {NoData}]
    /\ pc \in [Producers -> {"idle", "insert", "ready", "context", "overflow"}]
    /\ fifo_pos_start \in [Producers -> Index]
    /\ fifo_pos_end \in [Producers -> Index]
    /\ index \in [Producers -> Index]
    /\ nObjects \in [Producers -> 0..MaxBatch]
    /\ pushed \in [Producers -> 0..MaxBatch]
    /\ first \in [Producers -> Nat]
    /\ current_head \in Index
    /\ object \in Nat \cup {NoData}
    /\ reserved \in Nat
    /\ consumed \in Nat

\* The consumer is in pop() (FifoPull has another one).
InPop  == cpc \in {"idle", "remove", "advance"}
TypeOK == RingTypeOK /\ InPop

\* The consumer gets the objects in the order of their reservation, each one
\* exactly once and only after it was written: the object pop() copied out
\* is the one whose turn it is (fifo.hpp pop, push, ContextPush).
ConsumerInOrder == cpc = "advance" => object = consumed

\* A ready bit is set for exactly the queued objects no producer is still
\* working on: no bit is left behind by pop() and ~ContextPush marks the
\* slots of its reservation and no others, across words and across the wrap.
ReadyExactlyCommitted ==
    tail_ready = {Slot(k) : k \in {q \in Queued : \A p \in Producers : ~Owns(p, q)}}

\* tail_reserved_ never runs past head_: at most NElements objects are
\* queued, and the two indices agree with the number of them (isFull).
WithinCapacity ==
    /\ reserved - consumed \in 0..NElements
    /\ tail_reserved = Slot(reserved)

\* The unlocked test of ContextPush::push never refuses an object room was
\* reserved for, however far other producers and the consumer have moved on.
NeverRefused ==
    \A p \in Producers :
        pc[p] = "context" /\ pushed[p] < nObjects[p] => index[p] # tail_reserved

\* What a producer's locals say of its reservation, at each point of a push.
ProducerInv(p) ==
    /\ pc[p] \in {"idle", "overflow"} => pushed[p] = 0
    /\ pc[p] = "insert" => nObjects[p] = 1 /\ pushed[p] = 0
    /\ pc[p] = "ready" => nObjects[p] = 1 /\ pushed[p] = 1
    /\ pc[p] = "context" => index[p] = Slot(first[p] + pushed[p])
    /\ Holds(p) =>
        /\ nObjects[p] >= 1
        /\ pushed[p] <= nObjects[p]
        /\ consumed <= first[p]
        /\ first[p] + nObjects[p] <= reserved
        /\ fifo_pos_start[p] = Slot(first[p])
        /\ fifo_pos_end[p] = Slot(first[p] + nObjects[p] - 1)

\* Reservations do not overlap.
Disjoint ==
    \A p, q \in Producers :
        p # q /\ Holds(p) /\ Holds(q) =>
            \/ first[p] + nObjects[p] <= first[q]
            \/ first[q] + nObjects[q] <= first[p]

\* Every queued object that has been handed over is in its slot.
DataInPlace ==
    \A k \in Queued :
        (\A p \in Producers : Owns(p, k) => k < first[p] + pushed[p])
            => buffer[Slot(k)] = k

ConsumerInv ==
    /\ cpc # "idle" => current_head = head /\ head \in tail_ready
    /\ ConsumerInOrder

\* The inductive invariant of the ring: what tail_reserved_, head_, the ready
\* bits, the buffer and the locals of push, ContextPush and pop say of each
\* other between any two steps.
RingInv ==
    /\ RingTypeOK
    /\ WithinCapacity
    /\ \A p \in Producers : ProducerInv(p)
    /\ Disjoint
    /\ ReadyExactlyCommitted
    /\ DataInPlace
    /\ ConsumerInv

FifoInv == RingInv /\ InPop

\* A push reports an overflow only when there is no room for it (isFull).
OverflowOnlyWhenFull ==
    [][\A p \in Producers :
        pc[p] # "overflow" /\ pc'[p] = "overflow" =>
            reserved - consumed + nObjects'[p] > NElements]_vars

\* Every object room was reserved for is eventually consumed: the consumer
\* goes on consuming for ever or consumes all there is, and no lost ready bit
\* and no abandoned slot blocks it at head_.
EventuallyConsumed ==
    \/ []<><<consumed' # consumed>>_vars
    \/ []<>(consumed = reserved)
=============================================================================
