------------------------------ MODULE FifoPull ------------------------------
(***************************************************************************)
(* The same ring with the batch consumer of fifo.hpp, ContextPull, which   *)
(* the trace server uses: the constructor counts the ready slots from      *)
(* head_ on, the caller reads them in place with the lock released, and    *)
(* the destructor gives all of them back.                                  *)
(***************************************************************************)
EXTENDS Fifo, Sequences

VARIABLES
    dataLength1,   \* ready slots from head_ to the end of the ring
    dataLength2,   \* ready slots from the start of the ring on
    pulled         \* what the caller read

pullVars == <<dataLength1, dataLength2, pulled>>
allVars  == <<vars, pullVars>>

\* The first slot of lo..hi that is not ready, or hi + 1.
FirstGap(lo, hi) ==
    CHOOSE g \in lo..(hi + 1) :
        /\ g <= hi => g \notin tail_ready
        /\ \A i \in lo..(g - 1) : i \in tail_ready

readyToEnd_counts_gap ==
    LET g == FirstGap(head, NElements)
    IN  IF g > head /\ g <= NElements THEN g - head + 1 ELSE g - head

(* getElementReady: the first loop leaves for the second one as soon as    *)
(* current_head wraps, and only then looks at whether the slot was empty.  *)
readyToEnd == FirstGap(head, NElements) - head
wraps      == head > 0 /\ FirstGap(head, NElements) >= NElements
readyFromStart == IF wraps THEN FirstGap(0, head - 1) ELSE 0

\* The slot n steps after slot i.
Ahead(i, n) == IF i + n <= NElements THEN i + n ELSE i + n - BUFFER_SIZE

PullInit ==
    /\ Init
    /\ dataLength1 = 0
    /\ dataLength2 = 0
    /\ pulled = <<>>

\* ContextPull: an empty ring changes nothing.
ContextPull ==
    /\ cpc = "idle"
    /\ readyToEnd + readyFromStart > 0
    /\ dataLength1' = readyToEnd
    /\ dataLength2' = readyFromStart
    /\ current_head' = head
    /\ cpc' = "read"
    /\ UNCHANGED <<ringVars, pc, reservation, progress, object, consumed, pulled>>

\* The caller reads dataLength1 slots at dataPtr1 and dataLength2 at dataPtr2.
ReadPulled ==
    /\ cpc = "read"
    /\ pulled' = [i \in 1..(dataLength1 + dataLength2) |->
                    IF i <= dataLength1 THEN buffer[current_head + i - 1]
                    ELSE buffer[i - dataLength1 - 1]]
    /\ cpc' = "release"
    /\ UNCHANGED <<ringVars, pc, reservation, progress, current_head, object,
                   consumed, dataLength1, dataLength2>>

ContextPullEnd_first_part_only ==
    LET n == dataLength1 + dataLength2
    IN  /\ cpc = "release"
        /\ head' = Ahead(head, dataLength1)
        /\ tail_ready' = tail_ready \ {Ahead(head, i) : i \in 0..(n - 1)}
        /\ consumed' = consumed + dataLength1
        /\ cpc' = "idle"
        /\ current_head' = 0
        /\ dataLength1' = 0
        /\ dataLength2' = 0
        /\ pulled' = <<>>
        /\ UNCHANGED <<tail_reserved, buffer, reserved, pc, reservation,
                       progress, object>>

\* ~ContextPull clears one bit and advances head_ by one, so many times.
ContextPullEnd ==
    LET n == dataLength1 + dataLength2
    IN  /\ cpc = "release"
        /\ head' = Ahead(head, n)
        /\ tail_ready' = tail_ready \ {Ahead(head, i) : i \in 0..(n - 1)}
        /\ consumed' = consumed + n
        /\ cpc' = "idle"
        /\ current_head' = 0
        /\ dataLength1' = 0
        /\ dataLength2' = 0
        /\ pulled' = <<>>
        /\ UNCHANGED <<tail_reserved, buffer, reserved, pc, reservation,
                       progress, object>>

Pull == ContextPull \/ ReadPulled \/ ContextPullEnd

PullNext ==
    \/ \E p \in Producers : (Start(p) \/ Produce(p)) /\ UNCHANGED pullVars
    \/ Pull

PullSpec == PullInit /\ [][PullNext]_allVars

FairPullSpec ==
    /\ PullSpec
    /\ \A p \in Producers : WF_allVars(Produce(p) /\ UNCHANGED pullVars)
    /\ WF_allVars(Pull)

\* What a ContextPull hands out are the next objects in the order of their
\* reservation, each written and none skipped (getElementReady).
PulledInOrder ==
    cpc = "release" => \A i \in DOMAIN pulled : pulled[i] = consumed + i - 1

=============================================================================
