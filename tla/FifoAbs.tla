------------------------------ MODULE FifoAbs -------------------------------
(***************************************************************************)
(* What the ring buffer of fifo.hpp promises: a queue of at most Capacity  *)
(* entries, numbered in the order room was made for them.  An entry is     *)
(* pending until its producer is done with it.  The consumer may only take *)
(* the oldest entry, and only once that entry is ready.                    *)
(***************************************************************************)
EXTENDS Naturals, Sequences

CONSTANTS Capacity, NoData

VARIABLES
    queue,   \* the entries, oldest first
    next,    \* number of the next entry
    taken,   \* the consumer has copied the oldest entry and not dropped it yet
    out      \* the number it got last

absVars == <<queue, next, taken, out>>

Pending(n) == [i \in 1..n |-> [id |-> next + i - 1, ready |-> FALSE]]

AbsInit == queue = <<>> /\ next = 0 /\ taken = FALSE /\ out = NoData

MakeRoom ==
    \E n \in 1..Capacity :
        /\ Len(queue) + n <= Capacity
        /\ queue' = queue \o Pending(n)
        /\ next' = next + n
        /\ UNCHANGED <<taken, out>>

\* A producer is done with the consecutive entries a..b.
Publish ==
    /\ \E a \in 1..Len(queue) : \E b \in a..Len(queue) :
        /\ \A i \in a..b : ~queue[i].ready
        /\ queue' = [i \in 1..Len(queue) |->
                        IF i \in a..b THEN [id |-> queue[i].id, ready |-> TRUE]
                        ELSE queue[i]]
    /\ UNCHANGED <<next, taken, out>>

Take ==
    /\ ~taken
    /\ queue # <<>>
    /\ Head(queue).ready
    /\ out' = Head(queue).id
    /\ taken' = TRUE
    /\ UNCHANGED <<queue, next>>

Drop ==
    /\ taken
    /\ queue' = Tail(queue)
    /\ taken' = FALSE
    /\ UNCHANGED <<next, out>>

AbsSpec == AbsInit /\ [][MakeRoom \/ Publish \/ Take \/ Drop]_absVars
=============================================================================
