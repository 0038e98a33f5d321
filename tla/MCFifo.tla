------------------------------- MODULE MCFifo -------------------------------
(* Fifo with a pop() consumer, instantiated for TLC, and its refinement    *)
(* mapping to FifoAbs.                                                     *)
EXTENDS Fifo, Sequences

\* The entry of object k: a ready entry is what the slot holds.
Entry(k) == [id    |-> IF Slot(k) \in tail_ready THEN buffer[Slot(k)] ELSE k,
             ready |-> Slot(k) \in tail_ready]

AbsQueue == [i \in 1..(reserved - consumed) |-> Entry(consumed + i - 1)]

Abs == INSTANCE FifoAbs WITH
    Capacity <- NElements,
    queue    <- AbsQueue,
    next     <- reserved,
    taken    <- cpc = "advance",
    out      <- object

\* Every step of push, ContextPush and pop is a step of the abstract queue:
\* slots are handed out, published and taken in one order, whatever the
\* interleaving of the producers and the consumer.
ImplementsQueue == Abs!AbsSpec
=============================================================================
