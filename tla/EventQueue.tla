----------------------------- MODULE EventQueue -----------------------------
(***************************************************************************)
(* What the writer queue of the collector promises, without the circular   *)
(* array, the mutex and the condition variable: a bounded FIFO queue in    *)
(* which Reserve places are kept for priority events, that counts every    *)
(* event it turns away and accepts nothing once it is closed.              *)
(***************************************************************************)
EXTENDS Integers, Sequences

CONSTANTS
    Event,          \* everything that may be offered to the queue
    PriorityEvent,  \* the part of Event that may use the reserved places
    NoEvent,        \* the consumer's hand is empty
    Capacity,       \* places in the queue
    Reserve         \* places only a priority event may take

VARIABLES
    queue,            \* accepted and not yet taken, oldest first
    closed,           \* TRUE once no event is accepted any more
    dropped,          \* events turned away
    priorityDropped,  \* priority events turned away
    hand              \* the event the consumer took and works on

vars == <<queue, closed, dropped, priorityDropped, hand>>

Limit(e) == IF e \in PriorityEvent THEN Capacity ELSE Capacity - Reserve

Init ==
    /\ queue = <<>>
    /\ closed = FALSE
    /\ dropped = 0
    /\ priorityDropped = 0
    /\ hand = NoEvent

Accept(e) ==
    /\ ~closed
    /\ Len(queue) < Limit(e)
    /\ queue' = Append(queue, e)
    /\ UNCHANGED <<closed, dropped, priorityDropped, hand>>

TurnAway(e) ==
    /\ ~closed
    /\ Len(queue) >= Limit(e)
    /\ dropped' = dropped + 1
    /\ priorityDropped' = IF e \in PriorityEvent THEN priorityDropped + 1
                          ELSE priorityDropped
    /\ UNCHANGED <<queue, closed, hand>>

Take ==
    /\ hand = NoEvent
    /\ queue # <<>>
    /\ hand' = Head(queue)
    /\ queue' = Tail(queue)
    /\ UNCHANGED <<closed, dropped, priorityDropped>>

\* The consumer is done with the event it took, whether it wrote it or not.
Release ==
    /\ hand # NoEvent
    /\ hand' = NoEvent
    /\ UNCHANGED <<queue, closed, dropped, priorityDropped>>

Close ==
    /\ closed' = TRUE
    /\ UNCHANGED <<queue, dropped, priorityDropped, hand>>

Next ==
    \/ \E e \in Event : Accept(e) \/ TurnAway(e)
    \/ Take
    \/ Release
    \/ Close

Spec == Init /\ [][Next]_vars
=============================================================================
