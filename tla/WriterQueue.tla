----------------------------- MODULE WriterQueue -----------------------------
(***************************************************************************)
(* The bounded queue between the ring-buffer callback (main thread) and    *)
(* the writer thread of the collector: struct event_queue, enqueue_event,  *)
(* event_writer and the stop half of event_queue_finish of                 *)
(* agent/src/user/host_events.c.                                           *)
(*                                                                         *)
(* One action is one critical section of queue->lock: the mutex is never   *)
(* held across a blocking call except pthread_cond_wait, which releases    *)
(* it. What the writer does to the output between two critical sections is *)
(* left to the module that uses this one; here it only succeeds or fails.  *)
(***************************************************************************)
EXTENDS Integers, Sequences

CONSTANTS
    Event,     \* the records with a field "type" that may be queued
    NoEvent,   \* a slot calloc zeroed, the writer's empty local variable
    Capacity   \* options.queue_capacity

ASSUME CapacityAssumption == Capacity \in Nat \ {0}
ASSUME NoEventAssumption == NoEvent \notin Event

VARIABLES
    slots,             \* queue->events
    head,              \* queue->head: the slot the next event goes to
    tail,              \* queue->tail: the slot of the oldest event
    count,             \* queue->count
    stopping,          \* queue->stopping
    dropped,           \* queue->dropped
    priority_dropped,  \* queue->priority_dropped
    writer,            \* where the writer thread is in its loop
    hand               \* the writer's local copy of the event it popped

vars == <<slots, head, tail, count, stopping, dropped, priority_dropped, writer, hand>>

Slot == 0 .. Capacity - 1

priority_reserve == IF Capacity \div 8 = 0 THEN 1 ELSE Capacity \div 8

PriorityType ==
    {"PROCESS_EXEC", "FILE_UNLINK", "NETWORK_CONNECT", "NETWORK_BIND",
     "NETWORK_LISTEN", "NETWORK_ACCEPT", "HEALTH"}

event_is_priority(e) == e.type \in PriorityType

PriorityEvent == {e \in Event : event_is_priority(e)}

\* The events in the queue, oldest first: what the circular array stands for.
Contents == [i \in 1 .. count |-> slots[(tail + i - 1) % Capacity]]

-----------------------------------------------------------------------------
Init ==
    /\ slots = [i \in Slot |-> NoEvent]
    /\ head = 0
    /\ tail = 0
    /\ count = 0
    /\ stopping = FALSE
    /\ dropped = 0
    /\ priority_dropped = 0
    /\ writer = "lock"
    /\ hand = NoEvent

\* The slot after slot i.
NextSlot(i) == (i + 1) % Capacity

\* Mutant of Signal: the wake-up is forgotten.
NoSignal == writer' = writer

\* pthread_cond_signal: a writer asleep on not_empty goes for the lock again.
Signal == writer' = IF writer = "wait" THEN "lock" ELSE writer

\* Mutant of Full: the reserve begins one place too late.
FullLateReserve(e) ==
    \/ count = Capacity
    \/ ~event_is_priority(e) /\ count > Capacity - priority_reserve

\* No room for e: the last priority_reserve places are for priority events.
Full(e) ==
    \/ count = Capacity
    \/ ~event_is_priority(e) /\ count >= Capacity - priority_reserve

\* enqueue_event finds the queue stopping: -EIO, the event is lost.
Refuse(e) ==
    /\ stopping
    /\ UNCHANGED vars

\* enqueue_event finds no room for this event: it is counted, and lost.
Drop(e) ==
    /\ ~stopping
    /\ Full(e)
    /\ dropped' = dropped + 1
    /\ priority_dropped' =
         priority_dropped + IF event_is_priority(e) THEN 1 ELSE 0
    /\ UNCHANGED <<slots, head, tail, count, stopping, writer, hand>>

\* enqueue_event copies the event into the array and wakes the writer.
Store(e) ==
    /\ ~stopping
    /\ ~Full(e)
    /\ slots' = [slots EXCEPT ![head] = e]
    /\ head' = NextSlot(head)
    /\ count' = count + 1
    /\ Signal
    /\ UNCHANGED <<tail, stopping, dropped, priority_dropped, hand>>

\* Mutant of Stop: no signal after setting the flag.
StopUnsignalled ==
    /\ stopping' = TRUE
    /\ UNCHANGED <<slots, head, tail, count, dropped, priority_dropped, writer, hand>>

\* event_queue_finish up to pthread_join.
Stop ==
    /\ stopping' = TRUE
    /\ Signal
    /\ UNCHANGED <<slots, head, tail, count, dropped, priority_dropped, hand>>

-----------------------------------------------------------------------------
\* event_writer: nothing to do yet, pthread_cond_wait.
WriterSleep ==
    /\ writer = "lock"
    /\ count = 0 /\ ~stopping
    /\ writer' = "wait"
    /\ UNCHANGED <<slots, head, tail, count, stopping, dropped, priority_dropped, hand>>

\* POSIX lets pthread_cond_wait return without a signal.
WriterSpuriousWake ==
    /\ writer = "wait"
    /\ writer' = "lock"
    /\ UNCHANGED <<slots, head, tail, count, stopping, dropped, priority_dropped, hand>>

\* event_writer: nothing left and stopping, the thread ends.
WriterLeave ==
    /\ writer = "lock"
    /\ count = 0 /\ stopping
    /\ writer' = "gone"
    /\ UNCHANGED <<slots, head, tail, count, stopping, dropped, priority_dropped, hand>>

\* Mutant of WriterTake: the newest event is popped instead of the oldest.
WriterTakeNewest ==
    /\ writer = "lock"
    /\ count > 0
    /\ hand' = slots[(tail + count - 1) % Capacity]
    /\ head' = (tail + count - 1) % Capacity
    /\ count' = count - 1
    /\ writer' = "write"
    /\ UNCHANGED <<slots, tail, stopping, dropped, priority_dropped>>

\* event_writer pops the oldest event into its local variable.
WriterTake ==
    /\ writer = "lock"
    /\ count > 0
    /\ hand' = slots[tail]
    /\ tail' = NextSlot(tail)
    /\ count' = count - 1
    /\ writer' = "write"
    /\ UNCHANGED <<slots, head, stopping, dropped, priority_dropped>>

\* write_event returned 0; the batched flush is still to come.
WriterWrote ==
    /\ writer = "write"
    /\ writer' = "flush"
    /\ hand' = NoEvent
    /\ UNCHANGED <<slots, head, tail, count, stopping, dropped, priority_dropped>>

WriterFlushed ==
    /\ writer = "flush"
    /\ writer' = "lock"
    /\ UNCHANGED <<slots, head, tail, count, stopping, dropped, priority_dropped, hand>>

\* write_event failed; the lock is not yet taken to say so.
WriterFailed ==
    /\ writer = "write"
    /\ writer' = "failed"
    /\ hand' = NoEvent
    /\ UNCHANGED <<slots, head, tail, count, stopping, dropped, priority_dropped>>

\* The failing writer closes the queue and ends, whatever is still queued.
WriterGiveUp ==
    /\ writer = "failed"
    /\ stopping' = TRUE
    /\ writer' = "gone"
    /\ UNCHANGED <<slots, head, tail, count, dropped, priority_dropped, hand>>

WriterStep ==
    \/ WriterSleep \/ WriterLeave \/ WriterTake \/ WriterWrote
    \/ WriterFlushed \/ WriterFailed \/ WriterGiveUp

Next ==
    \/ \E e \in Event : Refuse(e) \/ Drop(e) \/ Store(e)
    \/ Stop
    \/ WriterSpuriousWake
    \/ WriterStep

Spec == Init /\ [][Next]_vars

\* The writer thread keeps running; its output calls return.
FairSpec == Spec /\ WF_vars(WriterStep)

-----------------------------------------------------------------------------
TypeOK ==
    /\ slots \in [Slot -> Event \cup {NoEvent}]
    /\ head \in Slot
    /\ tail \in Slot
    /\ count \in 0 .. Capacity
    /\ stopping \in BOOLEAN
    /\ dropped \in Nat
    /\ priority_dropped \in 0 .. dropped
    /\ writer \in {"lock", "wait", "write", "flush", "failed", "gone"}
    /\ hand \in Event \cup {NoEvent}

\* The reserve of event_queue_start survives every interleaving of enqueue_event
\* and event_writer: an event without priority never stands in one of the last
\* priority_reserve places, however many priority events came before it.
LowBelowReserve ==
    \A i \in 1 .. count :
        ~event_is_priority(Contents[i]) => i <= Capacity - priority_reserve

\* The while loop around pthread_cond_wait never sleeps through a signal: a
\* sleeping writer has nothing to write and nobody asked it to stop.
NoLostWakeup == writer = "wait" => count = 0 /\ ~stopping

\* A priority event is dropped by enqueue_event only when every reserved place is
\* taken by a priority event already: low-priority traffic alone never costs one.
PriorityDropNeedsPriorityBacklog ==
    [][priority_dropped' # priority_dropped =>
         \A i \in 1 + Capacity - priority_reserve .. Capacity :
             i \in DOMAIN Contents /\ event_is_priority(Contents[i])]_vars

\* The circular array, the flag and the condition variable together are the
\* bounded priority queue of module EventQueue.
Abstract == INSTANCE EventQueue WITH
    queue <- Contents, closed <- stopping, priorityDropped <- priority_dropped,
    Reserve <- priority_reserve

RefinesEventQueue == Abstract!Spec

\* event_queue_finish joins the writer: once the queue is stopping the writer
\* drains what is queued (or gives up on an output error) and ends.
StopEndsWriter == stopping ~> writer = "gone"

\* A queued event is not left behind by a writer that sleeps: the writer soon
\* holds an event, or it has ended after an output error.
BacklogIsServed == count > 0 ~> writer \in {"write", "failed", "gone"}

\* The writer's progress: neither a request to stop nor a queued event waits for ever.
WriterProgress == StopEndsWriter /\ BacklogIsServed
=============================================================================
