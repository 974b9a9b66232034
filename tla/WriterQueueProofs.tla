-------------------------- MODULE WriterQueueProofs --------------------------
(***************************************************************************)
(* Proofs about module WriterQueue for every capacity and every set of     *)
(* events: the queue keeps its reserve, no wake-up is lost, and the        *)
(* circular array implements the bounded priority queue of EventQueue.     *)
(***************************************************************************)
EXTENDS WriterQueue, SequenceTheorems, TLAPS

\* head is where the oldest event plus count lands: what ties the two indices of
\* the circular array to its fill level.
IndexShape == head = (tail + count) % Capacity

\* Every place between tail and head holds an event, never a zeroed slot.
SlotsFilled == \A i \in 1 .. count : slots[(tail + i - 1) % Capacity] \in Event

\* The writer's local variable holds an event exactly while it is being written.
HandShape == writer = "write" <=> hand # NoEvent

\* The inductive invariant.
Inv ==
    /\ TypeOK
    /\ IndexShape
    /\ SlotsFilled
    /\ HandShape
    /\ LowBelowReserve
    /\ NoLostWakeup

-----------------------------------------------------------------------------
\* Arithmetic of the circular array (NextSlot and the index of Contents).

\* An index one step round the array, without the modulo.
LEMMA ModLemma ==
    \A a \in 0 .. 2 * Capacity - 1 :
        a % Capacity = IF a < Capacity THEN a ELSE a - Capacity
  BY CapacityAssumption

\* The reserve event_queue_start computes lies between one place and the whole queue.
LEMMA ReserveRange == priority_reserve \in 1 .. Capacity
  BY CapacityAssumption DEF priority_reserve

\* The slot of the i-th queued event is not the slot the next event goes to.
LEMMA HeadIsFree ==
    ASSUME TypeOK, IndexShape, count < Capacity, NEW i \in 1 .. count
    PROVE  (tail + i - 1) % Capacity # head
  <1> DEFINE a == tail + i - 1
             b == tail + count
  <1>1. /\ a \in 0 .. 2 * Capacity - 1
        /\ b \in 0 .. 2 * Capacity - 1
        /\ a < b /\ b - a < Capacity
    BY CapacityAssumption DEF TypeOK, Slot
  <1> SUFFICES a % Capacity # b % Capacity
    BY DEF IndexShape
  <1> HIDE DEF a, b
  <1>2. /\ a % Capacity = IF a < Capacity THEN a ELSE a - Capacity
        /\ b % Capacity = IF b < Capacity THEN b ELSE b - Capacity
    BY <1>1, ModLemma
  <1>3. QED
    BY <1>1, <1>2, CapacityAssumption

\* Popping moves every remaining event one place forward.
LEMMA PopShifts ==
    ASSUME TypeOK, NEW i \in 1 .. Capacity
    PROVE  (NextSlot(tail) + i - 1) % Capacity = (tail + (i + 1) - 1) % Capacity
  <1> DEFINE t == tail + 1
             a == (t % Capacity) + i - 1
             b == t + i - 1
  <1>1. t \in 0 .. 2 * Capacity - 1 /\ t <= Capacity /\ b \in 0 .. 2 * Capacity - 1
    BY CapacityAssumption DEF TypeOK, Slot
  <1>2. t % Capacity = IF t < Capacity THEN t ELSE t - Capacity
    <2> HIDE DEF t
    <2> QED BY <1>1, ModLemma
  <1>3. a = IF t < Capacity THEN b ELSE b - Capacity
    BY <1>1, <1>2, CapacityAssumption DEF TypeOK, Slot
  <1>4. a % Capacity = b % Capacity
    <2>1. a \in 0 .. 2 * Capacity - 1 /\ (t = Capacity => b >= Capacity /\ a < Capacity)
      BY <1>1, <1>3, CapacityAssumption DEF TypeOK, Slot
    <2> HIDE DEF a, b, t
    <2>2. /\ a % Capacity = IF a < Capacity THEN a ELSE a - Capacity
          /\ b % Capacity = IF b < Capacity THEN b ELSE b - Capacity
      BY <1>1, <2>1, ModLemma
    <2>3. QED
      BY <1>1, <1>3, <2>1, <2>2, CapacityAssumption
  <1>5. QED
    BY <1>4 DEF NextSlot, TypeOK, Slot

\* Storing an event moves head to the slot after the one it was put in.
LEMMA StoreAdvances ==
    ASSUME TypeOK, IndexShape, count < Capacity
    PROVE  NextSlot(head) = (tail + (count + 1)) % Capacity /\ NextSlot(head) \in Slot
  <1> DEFINE a == tail + count
             h == (a % Capacity) + 1
             b == a + 1
  <1>1. a \in 0 .. 2 * Capacity - 1 /\ b \in 0 .. 2 * Capacity - 1
    BY CapacityAssumption DEF TypeOK, Slot
  <1>2. h % Capacity = b % Capacity /\ h % Capacity \in Slot
    <2> HIDE DEF a
    <2>1. a % Capacity = IF a < Capacity THEN a ELSE a - Capacity
      BY <1>1, ModLemma
    <2>2. h = (IF a < Capacity THEN b ELSE b - Capacity) /\ h \in 1 .. Capacity
      BY <1>1, <2>1, CapacityAssumption
    <2>3. h \in 0 .. 2 * Capacity - 1
      BY <2>2, CapacityAssumption
    <2> HIDE DEF h
    <2>4. h % Capacity = IF h < Capacity THEN h ELSE h - Capacity
      BY <2>3, ModLemma
    <2>5. b % Capacity = IF b < Capacity THEN b ELSE b - Capacity
      <3> HIDE DEF b
      <3> QED BY <1>1, ModLemma
    <2>6. QED
      BY <1>1, <2>2, <2>4, <2>5, CapacityAssumption DEF Slot
  <1>3. QED
    BY <1>2 DEF NextSlot, IndexShape, TypeOK, Slot

\* Popping keeps the two indices and the fill level in step.
LEMMA TakeAdvances ==
    ASSUME TypeOK, IndexShape, count > 0
    PROVE  head = (NextSlot(tail) + (count - 1)) % Capacity /\ NextSlot(tail) \in Slot
  <1>1. (NextSlot(tail) + count - 1) % Capacity = (tail + (count + 1) - 1) % Capacity
    BY PopShifts DEF TypeOK
  <1>2. NextSlot(tail) \in Slot
    <2> DEFINE t == tail + 1
    <2>1. t \in 0 .. 2 * Capacity - 1 /\ t <= Capacity
      BY CapacityAssumption DEF TypeOK, Slot
    <2>2. t % Capacity = IF t < Capacity THEN t ELSE t - Capacity
      <3> HIDE DEF t
      <3> QED BY <2>1, ModLemma
    <2>3. QED
      BY <2>1, <2>2, CapacityAssumption DEF NextSlot, Slot
  <1>3. NextSlot(tail) + (count - 1) = NextSlot(tail) + count - 1 /\ tail + (count + 1) - 1 = tail + count
    BY <1>2, CapacityAssumption DEF TypeOK, Slot
  <1>4. QED
    BY <1>1, <1>2, <1>3 DEF IndexShape

-----------------------------------------------------------------------------
\* Initially the array is empty and the writer has not slept yet.
LEMMA InitInv == Init => Inv
  <1> SUFFICES ASSUME Init PROVE Inv
    OBVIOUS
  <1>1. TypeOK
    <2>1. 0 \in Slot /\ 0 \in 0 .. Capacity
      BY CapacityAssumption DEF Slot
    <2>2. slots \in [Slot -> Event \cup {NoEvent}]
      BY DEF Init
    <2>3. dropped \in Nat /\ priority_dropped \in 0 .. dropped
      BY DEF Init
    <2>4. QED
      BY <2>1, <2>2, <2>3, Zenon DEF Init, TypeOK
  <1>2. IndexShape
    BY CapacityAssumption DEF Init, IndexShape
  <1>3. HandShape /\ NoLostWakeup
    BY DEF Init, HandShape, NoLostWakeup
  <1>4. SlotsFilled /\ LowBelowReserve
    BY DEF Init, SlotsFilled, LowBelowReserve
  <1>5. QED
    BY <1>1, <1>2, <1>3, <1>4 DEF Inv

\* enqueue_event storing an event keeps the invariant: the place it takes is free,
\* and below the reserve unless the event has priority.
LEMMA StoreInv ==
    ASSUME Inv, NEW e \in Event, Store(e)
    PROVE  Inv'
  <1> USE DEF Inv
  <1>1. count < Capacity /\ head \in Slot
    BY ReserveRange, CapacityAssumption DEF Store, Full, TypeOK, Slot
  <1>2. TypeOK'
    BY <1>1, StoreAdvances, CapacityAssumption DEF Store, Signal, TypeOK
  <1>3. IndexShape'
    BY <1>1, StoreAdvances DEF Store, IndexShape
  <1>4. \A i \in 1 .. count : slots'[(tail + i - 1) % Capacity] = slots[(tail + i - 1) % Capacity]
    BY <1>1, HeadIsFree DEF Store, TypeOK
  <1>5. slots'[(tail + (count + 1) - 1) % Capacity] = e
    <2>1. tail + (count + 1) - 1 = tail + count
      BY CapacityAssumption DEF TypeOK, Slot
    <2>2. QED
      BY <1>1, <2>1 DEF Store, IndexShape, TypeOK
  <1>6. SlotsFilled'
    BY <1>4, <1>5 DEF Store, SlotsFilled, TypeOK
  <1>7. LowBelowReserve'
    <2> SUFFICES ASSUME NEW i \in 1 .. count + 1,
                        ~event_is_priority(slots'[(tail + i - 1) % Capacity])
                 PROVE  i <= Capacity - priority_reserve
      BY DEF LowBelowReserve, Contents, Store
    <2>1. CASE i <= count
      <3>1. i \in 1 .. count
        BY <2>1 DEF TypeOK
      <3>2. QED
        BY <3>1, <1>4 DEF LowBelowReserve, Contents
    <2>2. CASE i = count + 1
      BY <2>2, <1>5, ReserveRange, CapacityAssumption DEF Store, Full, TypeOK
    <2>3. QED
      BY <2>1, <2>2 DEF TypeOK
  <1>8. HandShape' /\ NoLostWakeup'
    BY DEF Store, Signal, HandShape, NoLostWakeup, TypeOK
  <1>9. QED
    BY <1>2, <1>3, <1>6, <1>7, <1>8
\* event_writer popping the oldest event keeps the invariant: what is left moves
\* one place forward, away from the reserve.
LEMMA TakeInv ==
    ASSUME Inv, WriterTake
    PROVE  Inv'
  <1> USE DEF Inv
  <1>1. count > 0 /\ count \in 1 .. Capacity
    BY DEF WriterTake, TypeOK
  <1>2. slots[tail] \in Event
    <2>1. (tail + 1 - 1) % Capacity = tail
      BY CapacityAssumption DEF TypeOK, Slot
    <2>2. QED
      BY <1>1, <2>1 DEF SlotsFilled
  <1>3. TypeOK'
    <2>1. count - 1 \in 0 .. Capacity /\ NextSlot(tail) \in Slot
      BY <1>1, TakeAdvances, CapacityAssumption
    <2>2. QED
      BY <1>2, <2>1 DEF WriterTake, TypeOK
  <1>4. IndexShape'
    BY <1>1, TakeAdvances DEF WriterTake, IndexShape
  <1>5. \A i \in 1 .. count' :
          /\ i + 1 \in 1 .. count
          /\ slots'[(tail' + i - 1) % Capacity] = slots[(tail + (i + 1) - 1) % Capacity]
    <2> SUFFICES ASSUME NEW i \in 1 .. count - 1
                 PROVE  /\ i + 1 \in 1 .. count
                        /\ slots[(NextSlot(tail) + i - 1) % Capacity]
                             = slots[(tail + (i + 1) - 1) % Capacity]
      BY DEF WriterTake
    <2>1. i \in 1 .. Capacity /\ i + 1 \in 1 .. count
      BY <1>1, CapacityAssumption
    <2>2. QED
      BY <2>1, PopShifts
  <1>6. SlotsFilled'
    BY <1>5 DEF SlotsFilled
  <1>7. LowBelowReserve'
    BY <1>5, ReserveRange, CapacityAssumption DEF LowBelowReserve, Contents, TypeOK
  <1>8. HandShape' /\ NoLostWakeup'
    BY <1>2, NoEventAssumption DEF WriterTake, HandShape, NoLostWakeup
  <1>9. QED
    BY <1>3, <1>4, <1>6, <1>7, <1>8

\* A step that leaves the array alone keeps what the invariant says of it.
LEMMA ArrayUnchanged ==
    ASSUME Inv, UNCHANGED <<slots, head, tail, count>>
    PROVE  IndexShape' /\ SlotsFilled' /\ LowBelowReserve'
  BY DEF Inv, IndexShape, SlotsFilled, LowBelowReserve, Contents

\* Every critical section of the two threads keeps the invariant.
LEMMA StepInv == Inv /\ [Next]_vars => Inv'
  <1> SUFFICES ASSUME Inv, [Next]_vars PROVE Inv'
    OBVIOUS
  <1>1. ASSUME NEW e \in Event, Refuse(e) PROVE Inv'
    BY <1>1, ArrayUnchanged DEF Refuse, vars, Inv, TypeOK, HandShape, NoLostWakeup
  <1>2. ASSUME NEW e \in Event, Drop(e) PROVE Inv'
    BY <1>2, ArrayUnchanged DEF Drop, Inv, TypeOK, HandShape, NoLostWakeup
  <1>3. ASSUME NEW e \in Event, Store(e) PROVE Inv'
    BY <1>3, StoreInv
  <1>4. CASE Stop
    BY <1>4, ArrayUnchanged DEF Stop, Signal, Inv, TypeOK, HandShape, NoLostWakeup
  <1>5. CASE WriterSpuriousWake
    BY <1>5, ArrayUnchanged DEF WriterSpuriousWake, Inv, TypeOK, HandShape, NoLostWakeup
  <1>6. CASE WriterSleep
    BY <1>6, ArrayUnchanged DEF WriterSleep, Inv, TypeOK, HandShape, NoLostWakeup
  <1>7. CASE WriterLeave
    BY <1>7, ArrayUnchanged DEF WriterLeave, Inv, TypeOK, HandShape, NoLostWakeup
  <1>8. CASE WriterTake
    BY <1>8, TakeInv
  <1>9. CASE WriterWrote
    BY <1>9, ArrayUnchanged DEF WriterWrote, Inv, TypeOK, HandShape, NoLostWakeup
  <1>10. CASE WriterFlushed
    BY <1>10, ArrayUnchanged DEF WriterFlushed, Inv, TypeOK, HandShape, NoLostWakeup
  <1>11. CASE WriterFailed
    BY <1>11, ArrayUnchanged DEF WriterFailed, Inv, TypeOK, HandShape, NoLostWakeup
  <1>12. CASE WriterGiveUp
    BY <1>12, ArrayUnchanged DEF WriterGiveUp, Inv, TypeOK, HandShape, NoLostWakeup
  <1>13. CASE UNCHANGED vars
    BY <1>13, ArrayUnchanged DEF vars, Inv, TypeOK, HandShape, NoLostWakeup
  <1>14. QED
    BY <1>1, <1>2, <1>3, <1>4, <1>5, <1>6, <1>7, <1>8, <1>9, <1>10, <1>11, <1>12, <1>13
       DEF Next, WriterStep

\* The inductive invariant holds throughout, for every capacity of the queue.
THEOREM QueueInvariant == Spec => []Inv
  BY InitInv, StepInv, PTL DEF Spec

\* Type correctness of the queue of host_events.c: indices in range, fill level
\* within the capacity, no more priority drops than drops.
THEOREM QueueTypes == Spec => []TypeOK
  <1>1. Inv => TypeOK
    BY DEF Inv
  <1>2. QED
    BY <1>1, QueueInvariant, PTL

\* The reserve computed by event_queue_start is respected by enqueue_event and
\* event_writer for every capacity: no low-priority event stands in it.
THEOREM ReserveRespected == Spec => []LowBelowReserve
  <1>1. Inv => LowBelowReserve
    BY DEF Inv
  <1>2. QED
    BY <1>1, QueueInvariant, PTL

\* The writer never sleeps on not_empty with work queued or a stop requested.
THEOREM WakeupNotLost == Spec => []NoLostWakeup
  <1>1. Inv => NoLostWakeup
    BY DEF Inv
  <1>2. QED
    BY <1>1, QueueInvariant, PTL

\* enqueue_event drops a priority event only when priority events fill the reserve.
THEOREM PriorityDropJustified == Spec => PriorityDropNeedsPriorityBacklog
  <1> DEFINE Backlog == \A i \in 1 + Capacity - priority_reserve .. Capacity :
                 i \in DOMAIN Contents /\ event_is_priority(Contents[i])
  <1>1. Inv /\ [Next]_vars => [priority_dropped' # priority_dropped => Backlog]_vars
    <2> SUFFICES ASSUME Inv, Next, priority_dropped' # priority_dropped
                 PROVE  Backlog
      BY DEF vars
    <2>1. PICK e \in Event : Drop(e)
      BY DEF Next, WriterStep, Refuse, Store, Stop, WriterSpuriousWake, WriterSleep,
             WriterLeave, WriterTake, WriterWrote, WriterFlushed, WriterFailed,
             WriterGiveUp, vars
    <2>2. event_is_priority(e) /\ count = Capacity
      BY <2>1 DEF Drop, Full, Inv, TypeOK
    <2>3. DOMAIN Contents = 1 .. Capacity
      BY <2>2 DEF Contents
    <2>4. QED
      BY <2>2, <2>3, ReserveRange, CapacityAssumption DEF Inv, LowBelowReserve
  <1>2. QED
    BY <1>1, QueueInvariant, PTL DEF Spec, PriorityDropNeedsPriorityBacklog

-----------------------------------------------------------------------------
\* The circular array implements the sequence of EventQueue.

\* Contents is a sequence of events as long as the fill level says.
LEMMA ContentsSeq ==
    ASSUME Inv
    PROVE  Contents \in Seq(Event) /\ Len(Contents) = count
  <1>1. count \in Nat
    BY CapacityAssumption DEF Inv, TypeOK
  <1>2. \A i \in 1 .. count : slots[(tail + i - 1) % Capacity] \in Event
    BY DEF Inv, SlotsFilled
  <1>3. QED
    BY <1>1, <1>2 DEF Contents

\* The two admission tests agree.
LEMMA FullIsLimit ==
    ASSUME Inv, NEW e \in Event
    PROVE  Full(e) <=> Len(Contents) >= Abstract!Limit(e)
  BY ContentsSeq, ReserveRange, CapacityAssumption
     DEF Full, Abstract!Limit, PriorityEvent, Inv, TypeOK

\* Storing at head appends to the queue: the places before it keep their events.
LEMMA StoreAppends ==
    ASSUME Inv, NEW e \in Event, Store(e)
    PROVE  Contents' = Append(Contents, e)
  <1>1. count < Capacity /\ count' = count + 1 /\ tail' = tail /\ count \in Nat
    BY ReserveRange, CapacityAssumption DEF Store, Full, Inv, TypeOK
  <1>2. \A i \in 1 .. count : Contents'[i] = Contents[i]
    BY <1>1, HeadIsFree DEF Contents, Store, Inv, TypeOK
  <1>3. Contents'[count + 1] = e
    <2>1. tail + (count + 1) - 1 = tail + count
      BY CapacityAssumption DEF Inv, TypeOK, Slot
    <2>2. slots'[(tail + count) % Capacity] = e
      BY DEF Store, Inv, IndexShape, TypeOK
    <2>3. QED
      BY <1>1, <2>1, <2>2 DEF Contents
  <1>4. Contents' \in Seq(Event) /\ Len(Contents') = count + 1
    <2>1. \A i \in 1 .. count + 1 : slots'[(tail + i - 1) % Capacity] \in Event
      BY <1>1, StoreInv DEF Inv, SlotsFilled
    <2>2. QED
      BY <1>1, <2>1 DEF Contents
  <1>5. /\ Append(Contents, e) \in Seq(Event)
        /\ Len(Append(Contents, e)) = count + 1
        /\ \A i \in 1 .. count : Append(Contents, e)[i] = Contents[i]
        /\ Append(Contents, e)[count + 1] = e
    BY <1>1, ContentsSeq
  <1>6. \A i \in 1 .. count + 1 : Contents'[i] = Append(Contents, e)[i]
    BY <1>1, <1>2, <1>3, <1>5
  <1>7. QED
    BY <1>4, <1>5, <1>6, SeqEqual

\* Reading at tail takes the oldest event and leaves the others in their order.
LEMMA TakeTail ==
    ASSUME Inv, WriterTake
    PROVE  Contents # <<>> /\ hand' = Head(Contents) /\ Contents' = Tail(Contents)
  <1>1. count \in 1 .. Capacity
    BY DEF Inv, TypeOK, WriterTake
  <1>2. Contents # <<>> /\ hand' = Head(Contents)
    <2>1. (tail + 1 - 1) % Capacity = tail
      BY CapacityAssumption DEF Inv, TypeOK, Slot
    <2>2. Contents[1] = slots[tail]
      BY <1>1, <2>1 DEF Contents
    <2>3. Contents # <<>> /\ Head(Contents) = Contents[1]
      BY <1>1, ContentsSeq
    <2>4. QED
      BY <2>2, <2>3 DEF WriterTake
  <1>3. Contents' = Tail(Contents)
    <2>1. Contents' = [i \in 1 .. count - 1 |-> slots[(NextSlot(tail) + i - 1) % Capacity]]
      BY DEF Contents, WriterTake
    <2>2. Tail(Contents) = [i \in 1 .. count - 1 |-> Contents[i + 1]]
      <3>1. /\ Tail(Contents) \in Seq(Event)
            /\ Len(Tail(Contents)) = count - 1
            /\ \A i \in 1 .. count - 1 : Tail(Contents)[i] = Contents[i + 1]
        BY <1>2, ContentsSeq, HeadTailProperties
      <3>2. Tail(Contents) \in [1 .. count - 1 -> Event]
        BY <3>1, LenProperties
      <3>3. QED
        BY <3>1, <3>2
    <2>3. ASSUME NEW i \in 1 .. count - 1
          PROVE  slots[(NextSlot(tail) + i - 1) % Capacity] = Contents[i + 1]
      <3>1. i \in 1 .. Capacity /\ i + 1 \in 1 .. count
        BY <1>1, CapacityAssumption
      <3>2. QED
        BY <3>1, PopShifts DEF Contents, Inv
    <2>4. QED
      BY <2>1, <2>2, <2>3
  <1>4. QED
    BY <1>2, <1>3

\* Storing an event is the abstract queue accepting it.
LEMMA StoreRefines ==
    ASSUME Inv, NEW e \in Event, Store(e)
    PROVE  Abstract!Accept(e)
  <1>1. ~stopping /\ Len(Contents) < Abstract!Limit(e)
    <2>1. Len(Contents) \in Int /\ Abstract!Limit(e) \in Int
      BY ContentsSeq, ReserveRange, CapacityAssumption DEF Abstract!Limit
    <2>2. QED
      BY <2>1, FullIsLimit DEF Store
  <1>2. QED
    BY <1>1, StoreAppends DEF Abstract!Accept, Store

\* Popping an event is the abstract queue handing it over.
LEMMA TakeRefines ==
    ASSUME Inv, WriterTake
    PROVE  Abstract!Take
  <1>1. hand = NoEvent
    BY DEF Inv, HandShape, WriterTake
  <1>2. QED
    BY <1>1, TakeTail DEF Abstract!Take, WriterTake

\* A step that leaves the array alone leaves the abstract queue alone.
LEMMA ContentsUnchanged ==
    ASSUME UNCHANGED <<slots, tail, count>>
    PROVE  Contents' = Contents
  BY DEF Contents

\* Every step of the two threads is a step of EventQueue or leaves it alone.
LEMMA StepRefines == Inv /\ [Next]_vars => [Abstract!Next]_(Abstract!vars)
  <1> SUFFICES ASSUME Inv, [Next]_vars PROVE Abstract!Next \/ UNCHANGED Abstract!vars
    OBVIOUS
  <1> USE ContentsUnchanged
  <1>1. ASSUME NEW e \in Event, Refuse(e) PROVE UNCHANGED Abstract!vars
    BY <1>1 DEF Refuse, vars, Abstract!vars
  <1>2. ASSUME NEW e \in Event, Drop(e) PROVE Abstract!TurnAway(e)
    BY <1>2, FullIsLimit DEF Drop, Abstract!TurnAway, PriorityEvent, Inv, TypeOK
  <1>3. ASSUME NEW e \in Event, Store(e) PROVE Abstract!Accept(e)
    BY <1>3, StoreRefines
  <1>4. CASE Stop
    BY <1>4 DEF Stop, Abstract!Close, Abstract!Next
  <1>5. CASE WriterSpuriousWake \/ WriterSleep \/ WriterLeave \/ WriterFlushed
    BY <1>5 DEF WriterSpuriousWake, WriterSleep, WriterLeave, WriterFlushed, Abstract!vars
  <1>6. CASE WriterTake
    BY <1>6, TakeRefines DEF Abstract!Next
  <1>7. CASE WriterWrote \/ WriterFailed
    BY <1>7 DEF WriterWrote, WriterFailed, Inv, HandShape, Abstract!Release, Abstract!Next
  <1>8. CASE WriterGiveUp
    BY <1>8 DEF WriterGiveUp, Abstract!Close, Abstract!Next
  <1>9. CASE UNCHANGED vars
    BY <1>9 DEF vars, Abstract!vars
  <1>10. QED
    BY <1>1, <1>2, <1>3, <1>4, <1>5, <1>6, <1>7, <1>8, <1>9
       DEF Next, WriterStep, Abstract!Next

\* The mutex-protected circular array of host_events.c is the bounded priority queue
\* of EventQueue: FIFO, reserve kept, drops counted, nothing accepted once stopping.
THEOREM QueueRefinement == Spec => RefinesEventQueue
  <1>1. Init => Abstract!Init
    <2> SUFFICES ASSUME Init PROVE Abstract!Init
      OBVIOUS
    <2>1. Contents = <<>>
      BY DEF Init, Contents
    <2>2. QED
      BY <2>1 DEF Init, Abstract!Init
  <1>2. QED
    BY <1>1, StepRefines, QueueInvariant, PTL DEF Spec, RefinesEventQueue, Abstract!Spec
=============================================================================
