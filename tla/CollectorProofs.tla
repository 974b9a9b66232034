-------------------------- MODULE CollectorProofs --------------------------
(***************************************************************************)
(* Proofs about module Collector, for every capacity, set of rings and     *)
(* bound: the two threads use the queue as module WriterQueue says, so its *)
(* proved properties hold in the collector; all state keeps its type; the  *)
(* exit status fails only after the sink did; stopping costs at most one   *)
(* consumed sample; every sample meets exactly one fate, and the stream is *)
(* in order and, without a fault of the sink, complete.                    *)
(***************************************************************************)
EXTENDS Collector, SequenceTheorems, FiniteSetTheorems, TLAPS

QP == INSTANCE WriterQueueProofs WITH Event <- Record

-----------------------------------------------------------------------------
\* The two instances of WriterQueue are the same state machine.
LEMMA SameInit == Queue!Init => QP!Init
  BY DEF Queue!Init, QP!Init, Queue!Slot, QP!Slot

\* A step of the queue the collector uses is a step of the queue proved about.
LEMMA SameStep == [Queue!Next]_queueVars => [QP!Next]_(QP!vars)
  <1> USE DEF Queue!Full, QP!Full, Queue!event_is_priority, QP!event_is_priority,
              Queue!PriorityType, QP!PriorityType, Queue!priority_reserve,
              QP!priority_reserve, Queue!Signal, QP!Signal, Queue!NextSlot, QP!NextSlot
  <1>1. ASSUME NEW e \in Record
        PROVE  /\ Queue!Refuse(e) => QP!Refuse(e)
               /\ Queue!Drop(e) => QP!Drop(e)
               /\ Queue!Store(e) => QP!Store(e)
    BY DEF Queue!Refuse, QP!Refuse, Queue!Drop, QP!Drop, Queue!Store, QP!Store,
           Queue!vars, QP!vars
  <1>2. Queue!Stop => QP!Stop
    BY DEF Queue!Stop, QP!Stop
  <1>3. Queue!WriterSpuriousWake => QP!WriterSpuriousWake
    BY DEF Queue!WriterSpuriousWake, QP!WriterSpuriousWake
  <1>4. Queue!WriterStep => QP!WriterStep
    BY DEF Queue!WriterStep, QP!WriterStep, Queue!WriterSleep, QP!WriterSleep,
           Queue!WriterLeave, QP!WriterLeave, Queue!WriterTake, QP!WriterTake,
           Queue!WriterWrote, QP!WriterWrote, Queue!WriterFlushed, QP!WriterFlushed,
           Queue!WriterFailed, QP!WriterFailed, Queue!WriterGiveUp, QP!WriterGiveUp
  <1>5. QED
    BY <1>1, <1>2, <1>3, <1>4, Zenon DEF Queue!Next, QP!Next, QP!vars, queueVars

\* What the queue proofs establish, in the words of the instance the collector uses.
LEMMA QueueFacts ==
    ASSUME QP!Inv
    PROVE  /\ Queue!TypeOK
           /\ Queue!LowBelowReserve
           /\ Queue!NoLostWakeup
           /\ writer = "write" => hand \in Record
  <1>1. Queue!TypeOK
    BY DEF QP!Inv, QP!TypeOK, Queue!TypeOK, QP!Slot, Queue!Slot
  <1>2. Queue!LowBelowReserve
    BY DEF QP!Inv, QP!LowBelowReserve, Queue!LowBelowReserve, QP!Contents, Queue!Contents,
           QP!event_is_priority, Queue!event_is_priority, QP!PriorityType,
           Queue!PriorityType, QP!priority_reserve, Queue!priority_reserve
  <1>3. Queue!NoLostWakeup
    BY DEF QP!Inv, QP!NoLostWakeup, Queue!NoLostWakeup
  <1>4. writer = "write" => hand \in Record
    BY DEF QP!Inv, QP!TypeOK, QP!HandShape
  <1>5. QED
    BY <1>1, <1>2, <1>3, <1>4

-----------------------------------------------------------------------------
\* A sample at the front of the ring that libbpf processes is a sample.
LEMMA IncomingIsSample ==
    ASSUME TypeOK, ~RingDone
    PROVE  Incoming \in Sample /\ cur \in Rings /\ Tail(ring[cur]) \in Seq(Sample)
  <1>1. cur \in Rings /\ ring[cur] \in Seq(Sample) /\ ring[cur] # <<>>
    BY DEF TypeOK, RingDone
  <1>2. QED
    BY <1>1, HeadTailProperties DEF Incoming

\* prepare_health_event makes a HEALTH record of the counters.
LEMMA HealthIsRecord ==
    ASSUME TypeOK
    PROVE  prepare_health_event \in Health
  BY DEF TypeOK, Queue!TypeOK, prepare_health_event, Health

\* Every step of the collector is a step of the queue, or leaves the queue alone.
LEMMA QueueStep == TypeOK /\ [Next]_vars => [Queue!Next]_queueVars
  <1> SUFFICES ASSUME TypeOK, [Next]_vars
               PROVE  [Queue!Next]_queueVars
    OBVIOUS
  <1>1. CASE CallbackStored \/ CallbackDropped \/ CallbackRefused
    <2>1. Incoming \in Record
      BY <1>1, IncomingIsSample
         DEF CallbackStored, CallbackDropped, CallbackRefused, Consume, Record
    <2>2. Queue!Store(Incoming) \/ Queue!Drop(Incoming) \/ Queue!Refuse(Incoming)
      BY <1>1 DEF CallbackStored, CallbackDropped, CallbackRefused
    <2>3. QED
      BY <2>1, <2>2, Zenon DEF Queue!Next
  <1>2. CASE HealthDue
    <2>1. prepare_health_event \in Record
      BY HealthIsRecord DEF Record
    <2>2. Queue!Next
      BY <1>2, <2>1, Zenon DEF HealthDue, Queue!Next
    <2>3. QED
      BY <2>2
  <1>3. CASE Finish
    BY <1>3 DEF Finish, Queue!Next
  <1>4. CASE WriterStep
    BY <1>4, Zenon DEF WriterStep, WriterQueueStep, WriterWrites, WriterFails, WriterFlushes,
                Queue!Next, Queue!WriterStep
  <1>5. CASE WriterSpuriousWake
    BY <1>5, Zenon DEF WriterSpuriousWake, Queue!Next
  <1>6. CASE UNCHANGED queueVars
    BY <1>6
  <1>7. ASSUME NEW r \in Rings, NEW t \in SampleType, Produce(r, t)
        PROVE  UNCHANGED queueVars
    BY <1>7, Zenon DEF Produce
  <1>8. ASSUME NEW r \in Rings, NextRing(r)
        PROVE  UNCHANGED queueVars
    BY <1>8, Zenon DEF NextRing
  <1>9. \/ handle_signal \/ LoopTest \/ EpollInterrupted \/ EpollTimeout \/ EpollReady
        \/ PollReturns \/ CallbackInterrupted \/ CallbackInvalid \/ CheckPoll
        \/ HealthNotDue \/ Joined \/ FinalHealth \/ FinalFlush \/ Cleanup \/ Terminated
        \/ UNCHANGED vars
        => UNCHANGED queueVars
    BY Zenon DEF handle_signal, LoopTest, EpollInterrupted, EpollTimeout, EpollReady,
           PollReturns, CallbackInterrupted, CallbackInvalid, CheckPoll, HealthNotDue,
           Joined, FinalHealth, FinalFlush, Cleanup, Terminated, vars
  <1>10. QED
    BY <1>1, <1>2, <1>3, <1>4, <1>5, <1>6, <1>7, <1>8, <1>9, Zenon DEF Next, MainStep

-----------------------------------------------------------------------------
\* The part of TypeOK that is about the output stream.
OutputTyped ==
    /\ output_error \in {-EIO, 0}
    /\ unflushed \in BOOLEAN
    /\ buf \in Seq(Record) /\ out \in Seq(Record)
    /\ faults \in 0 .. MaxFaults
    /\ sunk \subseteq Sample

\* A failing sink leaves the stream well-formed and is counted.
LEMMA SinkFailsTyped ==
    ASSUME OutputTyped, NEW more, SinkFails(more)
    PROVE  /\ buf' \in Seq(Record) /\ out' \in Seq(Record)
           /\ faults' \in 0 .. MaxFaults /\ faults' > 0 /\ faults' >= faults
           /\ sunk' \subseteq Sample
  <1>1. PICK k \in 0 .. Len(buf) :
           /\ out' = out \o SubSeq(buf, 1, k)
           /\ sunk' = sunk \cup Samples(SubSeq(buf, k + 1, Len(buf)) \o more)
    BY DEF SinkFails
  <1>2. Len(buf) \in Nat /\ \A i \in 1 .. Len(buf) : buf[i] \in Record
    BY LenProperties, ElementOfSeq DEF OutputTyped
  <1>3. SubSeq(buf, 1, k) \in Seq(Record)
    BY <1>2, SubSeqProperties DEF OutputTyped
  <1>4. out' \in Seq(Record)
    BY <1>1, <1>3, ConcatProperties DEF OutputTyped
  <1>5. sunk' \subseteq Sample
    BY <1>1 DEF Samples, OutputTyped
  <1>6. buf' \in Seq(Record) /\ faults' \in 0 .. MaxFaults /\ faults' > 0 /\ faults' >= faults
    BY CollectorAssumption DEF SinkFails, OutputTyped
  <1>7. QED
    BY <1>4, <1>5, <1>6

\* Writing a record and flushing keep the stream well-formed; an output error is
\* never invented.
LEMMA OutputStep ==
    ASSUME OutputTyped, NEW e \in Record,
           WriteReturnsZero(e) \/ WriteFails(e) \/ FlushForced \/ UNCHANGED outputVars
    PROVE  /\ OutputTyped'
           /\ faults' >= faults
           /\ output_error' # 0 => output_error # 0 \/ faults' > 0
  <1> DEFINE Failed == /\ buf' \in Seq(Record) /\ out' \in Seq(Record)
                       /\ faults' \in 0 .. MaxFaults /\ faults' > 0 /\ faults' >= faults
                       /\ sunk' \subseteq Sample
  <1>1. CASE WriteReturnsZero(e)
    <2>1. CASE buf' = Append(buf, e) /\ UNCHANGED <<out, faults, sunk>>
      BY <1>1, <2>1, AppendProperties, CollectorAssumption DEF WriteReturnsZero, OutputTyped
    <2>2. CASE SinkFails(<<e>>)
      <3>1. Failed
        BY <2>2, SinkFailsTyped
      <3>2. QED
        BY <1>1, <3>1 DEF WriteReturnsZero, OutputTyped
    <2>3. QED
      BY <1>1, <2>1, <2>2 DEF WriteReturnsZero
  <1>2. CASE WriteFails(e)
    <2>1. Failed
      BY <1>2, SinkFailsTyped DEF WriteFails
    <2>2. QED
      BY <1>2, <2>1 DEF WriteFails, OutputTyped
  <1>3. CASE FlushForced
    <2>1. CASE UNCHANGED outputVars
      BY <2>1, CollectorAssumption DEF OutputTyped, outputVars
    <2>2. CASE out' = out \o buf /\ buf' = <<>> /\ unflushed' = FALSE
               /\ UNCHANGED <<output_error, faults, sunk>>
      <3>1. out' \in Seq(Record)
        BY <2>2, ConcatProperties DEF OutputTyped
      <3>2. QED
        <4>1. faults \in Nat /\ faults' = faults /\ output_error' = output_error
          BY <2>2, CollectorAssumption DEF OutputTyped
        <4>2. buf' \in Seq(Record) /\ unflushed' \in BOOLEAN
          <5>1. unflushed' \in BOOLEAN
            BY <2>2, Zenon
          <5>2. buf' \in Seq(Record)
            BY <2>2, EmptySeq
          <5>3. QED
            BY <5>1, <5>2
        <4>3. sunk' \subseteq Sample
          BY <2>2, Zenon DEF OutputTyped
        <4>4. QED
          BY <3>1, <4>1, <4>2, <4>3 DEF OutputTyped
    <2>3. CASE SinkFails(<<>>) /\ output_error' = -EIO /\ unflushed' = FALSE
      <3>1. Failed
        BY <2>3, SinkFailsTyped
      <3>2. QED
        BY <2>3, <3>1 DEF OutputTyped
    <2>4. QED
      BY <1>3, <2>1, <2>2, <2>3 DEF FlushForced, FlushNow
  <1>4. CASE UNCHANGED outputVars
    BY <1>4, CollectorAssumption DEF OutputTyped, outputVars
  <1>5. QED
    BY <1>1, <1>2, <1>3, <1>4

-----------------------------------------------------------------------------
\* The part of TypeOK that is about the rings and the main thread.
MainTyped ==
    /\ ring \in [Rings -> Seq(Sample)]
    /\ lost \in Nat /\ produced \in 0 .. MaxSamples
    /\ stop \in BOOLEAN
    /\ main \in {"loop", "poll", "drain", "check", "health", "finish", "join",
                 "final", "flush", "cleanup", "exit"}
    /\ ready \subseteq Rings
    /\ cur \in Rings \cup {NoEvent}
    /\ error \in {-EIO, -EINTR, 0, 1}
    /\ healths \in 0 .. MaxHealth /\ polls \in Nat
    /\ consumed \subseteq Sample /\ discarded \subseteq Sample
    /\ refused \subseteq Sample

\* TypeOK is the conjunction of its three parts.
LEMMA TypeParts == TypeOK <=> Queue!TypeOK /\ MainTyped /\ OutputTyped
  BY DEF TypeOK, MainTyped, OutputTyped

\* The sensors' and the callback's steps keep the rings and the main thread typed.
LEMMA CallbackTyped ==
    ASSUME TypeOK, Consume,
           \/ CallbackInterrupted \/ CallbackInvalid \/ CallbackStored
           \/ CallbackDropped \/ CallbackRefused
    PROVE  MainTyped'
  <1>1. Incoming \in Sample /\ cur \in Rings /\ Tail(ring[cur]) \in Seq(Sample)
    BY IncomingIsSample DEF Consume
  <1>2. ring' \in [Rings -> Seq(Sample)]
    BY <1>1 DEF Consume, TypeOK
  <1>3. consumed' \subseteq Sample
    BY <1>1 DEF Consume, TypeOK
  <1>4. /\ discarded' \subseteq Sample /\ refused' \subseteq Sample
        /\ error' \in {-EIO, -EINTR, 0, 1}
        /\ ready' \subseteq Rings /\ cur' \in Rings \cup {NoEvent}
        /\ main' \in {main, "check"}
    BY <1>1 DEF CallbackInterrupted, CallbackInvalid, CallbackStored, CallbackDropped,
                CallbackRefused, CallbackError, CallbackOk, GoTo, TypeOK
  <1>5. QED
    BY <1>2, <1>3, <1>4 DEF MainTyped, TypeOK, Consume

\* Producing a sample keeps the ring a sequence of samples.
LEMMA ProduceTyped ==
    ASSUME TypeOK, NEW r \in Rings, NEW t \in SampleType, Produce(r, t)
    PROVE  MainTyped'
  <1> DEFINE s == [type |-> t, ring |-> r, n |-> produced']
             q == Append(ring[r], s)
  <1>1. produced' \in 0 .. MaxSamples /\ s \in Sample
    BY SampleTypeAssumption, CollectorAssumption DEF Produce, TypeOK, Sample
  <1>2. q \in Seq(Sample)
    BY <1>1, AppendProperties DEF TypeOK
  <1>3. ring' \in [Rings -> Seq(Sample)] /\ lost' \in Nat
    <2>1. \/ ring' = [ring EXCEPT ![r] = q] /\ lost' = lost
          \/ ring' = ring /\ lost' = lost + 1
      BY Zenon DEF Produce
    <2> HIDE DEF q
    <2>2. lost \in Nat /\ ring \in [Rings -> Seq(Sample)]
      BY DEF TypeOK
    <2>3. [ring EXCEPT ![r] = q] \in [Rings -> Seq(Sample)]
      BY <1>2, <2>2
    <2>4. QED
      BY <2>1, <2>2, <2>3
  <1>4. UNCHANGED <<stop, mainVars, fateVars>>
    BY Zenon DEF Produce
  <1>5. QED
    <2> HIDE DEF s, q
    <2> QED BY <1>1, <1>3, <1>4, TypeParts DEF MainTyped, mainVars, fateVars

\* Every other step of the main thread keeps its own state typed.
LEMMA MainTypedStep ==
    ASSUME TypeOK, QP!Inv, [Next]_vars
    PROVE  MainTyped'
  <1>1. CASE CallbackInterrupted \/ CallbackInvalid \/ CallbackStored
             \/ CallbackDropped \/ CallbackRefused
    BY <1>1, CallbackTyped DEF CallbackInterrupted, CallbackInvalid, CallbackStored,
       CallbackDropped, CallbackRefused
  <1>2. CASE \E r \in Rings, t \in SampleType : Produce(r, t)
    BY <1>2, ProduceTyped
  <1>3. CASE handle_signal
    BY <1>3 DEF handle_signal, TypeOK, MainTyped, kernelVars, mainVars, fateVars
  <1> USE DEF TypeOK, MainTyped, kernelVars, mainVars, fateVars, GoTo
  <1>4. CASE LoopTest \/ EpollInterrupted \/ EpollTimeout \/ EpollReady
    BY <1>4 DEF LoopTest, EpollInterrupted, EpollTimeout, EpollReady
  <1>5. CASE PollReturns \/ \E r \in Rings : NextRing(r)
    BY <1>5 DEF NextRing, PollReturns
  <1>6. CASE CheckPoll
    BY <1>6 DEF CheckPoll
  <1>7. CASE HealthNotDue \/ HealthDue
    <2>1. healths' \in 0 .. MaxHealth /\ polls' \in Nat /\ main' \in {"finish", "loop"}
      BY <1>7, CollectorAssumption DEF HealthNotDue, HealthDue, LoopEnd
    <2>2. UNCHANGED <<kernelVars, stop, ready, cur, error, fateVars>>
      BY <1>7, Zenon DEF HealthNotDue, HealthDue
    <2>3. QED
      BY <2>1, <2>2
  <1>8. CASE Finish \/ Joined \/ FinalHealth \/ FinalFlush \/ Cleanup
    BY <1>8 DEF Finish, Joined, FinalHealth, FinalFlush, Cleanup
  <1>9. CASE WriterStep \/ WriterSpuriousWake
    BY <1>9 DEF WriterStep, WriterSpuriousWake, WriterQueueStep, WriterWrites, WriterFails,
                WriterFlushes
  <1>10. CASE Terminated \/ UNCHANGED vars
    BY <1>10 DEF Terminated, vars
  <1>11. QED
    BY <1>1, <1>2, <1>3, <1>4, <1>5, <1>6, <1>7, <1>8, <1>9, <1>10 DEF Next, MainStep

\* Every step keeps the output stream typed, never un-counts a sink failure, and
\* raises output_error only with one.
LEMMA OutputTypedStep ==
    ASSUME TypeOK, QP!Inv, [Next]_vars
    PROVE  /\ OutputTyped'
           /\ faults' >= faults
           /\ output_error' # 0 => output_error # 0 \/ faults' > 0
  <1>1. OutputTyped
    BY TypeParts
  <1>2. CASE UNCHANGED outputVars
    BY <1>1, <1>2, HealthIsRecord, OutputStep DEF Record
  <1>3. CASE WriterStep
    <2>1. CASE WriterWrites \/ WriterFails
      <3>1. hand \in Record
        BY <2>1, QueueFacts DEF WriterWrites, WriterFails, Queue!WriterWrote, Queue!WriterFailed
      <3>2. QED
        BY <1>1, <2>1, <3>1, OutputStep DEF WriterWrites, WriterFails
    <2>2. CASE WriterFlushes
      BY <1>1, <1>2, <2>2, HealthIsRecord, OutputStep DEF WriterFlushes, FlushBatched, Record
    <2>3. CASE WriterQueueStep
      BY <1>2, <2>3, Zenon DEF WriterQueueStep
    <2>4. QED
      BY <1>3, <2>1, <2>2, <2>3 DEF WriterStep
  <1>4. CASE FinalHealth
    <2>1. prepare_health_event \in Record
      BY HealthIsRecord DEF Record
    <2>2. QED
      BY <1>1, <1>4, <2>1, OutputStep DEF FinalHealth
  <1>5. CASE FinalFlush
    <2>1. prepare_health_event \in Record
      BY HealthIsRecord DEF Record
    <2>2. QED
      BY <1>1, <1>5, <2>1, OutputStep DEF FinalFlush
  <1>6. ASSUME NEW r \in Rings, NEW t \in SampleType, Produce(r, t)
        PROVE  UNCHANGED outputVars
    BY <1>6, Zenon DEF Produce
  <1>7. ASSUME NEW r \in Rings, NextRing(r)
        PROVE  UNCHANGED outputVars
    BY <1>7, Zenon DEF NextRing
  <1>8. CallbackInterrupted \/ CallbackInvalid \/ CallbackStored \/ CallbackDropped
        \/ CallbackRefused => UNCHANGED outputVars
    BY Zenon DEF CallbackInterrupted, CallbackInvalid, CallbackStored, CallbackDropped,
                 CallbackRefused, Consume
  <1>9. \/ handle_signal \/ LoopTest \/ EpollInterrupted \/ EpollTimeout \/ EpollReady
        \/ PollReturns \/ CheckPoll \/ HealthNotDue \/ HealthDue \/ Finish \/ Joined
        \/ Cleanup \/ WriterSpuriousWake \/ Terminated \/ UNCHANGED vars
        => UNCHANGED outputVars
    BY Zenon DEF handle_signal, LoopTest, EpollInterrupted, EpollTimeout, EpollReady,
                 PollReturns, CheckPoll, HealthNotDue, HealthDue, Finish, Joined, Cleanup,
                 WriterSpuriousWake, Terminated, vars
  <1>10. QED
    BY <1>2, <1>3, <1>4, <1>5, <1>6, <1>7, <1>8, <1>9, Zenon DEF Next, MainStep

-----------------------------------------------------------------------------
\* Where a failing status can come from, and that EINTR never outlives the check
\* after the poll; a closed queue before shutdown means that the writer failed.
StatusInv ==
    /\ error = -EIO \/ output_error # 0 \/ writer = "failed" => faults > 0
    /\ error = -EINTR => main = "check"
    /\ stopping => faults > 0 \/ main \in {"join", "final", "flush", "cleanup", "exit"}

\* After a callback error the main thread never returns to the rings.
RefusedInv ==
    /\ \A x, y \in refused : x = y
    /\ refused # {} => /\ main \notin {"loop", "poll", "drain", "health"}
                       /\ main = "check" => error < 0

\* The inductive invariant: types, the queue's own invariant, and the two above.
CollectorInv == TypeOK /\ QP!Inv /\ StatusInv /\ RefusedInv

\* main enters the loop with an empty queue, no error and nothing refused.
LEMMA CollectorInit == Init => CollectorInv
  <1> SUFFICES ASSUME Init PROVE CollectorInv
    OBVIOUS
  <1>1. QP!Inv
    BY SameInit, QP!InitInv, QueueAssumption DEF Init
  <1>2. Queue!TypeOK
    BY <1>1, QueueFacts
  <1>3. MainTyped
    <2>1. <<>> \in Seq(Sample)
      BY EmptySeq
    <2>2. ring \in [Rings -> Seq(Sample)]
      BY <2>1, Zenon DEF Init
    <2>3. produced = 0 /\ lost = 0 /\ healths = 0 /\ polls = 0 /\ error = 0 /\ main = "loop"
          /\ ready = {} /\ cur = NoEvent /\ stop \in BOOLEAN
          /\ consumed = {} /\ discarded = {} /\ refused = {}
      BY Zenon DEF Init
    <2>4. QED
      BY <2>2, <2>3, CollectorAssumption DEF MainTyped
  <1>4. OutputTyped
    <2>1. <<>> \in Seq(Record)
      BY EmptySeq
    <2>2. buf \in Seq(Record) /\ out \in Seq(Record)
      BY <2>1, Zenon DEF Init
    <2>3. output_error = 0 /\ faults = 0 /\ unflushed \in BOOLEAN /\ sunk = {}
      BY Zenon DEF Init
    <2>4. QED
      BY <2>2, <2>3, CollectorAssumption DEF OutputTyped
  <1>5. StatusInv /\ RefusedInv
    BY DEF Init, Queue!Init, StatusInv, RefusedInv, EIO, EINTR
  <1>6. QED
    BY <1>1, <1>2, <1>3, <1>4, <1>5, TypeParts DEF CollectorInv

\* Every step keeps the account of where a failing status comes from.
LEMMA StatusStep ==
    ASSUME CollectorInv, [Next]_vars, OutputTyped',
           faults' >= faults, output_error' # 0 => output_error # 0 \/ faults' > 0
    PROVE  StatusInv'
  <1>1. /\ StatusInv /\ faults \in Nat /\ faults' \in Nat /\ faults' >= faults
        /\ output_error' # 0 => output_error # 0 \/ faults' > 0
        /\ error \in {-EIO, -EINTR, 0, 1} /\ output_error \in {-EIO, 0}
    BY CollectorAssumption DEF CollectorInv, TypeOK, OutputTyped
  <1> USE DEF StatusInv, EIO, EINTR, GoTo
  <1>2. CASE UNCHANGED <<queueVars, main, error>>
    BY <1>1, <1>2 DEF queueVars
  <1>3. CASE CallbackInterrupted \/ CallbackInvalid
    BY <1>1, <1>3 DEF CallbackInterrupted, CallbackInvalid, Consume, CallbackError,
                      CallbackOk, queueVars
  <1>4. CASE CallbackStored \/ CallbackDropped \/ CallbackRefused
    BY <1>1, <1>4 DEF CallbackStored, CallbackDropped, CallbackRefused, Consume,
                      CallbackError, CallbackOk, Queue!Store, Queue!Drop, Queue!Refuse,
                      Queue!Signal, Queue!vars, outputVars
  <1>5. CASE LoopTest \/ EpollInterrupted \/ EpollTimeout \/ EpollReady \/ PollReturns
             \/ CheckPoll \/ HealthNotDue
    BY <1>1, <1>5 DEF LoopTest, EpollInterrupted, EpollTimeout, EpollReady, PollReturns,
                      CheckPoll, HealthNotDue, LoopEnd, queueVars, outputVars
  <1>6. CASE HealthDue
    BY <1>1, <1>6 DEF HealthDue, LoopEnd, Queue!Store, Queue!Drop, Queue!Refuse,
                      Queue!Signal, Queue!vars
  <1>7. CASE Finish
    BY <1>1, <1>7 DEF Finish, Queue!Stop, Queue!Signal
  <1>8. CASE Joined \/ FinalHealth \/ FinalFlush \/ Cleanup
    BY <1>1, <1>8 DEF Joined, FinalHealth, FinalFlush, Cleanup, queueVars, outputVars
  <1>9. CASE WriterQueueStep
    BY <1>1, <1>9 DEF WriterQueueStep, Queue!WriterSleep, Queue!WriterLeave,
                      Queue!WriterTake, Queue!WriterGiveUp, mainVars, outputVars
  <1>10. CASE WriterWrites \/ WriterFlushes \/ WriterSpuriousWake
    BY <1>1, <1>10 DEF WriterWrites, WriterFlushes, WriterSpuriousWake, Queue!WriterWrote,
                       Queue!WriterFlushed, Queue!WriterSpuriousWake, mainVars
  <1>11. CASE WriterFails
    BY <1>1, <1>11 DEF WriterFails, Queue!WriterFailed, WriteFails, SinkFails, mainVars
  <1>12. ASSUME NEW r \in Rings, NEW t \in SampleType, Produce(r, t)
         PROVE  UNCHANGED <<queueVars, main, error>>
    BY <1>12, Zenon DEF Produce, mainVars
  <1>13. ASSUME NEW r \in Rings, NextRing(r)
         PROVE  UNCHANGED <<queueVars, main, error>>
    BY <1>13, Zenon DEF NextRing
  <1>14. handle_signal \/ Terminated \/ UNCHANGED vars => UNCHANGED <<queueVars, main, error>>
    BY Zenon DEF handle_signal, Terminated, vars, mainVars
  <1>15. QED
    BY <1>2, <1>3, <1>4, <1>5, <1>6, <1>7, <1>8, <1>9, <1>10, <1>11, <1>12, <1>13, <1>14,
       Zenon DEF Next, MainStep, WriterStep

\* Every step keeps at most one sample refused.
LEMMA RefusedStep ==
    ASSUME CollectorInv, [Next]_vars
    PROVE  RefusedInv'
  <1>1. RefusedInv /\ error \in {-EIO, -EINTR, 0, 1}
    BY DEF CollectorInv, TypeOK
  <1> USE DEF RefusedInv, EIO, EINTR, GoTo
  <1>2. CASE UNCHANGED <<refused, main, error>>
    BY <1>1, <1>2
  <1>3. CASE CallbackInterrupted \/ CallbackRefused
    BY <1>1, <1>3 DEF CallbackInterrupted, CallbackRefused, Consume, CallbackError
  <1>4. CASE CallbackInvalid \/ CallbackStored \/ CallbackDropped
    BY <1>1, <1>4 DEF CallbackInvalid, CallbackStored, CallbackDropped, Consume, CallbackOk
  <1>5. CASE LoopTest \/ EpollInterrupted \/ EpollTimeout \/ EpollReady \/ PollReturns
             \/ CheckPoll \/ HealthNotDue \/ HealthDue
    BY <1>1, <1>5 DEF LoopTest, EpollInterrupted, EpollTimeout, EpollReady, PollReturns,
                      CheckPoll, HealthNotDue, HealthDue, LoopEnd, fateVars
  <1>6. CASE Finish \/ Joined \/ FinalHealth \/ FinalFlush \/ Cleanup
    BY <1>1, <1>6 DEF Finish, Joined, FinalHealth, FinalFlush, Cleanup, fateVars
  <1>7. CASE WriterStep \/ WriterSpuriousWake
    BY <1>2, <1>7, Zenon DEF WriterStep, WriterQueueStep, WriterWrites, WriterFails,
                       WriterFlushes, WriterSpuriousWake, mainVars, fateVars
  <1>8. ASSUME NEW r \in Rings, NEW t \in SampleType, Produce(r, t)
        PROVE  UNCHANGED <<refused, main, error>>
    BY <1>8, Zenon DEF Produce, mainVars, fateVars
  <1>9. ASSUME NEW r \in Rings, NextRing(r)
        PROVE  UNCHANGED <<refused, main, error>>
    BY <1>9, Zenon DEF NextRing, fateVars
  <1>10. handle_signal \/ Terminated \/ UNCHANGED vars => UNCHANGED <<refused, main, error>>
    BY Zenon DEF handle_signal, Terminated, vars, mainVars, fateVars
  <1>11. QED
    BY <1>2, <1>3, <1>4, <1>5, <1>6, <1>7, <1>8, <1>9, <1>10, Zenon DEF Next, MainStep

\* Every step of either thread, the sensors or the signal handler keeps the invariant.
LEMMA CollectorStep == CollectorInv /\ [Next]_vars => CollectorInv'
  <1> SUFFICES ASSUME CollectorInv, [Next]_vars PROVE CollectorInv'
    OBVIOUS
  <1>1. TypeOK /\ QP!Inv
    BY DEF CollectorInv
  <1>2. QP!Inv'
    BY <1>1, QueueStep, SameStep, QP!StepInv, QueueAssumption
  <1>3. Queue!TypeOK'
    BY <1>2 DEF QP!Inv, QP!TypeOK, Queue!TypeOK, QP!Slot, Queue!Slot
  <1>4. MainTyped'
    BY <1>1, MainTypedStep
  <1>5. /\ OutputTyped'
        /\ faults' >= faults
        /\ output_error' # 0 => output_error # 0 \/ faults' > 0
    BY <1>1, OutputTypedStep
  <1>6. StatusInv'
    BY <1>5, StatusStep
  <1>7. RefusedInv'
    BY RefusedStep
  <1>8. TypeOK'
    BY <1>3, <1>4, <1>5 DEF TypeOK, MainTyped, OutputTyped
  <1>9. QED
    BY <1>2, <1>6, <1>7, <1>8 DEF CollectorInv

-----------------------------------------------------------------------------
\* The inductive invariant holds throughout.
THEOREM CollectorInvariant == Spec => []CollectorInv
  BY CollectorInit, CollectorStep, PTL DEF Spec

\* Every variable of the collector keeps its type, the circular array included.
THEOREM CollectorTypes == Spec => []TypeOK
  <1>1. CollectorInv => TypeOK
    BY DEF CollectorInv
  <1>2. QED
    BY <1>1, CollectorInvariant, PTL

\* Callback, HEALTH timer, shutdown and writer thread together are a behaviour of
\* module WriterQueue: nothing touches the queue outside its critical sections.
THEOREM QueueComposition == Spec => QueueUsedAsSpecified
  <1>1. Init => Queue!Init
    BY DEF Init
  <1>2. CollectorInv /\ [Next]_vars => [Queue!Next]_(Queue!vars)
    BY QueueStep DEF CollectorInv, queueVars, Queue!vars
  <1>3. QED
    BY <1>1, <1>2, CollectorInvariant, PTL DEF Spec, QueueUsedAsSpecified, Queue!Spec

\* What was proved of the queue holds inside the collector: the reserve of
\* event_queue_start is kept for priority events, and the writer never sleeps
\* through a stored event or a shutdown.
THEOREM CollectorKeepsReserve == Spec => [](Queue!LowBelowReserve /\ Queue!NoLostWakeup)
  <1>1. CollectorInv => Queue!LowBelowReserve /\ Queue!NoLostWakeup
    BY QueueFacts DEF CollectorInv
  <1>2. QED
    BY <1>1, CollectorInvariant, PTL

\* A signal never turns into a failing exit status: EXIT_FAILURE needs a failed sink.
THEOREM FailureJustified == Spec => []FailureNeedsFault
  <1>1. CollectorInv => FailureNeedsFault
    BY DEF CollectorInv, TypeOK, StatusInv, FailureNeedsFault, EIO, EINTR
  <1>2. QED
    BY <1>1, CollectorInvariant, PTL

\* However signal, writer failure and poll interleave, the callback loses at most one
\* sample it had consumed.
THEOREM ShutdownLosesAtMostOne == Spec => []AtMostOneRefused
  <1>1. CollectorInv => AtMostOneRefused
    <2> SUFFICES ASSUME CollectorInv PROVE Cardinality(refused) <= 1
      BY DEF AtMostOneRefused
    <2>1. CASE refused = {}
      BY <2>1, FS_EmptySet
    <2>2. CASE refused # {}
      <3>1. PICK x : refused = {x}
        BY <2>2 DEF CollectorInv, RefusedInv
      <3>2. QED
        BY <3>1, FS_Singleton
    <2>3. QED
      BY <2>1, <2>2
  <1>2. QED
    BY <1>1, CollectorInvariant, PTL

-----------------------------------------------------------------------------
(* The stream as a sequence: its order, its elements, and the two ways it  *)
(* changes, by a record at its end or by a segment the sink loses.         *)

\* What StreamOrder asks of a record and a later one.
Before(a, b) ==
    /\ a \in Sample /\ b \in Sample /\ a.ring = b.ring => a.n < b.n
    /\ a \in Health /\ b \in Health =>
         /\ a.dropped <= b.dropped
         /\ a.priority_dropped <= b.priority_dropped
         /\ a.lost <= b.lost

InOrder(s) == \A i, j \in DOMAIN s : i < j => Before(s[i], s[j])

Elements(s) == {s[i] : i \in DOMAIN s}

\* No record is both a sample and a HEALTH event the collector made itself.
LEMMA SampleNotHealth == Sample \cap Health = {}
  <1> SUFFICES ASSUME NEW s \in Sample, NEW h \in Health, s = h PROVE FALSE
    OBVIOUS
  <1>1. DOMAIN s = {"type", "ring", "n"} /\ DOMAIN h = {"type", "dropped", "priority_dropped", "lost"}
    BY DEF Sample, Health
  <1>2. QED
    BY <1>1

\* Two places of an ordered stream do not hold the same sample.
LEMMA OrderedDistinct ==
    ASSUME NEW s \in Seq(Record), InOrder(s),
           NEW i \in DOMAIN s, NEW j \in DOMAIN s, s[i] \in Sample, s[i] = s[j]
    PROVE  i = j
  <1>1. i \in Nat /\ j \in Nat
    BY LenProperties
  <1>2. ~(s[i].n < s[i].n)
    BY DEF Sample
  <1>3. QED
    BY <1>1, <1>2 DEF InOrder, Before

\* A record that may follow every other extends the stream in order.
LEMMA OrderedAppend ==
    ASSUME NEW s \in Seq(Record), NEW e \in Record, InOrder(s),
           \A x \in Elements(s) : Before(x, e)
    PROVE  InOrder(Append(s, e)) /\ Elements(Append(s, e)) = Elements(s) \cup {e}
  <1>1. /\ Len(s) \in Nat /\ DOMAIN s = 1 .. Len(s)
        /\ DOMAIN Append(s, e) = 1 .. Len(s) + 1
        /\ \A i \in 1 .. Len(s) : Append(s, e)[i] = s[i]
        /\ Append(s, e)[Len(s) + 1] = e
    BY AppendProperties, LenProperties
  <1>2. InOrder(Append(s, e))
    <2> SUFFICES ASSUME NEW i \in 1 .. Len(s) + 1, NEW j \in 1 .. Len(s) + 1, i < j
                 PROVE  Before(Append(s, e)[i], Append(s, e)[j])
      BY <1>1 DEF InOrder
    <2>1. i \in 1 .. Len(s) /\ Append(s, e)[i] = s[i]
      BY <1>1
    <2>2. CASE j \in 1 .. Len(s)
      BY <1>1, <2>1, <2>2 DEF InOrder
    <2>3. CASE j = Len(s) + 1
      BY <1>1, <2>1, <2>3 DEF Elements
    <2>4. QED
      BY <1>1, <2>2, <2>3
  <1>3. Elements(Append(s, e)) = Elements(s) \cup {e}
    <2>1. ASSUME NEW x \in Elements(Append(s, e)) PROVE x \in Elements(s) \cup {e}
      <3>1. PICK i \in 1 .. Len(s) + 1 : x = Append(s, e)[i]
        BY <1>1 DEF Elements
      <3>2. QED
        BY <1>1, <3>1 DEF Elements
    <2>2. ASSUME NEW x \in Elements(s) PROVE x \in Elements(Append(s, e))
      <3>1. PICK i \in 1 .. Len(s) : x = s[i]
        BY <1>1 DEF Elements
      <3>2. i \in 1 .. Len(s) + 1 /\ x = Append(s, e)[i]
        BY <1>1, <3>1
      <3>3. QED
        BY <1>1, <3>2 DEF Elements
    <2>3. e \in Elements(Append(s, e))
      BY <1>1 DEF Elements
    <2>4. QED
      BY <2>1, <2>2, <2>3
  <1>4. QED
    BY <1>2, <1>3

\* The elements of two segments, one after the other.
LEMMA ElementsConcat ==
    ASSUME NEW a \in Seq(Record), NEW b \in Seq(Record)
    PROVE  Elements(a \o b) = Elements(a) \cup Elements(b)
  <1>1. /\ Len(a) \in Nat /\ Len(b) \in Nat /\ DOMAIN a = 1 .. Len(a) /\ DOMAIN b = 1 .. Len(b)
        /\ DOMAIN (a \o b) = 1 .. Len(a) + Len(b)
        /\ \A i \in 1 .. Len(a) + Len(b) :
             (a \o b)[i] = IF i <= Len(a) THEN a[i] ELSE b[i - Len(a)]
    BY ConcatProperties, LenProperties
  <1>2. ASSUME NEW x \in Elements(a \o b) PROVE x \in Elements(a) \cup Elements(b)
    <2>1. PICK i \in 1 .. Len(a) + Len(b) : x = (a \o b)[i]
      BY <1>1 DEF Elements
    <2>2. CASE i <= Len(a)
      BY <1>1, <2>1, <2>2 DEF Elements
    <2>3. CASE i > Len(a)
      <3>1. i - Len(a) \in 1 .. Len(b) /\ x = b[i - Len(a)]
        BY <1>1, <2>1, <2>3
      <3>2. QED
        BY <1>1, <3>1 DEF Elements
    <2>4. QED
      BY <1>1, <2>2, <2>3
  <1>3. ASSUME NEW x \in Elements(a) PROVE x \in Elements(a \o b)
    <2>1. PICK i \in 1 .. Len(a) : x = a[i]
      BY <1>1 DEF Elements
    <2>2. i \in 1 .. Len(a) + Len(b) /\ x = (a \o b)[i]
      BY <1>1, <2>1
    <2>3. QED
      BY <1>1, <2>2 DEF Elements
  <1>4. ASSUME NEW x \in Elements(b) PROVE x \in Elements(a \o b)
    <2>1. PICK i \in 1 .. Len(b) : x = b[i]
      BY <1>1 DEF Elements
    <2>2. i + Len(a) \in 1 .. Len(a) + Len(b) /\ x = (a \o b)[i + Len(a)]
      BY <1>1, <2>1
    <2>3. QED
      BY <1>1, <2>2 DEF Elements
  <1>5. QED
    BY <1>2, <1>3, <1>4

\* A segment lost from the middle leaves the rest in order, and nothing of it behind.
LEMMA OrderedCut ==
    ASSUME NEW a \in Seq(Record), NEW b \in Seq(Record), NEW c \in Seq(Record),
           InOrder(a \o b \o c)
    PROVE  /\ InOrder(a \o c)
           /\ Elements(a \o b \o c) = Elements(a \o c) \cup Elements(b)
           /\ Elements(a \o c) \cap Elements(b) \cap Sample = {}
  <1> DEFINE la == Len(a)  lb == Len(b)  lc == Len(c)
             s == a \o b \o c
             t == a \o c
             old(i) == IF i <= la THEN i ELSE i + lb
  <1>1. /\ la \in Nat /\ lb \in Nat /\ lc \in Nat
        /\ a \o b \in Seq(Record) /\ s \in Seq(Record) /\ t \in Seq(Record)
        /\ DOMAIN s = 1 .. la + lb + lc /\ DOMAIN t = 1 .. la + lc
        /\ DOMAIN b = 1 .. lb
    <2>1. la \in Nat /\ lb \in Nat /\ lc \in Nat /\ DOMAIN b = 1 .. lb
      BY LenProperties
    <2>2. a \o b \in Seq(Record) /\ Len(a \o b) = la + lb
      BY ConcatProperties
    <2>3. s \in Seq(Record) /\ Len(s) = la + lb + lc /\ t \in Seq(Record) /\ Len(t) = la + lc
      BY <2>2, ConcatProperties
    <2>4. QED
      BY <2>1, <2>2, <2>3, LenProperties
  <1>2. \A i \in 1 .. la + lc :
          old(i) \in 1 .. la + lb + lc /\ t[i] = s[old(i)] /\ old(i) \notin la + 1 .. la + lb
    <2> SUFFICES ASSUME NEW i \in 1 .. la + lc
                 PROVE  old(i) \in 1 .. la + lb + lc /\ t[i] = s[old(i)]
                        /\ old(i) \notin la + 1 .. la + lb
      OBVIOUS
    <2>1. CASE i <= la
      <3>1. i \in 1 .. la /\ i \in 1 .. la + lb /\ i \in 1 .. la + lb + lc
        BY <1>1, <2>1
      <3>2. t[i] = a[i] /\ (a \o b)[i] = a[i] /\ s[i] = (a \o b)[i]
        BY <1>1, <3>1, <2>1, ConcatProperties
      <3>3. QED
        BY <1>1, <2>1, <3>1, <3>2
    <2>2. CASE i > la
      <3>1. i + lb \in 1 .. la + lb + lc /\ i + lb > la + lb /\ Len(a \o b) = la + lb
        BY <1>1, <2>2, ConcatProperties
      <3>2. t[i] = c[i - la]
        BY <1>1, <2>2, ConcatProperties
      <3>3. s[i + lb] = c[(i + lb) - (la + lb)]
        BY <1>1, <3>1, ConcatProperties
      <3>4. (i + lb) - (la + lb) = i - la
        BY <1>1
      <3>5. QED
        BY <1>1, <2>2, <3>1, <3>2, <3>3, <3>4
    <2>3. QED
      BY <1>1, <2>1, <2>2
  <1>3. \A j \in 1 .. lb : la + j \in 1 .. la + lb + lc /\ b[j] = s[la + j]
    <2> SUFFICES ASSUME NEW j \in 1 .. lb
                 PROVE  la + j \in 1 .. la + lb + lc /\ b[j] = s[la + j]
      OBVIOUS
    <2>1. la + j \in 1 .. la + lb /\ la + j > la /\ la + j \in 1 .. la + lb + lc
      BY <1>1
    <2>2. (a \o b)[la + j] = b[(la + j) - la] /\ s[la + j] = (a \o b)[la + j]
      BY <1>1, <2>1, ConcatProperties
    <2>3. (la + j) - la = j
      BY <1>1
    <2>4. QED
      BY <2>1, <2>2, <2>3
  <1>4. \A i, j \in 1 .. la + lc : i < j => old(i) < old(j)
    BY <1>1
  <1>5. InOrder(t)
    <2> SUFFICES ASSUME NEW i \in 1 .. la + lc, NEW j \in 1 .. la + lc, i < j
                 PROVE  Before(t[i], t[j])
      BY <1>1 DEF InOrder
    <2> HIDE DEF old, s, t, la, lb, lc
    <2>1. old(i) \in DOMAIN s /\ old(j) \in DOMAIN s /\ old(i) < old(j)
          /\ t[i] = s[old(i)] /\ t[j] = s[old(j)]
      BY <1>1, <1>2, <1>4
    <2>2. InOrder(s)
      BY DEF s
    <2>3. QED
      BY <2>1, <2>2 DEF InOrder
  <1>6. Elements(s) = Elements(t) \cup Elements(b)
    <2>1. Elements(s) = Elements(a) \cup Elements(b) \cup Elements(c)
      <3>1. Elements(a \o b \o c) = Elements(a \o b) \cup Elements(c)
        BY <1>1, ElementsConcat
      <3>2. QED
        BY <3>1, ElementsConcat
    <2>2. Elements(t) = Elements(a) \cup Elements(c)
      BY ElementsConcat
    <2>3. QED
      BY <2>1, <2>2
  <1>7. ASSUME NEW x \in Elements(t), x \in Elements(b), x \in Sample PROVE FALSE
    <2>1. PICK i \in 1 .. la + lc : x = t[i]
      BY <1>1 DEF Elements
    <2>2. PICK j \in 1 .. lb : x = b[j]
      BY <1>1, <1>7 DEF Elements
    <2> HIDE DEF old, s, t, la, lb, lc
    <2>3. /\ old(i) \in DOMAIN s /\ la + j \in DOMAIN s /\ s[old(i)] = s[la + j]
          /\ s[old(i)] \in Sample
      BY <1>1, <1>2, <1>3, <1>7, <2>1, <2>2
    <2>4. s \in Seq(Record) /\ InOrder(s)
      BY <1>1 DEF s
    <2>5. old(i) = la + j
      BY <2>3, <2>4, OrderedDistinct
    <2>6. la + j \in la + 1 .. la + lb
      BY <1>1
    <2>7. QED
      BY <1>2, <2>5, <2>6
  <1>8. QED
    BY <1>5, <1>6, <1>7
-----------------------------------------------------------------------------
(* The stream as the place of every sample.                                *)

\* A sample is in the stream, discarded, refused or lost by the sink, and in only one
\* of these places.
Fates(stream, taken, dis, ref, snk) ==
    /\ taken = (stream \cap Sample) \cup dis \cup ref \cup snk
    /\ (stream \cap Sample) \cap dis = {} /\ (stream \cap Sample) \cap ref = {}
    /\ (stream \cap Sample) \cap snk = {}
    /\ dis \cap ref = {} /\ dis \cap snk = {} /\ ref \cap snk = {}

\* Each ring buffer holds samples of its own in the order of their production, all
\* later than those the callback has consumed from it.
RingInv ==
    /\ \A r \in Rings : \A i \in DOMAIN ring[r] :
         /\ ring[r][i].ring = r /\ ring[r][i].n <= produced
         /\ \A j \in DOMAIN ring[r] : i < j => ring[r][i].n < ring[r][j].n
    /\ \A c \in consumed :
         /\ c.n <= produced
         /\ \A i \in DOMAIN ring[c.ring] : c.n < ring[c.ring][i].n

\* No HEALTH event in the stream is ahead of the counters.
HealthInv ==
    \A h \in Elements(Stream) \cap Health :
        /\ h.dropped <= dropped
        /\ h.priority_dropped <= priority_dropped
        /\ h.lost <= lost

\* The writer ends only with the queue closed and drained or the output failed, and
\* the main thread passes the join only after it.
WriterInv ==
    /\ writer = "failed" => output_error # 0
    /\ writer = "gone" => stopping /\ (count = 0 \/ output_error # 0)
    /\ main \in {"final", "flush", "cleanup", "exit"} => writer = "gone"

\* The inductive invariant of the stream.
StreamInv ==
    /\ WriterInv
    /\ InOrder(Stream)
    /\ Fates(Elements(Stream), consumed, discarded, refused, sunk)
    /\ RingInv
    /\ HealthInv

FinalRecord(s) ==
    /\ s # <<>>
    /\ s[Len(s)] \in Health
    /\ s[Len(s)].dropped = dropped
    /\ s[Len(s)].priority_dropped = priority_dropped

\* What a healthy shutdown has done so far.
ExitInv ==
    /\ buf # <<>> => unflushed
    /\ main = "flush" /\ faults = 0 => FinalRecord(buf)
    /\ main \in {"cleanup", "exit"} /\ faults = 0 => buf = <<>> /\ FinalRecord(out)

\* What a write or a flush makes of stream s: t is left in order, and what is gone
\* from it is counted among the samples the sink lost.
Moves(s, t) ==
    /\ InOrder(t)
    /\ \E gone \in SUBSET Record :
         /\ Elements(s) = Elements(t) \cup gone
         /\ Elements(t) \cap gone \cap Sample = {}
         /\ sunk' = sunk \cup (gone \cap Sample)

\* The four segments of the stream are sequences of records.
LEMMA StreamParts ==
    ASSUME CollectorInv
    PROVE  /\ out \in Seq(Record) /\ buf \in Seq(Record) /\ InHand \in Seq(Record)
           /\ Queue!Contents \in Seq(Record) /\ Len(Queue!Contents) = count
           /\ Stream \in Seq(Record)
           /\ writer = "write" => InHand = <<hand>> /\ hand \in Record
           /\ writer # "write" => InHand = <<>>
  <1>1. out \in Seq(Record) /\ buf \in Seq(Record)
    BY DEF CollectorInv, TypeOK
  <1>2. /\ writer = "write" <=> hand # NoEvent
        /\ hand \in Record \cup {NoEvent}
    BY DEF CollectorInv, QP!Inv, QP!HandShape, QP!TypeOK
  <1>3. InHand \in Seq(Record)
    BY <1>2 DEF InHand
  <1>4. Queue!Contents \in Seq(Record) /\ Len(Queue!Contents) = count
    <2>1. QP!Contents \in Seq(Record) /\ Len(QP!Contents) = count
      BY QP!ContentsSeq, QueueAssumption DEF CollectorInv
    <2>2. QED
      BY <2>1 DEF QP!Contents, Queue!Contents
  <1>5. out \o buf \in Seq(Record)
    BY <1>1, ConcatProperties
  <1>6. out \o buf \o InHand \in Seq(Record)
    BY <1>5, <1>3, ConcatProperties
  <1>7. Stream \in Seq(Record)
    BY <1>4, <1>6, ConcatProperties DEF Stream
  <1>8. QED
    BY <1>1, <1>2, <1>3, <1>4, <1>7 DEF InHand

\* Nothing moves when the stream and the account of the sink stay as they are.
LEMMA KeptMoves ==
    ASSUME NEW s, InOrder(s), sunk' = sunk
    PROVE  Moves(s, s)
  <1>1. /\ {} \in SUBSET Record
        /\ Elements(s) = Elements(s) \cup {}
        /\ Elements(s) \cap {} \cap Sample = {}
        /\ sunk' = sunk \cup ({} \cap Sample)
    OBVIOUS
  <1>2. QED
    BY <1>1 DEF Moves

\* Segments of the stream may be grouped either way.
LEMMA RecordConcat == \A s, t, u \in Seq(Record) : (s \o t) \o u = s \o (t \o u)
  BY ConcatAssociative

\* A failing sink cuts what it lost out of the stream.
LEMMA SinkFailsMoves ==
    ASSUME OutputTyped, NEW more \in Seq(Record), NEW rest \in Seq(Record), SinkFails(more),
           InOrder(out \o buf \o more \o rest)
    PROVE  Moves(out \o buf \o more \o rest, out' \o buf' \o rest)
  <1>1. PICK k \in 0 .. Len(buf) :
           /\ out' = out \o SubSeq(buf, 1, k)
           /\ sunk' = sunk \cup Samples(SubSeq(buf, k + 1, Len(buf)) \o more)
    BY DEF SinkFails
  <1> DEFINE p == SubSeq(buf, 1, k)
             q == SubSeq(buf, k + 1, Len(buf))
             a == out \o p
             b == q \o more
  <1>2. out \in Seq(Record) /\ buf \in Seq(Record) /\ Len(buf) \in Nat
    BY LenProperties DEF OutputTyped
  <1>3. p \in Seq(Record) /\ q \in Seq(Record) /\ buf = p \o q
    <2>1. \A i \in 1 .. Len(buf) : buf[i] \in Record
      BY <1>2, ElementOfSeq
    <2>2. p \in Seq(Record) /\ q \in Seq(Record)
      BY <1>2, <2>1, SubSeqProperties
    <2>3. p \o q = SubSeq(buf, 1, Len(buf))
      <3>1. 1 \in 1 .. Len(buf) + 1 /\ k \in 1 - 1 .. Len(buf) /\ Len(buf) \in k .. Len(buf)
        BY <1>2
      <3>2. QED
        BY <1>2, <3>1, ConcatAdjacentSubSeq
    <2>4. QED
      BY <1>2, <2>2, <2>3, SubSeqFull
  <1> HIDE DEF p, q
  <1>4. a \in Seq(Record) /\ b \in Seq(Record)
    BY <1>2, <1>3, ConcatProperties
  <1>5. out \o buf \o more = a \o b
    <2> HIDE DEF a
    <2>1. a \in Seq(Record) /\ q \in Seq(Record)
      BY <1>3, <1>4
    <2>2. (a \o q) \o more = a \o (q \o more)
      BY <2>1, RecordConcat
    <2>3. out \in Seq(Record) /\ p \in Seq(Record) /\ q \in Seq(Record)
      BY <1>2, <1>3
    <2>4. (out \o p) \o q = out \o (p \o q)
      BY <2>3, RecordConcat, Zenon
    <2>5. QED
      BY <1>3, <2>2, <2>4 DEF a
  <1>6. out' \o buf' = a
    BY <1>1, <1>4, ConcatEmptySeq DEF SinkFails, p
  <1>7. /\ InOrder(a \o rest)
        /\ Elements(a \o b \o rest) = Elements(a \o rest) \cup Elements(b)
        /\ Elements(a \o rest) \cap Elements(b) \cap Sample = {}
    BY <1>4, <1>5, OrderedCut
  <1>8. sunk' = sunk \cup (Elements(b) \cap Sample)
    BY <1>1 DEF Samples, Elements, q
  <1>9. Elements(b) \in SUBSET Record
    BY <1>4, ElementOfSeq DEF Elements
  <1>10. QED
    BY <1>5, <1>6, <1>7, <1>8, <1>9 DEF Moves

\* write_event moves its record into the stdio buffer, or the sink loses a segment
\* that ends with it.
LEMMA WriteMoves ==
    ASSUME OutputTyped, NEW e \in Record, NEW rest \in Seq(Record),
           WriteReturnsZero(e) \/ WriteFails(e), InOrder(out \o buf \o <<e>> \o rest)
    PROVE  Moves(out \o buf \o <<e>> \o rest, out' \o buf' \o rest)
  <1>1. <<e>> \in Seq(Record) /\ out \in Seq(Record) /\ buf \in Seq(Record)
    BY DEF OutputTyped
  <1>2. CASE SinkFails(<<e>>)
    BY <1>1, <1>2, SinkFailsMoves
  <1>3. CASE buf' = Append(buf, e) /\ UNCHANGED <<out, faults, sunk>>
    <2>1. buf' = buf \o <<e>>
      BY <1>1, <1>3, AppendIsConcat
    <2>2. out \o (buf \o <<e>>) = out \o buf \o <<e>>
      BY <1>1, ConcatAssociative
    <2>3. out' \o buf' \o rest = out \o buf \o <<e>> \o rest /\ sunk' = sunk
      BY <1>3, <2>1, <2>2
    <2>4. QED
      BY <2>3, KeptMoves
  <1>4. QED
    BY <1>2, <1>3 DEF WriteReturnsZero, WriteFails

\* flush_output hands the buffer to the sink, which takes it or loses its end.
LEMMA FlushMoves ==
    ASSUME OutputTyped, NEW rest \in Seq(Record), FlushForced \/ UNCHANGED outputVars,
           InOrder(out \o buf \o rest)
    PROVE  Moves(out \o buf \o rest, out' \o buf' \o rest)
  <1>1. out \in Seq(Record) /\ buf \in Seq(Record) /\ <<>> \in Seq(Record)
    BY EmptySeq DEF OutputTyped
  <1>2. out \o buf \in Seq(Record)
    BY <1>1, ConcatProperties
  <1>3. CASE SinkFails(<<>>)
    <2>1. out \o buf \o <<>> = out \o buf
      BY <1>2, ConcatEmptySeq
    <2>2. QED
      BY <1>1, <1>3, <2>1, SinkFailsMoves
  <1>4. CASE out' = out \o buf /\ buf' = <<>> /\ sunk' = sunk
    <2>1. out' \o buf' = out \o buf
      BY <1>2, <1>4, ConcatEmptySeq
    <2>2. QED
      BY <1>4, <2>1, KeptMoves
  <1>5. CASE UNCHANGED outputVars
    BY <1>5, KeptMoves DEF outputVars
  <1>6. QED
    BY <1>3, <1>4, <1>5 DEF FlushForced, FlushNow

\* A step that leaves the segments of the stream alone leaves the stream alone.
LEMMA StreamKept ==
    ASSUME UNCHANGED <<slots, tail, count, hand, out, buf>>
    PROVE  Stream' = Stream
  BY DEF Stream, InHand, Queue!Contents

\* enqueue_event storing a record appends it to the stream.
LEMMA StoreExtends ==
    ASSUME CollectorInv, NEW e \in Record, Queue!Store(e), UNCHANGED <<out, buf>>
    PROVE  Stream' = Append(Stream, e)
  <1> DEFINE x == out \o buf \o InHand
             c == Queue!Contents
  <1>1. c' = Append(c, e)
    <2>1. QP!Store(e)
      BY DEF Queue!Store, QP!Store, Queue!Full, QP!Full, Queue!Signal, QP!Signal,
             Queue!NextSlot, QP!NextSlot, Queue!event_is_priority, QP!event_is_priority,
             Queue!PriorityType, QP!PriorityType, Queue!priority_reserve, QP!priority_reserve
    <2>2. QP!Contents' = Append(QP!Contents, e)
      BY <2>1, QP!StoreAppends, QueueAssumption DEF CollectorInv
    <2>3. QED
      BY <2>2 DEF QP!Contents, Queue!Contents
  <1>2. x' = x
    BY DEF Queue!Store, InHand
  <1>3. x \in Seq(Record) /\ c \in Seq(Record)
    <2>1. out \o buf \in Seq(Record) /\ InHand \in Seq(Record)
      BY StreamParts, ConcatProperties
    <2>2. QED
      BY <2>1, StreamParts, ConcatProperties
  <1>4. x \o Append(c, e) = Append(x \o c, e)
    <2> HIDE DEF x, c
    <2>1. <<e>> \in Seq(Record) /\ x \o c \in Seq(Record)
      BY <1>3, ConcatProperties
    <2>2. x \o (c \o <<e>>) = (x \o c) \o <<e>>
      BY <1>3, <2>1, RecordConcat, Zenon
    <2>3. c \o <<e>> = Append(c, e) /\ (x \o c) \o <<e>> = Append(x \o c, e)
      BY <1>3, <2>1, AppendIsConcat
    <2>4. QED
      BY <2>2, <2>3
  <1>5. Stream = x \o c /\ Stream' = x' \o c'
    BY DEF Stream
  <1>6. QED
    <2> HIDE DEF x, c
    <2> QED BY <1>1, <1>2, <1>4, <1>5

\* event_writer popping the oldest event moves it within the stream.
LEMMA TakeKeeps ==
    ASSUME CollectorInv, Queue!WriterTake, UNCHANGED <<out, buf>>
    PROVE  Stream' = Stream
  <1> DEFINE x == out \o buf
             c == Queue!Contents
  <1>1. c # <<>> /\ hand' = Head(c) /\ c' = Tail(c)
    <2>1. QP!WriterTake
      BY DEF Queue!WriterTake, QP!WriterTake, Queue!NextSlot, QP!NextSlot
    <2>2. QP!Contents # <<>> /\ hand' = Head(QP!Contents) /\ QP!Contents' = Tail(QP!Contents)
      BY <2>1, QP!TakeTail, QueueAssumption DEF CollectorInv
    <2>3. QED
      BY <2>2 DEF QP!Contents, Queue!Contents
  <1>2. x \in Seq(Record) /\ c \in Seq(Record) /\ InHand = <<>>
    BY StreamParts, ConcatProperties DEF Queue!WriterTake
  <1>3. Head(c) \in Record /\ Tail(c) \in Seq(Record) /\ <<Head(c)>> \o Tail(c) = c
    <2> HIDE DEF c
    <2>1. Head(c) \in Record /\ Tail(c) \in Seq(Record) /\ Len(Tail(c)) = Len(c) - 1
          /\ \A i \in 1 .. Len(Tail(c)) : Tail(c)[i] = c[i + 1]
      BY <1>1, <1>2, HeadTailProperties
    <2>2. QED
      BY <1>1, <1>2, <2>1
  <1>4. InHand' = <<Head(c)>>
    BY <1>1, <1>3, QueueAssumption DEF InHand
  <1>5. (x \o <<>>) \o c = (x \o <<Head(c)>>) \o Tail(c)
    <2> HIDE DEF x, c
    <2>1. <<Head(c)>> \in Seq(Record) /\ Tail(c) \in Seq(Record) /\ x \in Seq(Record)
      BY <1>2, <1>3
    <2>2. (x \o <<Head(c)>>) \o Tail(c) = x \o (<<Head(c)>> \o Tail(c))
      BY <2>1, RecordConcat, Zenon
    <2>3. x \o <<>> = x
      BY <1>2, ConcatEmptySeq
    <2>4. QED
      BY <1>3, <2>2, <2>3
  <1>6. Stream = (x \o InHand) \o c /\ Stream' = (x' \o InHand') \o c' /\ x' = x
    BY DEF Stream
  <1>7. QED
    <2> HIDE DEF x, c
    <2> QED BY <1>1, <1>2, <1>4, <1>5, <1>6

\* What a stream loses to the sink changes places, and nothing else does.
LEMMA FatesMove ==
    ASSUME NEW s, NEW t, Moves(s, t), NEW c, NEW d, NEW f,
           Fates(Elements(s), c, d, f, sunk)
    PROVE  Fates(Elements(t), c, d, f, sunk') /\ Elements(t) \subseteq Elements(s)
  <1>1. PICK gone \in SUBSET Record :
          /\ Elements(s) = Elements(t) \cup gone
          /\ Elements(t) \cap gone \cap Sample = {}
          /\ sunk' = sunk \cup (gone \cap Sample)
    BY DEF Moves
  <1> DEFINE a == Elements(s) \cap Sample
             b == Elements(t) \cap Sample
             g == gone \cap Sample
  <1>2. a = b \cup g /\ b \cap g = {} /\ sunk' = sunk \cup g
    BY <1>1
  <1>3. /\ c = a \cup d \cup f \cup sunk
        /\ a \cap d = {} /\ a \cap f = {} /\ a \cap sunk = {}
        /\ d \cap f = {} /\ d \cap sunk = {} /\ f \cap sunk = {}
    BY DEF Fates
  <1>4. /\ c = b \cup d \cup f \cup sunk'
        /\ b \cap d = {} /\ b \cap f = {} /\ b \cap sunk' = {}
        /\ d \cap f = {} /\ d \cap sunk' = {} /\ f \cap sunk' = {}
    <2> HIDE DEF a, b, g
    <2> QED BY <1>2, <1>3
  <1>5. QED
    BY <1>1, <1>4 DEF Fates

\* The output side of the writer's steps.
LEMMA WriterMoves ==
    ASSUME CollectorInv, StreamInv, WriterStep
    PROVE  Moves(Stream, Stream') /\ UNCHANGED <<kernelVars, main, fateVars>>
  <1> DEFINE c == Queue!Contents
  <1>1. /\ out \in Seq(Record) /\ buf \in Seq(Record) /\ c \in Seq(Record)
        /\ OutputTyped /\ InOrder(Stream)
        /\ Stream = out \o buf \o InHand \o c
        /\ Stream' = out' \o buf' \o InHand' \o c'
    BY StreamParts, TypeParts DEF CollectorInv, StreamInv, Stream
  <1>2. UNCHANGED <<kernelVars, main, fateVars>>
    BY DEF WriterStep, WriterQueueStep, WriterWrites, WriterFails, WriterFlushes, mainVars
  <1>3. CASE WriterQueueStep
    <2>1. UNCHANGED <<out, buf, sunk>>
      BY <1>3 DEF WriterQueueStep, outputVars
    <2>2. Stream' = Stream
      <3>1. CASE Queue!WriterTake
        BY <2>1, <3>1, TakeKeeps
      <3>2. CASE Queue!WriterSleep \/ Queue!WriterLeave \/ Queue!WriterGiveUp
        BY <2>1, <3>2, StreamKept DEF Queue!WriterSleep, Queue!WriterLeave, Queue!WriterGiveUp
      <3>3. QED
        BY <1>3, <3>1, <3>2 DEF WriterQueueStep
    <2>3. QED
      BY <1>1, <1>2, <2>1, <2>2, KeptMoves
  <1>4. CASE WriterWrites \/ WriterFails
    <2>1. /\ writer = "write" /\ hand' = NoEvent /\ UNCHANGED <<slots, tail, count>>
          /\ WriteReturnsZero(hand) \/ WriteFails(hand)
      BY <1>4 DEF WriterWrites, WriterFails, Queue!WriterWrote, Queue!WriterFailed
    <2>2. hand \in Record /\ InHand = <<hand>> /\ InHand' = <<>> /\ c' = c
      BY <2>1, StreamParts DEF InHand, Queue!Contents
    <2>3. Moves(out \o buf \o <<hand>> \o c, out' \o buf' \o c)
      BY <1>1, <2>1, <2>2, WriteMoves
    <2>4. OutputTyped'
      BY <1>1, <2>1, <2>2, OutputStep
    <2>5. (out' \o buf') \o <<>> = out' \o buf'
      <3>1. out' \o buf' \in Seq(Record)
        BY <2>4, ConcatProperties DEF OutputTyped
      <3>2. QED
        BY <3>1, ConcatEmptySeq
    <2>6. QED
      BY <1>1, <1>2, <2>2, <2>3, <2>5
  <1>5. CASE WriterFlushes
    <2>1. /\ writer # "write" /\ UNCHANGED <<slots, tail, count, hand>>
          /\ FlushForced \/ UNCHANGED outputVars
      BY <1>5 DEF WriterFlushes, Queue!WriterFlushed, FlushBatched
    <2>2. InHand = <<>> /\ InHand' = <<>> /\ c' = c
      BY <2>1, StreamParts DEF InHand, Queue!Contents
    <2>3. out \o buf \in Seq(Record) /\ out \o buf \o <<>> = out \o buf
      BY <1>1, ConcatProperties, ConcatEmptySeq
    <2>4. Moves(out \o buf \o c, out' \o buf' \o c)
      BY <1>1, <2>1, <2>2, <2>3, FlushMoves
    <2>5. OutputTyped'
      <3>1. prepare_health_event \in Record
        BY HealthIsRecord DEF CollectorInv, Record
      <3>2. QED
        BY <1>1, <2>1, <3>1, OutputStep
    <2>6. (out' \o buf') \o <<>> = out' \o buf'
      <3>1. out' \o buf' \in Seq(Record)
        BY <2>5, ConcatProperties DEF OutputTyped
      <3>2. QED
        BY <3>1, ConcatEmptySeq
    <2>7. QED
      BY <1>1, <1>2, <2>2, <2>3, <2>4, <2>6
  <1>6. QED
    BY <1>3, <1>4, <1>5 DEF WriterStep

\* The writer is gone when the main thread writes: only stdio is left of the stream,
\* unless the output failed.
LEMMA AfterTheJoin ==
    ASSUME CollectorInv, StreamInv, main \in {"final", "flush"}
    PROVE  /\ InHand = <<>>
           /\ output_error = 0 => Queue!Contents = <<>>
  <1>1. writer = "gone" /\ (count = 0 \/ output_error # 0)
    BY DEF StreamInv, WriterInv
  <1>2. QED
    BY <1>1, StreamParts

\* The main thread's last flush.
LEMMA FinalFlushMoves ==
    ASSUME CollectorInv, StreamInv, FinalFlush
    PROVE  Moves(Stream, Stream')
  <1> DEFINE c == Queue!Contents
  <1>1. /\ out \in Seq(Record) /\ buf \in Seq(Record) /\ c \in Seq(Record)
        /\ OutputTyped /\ InOrder(Stream)
        /\ Stream = out \o buf \o InHand \o c
        /\ Stream' = out' \o buf' \o InHand' \o c'
    BY StreamParts, TypeParts DEF CollectorInv, StreamInv, Stream
  <1>2. FlushForced /\ UNCHANGED queueVars /\ InHand = <<>>
    BY AfterTheJoin DEF FinalFlush
  <1>3. InHand' = <<>> /\ c' = c
    BY <1>2 DEF queueVars, InHand, Queue!Contents
  <1>4. out \o buf \in Seq(Record) /\ out \o buf \o <<>> = out \o buf
    BY <1>1, ConcatProperties, ConcatEmptySeq
  <1>5. Moves(out \o buf \o c, out' \o buf' \o c)
    BY <1>1, <1>2, <1>4, FlushMoves
  <1>6. OutputTyped'
    <2>1. prepare_health_event \in Record
      BY HealthIsRecord DEF CollectorInv, Record
    <2>2. QED
      BY <1>1, <1>2, <2>1, OutputStep
  <1>7. (out' \o buf') \o <<>> = out' \o buf'
    <2>1. out' \o buf' \in Seq(Record)
      BY <1>6, ConcatProperties DEF OutputTyped
    <2>2. QED
      BY <2>1, ConcatEmptySeq
  <1>8. QED
    BY <1>1, <1>2, <1>3, <1>4, <1>5, <1>7

\* A HEALTH event prepared now may follow everything in the stream.
LEMMA HealthMayFollow ==
    ASSUME CollectorInv, StreamInv
    PROVE  /\ prepare_health_event \in Record /\ prepare_health_event \notin Sample
           /\ InOrder(Append(Stream, prepare_health_event))
           /\ Elements(Append(Stream, prepare_health_event))
                = Elements(Stream) \cup {prepare_health_event}
  <1> DEFINE h == prepare_health_event
  <1>1. h \in Health /\ h \in Record /\ h \notin Sample
    BY HealthIsRecord, SampleNotHealth DEF CollectorInv, Record
  <1>2. h.dropped = dropped /\ h.priority_dropped = priority_dropped /\ h.lost = lost
    BY DEF prepare_health_event
  <1> HIDE DEF h
  <1>3. \A x \in Elements(Stream) : Before(x, h)
    BY <1>1, <1>2 DEF StreamInv, HealthInv, Before
  <1>4. InOrder(Append(Stream, h)) /\ Elements(Append(Stream, h)) = Elements(Stream) \cup {h}
    BY <1>1, <1>3, StreamParts, OrderedAppend DEF StreamInv
  <1>5. QED
    BY <1>1, <1>4 DEF h

\* The main thread's last HEALTH event, behind everything the writer wrote.
LEMMA FinalHealthMoves ==
    ASSUME CollectorInv, StreamInv, FinalHealth, output_error = 0
    PROVE  Moves(Append(Stream, prepare_health_event), Stream')
  <1> DEFINE h == prepare_health_event
             x == out \o buf
  <1>1. /\ out \in Seq(Record) /\ buf \in Seq(Record) /\ x \in Seq(Record)
        /\ OutputTyped /\ h \in Record /\ <<>> \in Seq(Record)
        /\ Stream = x \o InHand \o Queue!Contents
        /\ Stream' = out' \o buf' \o InHand' \o Queue!Contents'
    BY StreamParts, TypeParts, HealthMayFollow, EmptySeq, ConcatProperties
       DEF CollectorInv, Stream
  <1>2. /\ WriteReturnsZero(h) \/ WriteFails(h)
        /\ UNCHANGED queueVars /\ InHand = <<>> /\ Queue!Contents = <<>>
    BY AfterTheJoin DEF FinalHealth
  <1>3. InHand' = <<>> /\ Queue!Contents' = <<>>
    <2>1. Queue!Contents' = Queue!Contents
      BY <1>2 DEF queueVars, Queue!Contents
    <2>2. QED
      BY <1>2, <2>1 DEF queueVars, InHand
  <1>4. Stream = x
    BY <1>1, <1>2, ConcatEmptySeq
  <1>5. Append(Stream, h) = x \o <<h>> \o <<>>
    <2> HIDE DEF x, h
    <2>1. <<h>> \in Seq(Record) /\ Append(x, h) = x \o <<h>>
      BY <1>1, AppendIsConcat
    <2>2. x \o <<h>> \in Seq(Record)
      BY <1>1, <2>1, ConcatProperties
    <2>3. QED
      BY <1>4, <2>1, <2>2, ConcatEmptySeq
  <1>6. Stream' = out' \o buf' \o <<>>
    <2>1. OutputTyped'
      BY <1>1, <1>2, OutputStep
    <2>2. out' \o buf' \in Seq(Record)
      BY <2>1, ConcatProperties DEF OutputTyped
    <2>3. out' \o buf' \o <<>> = out' \o buf'
      BY <2>2, ConcatEmptySeq
    <2>4. QED
      BY <1>1, <1>3, <2>3
  <1>7. Moves(out \o buf \o <<h>> \o <<>>, out' \o buf' \o <<>>)
    BY <1>1, <1>2, <1>5, HealthMayFollow, WriteMoves
  <1>8. QED
    BY <1>5, <1>6, <1>7

\* The sample at the front of a ring is new, and may follow everything in the stream.
LEMMA IncomingMayFollow ==
    ASSUME CollectorInv, StreamInv, ~RingDone
    PROVE  /\ Incoming \in Sample /\ Incoming \notin consumed
           /\ InOrder(Append(Stream, Incoming))
           /\ Elements(Append(Stream, Incoming)) = Elements(Stream) \cup {Incoming}
  <1> DEFINE e == Incoming
  <1>1. e \in Sample /\ cur \in Rings
    BY IncomingIsSample DEF CollectorInv
  <1>2. 1 \in DOMAIN ring[cur] /\ e = ring[cur][1]
    <2>1. ring[cur] \in Seq(Sample) /\ ring[cur] # <<>>
      BY <1>1 DEF CollectorInv, TypeOK, RingDone
    <2>2. QED
      BY <2>1 DEF Incoming
  <1>3. e.ring = cur /\ \A c \in consumed : c.ring = cur => c.n < e.n
    BY <1>1, <1>2 DEF StreamInv, RingInv
  <1> HIDE DEF e
  <1>4. e \notin consumed
    <2>1. ~(e.n < e.n)
      BY <1>1 DEF Sample
    <2>2. QED
      BY <1>3, <2>1
  <1>5. \A x \in Elements(Stream) : Before(x, e)
    <2> SUFFICES ASSUME NEW x \in Elements(Stream) PROVE Before(x, e)
      OBVIOUS
    <2>1. e \notin Health
      BY <1>1, SampleNotHealth
    <2>2. x \in Sample => x \in consumed
      BY DEF StreamInv, Fates
    <2>3. QED
      BY <1>3, <2>1, <2>2 DEF Before
  <1>6. InOrder(Append(Stream, e)) /\ Elements(Append(Stream, e)) = Elements(Stream) \cup {e}
    BY <1>1, <1>5, StreamParts, OrderedAppend DEF StreamInv, Record
  <1>7. QED
    BY <1>1, <1>4, <1>6 DEF e

\* The loss counters never go back.
LEMMA CountersGrow ==
    ASSUME CollectorInv, [Next]_vars
    PROVE  /\ dropped \in Nat /\ priority_dropped \in Nat /\ lost \in Nat
           /\ dropped' >= dropped /\ priority_dropped' >= priority_dropped /\ lost' >= lost
           /\ dropped' \in Nat /\ priority_dropped' \in Nat /\ lost' \in Nat
  <1>1. dropped \in Nat /\ priority_dropped \in 0 .. dropped /\ lost \in Nat
    BY DEF CollectorInv, TypeOK, Queue!TypeOK
  <1>2. dropped' \in Nat /\ priority_dropped' \in 0 .. dropped' /\ lost' \in Nat
    BY CollectorStep DEF CollectorInv, TypeOK, Queue!TypeOK
  <1>3. dropped' >= dropped /\ priority_dropped' >= priority_dropped
    <2>1. [Queue!Next]_queueVars
      BY QueueStep DEF CollectorInv
    <2>2. CASE UNCHANGED queueVars
      BY <1>1, <2>2 DEF queueVars
    <2>3. ASSUME NEW e \in Record, Queue!Drop(e)
          PROVE  dropped' >= dropped /\ priority_dropped' >= priority_dropped
      BY <1>1, <2>3 DEF Queue!Drop
    <2>4. ASSUME NEW e \in Record, Queue!Refuse(e) \/ Queue!Store(e)
          PROVE  UNCHANGED <<dropped, priority_dropped>>
      BY <2>4 DEF Queue!Refuse, Queue!Store, Queue!vars
    <2>5. Queue!Stop \/ Queue!WriterSpuriousWake \/ Queue!WriterStep
          => UNCHANGED <<dropped, priority_dropped>>
      BY Zenon DEF Queue!Stop, Queue!WriterSpuriousWake, Queue!WriterStep, Queue!WriterSleep,
         Queue!WriterLeave, Queue!WriterTake, Queue!WriterWrote, Queue!WriterFlushed,
         Queue!WriterFailed, Queue!WriterGiveUp
    <2>6. dropped >= dropped /\ priority_dropped >= priority_dropped
      BY <1>1
    <2>7. QED
      BY <2>1, <2>2, <2>3, <2>4, <2>5, <2>6 DEF Queue!Next
  <1>4. lost' >= lost
    <2>1. ASSUME NEW r \in Rings, NEW t \in SampleType, Produce(r, t)
          PROVE  lost' >= lost
      BY <1>1, <2>1 DEF Produce
    <2>2. ASSUME NEW r \in Rings, NextRing(r) PROVE lost' = lost
      BY <2>2 DEF NextRing, kernelVars
    <2>3. CallbackInterrupted \/ CallbackInvalid \/ CallbackStored
          \/ CallbackDropped \/ CallbackRefused => lost' = lost
      BY Zenon DEF CallbackInterrupted, CallbackInvalid, CallbackStored, CallbackDropped,
                   CallbackRefused, Consume
    <2>4. \/ handle_signal \/ LoopTest \/ EpollInterrupted \/ EpollTimeout \/ EpollReady
          \/ PollReturns \/ CheckPoll \/ HealthNotDue \/ HealthDue \/ Finish \/ Joined
          \/ FinalHealth \/ FinalFlush \/ Cleanup \/ WriterStep \/ WriterSpuriousWake
          \/ Terminated \/ UNCHANGED vars
          => lost' = lost
      BY Zenon DEF handle_signal, LoopTest, EpollInterrupted, EpollTimeout, EpollReady,
         PollReturns, CheckPoll, HealthNotDue, HealthDue, Finish, Joined, FinalHealth,
         FinalFlush, Cleanup, WriterStep, WriterQueueStep, WriterWrites, WriterFails,
         WriterFlushes, WriterSpuriousWake, Terminated, vars, kernelVars
    <2>5. lost' = lost => lost' >= lost
      BY <1>1
    <2>6. QED
      BY <2>1, <2>2, <2>3, <2>4, <2>5, Zenon DEF Next, MainStep
  <1>5. QED
    BY <1>1, <1>2, <1>3, <1>4

\* The counters stay ahead of every HEALTH event as long as only one prepared now is
\* added to the stream.
LEMMA HealthStep ==
    ASSUME CollectorInv, StreamInv, [Next]_vars,
           Elements(Stream') \subseteq Elements(Stream) \cup Sample \cup {prepare_health_event}
    PROVE  HealthInv'
  <1> SUFFICES ASSUME NEW h \in Elements(Stream'), h \in Health
               PROVE  h.dropped <= dropped' /\ h.priority_dropped <= priority_dropped'
                      /\ h.lost <= lost'
    BY DEF HealthInv, Elements
  <1>1. h.dropped \in Nat /\ h.priority_dropped \in Nat /\ h.lost \in Nat
    BY DEF Health
  <1>2. CASE h \in Elements(Stream)
    BY <1>1, <1>2, CountersGrow DEF StreamInv, HealthInv
  <1>3. CASE h = prepare_health_event
    BY <1>3, CountersGrow DEF prepare_health_event
  <1>4. QED
    BY <1>2, <1>3, SampleNotHealth

\* The samples of the rings and those consumed carry a number and the ring they are of.
LEMMA RingTyped ==
    ASSUME CollectorInv
    PROVE  /\ produced \in Nat /\ ring \in [Rings -> Seq(Sample)]
           /\ \A p \in Rings : \A i \in DOMAIN ring[p] : ring[p][i].n \in Nat
           /\ \A c \in consumed : c \in Sample /\ c.n \in Nat /\ c.ring \in Rings
  <1>1. /\ produced \in Nat /\ ring \in [Rings -> Seq(Sample)] /\ consumed \subseteq Sample
    BY CollectorAssumption DEF CollectorInv, TypeOK
  <1>2. ASSUME NEW p \in Rings, NEW i \in DOMAIN ring[p]
        PROVE  ring[p][i].n \in Nat
    <2>1. ring[p] \in Seq(Sample)
      BY <1>1
    <2>2. ring[p][i] \in Sample
      BY <2>1, ElementOfSeq, LenProperties
    <2>3. QED
      BY <2>2 DEF Sample
  <1>3. QED
    BY <1>1, <1>2 DEF Sample

\* A new sample is later than everything produced before it.
LEMMA ProduceRing ==
    ASSUME CollectorInv, RingInv, NEW r \in Rings, NEW t \in SampleType, Produce(r, t)
    PROVE  RingInv'
  <1> DEFINE s == [type |-> t, ring |-> r, n |-> produced + 1]
             q == ring[r]
  <1>1. produced' = produced + 1 /\ consumed' = consumed
    BY Zenon DEF Produce, fateVars
  <1>2. s.ring = r /\ s.n = produced + 1
    OBVIOUS
  <1>3. \/ ring' = ring
        \/ ring' = [ring EXCEPT ![r] = Append(q, s)]
    BY <1>1 DEF Produce
  <1>4. CASE ring' = ring
    BY <1>1, <1>4, RingTyped DEF RingInv
  <1>5. CASE ring' = [ring EXCEPT ![r] = Append(q, s)]
    <2> HIDE DEF s
    <2>1. q \in Seq(Sample) /\ Len(q) \in Nat /\ DOMAIN q = 1 .. Len(q)
      BY RingTyped, LenProperties
    <2>2. /\ DOMAIN Append(q, s) = 1 .. Len(q) + 1
          /\ \A i \in 1 .. Len(q) : Append(q, s)[i] = q[i]
          /\ Append(q, s)[Len(q) + 1] = s
      BY <2>1
    <2>3. /\ ring'[r] = Append(q, s)
          /\ \A p \in Rings : p # r => ring'[p] = ring[p]
      BY <1>5, RingTyped
    <2>4. ASSUME NEW p \in Rings, NEW i \in DOMAIN ring'[p]
          PROVE  /\ ring'[p][i].ring = p /\ ring'[p][i].n <= produced'
                 /\ \A j \in DOMAIN ring'[p] : i < j => ring'[p][i].n < ring'[p][j].n
      <3>1. CASE p # r
        BY <1>1, <2>3, <2>4, <3>1, RingTyped DEF RingInv
      <3>2. CASE p = r
        <4>1. i \in 1 .. Len(q) + 1 /\ ring'[p] = Append(q, s)
          BY <2>2, <2>3, <2>4, <3>2
        <4>2. \A j \in 1 .. Len(q) : q[j].n \in Nat /\ q[j].n <= produced /\ q[j].ring = r
          BY <2>1, RingTyped DEF RingInv
        <4>3. CASE i \in 1 .. Len(q)
          <5>1. ring'[p][i] = q[i]
            BY <2>2, <4>1, <4>3
          <5>2. ASSUME NEW j \in 1 .. Len(q) + 1, i < j
                PROVE  q[i].n < Append(q, s)[j].n
            <6>1. CASE j \in 1 .. Len(q)
              BY <2>1, <2>2, <4>3, <5>2, <6>1 DEF RingInv
            <6>2. CASE j = Len(q) + 1
              BY <1>2, <2>2, <4>2, <4>3, <6>2, RingTyped
            <6>3. QED
              BY <2>1, <6>1, <6>2
          <5>3. q[i].ring = p /\ q[i].n <= produced'
            BY <1>1, <3>2, <4>2, <4>3, RingTyped
          <5>4. QED
            BY <2>2, <4>1, <5>1, <5>2, <5>3
        <4>4. CASE i = Len(q) + 1
          <5>1. \A j \in 1 .. Len(q) + 1 : ~(i < j)
            BY <2>1, <4>4
          <5>2. ring'[p][i] = s
            BY <2>2, <4>1, <4>4
          <5>3. s.ring = p /\ s.n <= produced'
            BY <1>1, <1>2, <3>2, RingTyped
          <5>4. QED
            BY <2>2, <4>1, <5>1, <5>2, <5>3
        <4>5. QED
          BY <2>1, <4>1, <4>3, <4>4
      <3>3. QED
        BY <3>1, <3>2
    <2>5. ASSUME NEW c \in consumed
          PROVE  /\ c.n <= produced'
                 /\ \A i \in DOMAIN ring'[c.ring] : c.n < ring'[c.ring][i].n
      <3>1. c.n \in Nat /\ c.ring \in Rings /\ c.n <= produced
        BY RingTyped DEF RingInv
      <3>2. CASE c.ring # r
        BY <1>1, <2>3, <3>1, <3>2, RingTyped DEF RingInv
      <3>3. CASE c.ring = r
        <4>1. ASSUME NEW i \in 1 .. Len(q) + 1 PROVE c.n < Append(q, s)[i].n
          <5>1. CASE i \in 1 .. Len(q)
            BY <2>1, <2>2, <3>3, <5>1 DEF RingInv
          <5>2. CASE i = Len(q) + 1
            BY <1>2, <2>2, <3>1, <5>2, RingTyped
          <5>3. QED
            BY <2>1, <5>1, <5>2
        <4>2. c.n <= produced'
          BY <1>1, <3>1, RingTyped
        <4>3. ring'[c.ring] = Append(q, s) /\ DOMAIN ring'[c.ring] = 1 .. Len(q) + 1
          BY <2>2, <2>3, <3>3
        <4> HIDE DEF q
        <4>4. QED
          BY <4>1, <4>2, <4>3
      <3>4. QED
        BY <3>2, <3>3
    <2>6. QED
      BY <1>1, <2>4, <2>5 DEF RingInv
  <1>6. QED
    BY <1>3, <1>4, <1>5

\* The sample consumed is the earliest of its ring, and later than those before it.
LEMMA ConsumeRing ==
    ASSUME CollectorInv, RingInv, Consume
    PROVE  RingInv'
  <1> DEFINE q == ring[cur]
  <1>1. cur \in Rings /\ q \in Seq(Sample) /\ q # <<>>
    BY DEF CollectorInv, TypeOK, Consume, RingDone
  <1>2. /\ Len(q) \in Nat /\ DOMAIN q = 1 .. Len(q) /\ 1 \in 1 .. Len(q) /\ Incoming = q[1]
        /\ DOMAIN Tail(q) = 1 .. Len(q) - 1
        /\ \A i \in 1 .. Len(q) - 1 : Tail(q)[i] = q[i + 1] /\ i + 1 \in 1 .. Len(q)
    <2>1. Len(q) \in Nat /\ DOMAIN q = 1 .. Len(q) /\ 1 \in 1 .. Len(q) /\ Incoming = q[1]
      BY <1>1 DEF Incoming
    <2>2. /\ Tail(q) \in Seq(Sample) /\ Len(Tail(q)) = Len(q) - 1
          /\ \A i \in 1 .. Len(Tail(q)) : Tail(q)[i] = q[i + 1]
      BY <1>1, HeadTailProperties
    <2>3. DOMAIN Tail(q) = 1 .. Len(q) - 1
      BY <2>2, LenProperties
    <2>4. QED
      BY <2>1, <2>2, <2>3
  <1>3. /\ ring'[cur] = Tail(q)
        /\ \A p \in Rings : p # cur => ring'[p] = ring[p]
        /\ produced' = produced /\ consumed' = consumed \cup {Incoming}
    BY <1>1, RingTyped DEF Consume
  <1>4. \A i, j \in 1 .. Len(q) :
          q[i].ring = cur /\ q[i].n <= produced /\ (i < j => q[i].n < q[j].n)
    BY <1>1, <1>2 DEF RingInv
  <1>5. ASSUME NEW p \in Rings, NEW i \in DOMAIN ring'[p]
        PROVE  /\ ring'[p][i].ring = p /\ ring'[p][i].n <= produced'
               /\ \A j \in DOMAIN ring'[p] : i < j => ring'[p][i].n < ring'[p][j].n
    <2>1. CASE p # cur
      BY <1>3, <1>5, <2>1 DEF RingInv
    <2>2. CASE p = cur
      <3>1. i \in 1 .. Len(q) - 1 /\ ring'[p] = Tail(q)
        BY <1>2, <1>3, <1>5, <2>2
      <3>2. \A j \in 1 .. Len(q) - 1 : i < j => i + 1 < j + 1
        BY <1>2, <3>1
      <3> HIDE DEF q
      <3>3. QED
        BY <1>2, <1>3, <1>4, <2>2, <3>1, <3>2
    <2>3. QED
      BY <2>1, <2>2
  <1>6. ASSUME NEW c \in consumed'
        PROVE  /\ c.n <= produced'
               /\ \A i \in DOMAIN ring'[c.ring] : c.n < ring'[c.ring][i].n
    <2>1. CASE c \in consumed /\ c.ring # cur
      BY <1>3, <2>1, RingTyped DEF RingInv
    <2>2. CASE c \in consumed /\ c.ring = cur
      <3>1. c.n <= produced /\ \A i \in 1 .. Len(q) : c.n < q[i].n
        BY <1>2, <2>2 DEF RingInv
      <3> HIDE DEF q
      <3>2. QED
        BY <1>2, <1>3, <2>2, <3>1
    <2>3. CASE c = q[1]
      <3>1. \A i \in 1 .. Len(q) - 1 : 1 < i + 1
        BY <1>2
      <3> HIDE DEF q
      <3>2. QED
        BY <1>2, <1>3, <1>4, <2>3, <3>1
    <2>4. QED
      BY <1>2, <1>3, <1>6, <2>1, <2>2, <2>3
  <1>7. QED
    BY <1>5, <1>6 DEF RingInv

\* Only the sensors and the callback touch the rings and what was consumed.
LEMMA RingStep ==
    ASSUME CollectorInv, StreamInv, [Next]_vars
    PROVE  RingInv'
  <1>1. RingInv
    BY DEF StreamInv
  <1>2. CASE UNCHANGED <<ring, produced, consumed>>
    BY <1>1, <1>2 DEF RingInv
  <1>3. ASSUME NEW r \in Rings, NEW t \in SampleType, Produce(r, t)
        PROVE  RingInv'
    BY <1>1, <1>3, ProduceRing
  <1>4. CASE CallbackInterrupted \/ CallbackInvalid \/ CallbackStored
             \/ CallbackDropped \/ CallbackRefused
    BY <1>1, <1>4, ConsumeRing DEF CallbackInterrupted, CallbackInvalid, CallbackStored,
       CallbackDropped, CallbackRefused
  <1>5. ASSUME NEW r \in Rings, NextRing(r)
        PROVE  UNCHANGED <<ring, produced, consumed>>
    BY <1>5, Zenon DEF NextRing, kernelVars, fateVars
  <1>6. CASE WriterStep
    BY <1>2, <1>6, WriterMoves DEF kernelVars, fateVars
  <1>7. \/ handle_signal \/ LoopTest \/ EpollInterrupted \/ EpollTimeout \/ EpollReady
        \/ PollReturns \/ CheckPoll \/ HealthNotDue \/ HealthDue \/ Finish \/ Joined
        \/ FinalHealth \/ FinalFlush \/ Cleanup \/ WriterSpuriousWake
        \/ Terminated \/ UNCHANGED vars
        => UNCHANGED <<ring, produced, consumed>>
    BY Zenon DEF handle_signal, LoopTest, EpollInterrupted, EpollTimeout, EpollReady,
       PollReturns, CheckPoll, HealthNotDue, HealthDue, Finish, Joined, FinalHealth,
       FinalFlush, Cleanup, WriterSpuriousWake, Terminated, vars, kernelVars, fateVars
  <1>8. QED
    BY <1>2, <1>3, <1>4, <1>5, <1>6, <1>7, Zenon DEF Next, MainStep

\* The writer ends in order; nothing enters the queue it left.
LEMMA WriterInvStep ==
    ASSUME CollectorInv, StreamInv, [Next]_vars
    PROVE  WriterInv'
  <1>1. /\ WriterInv /\ output_error \in {-EIO, 0}
    BY DEF StreamInv, CollectorInv, TypeOK
  <1> USE DEF WriterInv, EIO, GoTo
  <1>2. CASE UNCHANGED <<queueVars, output_error, main>>
    BY <1>1, <1>2 DEF queueVars
  <1>3. CASE CallbackInterrupted \/ CallbackInvalid
    BY <1>1, <1>3 DEF CallbackInterrupted, CallbackInvalid, Consume, CallbackError,
                      CallbackOk, queueVars, outputVars
  <1>4. CASE CallbackStored \/ CallbackDropped \/ CallbackRefused
    BY <1>1, <1>4 DEF CallbackStored, CallbackDropped, CallbackRefused, Consume,
                      CallbackError, CallbackOk, Queue!Store, Queue!Drop, Queue!Refuse,
                      Queue!Signal, Queue!vars, outputVars
  <1>5. CASE LoopTest \/ EpollInterrupted \/ EpollTimeout \/ EpollReady \/ PollReturns
             \/ CheckPoll \/ HealthNotDue
    BY <1>1, <1>5 DEF LoopTest, EpollInterrupted, EpollTimeout, EpollReady, PollReturns,
                      CheckPoll, HealthNotDue, LoopEnd, queueVars, outputVars
  <1>6. CASE HealthDue
    BY <1>1, <1>6 DEF HealthDue, LoopEnd, Queue!Store, Queue!Drop, Queue!Refuse,
                      Queue!Signal, Queue!vars, outputVars
  <1>7. CASE Finish \/ Joined
    BY <1>1, <1>7 DEF Finish, Joined, Queue!Stop, Queue!Signal, queueVars, outputVars
  <1>8. CASE FinalHealth \/ FinalFlush \/ Cleanup
    <2>1. UNCHANGED queueVars /\ main \in {"final", "flush", "cleanup"}
      BY <1>8 DEF FinalHealth, FinalFlush, Cleanup
    <2>2. output_error # 0 => output_error' # 0
      BY <1>1, <1>8 DEF FinalHealth, FinalFlush, Cleanup, FlushForced, FlushNow, outputVars
    <2>3. QED
      BY <1>1, <2>1, <2>2 DEF queueVars
  <1>9. CASE WriterQueueStep
    BY <1>1, <1>9 DEF WriterQueueStep, Queue!WriterSleep, Queue!WriterLeave,
                      Queue!WriterTake, Queue!WriterGiveUp, mainVars, outputVars
  <1>10. CASE WriterWrites \/ WriterFlushes \/ WriterSpuriousWake
    BY <1>1, <1>10 DEF WriterWrites, WriterFlushes, WriterSpuriousWake, Queue!WriterWrote,
                       Queue!WriterFlushed, Queue!WriterSpuriousWake, mainVars
  <1>11. CASE WriterFails
    BY <1>1, <1>11 DEF WriterFails, Queue!WriterFailed, WriteFails, mainVars
  <1>12. ASSUME NEW r \in Rings, NEW t \in SampleType, Produce(r, t)
         PROVE  UNCHANGED <<queueVars, output_error, main>>
    BY <1>12, Zenon DEF Produce, mainVars, outputVars
  <1>13. ASSUME NEW r \in Rings, NextRing(r)
         PROVE  UNCHANGED <<queueVars, output_error, main>>
    BY <1>13, Zenon DEF NextRing, outputVars
  <1>14. handle_signal \/ Terminated \/ UNCHANGED vars
         => UNCHANGED <<queueVars, output_error, main>>
    BY Zenon DEF handle_signal, Terminated, vars, mainVars, outputVars
  <1>15. QED
    BY <1>2, <1>3, <1>4, <1>5, <1>6, <1>7, <1>8, <1>9, <1>10, <1>11, <1>12, <1>13, <1>14,
       Zenon DEF Next, MainStep, WriterStep

\* The part of the stream's invariant that the steps of both threads change.
Flow ==
    /\ InOrder(Stream)
    /\ Fates(Elements(Stream), consumed, discarded, refused, sunk)
    /\ HealthInv

\* A sample the callback consumed without storing it.
LEMMA CallbackLoses ==
    ASSUME CollectorInv, StreamInv, [Next]_vars,
           CallbackInterrupted \/ CallbackInvalid \/ CallbackDropped \/ CallbackRefused
    PROVE  Flow'
  <1>1. /\ Consume /\ UNCHANGED <<slots, tail, count, hand, out, buf, sunk>>
        /\ \/ discarded' = discarded \cup {Incoming} /\ refused' = refused
           \/ refused' = refused \cup {Incoming} /\ discarded' = discarded
    BY DEF CallbackInterrupted, CallbackInvalid, CallbackDropped, CallbackRefused, Consume,
           CallbackError, Queue!Drop, Queue!Refuse, Queue!vars, queueVars, outputVars
  <1>2. consumed' = consumed \cup {Incoming} /\ Incoming \notin consumed
    BY <1>1, IncomingMayFollow DEF Consume
  <1>3. Stream' = Stream
    BY <1>1, StreamKept
  <1>4. Fates(Elements(Stream), consumed, discarded, refused, sunk) /\ InOrder(Stream)
    BY DEF StreamInv
  <1>5. Fates(Elements(Stream), consumed', discarded', refused', sunk')
    BY <1>1, <1>2, <1>4 DEF Fates
  <1>6. HealthInv'
    BY <1>3, HealthStep
  <1>7. QED
    BY <1>3, <1>4, <1>5, <1>6 DEF Flow

\* A sample the callback stored.
LEMMA CallbackStores ==
    ASSUME CollectorInv, StreamInv, [Next]_vars, CallbackStored
    PROVE  Flow'
  <1>1. /\ ~RingDone /\ UNCHANGED <<out, buf, sunk, discarded, refused>>
        /\ consumed' = consumed \cup {Incoming} /\ Queue!Store(Incoming)
    BY DEF CallbackStored, Consume, outputVars
  <1>2. /\ Incoming \in Sample /\ Incoming \notin consumed
        /\ InOrder(Append(Stream, Incoming))
        /\ Elements(Append(Stream, Incoming)) = Elements(Stream) \cup {Incoming}
    BY <1>1, IncomingMayFollow
  <1>3. Stream' = Append(Stream, Incoming)
    BY <1>1, <1>2, StoreExtends DEF Record
  <1>4. Fates(Elements(Stream), consumed, discarded, refused, sunk)
    BY DEF StreamInv
  <1>5. Fates(Elements(Stream) \cup {Incoming}, consumed', discarded', refused', sunk')
    BY <1>1, <1>2, <1>4 DEF Fates
  <1>6. HealthInv'
    BY <1>2, <1>3, HealthStep
  <1>7. QED
    BY <1>2, <1>3, <1>5, <1>6 DEF Flow

\* A periodic HEALTH event, stored or not.
LEMMA HealthFlows ==
    ASSUME CollectorInv, StreamInv, [Next]_vars, HealthDue
    PROVE  Flow'
  <1> DEFINE h == prepare_health_event
  <1>1. /\ UNCHANGED <<out, buf, sunk, consumed, discarded, refused>>
        /\ Queue!Store(h) \/ Queue!Drop(h) \/ Queue!Refuse(h)
    BY DEF HealthDue, outputVars, fateVars
  <1>2. /\ InOrder(Stream)
        /\ Fates(Elements(Stream), consumed, discarded, refused, sunk)
    BY DEF StreamInv
  <1>3. /\ h \in Record /\ h \notin Sample /\ InOrder(Append(Stream, h))
        /\ Elements(Append(Stream, h)) = Elements(Stream) \cup {h}
    BY HealthMayFollow
  <1> HIDE DEF h
  <1>4. CASE Queue!Store(h)
    <2>1. Stream' = Append(Stream, h)
      BY <1>1, <1>3, <1>4, StoreExtends
    <2>2. Elements(Stream') \cap Sample = Elements(Stream) \cap Sample
      BY <1>3, <2>1
    <2>3. Fates(Elements(Stream'), consumed', discarded', refused', sunk')
      BY <1>1, <1>2, <2>2 DEF Fates
    <2>4. HealthInv'
      BY <1>3, <2>1, HealthStep DEF h
    <2>5. QED
      BY <1>3, <2>1, <2>3, <2>4 DEF Flow
  <1>5. CASE Queue!Drop(h) \/ Queue!Refuse(h)
    <2>1. Stream' = Stream
      BY <1>1, <1>5, StreamKept DEF Queue!Drop, Queue!Refuse, Queue!vars
    <2>2. HealthInv'
      BY <2>1, HealthStep
    <2>3. QED
      BY <1>1, <1>2, <2>1, <2>2 DEF Flow
  <1>6. QED
    BY <1>1, <1>4, <1>5

\* The writer's steps and the last flush.
LEMMA MovesFlow ==
    ASSUME CollectorInv, StreamInv, [Next]_vars, Moves(Stream, Stream'), UNCHANGED fateVars
    PROVE  Flow'
  <1>1. Fates(Elements(Stream), consumed, discarded, refused, sunk)
    BY DEF StreamInv
  <1>2. /\ Fates(Elements(Stream'), consumed, discarded, refused, sunk')
        /\ Elements(Stream') \subseteq Elements(Stream)
    BY <1>1, FatesMove
  <1>3. HealthInv'
    BY <1>2, HealthStep
  <1>4. InOrder(Stream')
    BY DEF Moves
  <1>5. QED
    BY <1>2, <1>3, <1>4 DEF Flow, fateVars

\* The final HEALTH event, written past the queue.
LEMMA FinalHealthFlows ==
    ASSUME CollectorInv, StreamInv, [Next]_vars, FinalHealth
    PROVE  Flow'
  <1> DEFINE h == prepare_health_event
             s == Append(Stream, h)
  <1>1. Fates(Elements(Stream), consumed, discarded, refused, sunk) /\ UNCHANGED fateVars
    BY DEF StreamInv, FinalHealth
  <1>2. CASE output_error = 0
    <2>1. Moves(s, Stream')
      BY <1>2, FinalHealthMoves
    <2>2. h \notin Sample /\ Elements(s) = Elements(Stream) \cup {h}
      BY HealthMayFollow
    <2> HIDE DEF s, h
    <2>3. Fates(Elements(s), consumed, discarded, refused, sunk)
      <3>1. Elements(s) \cap Sample = Elements(Stream) \cap Sample
        BY <2>2
      <3>2. QED
        BY <1>1, <3>1 DEF Fates
    <2>4. /\ Fates(Elements(Stream'), consumed, discarded, refused, sunk')
          /\ Elements(Stream') \subseteq Elements(s)
      BY <2>1, <2>3, FatesMove
    <2>5. HealthInv'
      BY <2>2, <2>4, HealthStep DEF h
    <2>6. InOrder(Stream')
      BY <2>1 DEF Moves
    <2>7. QED
      BY <1>1, <2>4, <2>5, <2>6 DEF Flow, fateVars
  <1>3. CASE output_error # 0
    <2>1. UNCHANGED <<slots, tail, count, hand, out, buf, sunk>>
      BY <1>3 DEF FinalHealth, outputVars, queueVars
    <2>2. Stream' = Stream
      BY <2>1, StreamKept
    <2>3. Moves(Stream, Stream')
      BY <2>1, <2>2, KeptMoves DEF StreamInv
    <2>4. QED
      BY <1>1, <2>3, MovesFlow
  <1>4. QED
    BY <1>2, <1>3

\* No step loses, duplicates or reorders a sample or takes a counter back.
LEMMA FlowStep ==
    ASSUME CollectorInv, StreamInv, [Next]_vars
    PROVE  Flow'
  <1>1. CASE UNCHANGED <<slots, tail, count, hand, out, buf, sunk, fateVars>>
    <2>1. Stream' = Stream
      BY <1>1, StreamKept
    <2>2. Moves(Stream, Stream')
      BY <1>1, <2>1, KeptMoves DEF StreamInv
    <2>3. QED
      BY <1>1, <2>2, MovesFlow
  <1>2. CASE CallbackInterrupted \/ CallbackInvalid \/ CallbackDropped \/ CallbackRefused
    BY <1>2, CallbackLoses
  <1>3. CASE CallbackStored
    BY <1>3, CallbackStores
  <1>4. CASE HealthDue
    BY <1>4, HealthFlows
  <1>5. CASE WriterStep
    BY <1>5, WriterMoves, MovesFlow
  <1>6. CASE FinalHealth
    BY <1>6, FinalHealthFlows
  <1>7. CASE FinalFlush
    <2>1. UNCHANGED fateVars
      BY <1>7 DEF FinalFlush
    <2>2. QED
      BY <1>7, <2>1, FinalFlushMoves, MovesFlow
  <1>8. ASSUME NEW r \in Rings, NEW t \in SampleType, Produce(r, t)
        PROVE  UNCHANGED <<slots, tail, count, hand, out, buf, sunk, fateVars>>
    BY <1>8, Zenon DEF Produce, queueVars, outputVars
  <1>9. ASSUME NEW r \in Rings, NextRing(r)
        PROVE  UNCHANGED <<slots, tail, count, hand, out, buf, sunk, fateVars>>
    BY <1>9, Zenon DEF NextRing, queueVars, outputVars
  <1>10. CASE Finish \/ WriterSpuriousWake
    BY <1>1, <1>10 DEF Finish, WriterSpuriousWake, Queue!Stop, Queue!WriterSpuriousWake,
                       outputVars
  <1>11. \/ handle_signal \/ LoopTest \/ EpollInterrupted \/ EpollTimeout \/ EpollReady
         \/ PollReturns \/ CheckPoll \/ HealthNotDue \/ Joined \/ Cleanup
         \/ Terminated \/ UNCHANGED vars
         => UNCHANGED <<slots, tail, count, hand, out, buf, sunk, fateVars>>
    BY Zenon DEF handle_signal, LoopTest, EpollInterrupted, EpollTimeout, EpollReady,
       PollReturns, CheckPoll, HealthNotDue, Joined, Cleanup, Terminated, vars, queueVars,
       outputVars
  <1>12. QED
    BY <1>1, <1>2, <1>3, <1>4, <1>5, <1>6, <1>7, <1>8, <1>9, <1>10, <1>11, Zenon
       DEF Next, MainStep

\* main enters the loop with an empty stream and empty rings.
LEMMA StreamInit == Init => StreamInv
  <1> SUFFICES ASSUME Init PROVE StreamInv
    OBVIOUS
  <1>1. WriterInv
    BY DEF Init, Queue!Init, WriterInv
  <1>2. Stream = <<>>
    <2>1. Queue!Contents = <<>> /\ InHand = <<>> /\ out = <<>> /\ buf = <<>>
      BY DEF Init, Queue!Init, Queue!Contents, InHand
    <2>2. <<>> \in Seq(Record) /\ <<>> \o <<>> = <<>>
      BY ConcatEmptySeq, EmptySeq
    <2>3. QED
      BY <2>1, <2>2 DEF Stream
  <1>3. InOrder(Stream) /\ Elements(Stream) = {}
    BY <1>2 DEF InOrder, Elements
  <1>4. Fates(Elements(Stream), consumed, discarded, refused, sunk) /\ HealthInv
    BY <1>3 DEF Init, Fates, HealthInv
  <1>5. RingInv
    BY DEF Init, RingInv
  <1>6. QED
    BY <1>1, <1>3, <1>4, <1>5 DEF StreamInv

\* Every step of either thread, the sensors or the signal handler keeps the stream.
LEMMA StreamStep == CollectorInv /\ StreamInv /\ [Next]_vars => StreamInv'
  BY RingStep, WriterInvStep, FlowStep DEF StreamInv, Flow

\* The inductive invariant of the stream holds throughout.
THEOREM StreamInvariant == Spec => []StreamInv
  BY StreamInit, StreamStep, CollectorInvariant, PTL DEF Spec

\* From the ring buffers to the sink no sample is duplicated, vanishes or meets two
\* ends: callback, queue, writer and stdio account for each one exactly once.
THEOREM EverySampleOneFate == Spec => []OneFate
  <1>1. CollectorInv /\ StreamInv => OneFate
    <2> SUFFICES ASSUME CollectorInv, StreamInv PROVE OneFate
      OBVIOUS
    <2> DEFINE s == Samples(Stream)
    <2>1. s = Elements(Stream) \cap Sample
      BY DEF Samples, Elements
    <2>2. /\ consumed = s \cup discarded \cup refused \cup sunk
          /\ s \cap discarded = {} /\ s \cap refused = {} /\ s \cap sunk = {}
          /\ discarded \cap refused = {} /\ discarded \cap sunk = {} /\ refused \cap sunk = {}
      BY <2>1 DEF StreamInv, Fates
    <2>3. \A i, j \in DOMAIN Stream : Stream[i] \in Sample /\ Stream[i] = Stream[j] => i = j
      BY StreamParts, OrderedDistinct DEF StreamInv
    <2>4. \A i, j \in 1 .. 4 : i # j =>
            <<s, discarded, refused, sunk>>[i] \cap <<s, discarded, refused, sunk>>[j] = {}
      <3> HIDE DEF s
      <3> QED BY <2>2
    <2>5. QED
      BY <2>2, <2>3, <2>4 DEF OneFate
  <1>2. QED
    BY <1>1, StreamInvariant, CollectorInvariant, PTL

\* The output keeps the kernel's order within each ring and HEALTH counters never go
\* back, whatever the sink loses in between.
THEOREM OutputInOrder == Spec => []StreamOrder
  <1>1. StreamInv => StreamOrder
    BY DEF StreamInv, InOrder, Before, StreamOrder
  <1>2. QED
    BY <1>1, StreamInvariant, PTL

-----------------------------------------------------------------------------
(* A shutdown that met no fault of the sink.                               *)

\* Without a fault nothing written is left unflushed, and the last thing written is
\* the final HEALTH event.
LEMMA ExitInit == Init => ExitInv
  BY DEF Init, ExitInv

\* The last record of a longer stream is the last of what was added.
LEMMA LastOfConcat ==
    ASSUME NEW s \in Seq(Record), NEW t \in Seq(Record), t # <<>>
    PROVE  s \o t # <<>> /\ (s \o t)[Len(s \o t)] = t[Len(t)]
  <1>1. Len(s) \in Nat /\ Len(t) \in Nat /\ Len(t) # 0 /\ Len(s \o t) = Len(s) + Len(t)
    BY LenProperties, EmptySeq, ConcatProperties
  <1>2. Len(s) + Len(t) \in 1 .. Len(s) + Len(t) /\ Len(s) + Len(t) > Len(s)
        /\ (Len(s) + Len(t)) - Len(s) = Len(t)
    BY <1>1
  <1>3. (s \o t)[Len(s) + Len(t)] = t[(Len(s) + Len(t)) - Len(s)]
    BY <1>1, <1>2, ConcatProperties
  <1>4. s \o t # <<>>
    BY <1>1, ConcatProperties, EmptySeq
  <1>5. QED
    BY <1>1, <1>2, <1>3, <1>4

\* No step before the join fills the places after it; each step after it leaves what
\* the next one needs.
LEMMA ExitStep ==
    ASSUME CollectorInv, StreamInv, ExitInv, [Next]_vars
    PROVE  ExitInv'
  <1>1. /\ out \in Seq(Record) /\ buf \in Seq(Record) /\ faults \in Nat /\ faults' \in Nat
        /\ OutputTyped /\ faults' >= faults
        /\ output_error # 0 => faults > 0
    <2>1. OutputTyped'
      BY OutputTypedStep DEF CollectorInv
    <2>2. faults' >= faults
      BY OutputTypedStep DEF CollectorInv
    <2>3. QED
      BY <2>1, <2>2, TypeParts, CollectorAssumption DEF CollectorInv, StatusInv, OutputTyped
  <1> DEFINE Late == {"flush", "cleanup", "exit"}
             OutputSame == UNCHANGED <<unflushed, buf, out, faults>>
  <1>2. CASE OutputSame /\ main' \notin Late
    BY <1>1, <1>2 DEF ExitInv
  <1>3. CASE OutputSame /\ UNCHANGED <<main, dropped, priority_dropped>>
    BY <1>1, <1>3 DEF ExitInv, FinalRecord
  <1>4. CASE WriterStep
    <2>1. main' \notin Late
      <3>1. writer # "gone"
        BY <1>4 DEF WriterStep, WriterQueueStep, WriterWrites, WriterFails, WriterFlushes,
           Queue!WriterSleep, Queue!WriterLeave, Queue!WriterTake, Queue!WriterGiveUp,
           Queue!WriterWrote, Queue!WriterFailed, Queue!WriterFlushed
      <3>2. main' = main
        BY <1>4, WriterMoves
      <3>3. QED
        BY <3>1, <3>2 DEF StreamInv, WriterInv
    <2>2. buf' # <<>> => unflushed'
      BY <1>1, <1>4 DEF WriterStep, WriterQueueStep, WriterWrites, WriterFails,
         WriterFlushes, WriteReturnsZero, WriteFails, FlushBatched, FlushForced, FlushNow,
         SinkFails, outputVars, ExitInv
    <2>3. QED
      BY <2>1, <2>2 DEF ExitInv
  <1>5. CASE FinalHealth
    <2>1. main' = "flush" /\ UNCHANGED <<dropped, priority_dropped>>
      BY <1>5 DEF FinalHealth, GoTo, queueVars
    <2>2. CASE output_error # 0
      <3>1. OutputSame
        BY <1>5, <2>2 DEF FinalHealth, outputVars
      <3>2. faults > 0
        BY <1>1, <2>2
      <3>3. QED
        BY <1>1, <2>1, <3>1, <3>2 DEF ExitInv
    <2>3. CASE output_error = 0
      <3> DEFINE h == prepare_health_event
      <3>1. WriteReturnsZero(h) \/ WriteFails(h)
        BY <1>5, <2>3 DEF FinalHealth
      <3>2. h \in Health /\ h \in Record /\ h.dropped = dropped
            /\ h.priority_dropped = priority_dropped
        BY HealthIsRecord DEF CollectorInv, Record, prepare_health_event
      <3> HIDE DEF h
      <3>3. CASE buf' = Append(buf, h) /\ unflushed' = TRUE
        <4>1. buf' # <<>> /\ buf'[Len(buf')] = h
          BY <1>1, <3>2, <3>3, AppendProperties
        <4>2. FinalRecord(buf)'
          BY <2>1, <3>2, <4>1 DEF FinalRecord
        <4>3. QED
          BY <2>1, <3>3, <4>2, Zenon DEF ExitInv
      <3>4. CASE SinkFails(<<h>>)
        <4>1. faults' > 0 /\ buf' = <<>>
          BY <1>1, <3>4 DEF SinkFails
        <4>2. QED
          BY <1>1, <2>1, <4>1 DEF ExitInv
      <3>5. QED
        BY <3>1, <3>3, <3>4 DEF WriteReturnsZero, WriteFails
    <2>4. QED
      BY <2>2, <2>3
  <1>6. CASE FinalFlush
    <2>1. main = "flush" /\ main' = "cleanup" /\ UNCHANGED <<dropped, priority_dropped>>
          /\ FlushForced
      BY <1>6 DEF FinalFlush, GoTo, queueVars
    <2>2. faults' = 0 => FinalRecord(buf) /\ unflushed
      BY <1>1, <2>1 DEF ExitInv, FinalRecord
    <2>3. faults' # 0 /\ buf' # <<>> => unflushed'
      BY <1>1, <2>1 DEF ExitInv, FlushForced, FlushNow, SinkFails, outputVars
    <2>4. CASE faults' = 0
      <3>1. out' = out \o buf /\ buf' = <<>>
        BY <1>1, <2>1, <2>2, <2>4 DEF FlushForced, FlushNow, SinkFails
      <3>2. FinalRecord(out)'
        BY <1>1, <2>1, <2>2, <2>4, <3>1, LastOfConcat DEF FinalRecord
      <3>3. QED
        BY <2>1, <3>1, <3>2 DEF ExitInv
    <2>5. QED
      BY <2>1, <2>3, <2>4 DEF ExitInv
  <1>7. CASE Cleanup
    BY <1>1, <1>7 DEF Cleanup, GoTo, ExitInv, FinalRecord, outputVars, queueVars
  <1>8. ASSUME NEW r \in Rings, NEW t \in SampleType, Produce(r, t)
        PROVE  OutputSame /\ UNCHANGED <<main, dropped, priority_dropped>>
    BY <1>8, Zenon DEF Produce, queueVars, mainVars, outputVars
  <1>9. ASSUME NEW r \in Rings, NextRing(r)
        PROVE  OutputSame /\ UNCHANGED <<main, dropped, priority_dropped>>
    BY <1>9, Zenon DEF NextRing, queueVars, outputVars
  <1>10. \/ handle_signal \/ WriterSpuriousWake \/ Terminated \/ UNCHANGED vars
         => OutputSame /\ UNCHANGED <<main, dropped, priority_dropped>>
    BY Zenon DEF handle_signal, WriterSpuriousWake, Queue!WriterSpuriousWake, Terminated,
       vars, mainVars, outputVars, queueVars
  <1>11. CASE LoopTest \/ EpollInterrupted \/ EpollTimeout \/ EpollReady \/ PollReturns
             \/ CheckPoll \/ HealthNotDue \/ Finish \/ Joined
    BY <1>2, <1>11 DEF LoopTest, EpollInterrupted, EpollTimeout, EpollReady, PollReturns,
       CheckPoll, HealthNotDue, LoopEnd, Finish, Joined, GoTo, outputVars
  <1>12. CASE HealthDue
    BY <1>2, <1>12 DEF HealthDue, LoopEnd, GoTo, outputVars
  <1>13. CASE CallbackInterrupted \/ CallbackInvalid \/ CallbackStored \/ CallbackDropped
              \/ CallbackRefused
    BY <1>2, <1>13 DEF CallbackInterrupted, CallbackInvalid, CallbackStored,
       CallbackDropped, CallbackRefused, Consume, CallbackOk, CallbackError, GoTo, outputVars
  <1>14. QED
    BY <1>3, <1>4, <1>5, <1>6, <1>7, <1>8, <1>9, <1>10, <1>11, <1>12, <1>13, Zenon
       DEF Next, MainStep

\* A process whose sink never failed leaves a complete stream: queue drained, stdio
\* flushed, and the exact drop counts in the last record, which security-smoke.sh reads.
THEOREM CleanExit == Spec => []CleanExitComplete
  <1>1. CollectorInv /\ StreamInv /\ ExitInv => CleanExitComplete
    <2> SUFFICES ASSUME CollectorInv, StreamInv, ExitInv, main = "exit", faults = 0
                 PROVE  /\ count = 0 /\ buf = <<>>
                        /\ Last(out) \in Health
                        /\ Last(out).dropped = dropped
                        /\ Last(out).priority_dropped = priority_dropped
      BY DEF CleanExitComplete
    <2>1. buf = <<>> /\ FinalRecord(out)
      BY DEF ExitInv
    <2>2. output_error = 0
      BY DEF CollectorInv, StatusInv
    <2>3. count = 0
      BY <2>2 DEF StreamInv, WriterInv
    <2>4. QED
      BY <2>1, <2>3 DEF FinalRecord, Last
  <1>2. QED
    BY <1>1, ExitInit, ExitStep, StreamInvariant, CollectorInvariant, PTL DEF Spec
=============================================================================
