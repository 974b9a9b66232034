------------------------------ MODULE Collector ------------------------------
(***************************************************************************)
(* The collector process of agent/src/user/host_events.c after start-up:   *)
(* the main thread polls the kernel ring buffers and enqueues what it      *)
(* reads, the writer thread takes events from the queue and writes them to *)
(* the output stream, and a signal or an output error ends both.           *)
(*                                                                         *)
(* The queue is module WriterQueue. The kernel side of the ring buffers,   *)
(* libbpf's poll loop, stdio and the sink behind it are not code of the    *)
(* repository: they are modelled from how host_events.c uses them.         *)
(***************************************************************************)
EXTENDS Integers, Sequences, FiniteSets, SequencesExt

CONSTANTS
    NoEvent,       \* see WriterQueue
    Capacity,      \* options.queue_capacity
    Rings,         \* the ring buffers added to the poll set (host, network)
    RingCapacity,  \* samples a ring buffer holds
    SampleType,    \* event types the sensors emit in this instance
    Binary,        \* options.format = OUTPUT_BINARY
    SelfTest,      \* options.self_test
    SelfTestPolls, \* polls of a self-test (5 in the code)
    MaxSamples,    \* bound: samples the sensors produce
    MaxHealth,     \* bound: periodic HEALTH events
    MaxFaults      \* bound: failures of the output sink

ASSUME CollectorAssumption ==
    /\ RingCapacity \in Nat \ {0}
    /\ Binary \in BOOLEAN /\ SelfTest \in BOOLEAN
    /\ SelfTestPolls \in Nat /\ MaxSamples \in Nat
    /\ MaxHealth \in Nat /\ MaxFaults \in Nat

\* A record of a type minimum_event_size does not know, or of the wrong version or
\* size, is represented by AGENT_EVENT_UNSPEC.
EventType ==
    {"PROCESS_FORK", "PROCESS_EXEC", "PROCESS_EXIT", "SYSCALL_ENTER",
     "SYSCALL_EXIT", "FILE_OPEN", "FILE_UNLINK", "NETWORK_CONNECT",
     "NETWORK_BIND", "NETWORK_LISTEN", "NETWORK_ACCEPT", "NETWORK_UDP_SEND",
     "NETWORK_TCP_STATE", "HEALTH"}

ASSUME SampleTypeAssumption == SampleType \subseteq (EventType \ {"HEALTH"}) \cup {"UNSPEC"}

\* The n-th sample produced, found in a ring buffer.
Sample == [type : EventType \cup {"UNSPEC"}, ring : Rings, n : Nat]

\* A HEALTH event carries the loss counters of the moment it was prepared.
Health == [type : {"HEALTH"}, dropped : Nat, priority_dropped : Nat, lost : Nat]

Record == Sample \cup Health

ASSUME QueueAssumption == Capacity \in Nat \ {0} /\ NoEvent \notin Record

EIO == 5
EINTR == 4

VARIABLES
    slots, head, tail, count, stopping, dropped, priority_dropped, writer, hand,
    ring,          \* ring[r]: samples committed by the kernel, not yet consumed
    lost,          \* samples the kernel could not reserve room for
    produced,      \* samples produced so far
    stop,          \* the flag handle_signal sets
    main,          \* where the main thread is
    ready,         \* rings epoll_wait reported and libbpf has still to process
    cur,           \* the ring libbpf processes, or NoEvent
    error,         \* main's local variable error: the sign and the cause
    healths,       \* periodic HEALTH events prepared so far
    polls,         \* self_test_polls
    output_error,  \* state.output_error
    unflushed,     \* state.unflushed_events > 0
    buf,           \* the stdio buffer of the output
    out,           \* the records that reached the sink
    faults,        \* failed writes of the sink so far
    consumed,      \* history: samples taken from the rings
    discarded,     \* history: samples enqueue_event dropped or found invalid
    refused,       \* history: samples whose callback returned an error
    sunk           \* history: samples stdio accepted and the sink lost

queueVars == <<slots, head, tail, count, stopping, dropped, priority_dropped, writer, hand>>
kernelVars == <<ring, lost, produced>>
mainVars == <<main, ready, cur, error, healths, polls>>
outputVars == <<output_error, unflushed, buf, out, faults, sunk>>
fateVars == <<consumed, discarded, refused>>
vars == <<queueVars, kernelVars, stop, mainVars, outputVars, fateVars>>

Queue == INSTANCE WriterQueue WITH Event <- Record

Init ==
    /\ Queue!Init
    /\ ring = [r \in Rings |-> <<>>] /\ lost = 0 /\ produced = 0
    /\ stop = FALSE
    /\ main = "loop" /\ ready = {} /\ cur = NoEvent /\ error = 0
    /\ healths = 0 /\ polls = 0
    /\ output_error = 0 /\ unflushed = FALSE
    /\ buf = <<>> /\ out = <<>> /\ faults = 0 /\ sunk = {}
    /\ consumed = {} /\ discarded = {} /\ refused = {}

-----------------------------------------------------------------------------
(* The sensors and the signal.                                             *)

\* A BPF program reserves room in its ring and submits a sample, or counts a loss.
Produce(r, t) ==
    /\ main # "exit"
    /\ produced < MaxSamples
    /\ produced' = produced + 1
    /\ IF Len(ring[r]) < RingCapacity
       THEN /\ ring' = [ring EXCEPT ![r] = Append(@, [type |-> t, ring |-> r, n |-> produced'])]
            /\ UNCHANGED lost
       ELSE /\ lost' = lost + 1
            /\ UNCHANGED ring
    /\ UNCHANGED <<queueVars, stop, mainVars, outputVars, fateVars>>

handle_signal ==
    /\ main # "exit"
    /\ stop' = TRUE
    /\ UNCHANGED <<queueVars, kernelVars, mainVars, outputVars, fateVars>>

-----------------------------------------------------------------------------
(* The output stream. Each operator says what happens to outputVars.       *)

Samples(s) == {s[i] : i \in DOMAIN s} \cap Sample

\* The sink fails: a prefix of what was buffered got through, the rest is lost.
SinkFails(more) ==
    /\ faults < MaxFaults
    /\ faults' = faults + 1
    /\ \E k \in 0 .. Len(buf) :
         /\ out' = out \o SubSeq(buf, 1, k)
         /\ sunk' = sunk \cup Samples(SubSeq(buf, k + 1, Len(buf)) \o more)
    /\ buf' = <<>>

\* Mutant of WriteReturnsZero: a priority record bypasses the stdio buffer.
WritePriorityThrough(e) ==
    /\ IF Queue!event_is_priority(e) THEN out' = Append(out, e) /\ UNCHANGED buf
       ELSE buf' = Append(buf, e) /\ UNCHANGED out
    /\ output_error' = 0
    /\ unflushed' = TRUE
    /\ UNCHANGED <<faults, sunk>>

\* write_event returns 0. A binary write stores its result in output_error even
\* when that result is success; the NDJSON path never looks at stdio's result.
WriteReturnsZero(e) ==
    /\ \/ /\ buf' = Append(buf, e)
          /\ UNCHANGED <<out, faults, sunk>>
       \/ ~Binary /\ SinkFails(<<e>>)
    /\ output_error' = IF Binary THEN 0 ELSE output_error
    /\ unflushed' = TRUE

\* write_binary_event fails because stdio had to empty its buffer and could not.
WriteFails(e) ==
    /\ Binary
    /\ SinkFails(<<e>>)
    /\ output_error' = -EIO
    /\ UNCHANGED unflushed

\* Mutant of FlushNow: the counter is reset and fflush forgotten.
FlushCounterOnly ==
    /\ unflushed' = FALSE
    /\ UNCHANGED <<output_error, buf, out, faults, sunk>>

\* flush_output once it decided to flush.
FlushNow ==
    /\ unflushed' = FALSE
    /\ \/ /\ out' = out \o buf
          /\ buf' = <<>>
          /\ UNCHANGED <<output_error, faults, sunk>>
       \/ /\ SinkFails(<<>>)
          /\ output_error' = -EIO

\* flush_output with force: nothing to do unless something was written.
FlushForced == IF unflushed THEN FlushNow ELSE UNCHANGED outputVars

\* flush_output without force: 256 events or half a second, or not yet.
FlushBatched == FlushForced \/ UNCHANGED outputVars

-----------------------------------------------------------------------------
(* The main thread.                                                        *)

GoTo(place) == main' = place

\* while (!stop)
LoopTest ==
    /\ main = "loop"
    /\ GoTo(IF stop THEN "finish" ELSE "poll")
    /\ UNCHANGED <<queueVars, kernelVars, stop, ready, cur, error, healths, polls,
                   outputVars, fateVars>>

\* ring_buffer__poll: epoll_wait is interrupted by a signal.
EpollInterrupted ==
    /\ main = "poll" /\ stop
    /\ error' = -EINTR
    /\ GoTo("check")
    /\ UNCHANGED <<queueVars, kernelVars, stop, ready, cur, healths, polls, outputVars, fateVars>>

\* epoll_wait returns after its timeout with no ring readable.
EpollTimeout ==
    /\ main = "poll"
    /\ \A r \in Rings : ring[r] = <<>>
    /\ error' = 0
    /\ GoTo("check")
    /\ UNCHANGED <<queueVars, kernelVars, stop, ready, cur, healths, polls, outputVars, fateVars>>

EpollReady ==
    /\ main = "poll"
    /\ ready' = {r \in Rings : ring[r] # <<>>}
    /\ ready' # {}
    /\ error' = 0
    /\ GoTo("drain")
    /\ UNCHANGED <<queueVars, kernelVars, stop, cur, healths, polls, outputVars, fateVars>>

RingDone == cur \in Rings => ring[cur] = <<>>

\* libbpf goes on to the next ring that was reported.
NextRing(r) ==
    /\ main = "drain" /\ RingDone
    /\ r \in ready
    /\ cur' = r
    /\ ready' = ready \ {r}
    /\ UNCHANGED <<queueVars, kernelVars, stop, main, error, healths, polls, outputVars, fateVars>>

\* Every reported ring is drained: poll returns the number of samples it consumed.
PollReturns ==
    /\ main = "drain" /\ RingDone
    /\ ready = {}
    /\ cur' = NoEvent
    /\ GoTo("check")
    /\ UNCHANGED <<queueVars, kernelVars, stop, ready, error, healths, polls, outputVars, fateVars>>

\* The next sample of the ring goes to queue_event, and is consumed whatever that returns.
Incoming == Head(ring[cur])

Consume ==
    /\ main = "drain" /\ ~RingDone
    /\ ring' = [ring EXCEPT ![cur] = Tail(@)]
    /\ consumed' = consumed \cup {Incoming}
    /\ UNCHANGED <<lost, produced, stop, healths, polls, outputVars>>

event_record_valid(e) == e.type \in EventType

\* The callback returned 0: libbpf counts the sample and goes on.
CallbackOk ==
    /\ error' = 1
    /\ UNCHANGED <<main, ready, cur>>

\* The callback returned an error: libbpf gives up the poll with it.
CallbackError(err) ==
    /\ error' = err
    /\ ready' = {} /\ cur' = NoEvent
    /\ GoTo("check")
    /\ refused' = refused \cup {Incoming}
    /\ UNCHANGED <<discarded>>

\* enqueue_event sees the stop flag.
CallbackInterrupted ==
    /\ Consume
    /\ stop
    /\ CallbackError(-EINTR)
    /\ UNCHANGED queueVars

\* enqueue_event skips an incompatible record.
CallbackInvalid ==
    /\ Consume
    /\ ~stop /\ ~event_record_valid(Incoming)
    /\ CallbackOk
    /\ discarded' = discarded \cup {Incoming}
    /\ UNCHANGED <<queueVars, refused>>

CallbackStored ==
    /\ Consume
    /\ ~stop /\ event_record_valid(Incoming)
    /\ Queue!Store(Incoming)
    /\ CallbackOk
    /\ UNCHANGED <<discarded, refused>>

CallbackDropped ==
    /\ Consume
    /\ ~stop /\ event_record_valid(Incoming)
    /\ Queue!Drop(Incoming)
    /\ CallbackOk
    /\ discarded' = discarded \cup {Incoming}
    /\ UNCHANGED refused

\* enqueue_event finds the queue closed by a failed writer.
CallbackRefused ==
    /\ Consume
    /\ ~stop /\ event_record_valid(Incoming)
    /\ Queue!Refuse(Incoming)
    /\ CallbackError(-EIO)

\* Mutant of CheckPoll: an interrupted poll counts as a failed one.
CheckPollKeepsEintr ==
    /\ main = "check"
    /\ IF error < 0 THEN UNCHANGED error /\ GoTo("finish")
       ELSE IF output_error # 0 THEN error' = output_error /\ GoTo("finish")
       ELSE UNCHANGED error /\ GoTo("health")
    /\ UNCHANGED <<queueVars, kernelVars, stop, ready, cur, healths, polls, outputVars, fateVars>>

\* Mutant of CheckPoll: the main loop does not look at the output.
CheckPollIgnoresOutput ==
    /\ main = "check"
    /\ IF error = -EINTR THEN error' = 0 /\ GoTo("finish")
       ELSE IF error < 0 THEN UNCHANGED error /\ GoTo("finish")
       ELSE UNCHANGED error /\ GoTo("health")
    /\ UNCHANGED <<queueVars, kernelVars, stop, ready, cur, healths, polls, outputVars, fateVars>>

\* Mutant of CheckPoll: a failed poll is tried again.
CheckPollRetries ==
    /\ main = "check"
    /\ IF error = -EINTR THEN error' = 0 /\ GoTo("finish")
       ELSE IF error >= 0 /\ output_error # 0 THEN error' = output_error /\ GoTo("finish")
       ELSE UNCHANGED error /\ GoTo("health")
    /\ UNCHANGED <<queueVars, kernelVars, stop, ready, cur, healths, polls, outputVars, fateVars>>

\* The tests after the poll: interrupted, failed, or an output error to report.
CheckPoll ==
    /\ main = "check"
    /\ IF error = -EINTR THEN error' = 0 /\ GoTo("finish")
       ELSE IF error < 0 THEN UNCHANGED error /\ GoTo("finish")
       ELSE IF output_error # 0 THEN error' = output_error /\ GoTo("finish")
       ELSE UNCHANGED error /\ GoTo("health")
    /\ UNCHANGED <<queueVars, kernelVars, stop, ready, cur, healths, polls, outputVars, fateVars>>

prepare_health_event ==
    [type |-> "HEALTH", dropped |-> dropped, priority_dropped |-> priority_dropped,
     lost |-> lost]

\* Mutant of LoopEnd: the poll is not counted.
LoopEndUncounted ==
    /\ UNCHANGED polls
    /\ GoTo(IF SelfTest /\ polls >= SelfTestPolls THEN "finish" ELSE "loop")

\* The end of the loop body: a self-test leaves after SelfTestPolls polls.
LoopEnd ==
    /\ polls' = IF SelfTest THEN polls + 1 ELSE polls
    /\ GoTo(IF SelfTest /\ polls' >= SelfTestPolls THEN "finish" ELSE "loop")

\* Less than HEALTH_INTERVAL_NS since the last HEALTH event.
HealthNotDue ==
    /\ main = "health"
    /\ LoopEnd
    /\ UNCHANGED <<queueVars, kernelVars, stop, ready, cur, error, healths, outputVars, fateVars>>

\* enqueue_health_event; its result is not looked at.
HealthDue ==
    /\ main = "health"
    /\ healths < MaxHealth
    /\ healths' = healths + 1
    /\ LET h == prepare_health_event
       IN Queue!Store(h) \/ Queue!Drop(h) \/ Queue!Refuse(h)
    /\ LoopEnd
    /\ UNCHANGED <<kernelVars, stop, ready, cur, error, outputVars, fateVars>>

\* event_queue_finish, up to the join.
Finish ==
    /\ main = "finish"
    /\ Queue!Stop
    /\ GoTo("join")
    /\ UNCHANGED <<kernelVars, stop, ready, cur, error, healths, polls, outputVars, fateVars>>

\* pthread_join returns; the array is freed with whatever it still holds.
Joined ==
    /\ main = "join"
    /\ writer = "gone"
    /\ GoTo("final")
    /\ UNCHANGED <<queueVars, kernelVars, stop, ready, cur, error, healths, polls, outputVars, fateVars>>

\* The last HEALTH event is written past the queue, unless the output failed.
FinalHealth ==
    /\ main = "final"
    /\ IF output_error = 0
       THEN LET h == prepare_health_event IN WriteReturnsZero(h) \/ WriteFails(h)
       ELSE UNCHANGED outputVars
    /\ GoTo("flush")
    /\ UNCHANGED <<queueVars, kernelVars, stop, ready, cur, error, healths, polls, fateVars>>

FinalFlush ==
    /\ main = "flush"
    /\ FlushForced
    /\ GoTo("cleanup")
    /\ UNCHANGED <<queueVars, kernelVars, stop, ready, cur, error, healths, polls, fateVars>>

\* The cleanup label: the second event_queue_finish and flush find nothing to do.
Cleanup ==
    /\ main = "cleanup"
    /\ error' = IF error = 0 /\ output_error # 0 THEN output_error ELSE error
    /\ GoTo("exit")
    /\ UNCHANGED <<queueVars, kernelVars, stop, ready, cur, healths, polls, outputVars, fateVars>>

-----------------------------------------------------------------------------
(* The writer thread: the queue's side of a step with the output's.        *)

WriterQueueStep ==
    /\ \/ Queue!WriterSleep \/ Queue!WriterLeave \/ Queue!WriterTake
       \/ Queue!WriterGiveUp
    /\ UNCHANGED <<kernelVars, stop, mainVars, outputVars, fateVars>>

WriterSpuriousWake ==
    /\ Queue!WriterSpuriousWake
    /\ UNCHANGED <<kernelVars, stop, mainVars, outputVars, fateVars>>

WriterWrites ==
    /\ Queue!WriterWrote
    /\ WriteReturnsZero(hand)
    /\ UNCHANGED <<kernelVars, stop, mainVars, fateVars>>

\* Mutant of WriterFails: the writer keeps the event and tries again.
WriterFailsRetries ==
    /\ writer = "write"
    /\ WriteFails(hand)
    /\ UNCHANGED <<queueVars, kernelVars, stop, mainVars, fateVars>>

WriterFails ==
    /\ Queue!WriterFailed
    /\ WriteFails(hand)
    /\ UNCHANGED <<kernelVars, stop, mainVars, fateVars>>

WriterFlushes ==
    /\ Queue!WriterFlushed
    /\ FlushBatched
    /\ UNCHANGED <<kernelVars, stop, mainVars, fateVars>>

-----------------------------------------------------------------------------
MainStep ==
    \/ LoopTest \/ EpollInterrupted \/ EpollTimeout \/ EpollReady
    \/ \E r \in Rings : NextRing(r)
    \/ PollReturns
    \/ CallbackInterrupted \/ CallbackInvalid \/ CallbackStored
    \/ CallbackDropped \/ CallbackRefused
    \/ CheckPoll \/ HealthNotDue \/ HealthDue
    \/ Finish \/ Joined \/ FinalHealth \/ FinalFlush \/ Cleanup

WriterStep == WriterQueueStep \/ WriterWrites \/ WriterFails \/ WriterFlushes

\* The process has ended.
Terminated == main = "exit" /\ UNCHANGED vars

Next ==
    \/ \E r \in Rings, t \in SampleType : Produce(r, t)
    \/ handle_signal
    \/ MainStep
    \/ WriterStep
    \/ WriterSpuriousWake
    \/ Terminated

Spec == Init /\ [][Next]_vars

\* Both threads are scheduled and their calls return: epoll_wait has a timeout, and
\* the sink accepts or fails each write sooner or later.
FairSpec == Spec /\ WF_vars(MainStep) /\ WF_vars(WriterStep)

-----------------------------------------------------------------------------
TypeOK ==
    /\ Queue!TypeOK
    /\ ring \in [Rings -> Seq(Sample)]
    /\ lost \in Nat /\ produced \in 0 .. MaxSamples
    /\ stop \in BOOLEAN
    /\ main \in {"loop", "poll", "drain", "check", "health", "finish", "join",
                 "final", "flush", "cleanup", "exit"}
    /\ ready \subseteq Rings
    /\ cur \in Rings \cup {NoEvent}
    /\ error \in {-EIO, -EINTR, 0, 1}
    /\ healths \in 0 .. MaxHealth /\ polls \in Nat
    /\ output_error \in {-EIO, 0}
    /\ unflushed \in BOOLEAN
    /\ buf \in Seq(Record) /\ out \in Seq(Record)
    /\ faults \in 0 .. MaxFaults
    /\ consumed \subseteq Sample /\ discarded \subseteq Sample
    /\ refused \subseteq Sample /\ sunk \subseteq Sample

InHand == IF hand = NoEvent THEN <<>> ELSE <<hand>>

\* Everything accepted by the queue and not lost by the sink, in stream order.
Stream == out \o buf \o InHand \o Queue!Contents

\* Across callback, queue, writer and stdio no sample is duplicated and none
\* vanishes: each sample consumed from a ring is in exactly one place of the
\* stream, or was discarded, refused or lost by the sink, and only one of these.
OneFate ==
    /\ consumed = Samples(Stream) \cup discarded \cup refused \cup sunk
    /\ \A i, j \in DOMAIN Stream : Stream[i] \in Sample /\ Stream[i] = Stream[j] => i = j
    /\ LET fate == <<Samples(Stream), discarded, refused, sunk>>
       IN \A i, j \in 1 .. 4 : i # j => fate[i] \cap fate[j] = {}

\* The output keeps the kernel's order within each ring buffer, and the loss
\* counters of successive HEALTH events never go back: AI consumers difference them.
StreamOrder ==
    \A i, j \in DOMAIN Stream : i < j =>
        LET a == Stream[i]
            b == Stream[j]
        IN /\ a \in Sample /\ b \in Sample /\ a.ring = b.ring => a.n < b.n
           /\ a \in Health /\ b \in Health =>
                /\ a.dropped <= b.dropped
                /\ a.priority_dropped <= b.priority_dropped
                /\ a.lost <= b.lost

\* When the sink never failed the process leaves a complete stream: the queue is
\* drained, stdio is flushed and the last record is a HEALTH event with the exact
\* final drop counts (security-smoke.sh reads it as the last record).
CleanExitComplete ==
    main = "exit" /\ faults = 0 =>
        /\ count = 0 /\ buf = <<>>
        /\ Last(out) \in Health
        /\ Last(out).dropped = dropped
        /\ Last(out).priority_dropped = priority_dropped

\* Shutting down costs at most one sample already consumed from a ring buffer.
AtMostOneRefused == Cardinality(refused) <= 1

\* A signal never turns into a failing exit status: only a failed sink does.
FailureNeedsFault == main = "exit" /\ error < 0 => faults > 0

\* SIGINT and SIGTERM end the process however they interleave with polling,
\* with a full queue and with a failing writer.
StopTerminates == stop ~> main = "exit"

\* host-events --self-test ends by itself, with or without events, a signal or a
\* failing sink.
SelfTestTerminates == SelfTest => <>(main = "exit")

\* A writer that gave up on the output takes the process down with it, without
\* any signal: the main loop does not go on feeding a closed queue.
WriterFailureTerminates == writer = "failed" ~> main = "exit"

\* Whatever asks the collector to end, it ends: a signal, or a writer that gave up.
Terminates == StopTerminates /\ WriterFailureTerminates

\* Main thread, writer thread and shutdown use the queue only through its critical
\* sections: the whole collector is a behaviour of module WriterQueue.
QueueUsedAsSpecified == Queue!Spec

\* PROJECT_REPORT.md lists where events can be lost and which statistic counts each
\* place: with a healthy sink every sample the callback consumed is in the output or
\* covered by the drop count of the final HEALTH event.
EveryLossCounted ==
    main = "exit" /\ faults = 0 =>
        Cardinality(consumed \ Samples(out)) <= Last(out).dropped

\* The cleanup code of main turns an output error into a failing exit status, by
\* which a self-test is judged.
OutputErrorReported == main = "exit" /\ output_error # 0 => error < 0
=============================================================================
