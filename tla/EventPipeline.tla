---------------------------- MODULE EventPipeline ----------------------------
(***************************************************************************)
(* Events on their way from the kernel's ring buffer to standard output    *)
(* and to the asynchronous worker, and the end of owLSM                    *)
(* (RingbufferMessagesHandler, BaseAsyncWorker, PosixSignalHandler, main). *)
(*                                                                         *)
(* Four threads: main waits for a signal and then takes everything down;   *)
(* the polling thread moves records from the ring buffer to m_main_queue;  *)
(* the consumer swaps that queue for its own, writes the batch and hands   *)
(* it to the worker; the worker processes one item at a time.  An event is *)
(* its number in the order of submission.  std::condition_variable::wait   *)
(* is two steps, the test of the predicate and the blocking, because a     *)
(* notification between them is lost unless the notifier takes the mutex.  *)
(***************************************************************************)
EXTENDS Naturals, Sequences, SequencesExt

CONSTANTS MaxEvents,      \* bound: events submitted
          RingSize,       \* records that the ring buffer holds
          MaxQueue,       \* max_events_queue_size (10000)
          ShellEvents,    \* events that are handed to the worker
          WriteErrors     \* may write(2) to the output fail?

ASSUME BoundsOK ==
    /\ MaxEvents \in Nat /\ RingSize \in Nat \ {0} /\ MaxQueue \in Nat \ {0}
    /\ ShellEvents \subseteq 1 .. MaxEvents
    /\ WriteErrors \in BOOLEAN

VARIABLES submitted,      \* events submitted by the hooks so far
          attached,       \* are the hooks attached?
          ring,           \* the ring buffer rb
          m_running,      \* of the RingbufferMessagesHandler
          poller, polled, \* the polling thread and the record in its hands
          m_main_queue,
          consumer, m_thread_queue,
          output,         \* what was written to the output
          rejected,       \* dropped by the callback: queue full
          discarded,      \* dropped by the callback: not running
          unwritten,      \* dropped by a failed write
          main, exit_requested,
          worker, worker_mutex, worker_running, worker_queue, processed

handler == <<m_running, poller, polled, m_main_queue, consumer, m_thread_queue>>
async == <<worker, worker_mutex, worker_running, worker_queue, processed>>
fates == <<output, rejected, discarded, unwritten>>
vars == <<submitted, attached, ring, handler, fates, main, exit_requested, async>>

Init ==
    /\ submitted = 0 /\ attached = TRUE /\ ring = <<>>
    /\ m_running = TRUE
    /\ poller = "loop" /\ polled = 0
    /\ m_main_queue = <<>> /\ m_thread_queue = <<>>
    /\ consumer = "loop"
    /\ output = <<>> /\ rejected = {} /\ discarded = {} /\ unwritten = {}
    /\ main = "check" /\ exit_requested = FALSE
    /\ worker = "lock" /\ worker_mutex = FALSE /\ worker_running = TRUE
    /\ worker_queue = <<>> /\ processed = {}

-----------------------------------------------------------------------------
\* A hook submits an event; a full ring buffer has no room for one.
submit_event ==
    /\ attached /\ submitted < MaxEvents /\ Len(ring) < RingSize
    /\ submitted' = submitted + 1
    /\ ring' = Append(ring, submitted + 1)
    /\ UNCHANGED <<attached, handler, fates, main, exit_requested, async>>

(* The polling thread. *)

ringbufferWorker ==
    /\ poller = "loop"
    /\ poller' = IF m_running THEN "poll" ELSE "done"
    /\ UNCHANGED <<submitted, attached, ring, m_running, polled, m_main_queue,
                   consumer, m_thread_queue, fates, main, exit_requested, async>>

\* ring_buffer__poll returns when it finds no record.
PollReturns ==
    /\ poller = "poll" /\ ring = <<>>
    /\ poller' = "loop"
    /\ UNCHANGED <<submitted, attached, ring, m_running, polled, m_main_queue,
                   consumer, m_thread_queue, fates, main, exit_requested, async>>

\* ring_buffer__poll consumes a record; the callback drops it when not running.
eventReceivedCallback ==
    /\ poller = "poll" /\ ring # <<>>
    /\ ring' = Tail(ring)
    /\ IF m_running
         THEN /\ poller' = "push" /\ polled' = Head(ring)
              /\ UNCHANGED discarded
         ELSE /\ discarded' = discarded \union {Head(ring)}
              /\ UNCHANGED <<poller, polled>>
    /\ UNCHANGED <<submitted, attached, m_running, m_main_queue, consumer, m_thread_queue,
                   output, rejected, unwritten, main, exit_requested, async>>

PushFront ==
    /\ poller = "push"
    /\ m_main_queue' = IF Len(m_main_queue) < MaxQueue THEN <<polled>> \o m_main_queue ELSE m_main_queue
    /\ poller' = "poll" /\ polled' = 0
    /\ UNCHANGED <<submitted, attached, ring, m_running, consumer, m_thread_queue,
                   fates, main, exit_requested, async>>

\* The callback's second half, under m_main_queue_mutex.  The error that a
\* full queue returns ends the poll; the record stays consumed.
Push ==
    /\ poller = "push"
    /\ polled' = 0
    /\ IF Len(m_main_queue) >= MaxQueue
         THEN /\ rejected' = rejected \union {polled} /\ poller' = "loop"
              /\ UNCHANGED m_main_queue
         ELSE /\ m_main_queue' = Append(m_main_queue, polled) /\ poller' = "poll"
              /\ UNCHANGED rejected
    /\ UNCHANGED <<submitted, attached, ring, m_running, consumer, m_thread_queue,
                   output, discarded, unwritten, main, exit_requested, async>>

-----------------------------------------------------------------------------
(* The consumer. *)

consumerWorker ==
    /\ consumer = "loop"
    /\ consumer' = IF m_running THEN "swap" ELSE "drain"
    /\ UNCHANGED <<submitted, attached, ring, m_running, poller, polled, m_main_queue,
                   m_thread_queue, fates, main, exit_requested, async>>

\* m_thread_queue.swap(m_main_queue), under the mutex; then is the first.
SwapAnd(then, ifEmpty) ==
    /\ m_thread_queue' = m_main_queue /\ m_main_queue' = <<>>
    /\ consumer' = IF m_main_queue = <<>> THEN ifEmpty ELSE then
    /\ UNCHANGED <<submitted, attached, ring, m_running, poller, polled, fates,
                   main, exit_requested, async>>

Swap == consumer = "swap" /\ SwapAnd("write", "loop")

SkipDrain ==
    /\ consumer = "drain" /\ consumer' = "done"
    /\ UNCHANGED <<submitted, attached, ring, m_running, poller, polled, m_main_queue,
                   m_thread_queue, fates, main, exit_requested, async>>

DrainByCopy ==
    /\ consumer = "drain"
    /\ m_thread_queue' = m_main_queue
    /\ consumer' = IF m_main_queue = <<>> THEN "done" ELSE "last_write"
    /\ UNCHANGED <<submitted, attached, ring, m_running, poller, polled, m_main_queue,
                   fates, main, exit_requested, async>>

\* Once m_running is false the consumer takes one last batch.
Drain == consumer = "drain" /\ SwapAnd("last_write", "done")

\* The batch is converted, enriched, serialized and written.  EINTR is
\* retried, another error gives up on the rest of the batch.
efficientBulkWrite ==
    /\ consumer \in {"write", "last_write"}
    /\ \E n \in IF WriteErrors THEN 0 .. Len(m_thread_queue) ELSE {Len(m_thread_queue)} :
          /\ output' = output \o SubSeq(m_thread_queue, 1, n)
          /\ unwritten' = unwritten \union ToSet(SubSeq(m_thread_queue, n + 1, Len(m_thread_queue)))
    /\ consumer' = IF consumer = "write" THEN "distribute" ELSE "last_distribute"
    /\ UNCHANGED <<submitted, attached, ring, m_running, poller, polled, m_main_queue, m_thread_queue,
                   rejected, discarded, main, exit_requested, async>>

\* notify_one on the worker's condition variable.
Woken(w) == IF w = "blocked" THEN "lock" ELSE w

EnqueueSilently(e) ==
    worker_queue' = Append(worker_queue, e) /\ UNCHANGED worker

\* BaseAsyncWorker::enqueue, under the worker's mutex: the warning that the
\* queue is full drops nothing.
enqueue(e) ==
    worker_queue' = Append(worker_queue, e) /\ worker' = Woken(worker)

\* The messages of the batch go to the worker one by one, if it wants them.
distributeMessages ==
    /\ consumer \in {"distribute", "last_distribute"}
    /\ m_thread_queue # <<>>
    /\ m_thread_queue' = Tail(m_thread_queue)
    /\ IF Head(m_thread_queue) \in ShellEvents
         THEN ~worker_mutex /\ enqueue(Head(m_thread_queue))
         ELSE UNCHANGED <<worker_queue, worker>>
    /\ UNCHANGED <<submitted, attached, ring, m_running, poller, polled, m_main_queue, consumer,
                   fates, main, exit_requested, worker_mutex, worker_running, processed>>

BatchDone ==
    /\ consumer \in {"distribute", "last_distribute"}
    /\ m_thread_queue = <<>>
    /\ consumer' = IF consumer = "distribute" THEN "loop" ELSE "done"
    /\ UNCHANGED <<submitted, attached, ring, m_running, poller, polled, m_main_queue,
                   m_thread_queue, fates, main, exit_requested, async>>

-----------------------------------------------------------------------------
(* The worker. *)

Worker(from, to, mutex) ==
    /\ worker = from /\ worker' = to /\ worker_mutex' = mutex
    /\ UNCHANGED <<submitted, attached, ring, handler, fates, main, exit_requested, worker_running>>

WorkerLocks ==
    ~worker_mutex /\ Worker("lock", "check", TRUE) /\ UNCHANGED <<worker_queue, processed>>

\* The predicate of the wait and what follows it, under the mutex.
workerLoop ==
    \/ /\ ~worker_running /\ Worker("check", "done", FALSE)
       /\ UNCHANGED <<worker_queue, processed>>
    \/ /\ worker_running /\ worker_queue # <<>> /\ Worker("check", "process", FALSE)
       /\ processed' = processed \union {Head(worker_queue)}
       /\ worker_queue' = Tail(worker_queue)
    \/ /\ worker_running /\ worker_queue = <<>> /\ Worker("check", "block", TRUE)
       /\ UNCHANGED <<worker_queue, processed>>

WorkerBlocks == Worker("block", "blocked", FALSE) /\ UNCHANGED <<worker_queue, processed>>

processItem == Worker("process", "lock", worker_mutex) /\ UNCHANGED <<worker_queue, processed>>

-----------------------------------------------------------------------------
(* Main. *)

Main(from, to) == main = from /\ main' = to

\* waitForExitSignal tests the flag and blocks.
waitForExitSignal ==
    /\ Main("check", IF exit_requested THEN "detach" ELSE "block") \/ Main("block", "blocked")
    /\ UNCHANGED <<submitted, attached, ring, handler, fates, exit_requested, async>>

\* SIGINT or SIGTERM, at any time: the handler does not take the mutex.
signalHandler ==
    /\ main # "exited"
    /\ exit_requested' = TRUE
    /\ main' = IF main = "blocked" THEN "check" ELSE main
    /\ UNCHANGED <<submitted, attached, ring, handler, fates, async>>

bpfDetach ==
    /\ Main("detach", "stop") /\ attached' = FALSE
    /\ UNCHANGED <<submitted, ring, handler, fates, exit_requested, async>>

\* RingbufferMessagesHandler::destroy.
destroy ==
    /\ Main("stop", "join_poller") /\ m_running' = FALSE
    /\ UNCHANGED <<submitted, attached, ring, poller, polled, m_main_queue, consumer,
                   m_thread_queue, fates, exit_requested, async>>

JoinPoller ==
    /\ poller = "done" /\ Main("join_poller", "join_consumer")
    /\ UNCHANGED <<submitted, attached, ring, handler, fates, exit_requested, async>>

JoinConsumer ==
    /\ consumer = "done" /\ Main("join_consumer", "stop_worker")
    /\ UNCHANGED <<submitted, attached, ring, handler, fates, exit_requested, async>>

StopWithoutMutex ==
    /\ Main("stop_worker", "join_worker")
    /\ worker_running' = FALSE /\ worker' = Woken(worker)
    /\ UNCHANGED <<submitted, attached, ring, handler, fates, exit_requested,
                   worker_mutex, worker_queue, processed>>

\* BaseAsyncWorker::stop, called when the handler is destroyed.
stop ==
    /\ ~worker_mutex
    /\ Main("stop_worker", "join_worker")
    /\ worker_running' = FALSE /\ worker' = Woken(worker)
    /\ UNCHANGED <<submitted, attached, ring, handler, fates, exit_requested,
                   worker_mutex, worker_queue, processed>>

JoinWorker ==
    /\ worker = "done" /\ Main("join_worker", "exited")
    /\ UNCHANGED <<submitted, attached, ring, handler, fates, exit_requested, async>>

-----------------------------------------------------------------------------
Poller == ringbufferWorker \/ PollReturns \/ eventReceivedCallback \/ Push
Consumer == consumerWorker \/ Swap \/ Drain \/ efficientBulkWrite \/ distributeMessages \/ BatchDone
AsyncWorker == WorkerLocks \/ workerLoop \/ WorkerBlocks \/ processItem
MainThread == waitForExitSignal \/ bpfDetach \/ destroy \/ JoinPoller \/ JoinConsumer \/ stop \/ JoinWorker

Next == submit_event \/ signalHandler \/ Poller \/ Consumer \/ AsyncWorker \/ MainThread

\* The kernel schedules every thread that can run, and whoever reads the
\* output keeps reading.  Hooks and signals need not happen.
Fairness ==
    WF_vars(Poller) /\ WF_vars(Consumer) /\ WF_vars(AsyncWorker) /\ WF_vars(MainThread)

Spec == Init /\ [][Next]_vars /\ Fairness

-----------------------------------------------------------------------------
Events == 1 .. MaxEvents

\* The events of the consumer's batch that are not written yet.
Pending == IF consumer \in {"write", "last_write"} THEN m_thread_queue ELSE <<>>
InHand == IF poller = "push" THEN <<polled>> ELSE <<>>

\* Every event that a hook submitted is in one stage of the pipeline, or was
\* dropped for one of three reasons, never both and never twice; nothing is
\* discarded while the handler runs.
AccountedFor ==
    LET stages == output \o Pending \o m_main_queue \o InHand \o ring
        dropped == rejected \union discarded \union unwritten
    IN /\ IsInjective(stages)
       /\ ToSet(stages) \union dropped = 1 .. submitted
       /\ ToSet(stages) \intersect dropped = {}
       /\ m_running => discarded = {}

Abstract == INSTANCE OrderedOutput

\* Output comes in the order of submission, each event at most once.
OutputIsOrdered == Abstract!Spec

\* An event that reached m_main_queue before the consumer took its last batch
\* is written, also when owLSM is told to stop meanwhile, unless the write
\* fails.
AcceptedIsOutput ==
    \A e \in Events :
        (e \in ToSet(m_main_queue) /\ consumer \notin {"last_write", "last_distribute", "done"})
            ~> e \in ToSet(output) \union unwritten

\* Once begun, the shutdown comes to its end: no join waits for ever.
ShutdownCompletes == (main = "detach") ~> (main = "exited")

\* An item given to the worker is processed unless the worker is stopped: no
\* notification is lost.
ItemsAreProcessed ==
    \A e \in ShellEvents : (e \in ToSet(worker_queue)) ~> (e \in processed \/ ~worker_running)

\* owLSM stops after SIGINT or SIGTERM.
SignalEndsOwlsm == exit_requested ~> (main = "exited")

\* Before it exits, owLSM finishes processing the events that were in the
\* pipeline, if its queue did not overflow and its output could be written.
PipelineIsDrained ==
    main = "exited" => ToSet(output) \union rejected \union unwritten = 1 .. submitted
=============================================================================
