---------------------------- MODULE Ingestion ----------------------------
(***************************************************************************)
(* YellowstoneGRPCClient (src/ingestion/grpc_client.py): a reader task     *)
(* that receives stream events and pushes them into a bounded queue under  *)
(* an overflow policy, and a dispatcher task that deduplicates, discards   *)
(* stale events and calls the handlers.  Both run on one asyncio loop, so  *)
(* what a task does between two awaits is one action.                      *)
(*                                                                         *)
(* Time is abstracted to the order of events: events are received in the   *)
(* order of their slots, so at any moment those older than the staleness   *)
(* threshold are the slots up to some "expired" slot, which only grows.    *)
(***************************************************************************)
EXTENDS Integers, Sequences, FiniteSets

CONSTANTS
    QueueSize,      \* settings.queue_size
    Policies,       \* values of settings.queue_overflow_policy considered
    CacheLimit,     \* 50000 in the code: signatures kept before a clear
    MaxBackoff,     \* 60 in the code
    FromSlot,       \* argument of start(); 0 is None
    LiveStream,     \* FALSE: the simulated stream of _read_stream;
                    \* TRUE: a subscription that may redeliver and may fail
    MaxSlot,        \* bound: events the stream produces
    MaxReconnects   \* bound: reconnects after which the stream stays up

ASSUME QueueSizeAssumption == QueueSize \in Nat \ {0}
ASSUME PoliciesAssumption ==
    Policies \subseteq {"drop_oldest", "drop_newest", "fail_closed"}
ASSUME LimitsAssumption == /\ CacheLimit \in Nat
                           /\ MaxBackoff \in Nat \ {0}
                           /\ FromSlot \in Nat
ASSUME StreamAssumption == /\ LiveStream \in BOOLEAN
                           /\ MaxSlot \in Nat
                           /\ MaxReconnects \in Nat

VARIABLES
    policy,                 \* settings.queue_overflow_policy
    running,
    queue,                  \* asyncio.Queue: its items
    unfinished,             \* asyncio.Queue: puts without a task_done yet
    processed_signatures,
    last_seen_slot,         \* also events_received: they advance together
    last_processed_slot,
    reader,                 \* where the _read_loop task is
    backoff,
    reconnects,
    dispatcher,             \* where the _dispatch_loop task is
    duplicates,
    dropped_events,
    expired,                \* slots up to this one are over the age threshold
    discarded,              \* history: stale events discarded
    aborted,                \* history: events whose handlers were cancelled
    failed,                 \* history: events on which a plain handler raised
    handled,                \* history: events given to the handlers, in order
    clearedAt               \* history: Len(handled) at the last cache clear

readVars == <<last_seen_slot, reader, backoff, reconnects, dropped_events>>
dispatchVars == <<processed_signatures, last_processed_slot, dispatcher,
                  duplicates, discarded, aborted, failed, handled,
                  clearedAt>>
vars == <<policy, running, queue, unfinished, expired, readVars, dispatchVars>>

\* A fresh signature is named by the slot that first carried it.
Event == [slot : Nat \ {0}, sig : Nat \ {0}]

Init ==
    /\ policy \in Policies
    /\ running = TRUE
    /\ queue = <<>> /\ unfinished = 0
    /\ processed_signatures = {}
    /\ last_seen_slot = 0 /\ last_processed_slot = FromSlot
    /\ reader = "reading" /\ backoff = 1 /\ reconnects = 0
    /\ dispatcher = "get"
    /\ duplicates = 0 /\ dropped_events = 0
    /\ expired = 0
    /\ discarded = 0 /\ aborted = 0 /\ failed = 0 /\ handled = <<>> /\ clearedAt = 0

-----------------------------------------------------------------------------
(* The reader task                                                         *)

QueueFullOffByOne == Len(queue) > QueueSize   \* mutant
QueueFull == Len(queue) >= QueueSize

DoublesToUncapped(b) == 2 * b   \* mutant
DoublesTo(b) == IF 2 * b > MaxBackoff THEN MaxBackoff ELSE 2 * b

\* uuid4 makes every simulated signature fresh; a subscription that replays
\* after a reconnect may deliver an earlier one again.
NextSignatures == IF LiveStream THEN 1..(last_seen_slot + 1)
                                ELSE {last_seen_slot + 1}

\* Mutants of ReplaceOldest: the new event is not put; no task_done for the old
\* one; the newest is replaced; the new one goes first.
ReplaceOldestForgetsNew(event) ==
    queue' = Tail(queue) /\ unfinished' = unfinished - 1
ReplaceOldestNoTaskDone(event) ==
    queue' = Append(Tail(queue), event) /\ unfinished' = unfinished + 1
ReplaceNewest(event) ==
    /\ queue' = Append(SubSeq(queue, 1, Len(queue) - 1), event)
    /\ UNCHANGED unfinished
ReplaceOldestAtFront(event) ==
    queue' = <<event>> \o Tail(queue) /\ UNCHANGED unfinished

\* get_nowait and task_done for the oldest event, put for the new one
ReplaceOldest(event) ==
    /\ queue' = Append(Tail(queue), event)
    /\ UNCHANGED unfinished       \* one task_done, one put

\* Mutant: the oldest is replaced under every policy.
PushToFullQueueReplaces(event) ==
    /\ dropped_events' = dropped_events + 1
    /\ ReplaceOldest(event)
    /\ UNCHANGED <<reader, reconnects>>

PushToFullQueue(event) ==
    /\ dropped_events' = dropped_events + 1
    /\ \/ /\ policy = "drop_oldest"
          /\ ReplaceOldest(event)
          /\ UNCHANGED <<reader, reconnects>>
       \/ /\ policy = "drop_newest"
          /\ UNCHANGED <<queue, unfinished, reader, reconnects>>
       \/ /\ policy = "fail_closed"      \* RuntimeError reaches _read_loop
          /\ reader' = "backoff"
          /\ reconnects' = reconnects + 1
          /\ UNCHANGED <<queue, unfinished>>

PushToQueue(event) ==
    \/ QueueFull /\ PushToFullQueue(event)
    \/ /\ ~QueueFull
       /\ queue' = Append(queue, event)
       /\ unfinished' = unfinished + 1
       /\ UNCHANGED <<dropped_events, reader, reconnects>>

Receive ==
    /\ running /\ reader = "reading" /\ last_seen_slot < MaxSlot
    /\ last_seen_slot' = last_seen_slot + 1
    /\ \E sig \in NextSignatures :
          PushToQueue([slot |-> last_seen_slot + 1, sig |-> sig])
    /\ UNCHANGED <<running, expired, backoff, dispatchVars>>

\* A real subscription may raise; the simulated one never does.
StreamFails ==
    /\ LiveStream /\ running /\ reader = "reading"
    /\ reconnects < MaxReconnects
    /\ reader' = "backoff"
    /\ reconnects' = reconnects + 1
    /\ UNCHANGED <<running, queue, unfinished, expired, last_seen_slot,
                   backoff, dropped_events, dispatchVars>>

\* Mutant: the reader gives up after a second failure.
ReconnectGivesUp ==
    /\ running /\ reader = "backoff" /\ reconnects < 2
    /\ reader' = "reading"
    /\ backoff' = DoublesTo(backoff)
    /\ UNCHANGED <<running, queue, unfinished, expired, last_seen_slot,
                   reconnects, dropped_events, dispatchVars>>

\* The reset of backoff on a normal exit of _read_stream happens only once
\* running is FALSE, when the loop ends as well.
Reconnect ==
    /\ running /\ reader = "backoff"
    /\ reader' = "reading"
    /\ backoff' = DoublesTo(backoff)
    /\ UNCHANGED <<running, queue, unfinished, expired, last_seen_slot,
                   reconnects, dropped_events, dispatchVars>>

\* Mutant: the cancellation is swallowed by the backoff sleep.
ReaderEndsUnlessBackingOff ==
    /\ ~running /\ reader = "reading"
    /\ reader' = "ended"
    /\ UNCHANGED <<running, queue, unfinished, expired, last_seen_slot,
                   backoff, reconnects, dropped_events, dispatchVars>>

ReaderEnds ==
    /\ ~running /\ reader # "ended"
    /\ reader' = "ended"
    /\ UNCHANGED <<running, queue, unfinished, expired, last_seen_slot,
                   backoff, reconnects, dropped_events, dispatchVars>>

-----------------------------------------------------------------------------
(* The dispatcher task                                                     *)

IsDuplicate(event) == event.sig \in processed_signatures

IsStale(event) == event.slot <= expired

CacheOverflows == Cardinality(processed_signatures) > CacheLimit

\* Mutant: the signature is added before the clear.
RememberThenClear(event) ==
    /\ processed_signatures' =
          IF CacheOverflows THEN {} ELSE processed_signatures \cup {event.sig}
    /\ clearedAt' = IF CacheOverflows THEN Len(handled) ELSE clearedAt

Remember(event) ==
    /\ processed_signatures' =
          (IF CacheOverflows THEN {} ELSE processed_signatures) \cup {event.sig}
    /\ clearedAt' = IF CacheOverflows THEN Len(handled) ELSE clearedAt

Dequeue ==
    /\ running /\ dispatcher = "get" /\ queue # <<>>
    /\ queue' = Tail(queue)
    /\ UNCHANGED <<running, expired, readVars, aborted>>

TaskDone == unfinished' = unfinished - 1

DiscardDuplicate ==
    /\ Dequeue
    /\ IsDuplicate(Head(queue))
    /\ duplicates' = duplicates + 1
    /\ TaskDone
    /\ UNCHANGED <<processed_signatures, last_processed_slot, dispatcher,
                   discarded, failed, handled, clearedAt>>

DiscardStale ==
    /\ Dequeue
    /\ ~IsDuplicate(Head(queue))
    /\ Remember(Head(queue))
    /\ IsStale(Head(queue))
    /\ discarded' = discarded + 1
    /\ TaskDone
    /\ UNCHANGED <<last_processed_slot, dispatcher, duplicates, failed, handled>>

\* The oldest event is neither a duplicate nor stale: the handlers are called.
CallHandlers ==
    /\ Dequeue
    /\ ~IsDuplicate(Head(queue))
    /\ Remember(Head(queue))
    /\ ~IsStale(Head(queue))
    /\ last_processed_slot' = Head(queue).slot
    /\ handled' = Append(handled, Head(queue))
    /\ UNCHANGED <<duplicates, discarded>>

\* Some handler is a coroutine function: up to the await of gather.
Handle ==
    /\ CallHandlers
    /\ dispatcher' = "handling"
    /\ UNCHANGED <<unfinished, failed>>

\* None is: the plain ones return and there is no await.
HandleAtOnce ==
    /\ CallHandlers
    /\ TaskDone
    /\ UNCHANGED <<dispatcher, failed>>

\* A plain handler raises: the loop logs it and goes on, past task_done and
\* the await of the coroutines made so far.
HandlerRaises ==
    /\ CallHandlers
    /\ failed' = failed + 1
    /\ UNCHANGED <<unfinished, dispatcher>>

\* Mutant: an exception of a handler ends the loop.
HandlersDoneEndsLoop ==
    /\ running /\ dispatcher = "handling"
    /\ dispatcher' = "ended"
    /\ TaskDone
    /\ UNCHANGED <<running, queue, expired, readVars, processed_signatures,
                   last_processed_slot, duplicates, discarded, aborted,
                   failed, handled, clearedAt>>

\* gather returns, an exception of a coroutine being one of its results
HandlersDone ==
    /\ running /\ dispatcher = "handling"
    /\ dispatcher' = "get"
    /\ TaskDone
    /\ UNCHANGED <<running, queue, expired, readVars, processed_signatures,
                   last_processed_slot, duplicates, discarded, aborted,
                   failed, handled, clearedAt>>

\* CancelledError at the get or at the gather: no task_done for the latter
DispatcherEnds ==
    /\ ~running /\ dispatcher # "ended"
    /\ aborted' = IF dispatcher = "handling" THEN aborted + 1 ELSE aborted
    /\ dispatcher' = "ended"
    /\ UNCHANGED <<running, queue, unfinished, expired, readVars,
                   processed_signatures, last_processed_slot, duplicates,
                   discarded, failed, handled, clearedAt>>

-----------------------------------------------------------------------------

\* Cancels both tasks: neither does anything more before its ...Ends action.
Stop ==
    /\ running
    /\ running' = FALSE
    /\ UNCHANGED <<queue, unfinished, expired, readVars, dispatchVars>>

TimePasses ==
    /\ expired < last_seen_slot
    /\ expired' = expired + 1
    /\ UNCHANGED <<running, queue, unfinished, readVars, dispatchVars>>

Read == Receive \/ StreamFails \/ Reconnect \/ ReaderEnds
Dispatch == \/ DiscardDuplicate \/ DiscardStale
            \/ Handle \/ HandleAtOnce \/ HandlerRaises
            \/ HandlersDone \/ DispatcherEnds

\* The settings are read from the environment once, at import.
Next == (Read \/ Dispatch \/ Stop \/ TimePasses) /\ UNCHANGED policy

\* The loop runs every task that is ready, a backoff sleep ends, and the
\* handlers return.  Nothing makes the stream produce or time pass.
Fairness == /\ WF_vars(Reconnect /\ UNCHANGED policy)
            /\ WF_vars(ReaderEnds /\ UNCHANGED policy)
            /\ WF_vars(Dispatch /\ UNCHANGED policy)

Spec == Init /\ [][Next]_vars

FairSpec == Spec /\ Fairness

-----------------------------------------------------------------------------
(* Properties                                                              *)

Handling == IF dispatcher = "handling" THEN 1 ELSE 0

\* Types of the variables.  The count of unfinished events is a natural number
\* because task_done is never called more often than put: asyncio.Queue would
\* raise a ValueError.
TypeOK ==
    /\ policy \in Policies
    /\ running \in BOOLEAN
    /\ queue \in Seq(Event)
    /\ unfinished \in Nat
    /\ processed_signatures \in SUBSET (Nat \ {0})
    /\ last_seen_slot \in Nat /\ last_processed_slot \in Nat
    /\ reader \in {"reading", "backoff", "ended"}
    /\ backoff \in Nat \ {0} /\ reconnects \in Nat
    /\ dispatcher \in {"get", "handling", "ended"}
    /\ duplicates \in Nat /\ dropped_events \in Nat
    /\ expired \in Nat /\ discarded \in Nat
    /\ aborted \in Nat /\ failed \in Nat
    /\ handled \in Seq(Event) /\ clearedAt \in Nat

\* The queue never holds more than QueueSize events, whatever the overflow
\* policy does when it is full (_push_to_queue).
QueueBounded == Len(queue) <= QueueSize

\* No event is lost without being counted: each one received is waiting, was
\* handled, or shows in exactly one of the duplicate, stale and drop counts.
EveryEventAccounted ==
    last_seen_slot = Len(queue) + Len(handled) + duplicates + discarded
                     + dropped_events

\* task_done is called once for an event that is dropped for a newer one, found
\* a duplicate or stale, or handled, and never for one that stop() cut off or
\* on which a plain handler raised: each of these stays unfinished for ever,
\* and with the first of them a join() of the queue would never return.
TaskDoneOncePerEvent == unfinished = Len(queue) + Handling + aborted + failed

\* Between two clears of the signature cache no signature reaches the handlers
\* twice, however often the stream redelivers it.
NoDoubleHandling ==
    \A i, j \in (clearedAt + 1)..Len(handled) :
        handled[i].sig = handled[j].sig => i = j

\* Under drop_oldest the queue is always the most recent run of the stream
\* without a hole: an overflow costs the oldest event and never a newer one.
NewestKept ==
    policy = "drop_oldest" =>
        \A i \in 1..Len(queue) :
            queue[i].slot = last_seen_slot - Len(queue) + i

\* Under the other policies an event that was admitted leaves the queue only
\* by being dispatched: what waits is never overtaken or replaced.
AdmittedNotDropped ==
    [][ policy # "drop_oldest" /\ queue' # queue =>
          \/ /\ Len(queue') = Len(queue) + 1
             /\ \A i \in 1..Len(queue) : queue'[i] = queue[i]
          \/ /\ queue # <<>> /\ queue' = Tail(queue)
             /\ dropped_events' = dropped_events ]_vars

\* The delay before the n-th reconnect doubles with every failure of the
\* process's life: no period of successful reading resets it (_read_loop).
BackoffNeverReset ==
    reader = "reading" =>
        backoff = IF 2^reconnects > MaxBackoff THEN MaxBackoff ELSE 2^reconnects

\* What waits is ahead of all that was handled, in the order of the stream.
SlotsInOrder ==
    /\ \A i, j \in 1..Len(queue) : i < j => queue[i].slot < queue[j].slot
    /\ \A i \in 1..Len(handled), j \in 1..Len(queue) :
          handled[i].slot < queue[j].slot

\* The handlers see a subsequence of the stream in its order, each event once.
Promise == INSTANCE LossyFifo WITH
    produced <- last_seen_slot,
    delivered <- [i \in 1..Len(handled) |-> handled[i].slot]
KeepsPromise == Promise!Spec

\* After stop() both tasks end.
StopEndsTasks == ~running ~> (reader = "ended" /\ dispatcher = "ended")

Waiting(slot) == \E i \in 1..Len(queue) : queue[i].slot = slot

\* An event that waits is dispatched or dropped, unless the client is stopped.
WaitingEventLeaves ==
    \A slot \in 1..MaxSlot : Waiting(slot) ~> (~Waiting(slot) \/ ~running)

\* A reader that is backing off reads again, unless the client is stopped.
ReaderRecovers == (reader = "backoff") ~> (reader # "backoff")

=============================================================================
