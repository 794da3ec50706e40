------------------------- MODULE IngestionProofs -------------------------
(***************************************************************************)
(* Proofs about Ingestion, for every queue size, policy, cache limit and   *)
(* kind of stream.                                                         *)
(***************************************************************************)
EXTENDS Ingestion, NumberLemmas, TLAPS

\* What the two tasks keep true of the queue and its counters together: that
\* unfinished is a natural number rests on the count of unfinished events, and
\* that one on the types.
Counted == /\ TypeOK
           /\ QueueBounded
           /\ EveryEventAccounted
           /\ TaskDoneOncePerEvent

\* The constants and the variables are numbers and sequences to start with.
LEMMA InitCounted == Init => Counted
  BY QueueSizeAssumption, LimitsAssumption
  DEF Init, Counted, TypeOK, QueueBounded, EveryEventAccounted,
      TaskDoneOncePerEvent, Handling, Event

\* What is left of a queue after its oldest event is taken.
LEMMA TailFacts ==
  ASSUME NEW q \in Seq(Event), q # <<>>
  PROVE  /\ Head(q) \in Event
         /\ Tail(q) \in Seq(Event)
         /\ Len(q) \in Nat \ {0}
         /\ Len(Tail(q)) = Len(q) - 1
         /\ \A i \in 1..Len(Tail(q)) : Tail(q)[i] = q[i + 1]
         /\ Head(q) = q[1]
  OBVIOUS

\* A push leaves every count right, under each policy, whether or not the
\* queue is full.
LEMMA ReceiveCounted == Counted /\ Receive /\ UNCHANGED policy => Counted'
<1> SUFFICES ASSUME Counted, Receive, UNCHANGED policy PROVE Counted'
  OBVIOUS
<1> USE QueueSizeAssumption DEF Counted, QueueBounded, EveryEventAccounted,
        TaskDoneOncePerEvent, Handling, dispatchVars
<1>1. PICK sig \in NextSignatures :
         PushToQueue([slot |-> last_seen_slot + 1, sig |-> sig])
  BY DEF Receive
<1> DEFINE event == [slot |-> last_seen_slot + 1, sig |-> sig]
<1>2. event \in Event
  BY DEF NextSignatures, TypeOK, Event
<1> HIDE DEF event
<1>3. /\ Len(queue) \in Nat /\ Len(handled) \in Nat
      /\ Append(queue, event) \in Seq(Event)
      /\ Len(Append(queue, event)) = Len(queue) + 1
  BY <1>2 DEF TypeOK
<1>4. CASE ~QueueFull /\ queue' = Append(queue, event)
           /\ unfinished' = unfinished + 1
           /\ UNCHANGED <<dropped_events, reader, reconnects>>
  <2>1. /\ queue' \in Seq(Event) /\ Len(queue') = Len(queue) + 1
        /\ Len(queue') <= QueueSize
    BY <1>3, <1>4 DEF QueueFull
  <2>2. TypeOK'
    BY <2>1, <1>4 DEF Receive, TypeOK
  <2>3. /\ unfinished' = unfinished + 1 /\ dropped_events' = dropped_events
        /\ last_seen_slot' = last_seen_slot + 1 /\ UNCHANGED dispatchVars
    BY <1>4 DEF Receive
  <2>4. /\ duplicates \in Nat /\ discarded \in Nat /\ dropped_events \in Nat
        /\ aborted \in Nat /\ failed \in Nat
    BY DEF TypeOK
  <2>5. EveryEventAccounted' /\ TaskDoneOncePerEvent'
    BY <2>1, <2>3, <2>4, <1>3
  <2> QED BY <2>1, <2>2, <2>5
<1>5. CASE QueueFull /\ PushToFullQueue(event)
  <2>1. Len(queue) = QueueSize /\ queue # <<>>
    BY <1>5, <1>3 DEF QueueFull, TypeOK
  <2>2. CASE ReplaceOldest(event) /\ dropped_events' = dropped_events + 1
             /\ UNCHANGED <<reader, reconnects>>
    <3>1. /\ Tail(queue) \in Seq(Event) /\ Len(Tail(queue)) = Len(queue) - 1
      BY <2>1, TailFacts DEF TypeOK
    <3>2. queue' \in Seq(Event) /\ Len(queue') = Len(queue)
      BY <3>1, <2>2, <1>2, <1>3 DEF ReplaceOldest
    <3>3. unfinished' = unfinished /\ dropped_events' = dropped_events + 1
          /\ UNCHANGED <<reader, reconnects>>
      BY <2>2 DEF ReplaceOldest
    <3> QED BY <3>2, <3>3, <1>3 DEF Receive, TypeOK
  <2>3. CASE /\ dropped_events' = dropped_events + 1
             /\ UNCHANGED <<queue, unfinished>>
             /\ reader' \in {reader, "backoff"}
             /\ reconnects' \in {reconnects, reconnects + 1}
    BY <2>3, <1>3 DEF Receive, TypeOK
  <2> QED BY <1>5, <2>2, <2>3 DEF PushToFullQueue
<1> QED BY <1>1, <1>4, <1>5 DEF PushToQueue, event

\* The dispatcher's actions each settle one event, or leave one in hand.
LEMMA DispatchCounted == Counted /\ Dispatch /\ UNCHANGED policy => Counted'
<1> SUFFICES ASSUME Counted, Dispatch, UNCHANGED policy PROVE Counted'
  OBVIOUS
<1> USE QueueSizeAssumption DEF Counted, QueueBounded, EveryEventAccounted,
        TaskDoneOncePerEvent, Handling, readVars
<1>1. Len(queue) \in Nat /\ Len(handled) \in Nat
  BY DEF TypeOK
<1>2. ASSUME Dequeue
      PROVE  /\ Head(queue) \in Event /\ queue' \in Seq(Event)
             /\ Len(queue') = Len(queue) - 1 /\ Len(queue) > 0
  BY <1>2, TailFacts DEF Dequeue, TypeOK
<1>3. ASSUME Dequeue, Remember(Head(queue))
      PROVE  processed_signatures' \in SUBSET (Nat \ {0}) /\ clearedAt' \in Nat
  BY <1>1, <1>2, <1>3 DEF Remember, TypeOK, Event
<1>4. CASE DiscardDuplicate
  BY <1>1, <1>2, <1>4 DEF DiscardDuplicate, Dequeue, TaskDone, TypeOK
<1>5. CASE DiscardStale
  BY <1>1, <1>2, <1>3, <1>5 DEF DiscardStale, Dequeue, TaskDone, TypeOK
<1>6. ASSUME CallHandlers
      PROVE  /\ handled' \in Seq(Event) /\ Len(handled') = Len(handled) + 1
             /\ last_processed_slot' \in Nat
             /\ processed_signatures' \in SUBSET (Nat \ {0}) /\ clearedAt' \in Nat
  <2>1. /\ Dequeue /\ Remember(Head(queue))
        /\ handled' = Append(handled, Head(queue))
        /\ last_processed_slot' = Head(queue).slot
    BY <1>6 DEF CallHandlers
  <2>2. handled' \in Seq(Event) /\ Len(handled') = Len(handled) + 1
    BY <1>1, <1>2, <2>1 DEF TypeOK
  <2>3. last_processed_slot' \in Nat
    BY <1>2, <2>1 DEF Event
  <2> QED BY <1>3, <2>1, <2>2, <2>3
<1>7. CASE Handle
  BY <1>1, <1>2, <1>6, <1>7 DEF Handle, CallHandlers, Dequeue, TypeOK
<1>8. CASE HandleAtOnce
  BY <1>1, <1>2, <1>6, <1>8
  DEF HandleAtOnce, CallHandlers, TaskDone, Dequeue, TypeOK
<1>9. CASE HandlerRaises
  BY <1>1, <1>2, <1>6, <1>9 DEF HandlerRaises, CallHandlers, Dequeue, TypeOK
<1>10. CASE HandlersDone
  BY <1>1, <1>10 DEF HandlersDone, TaskDone, TypeOK
<1>11. CASE DispatcherEnds
  BY <1>1, <1>11 DEF DispatcherEnds, TypeOK
<1> QED BY <1>4, <1>5, <1>7, <1>8, <1>9, <1>10, <1>11 DEF Dispatch

\* Every step of the client keeps the counts.
LEMMA NextCounted == Counted /\ [Next]_vars => Counted'
<1> SUFFICES ASSUME Counted, [Next]_vars PROVE Counted'
  OBVIOUS
<1> USE DEF Counted, QueueBounded, EveryEventAccounted, TaskDoneOncePerEvent,
        Handling, TypeOK
<1>0. UNCHANGED policy
  BY DEF Next, vars
<1>1. CASE Receive
  BY <1>0, <1>1, ReceiveCounted
<1>2. CASE StreamFails
  BY <1>0, <1>2 DEF StreamFails, dispatchVars
<1>3. CASE Reconnect
  BY <1>0, <1>3, LimitsAssumption DEF Reconnect, DoublesTo, dispatchVars
<1>4. CASE ReaderEnds
  BY <1>0, <1>4 DEF ReaderEnds, dispatchVars
<1>5. CASE Dispatch
  BY <1>0, <1>5, DispatchCounted
<1>6. CASE Stop
  BY <1>0, <1>6 DEF Stop, readVars, dispatchVars
<1>7. CASE TimePasses
  BY <1>0, <1>7 DEF TimePasses, readVars, dispatchVars
<1>8. CASE UNCHANGED vars
  BY <1>8 DEF vars, readVars, dispatchVars
<1> QED BY <1>1, <1>2, <1>3, <1>4, <1>5, <1>6, <1>7, <1>8 DEF Next, Read

\* The counts hold in every state the client can reach.
LEMMA AlwaysCounted == Spec => []Counted
  BY InitCounted, NextCounted, PTL DEF Spec

\* The variables keep their types; in particular task_done is never called
\* more often than put (grpc_client.py:131,156,168,184).
THEOREM TypeCorrect == Spec => []TypeOK
  BY AlwaysCounted, PTL DEF Counted

\* The overflow policies keep the queue within its bound.
THEOREM QueueStaysBounded == Spec => []QueueBounded
  BY AlwaysCounted, PTL DEF Counted

\* Each event received is in the queue, was handled, or is in one count.
THEOREM AllEventsAccounted == Spec => []EveryEventAccounted
  BY AlwaysCounted, PTL DEF Counted

\* The unfinished count of the queue is what waits, what is being handled, what
\* stop() cut off and what a plain handler raised on (grpc_client.py:179).
THEOREM TaskDoneMatchesPut == Spec => []TaskDoneOncePerEvent
  BY AlwaysCounted, PTL DEF Counted

-----------------------------------------------------------------------------
(* How a step changes the queue and what was handled                       *)

Admits(event) ==
    /\ event \in Event /\ event.slot = last_seen_slot + 1
    /\ last_seen_slot' = last_seen_slot + 1
    /\ handled' = handled

Takes == /\ queue # <<>> /\ queue' = Tail(queue)
         /\ last_seen_slot' = last_seen_slot

\* A step admits an event at the end, admits one for the oldest, takes the
\* oldest, loses the event received, or does not touch the queue.
QueueStep ==
    \/ \E event \in Event : Admits(event) /\ queue' = Append(queue, event)
    \/ \E event \in Event : /\ Admits(event) /\ queue # <<>>
                            /\ policy = "drop_oldest"
                            /\ queue' = Append(Tail(queue), event)
    \/ Takes /\ handled' = handled
    \/ Takes /\ handled' = Append(handled, Head(queue))
    \/ /\ policy # "drop_oldest"
       /\ last_seen_slot' = last_seen_slot + 1
       /\ UNCHANGED <<queue, handled>>
    \/ UNCHANGED <<queue, handled, last_seen_slot>>

\* Every step of the client is one of those.
LEMMA NextIsQueueStep == Counted /\ [Next]_vars => QueueStep
<1> SUFFICES ASSUME Counted, [Next]_vars PROVE QueueStep
  OBVIOUS
<1>1. CASE Receive
  <2>1. PICK sig \in NextSignatures :
           PushToQueue([slot |-> last_seen_slot + 1, sig |-> sig])
    BY <1>1 DEF Receive
  <2> DEFINE event == [slot |-> last_seen_slot + 1, sig |-> sig]
  <2>2. Admits(event) /\ event \in Event
    BY <1>1 DEF Admits, Receive, dispatchVars, NextSignatures, Counted,
                TypeOK, Event
  <2>3. last_seen_slot' = last_seen_slot + 1 /\ handled' = handled
    BY <1>1 DEF Receive, dispatchVars
  <2> HIDE DEF event
  <2>4. CASE ~QueueFull /\ queue' = Append(queue, event)
    BY <2>2, <2>4 DEF QueueStep
  <2>5. CASE QueueFull /\ policy = "drop_oldest" /\ ReplaceOldest(event)
    <3>1. queue # <<>>
      BY <2>5, QueueSizeAssumption DEF QueueFull
    <3> QED BY <3>1, <2>2, <2>5 DEF QueueStep, ReplaceOldest
  <2>6. CASE policy # "drop_oldest" /\ queue' = queue
    BY <2>3, <2>6 DEF QueueStep
  <2> QED BY <2>1, <2>4, <2>5, <2>6
          DEF PushToQueue, PushToFullQueue, event
<1>2. CASE StreamFails \/ Reconnect \/ ReaderEnds
  BY <1>2 DEF StreamFails, Reconnect, ReaderEnds, dispatchVars, QueueStep
<1>3. CASE DiscardDuplicate \/ DiscardStale
  BY <1>3 DEF DiscardDuplicate, DiscardStale, Dequeue, readVars, QueueStep,
              Takes
<1>4. CASE Handle \/ HandleAtOnce \/ HandlerRaises
  BY <1>4 DEF Handle, HandleAtOnce, HandlerRaises, CallHandlers, Dequeue,
              readVars, QueueStep, Takes
<1>5. CASE HandlersDone \/ DispatcherEnds
  BY <1>5 DEF HandlersDone, DispatcherEnds, readVars, QueueStep
<1>6. CASE Stop \/ TimePasses \/ UNCHANGED vars
  BY <1>6 DEF Stop, TimePasses, vars, readVars, dispatchVars, QueueStep
<1> QED BY <1>1, <1>2, <1>3, <1>4, <1>5, <1>6 DEF Next, Read, Dispatch

-----------------------------------------------------------------------------
(* Order                                                                   *)

\* SlotsInOrder is inductive once nothing is ahead of the stream.
Ordered ==
    /\ SlotsInOrder
    /\ \A i \in 1..Len(queue) : queue[i].slot <= last_seen_slot
    /\ \A i \in 1..Len(handled) : handled[i].slot <= last_seen_slot

\* However a step touches the queue it keeps the order.
LEMMA NextOrdered == Counted /\ Ordered /\ QueueStep => Ordered'
<1> SUFFICES ASSUME Counted, Ordered, QueueStep PROVE Ordered'
  OBVIOUS
<1> USE DEF Ordered, SlotsInOrder
<1>1. /\ queue \in Seq(Event) /\ handled \in Seq(Event)
      /\ last_seen_slot \in Nat
  BY DEF Counted, TypeOK
<1>2. \A event \in Event : event.slot \in Nat
  BY DEF Event
<1>3. /\ \A i \in 1..Len(queue) : queue[i] \in Event
      /\ \A i \in 1..Len(handled) : handled[i] \in Event
  BY <1>1
<1>4. /\ queue \in Seq(Event) /\ handled \in Seq(Event)
      /\ last_seen_slot \in Nat
      /\ \A i \in 1..Len(queue) : queue[i].slot \in Nat
      /\ \A i \in 1..Len(handled) : handled[i].slot \in Nat
  BY <1>1, <1>2, <1>3
<1>5. CASE \E event \in Event : Admits(event) /\ queue' = Append(queue, event)
  BY <1>4, <1>5 DEF Admits
<1>6. CASE \E event \in Event : /\ Admits(event) /\ queue # <<>>
                               /\ queue' = Append(Tail(queue), event)
  <2>1. PICK event \in Event : /\ Admits(event) /\ queue # <<>>
                               /\ queue' = Append(Tail(queue), event)
    BY <1>6
  <2>2. /\ Tail(queue) \in Seq(Event)
        /\ Len(Tail(queue)) = Len(queue) - 1
        /\ \A i \in 1..Len(Tail(queue)) : Tail(queue)[i] = queue[i + 1]
        /\ Len(queue) \in Nat \ {0}
    BY <1>4, <2>1, TailFacts
  <2>3. /\ Len(queue') = Len(queue) /\ queue'[Len(queue)] = event
        /\ \A i \in 1..(Len(queue) - 1) : queue'[i] = queue[i + 1]
    BY <2>1, <2>2
  <2>4. /\ event.slot = last_seen_slot + 1
        /\ last_seen_slot' = last_seen_slot + 1 /\ handled' = handled
    BY <2>1 DEF Admits
  <2> DEFINE n == Len(queue)
  <2>5. n \in Nat \ {0} /\ Len(queue') = n
    BY <2>2, <2>3
  <2>6. /\ \A i \in 1..n : queue[i].slot \in Nat /\ queue[i].slot <= last_seen_slot
        /\ \A i, j \in 1..n : i < j => queue[i].slot < queue[j].slot
        /\ \A i \in 1..Len(handled), j \in 1..n : handled[i].slot < queue[j].slot
        /\ queue'[n].slot = last_seen_slot + 1
        /\ \A i \in 1..(n - 1) : queue'[i].slot = queue[i + 1].slot
    BY <1>4, <2>3, <2>4
  <2> HIDE DEF n
  <2>7. \A i, j \in 1..n : i < j => queue'[i].slot < queue'[j].slot
    <3> SUFFICES ASSUME NEW i \in 1..n, NEW j \in 1..n, i < j
                 PROVE  queue'[i].slot < queue'[j].slot
      OBVIOUS
    <3>1. i \in 1..(n - 1) /\ i + 1 \in 1..n
      BY <2>5
    <3>2. queue'[i].slot = queue[i + 1].slot /\ queue[i + 1].slot \in Nat
          /\ queue[i + 1].slot <= last_seen_slot
      BY <3>1, <2>6
    <3>3. CASE j = n
      BY <3>2, <3>3, <2>6, <1>4
    <3>4. CASE j # n
      <4>1. j \in 1..(n - 1) /\ j + 1 \in 1..n /\ i + 1 < j + 1
        BY <3>4, <2>5
      <4> QED BY <4>1, <3>1, <3>2, <2>6
    <3> QED BY <3>3, <3>4
  <2>8. \A i \in 1..n : /\ queue'[i].slot <= last_seen_slot + 1
                         /\ \A k \in 1..Len(handled) :
                               handled[k].slot < queue'[i].slot
    <3> SUFFICES ASSUME NEW i \in 1..n
                 PROVE  /\ queue'[i].slot <= last_seen_slot + 1
                        /\ \A k \in 1..Len(handled) :
                              handled[k].slot < queue'[i].slot
      OBVIOUS
    <3>1. CASE i = n
      BY <3>1, <2>6, <1>4
    <3>2. CASE i # n
      <4>1. i \in 1..(n - 1) /\ i + 1 \in 1..n
        BY <3>2, <2>5
      <4> QED BY <4>1, <2>6, <1>4
    <3> QED BY <3>1, <3>2
  <2>9. \A i \in 1..Len(handled') : handled'[i].slot <= last_seen_slot'
    BY <1>4, <2>4
  <2> QED BY <2>4, <2>5, <2>7, <2>8, <2>9
<1>7. CASE Takes /\ handled' \in {handled, Append(handled, Head(queue))}
  <2>1. /\ Tail(queue) \in Seq(Event)
        /\ Len(Tail(queue)) = Len(queue) - 1
        /\ \A i \in 1..Len(Tail(queue)) : Tail(queue)[i] = queue[i + 1]
        /\ Len(queue) \in Nat \ {0} /\ Head(queue) = queue[1]
        /\ Head(queue) \in Event
    BY <1>4, <1>7, TailFacts DEF Takes
  <2>2. /\ Len(queue') = Len(queue) - 1
        /\ \A i \in 1..Len(queue') : /\ i + 1 \in 1..Len(queue)
                                    /\ queue'[i] = queue[i + 1]
        /\ last_seen_slot' = last_seen_slot
    BY <2>1, <1>7 DEF Takes
  <2>3. \A i \in 1..Len(handled') :
          \/ i \in 1..Len(handled) /\ handled'[i] = handled[i]
          \/ handled'[i] = queue[1]
    BY <1>4, <1>7, <2>1
  <2>4. ASSUME NEW i \in 1..Len(queue'), NEW j \in 1..Len(queue'), i < j
        PROVE  queue'[i].slot < queue'[j].slot
    BY <1>4, <2>1, <2>2, <2>4
  <2>5. 1 \in 1..Len(queue) /\ \A j \in 1..Len(queue') : 1 < j + 1
    BY <2>1, <2>2
  <2>6. ASSUME NEW i \in 1..Len(handled'), NEW j \in 1..Len(queue')
        PROVE  handled'[i].slot < queue'[j].slot
    <3>1. queue'[j].slot = queue[j + 1].slot /\ j + 1 \in 1..Len(queue)
      BY <2>2
    <3>2. CASE i \in 1..Len(handled) /\ handled'[i] = handled[i]
      BY <3>1, <3>2
    <3>3. CASE handled'[i] = queue[1]
      BY <3>1, <3>3, <2>5
    <3> QED BY <3>2, <3>3, <2>3
  <2>7. \A i \in 1..Len(queue') : queue'[i].slot <= last_seen_slot'
    BY <2>2
  <2>8. \A i \in 1..Len(handled') : handled'[i].slot <= last_seen_slot'
    BY <2>2, <2>3, <2>5
  <2> QED BY <2>4, <2>6, <2>7, <2>8
<1>8. CASE UNCHANGED <<queue, handled>>
           /\ last_seen_slot' \in {last_seen_slot, last_seen_slot + 1}
  BY <1>4, <1>8
<1> QED BY <1>5, <1>6, <1>7, <1>8 DEF QueueStep

\* Counts and order hold together in every state the client can reach.
LEMMA AlwaysOrdered == Spec => [](Counted /\ Ordered)
<1>1. Init => Ordered
  BY DEF Init, Ordered, SlotsInOrder
<1>2. Counted /\ Ordered /\ [Next]_vars => (Counted /\ Ordered)'
  BY NextCounted, NextIsQueueStep, NextOrdered
<1> QED BY <1>1, <1>2, InitCounted, PTL DEF Spec

\* No overflow, redelivery, discard or reconnect puts an event ahead of one
\* that came before it.
THEOREM StreamOrderKept == Spec => []SlotsInOrder
  BY AlwaysOrdered, PTL DEF Ordered

\* The initial state of the client is one of the lossy channel.
LEMMA InitKeepsPromise == Init => Promise!Init
  BY DEF Init, Promise!Init

\* A step of the client is a step of the lossy channel or a stutter: CallHandlers
\* is its Deliver and Receive its Produce.
LEMMA StepKeepsPromise ==
  Counted /\ Ordered /\ QueueStep => [Promise!Next]_(Promise!vars)
<1> SUFFICES ASSUME Counted, Ordered, QueueStep
             PROVE  [Promise!Next]_(Promise!vars)
  OBVIOUS
<1> DEFINE slots == [i \in 1..Len(handled) |-> handled[i].slot]
<1> USE DEF Promise!Next, Promise!vars, Promise!Produce
<1>1. CASE handled' = handled
           /\ last_seen_slot' \in {last_seen_slot, last_seen_slot + 1}
  BY <1>1
<1>2. CASE Takes /\ handled' = Append(handled, Head(queue))
  <2>1. /\ queue \in Seq(Event) /\ handled \in Seq(Event)
        /\ last_seen_slot \in Nat
    BY DEF Counted, TypeOK
  <2>2. /\ Head(queue) = queue[1] /\ Head(queue).slot \in Nat \ {0}
        /\ Head(queue) \in Event /\ Len(queue) \in Nat \ {0}
    BY <2>1, <1>2, TailFacts DEF Takes, Event
  <2>3. Head(queue).slot \in 1..last_seen_slot
    BY <2>1, <2>2 DEF Ordered
  <2>4. \A i \in 1..Len(handled) : handled[i].slot < Head(queue).slot
    BY <2>2 DEF Ordered, SlotsInOrder
  <2>5. /\ Len(slots) = Len(handled)
        /\ \A i \in 1..Len(slots) : slots[i] < Head(queue).slot
    BY <2>1, <2>4
  <2>6. [i \in 1..Len(handled') |-> handled'[i].slot]
          = Append(slots, Head(queue).slot)
    <3>1. /\ Len(handled') = Len(handled) + 1 /\ Len(handled) \in Nat
          /\ \A i \in 1..Len(handled) : handled'[i] = handled[i]
          /\ handled'[Len(handled) + 1] = Head(queue)
      BY <1>2, <2>1, <2>2
    <3>2. slots \in Seq(Nat)
      <4>1. \A i \in 1..Len(handled) : handled[i] \in Event
        BY <2>1
      <4>2. \A event \in Event : event.slot \in Nat
        BY DEF Event
      <4> QED BY <4>1, <4>2, <3>1
    <3> HIDE DEF slots
    <3>3. Append(slots, Head(queue).slot)
            = [i \in 1..(Len(handled) + 1) |->
                 IF i = Len(handled) + 1 THEN Head(queue).slot ELSE slots[i]]
      BY <2>2, <2>5, <3>1, <3>2
    <3>4. [i \in 1..Len(handled') |-> handled'[i].slot]
            = [i \in 1..(Len(handled) + 1) |->
                 IF i = Len(handled) + 1 THEN Head(queue).slot ELSE slots[i]]
      BY <3>1 DEF slots
    <3> QED BY <3>3, <3>4
  <2> QED BY <1>2, <2>3, <2>5, <2>6
          DEF Takes, Promise!Deliver, Promise!IsNews
<1> QED BY <1>1, <1>2 DEF QueueStep, Takes, Admits

\* The client implements the lossy channel: what the handlers see is a
\* subsequence of the stream, in its order and without repetition.
THEOREM ImplementsLossyFifo == Spec => KeepsPromise
<1>1. Counted /\ Ordered /\ [Next]_vars => [Promise!Next]_(Promise!vars)
  BY NextIsQueueStep, StepKeepsPromise
<1> QED BY <1>1, AlwaysOrdered, InitKeepsPromise, PTL
        DEF Spec, KeepsPromise, Promise!Spec

-----------------------------------------------------------------------------
(* Deduplication and overflow                                              *)

\* What was handled since the last clear is remembered: a duplicate of it is
\* found when it arrives.
Remembered ==
    /\ NoDoubleHandling
    /\ clearedAt <= Len(handled)
    /\ \A i \in (clearedAt + 1)..Len(handled) :
          handled[i].sig \in processed_signatures

\* The signature cache is added to with each event handled, and cleared with
\* a note of how much had been handled by then.
LEMMA NextRemembered == Counted /\ Remembered /\ [Next]_vars => Remembered'
<1> SUFFICES ASSUME Counted, Remembered, [Next]_vars PROVE Remembered'
  OBVIOUS
<1> USE DEF Remembered, NoDoubleHandling
<1>1. /\ queue \in Seq(Event) /\ handled \in Seq(Event)
      /\ clearedAt \in Nat /\ Len(handled) \in Nat
  BY DEF Counted, TypeOK
<1>2. CASE DiscardStale
  BY <1>1, <1>2 DEF DiscardStale, Remember
<1>3. CASE CallHandlers
  <2> DEFINE event == Head(queue)
  <2>1. event \in Event
    BY <1>1, <1>3, TailFacts DEF CallHandlers, Dequeue
  <2>2. /\ Len(handled') = Len(handled) + 1
        /\ \A i \in 1..Len(handled) : handled'[i] = handled[i]
        /\ handled'[Len(handled) + 1] = event
    BY <1>1, <1>3, <2>1 DEF CallHandlers
  <2>3. event.sig \notin processed_signatures
    BY <1>3 DEF CallHandlers, IsDuplicate
  <2> DEFINE sig == event.sig
  <2>4. CASE /\ processed_signatures' = {sig}
             /\ clearedAt' = Len(handled)
    BY <1>1, <2>2, <2>4
  <2>5. CASE /\ processed_signatures' = processed_signatures \cup {sig}
             /\ clearedAt' = clearedAt
    <3>1. \A i \in (clearedAt + 1)..Len(handled) :
             /\ handled'[i] = handled[i]
             /\ handled'[i].sig \in processed_signatures
             /\ handled'[i].sig # sig
      BY <1>1, <2>2, <2>3
    <3>2. handled'[Len(handled) + 1].sig = sig
      BY <2>2
    <3> HIDE DEF event, sig
    <3>3. \A i \in (clearedAt' + 1)..Len(handled') :
             i \in (clearedAt + 1)..Len(handled) \/ i = Len(handled) + 1
      BY <1>1, <2>2, <2>5
    <3>4. NoDoubleHandling'
      <4> SUFFICES ASSUME NEW i \in (clearedAt' + 1)..Len(handled'),
                          NEW j \in (clearedAt' + 1)..Len(handled'),
                          handled'[i].sig = handled'[j].sig
                   PROVE  i = j
        OBVIOUS
      <4>1. CASE /\ i \in (clearedAt + 1)..Len(handled)
                 /\ j \in (clearedAt + 1)..Len(handled)
        <5>1. handled[i].sig = handled[j].sig
          BY <3>1, <4>1
        <5> QED BY <4>1, <5>1
      <4> QED BY <3>1, <3>2, <3>3, <4>1
    <3>5. \A i \in (clearedAt' + 1)..Len(handled') :
             handled'[i].sig \in processed_signatures'
      BY <2>5, <3>1, <3>2, <3>3
    <3>6. clearedAt' <= Len(handled')
      BY <1>1, <2>2, <2>5
    <3> QED BY <3>4, <3>5, <3>6
  <2> QED BY <1>3, <2>4, <2>5 DEF CallHandlers, Remember
<1>4. UNCHANGED <<processed_signatures, handled, clearedAt>> => Remembered'
  OBVIOUS
<1>5. Read \/ DiscardDuplicate \/ HandlersDone \/ DispatcherEnds \/ Stop
        \/ TimePasses \/ UNCHANGED vars
        => UNCHANGED <<processed_signatures, handled, clearedAt>>
  BY DEF Read, Receive, StreamFails, Reconnect, ReaderEnds, DiscardDuplicate,
         HandlersDone, DispatcherEnds, Stop, TimePasses, vars, dispatchVars
<1> QED BY <1>2, <1>3, <1>4, <1>5
        DEF Next, Dispatch, Handle, HandleAtOnce, HandlerRaises

\* Between two clears of the cache the handlers see no signature twice.
THEOREM NothingHandledTwice == Spec => []NoDoubleHandling
<1>1. Init => Remembered
  BY DEF Init, Remembered, NoDoubleHandling
<1> QED BY <1>1, NextRemembered, AlwaysCounted, PTL DEF Spec, Remembered

\* Under drop_oldest every kind of step leaves the newest events in the queue.
LEMMA NextNewest ==
  Counted /\ NewestKept /\ QueueStep /\ UNCHANGED policy => NewestKept'
<1> SUFFICES ASSUME Counted, NewestKept, QueueStep, UNCHANGED policy,
                    policy = "drop_oldest"
             PROVE  \A i \in 1..Len(queue') :
                       queue'[i].slot = last_seen_slot' - Len(queue') + i
  BY DEF NewestKept
<1>1. /\ queue \in Seq(Event) /\ last_seen_slot \in Nat /\ Len(queue) \in Nat
      /\ \A i \in 1..Len(queue) :
            queue[i].slot = last_seen_slot - Len(queue) + i
  BY DEF Counted, TypeOK, NewestKept
<1>2. ASSUME NEW event \in Event, Admits(event), queue' = Append(queue, event)
      PROVE  \A i \in 1..Len(queue') :
                queue'[i].slot = last_seen_slot' - Len(queue') + i
  <2>1. /\ Len(queue') = Len(queue) + 1 /\ queue'[Len(queue) + 1] = event
        /\ \A i \in 1..Len(queue) : queue'[i] = queue[i]
    BY <1>1, <1>2
  <2>2. event.slot = last_seen_slot + 1 /\ last_seen_slot' = last_seen_slot + 1
    BY <1>2 DEF Admits
  <2>3. ASSUME NEW i \in 1..Len(queue)
        PROVE  queue'[i].slot = last_seen_slot' - Len(queue') + i
    BY <1>1, <2>1, <2>2
  <2>4. queue'[Len(queue) + 1].slot
          = last_seen_slot' - Len(queue') + (Len(queue) + 1)
    BY <1>1, <2>1, <2>2
  <2> QED BY <1>1, <2>1, <2>3, <2>4
<1>3. ASSUME NEW event \in Event, Admits(event), queue # <<>>,
             queue' = Append(Tail(queue), event)
      PROVE  \A i \in 1..Len(queue') :
                queue'[i].slot = last_seen_slot' - Len(queue') + i
  <2>1. /\ Tail(queue) \in Seq(Event)
        /\ Len(Tail(queue)) = Len(queue) - 1
        /\ \A i \in 1..Len(Tail(queue)) : Tail(queue)[i] = queue[i + 1]
        /\ Len(queue) \in Nat \ {0}
    BY <1>1, <1>3, TailFacts
  <2>2. /\ Len(queue') = Len(queue) /\ queue'[Len(queue)] = event
        /\ \A i \in 1..(Len(queue) - 1) : queue'[i] = queue[i + 1]
    BY <1>3, <2>1
  <2>3. ASSUME NEW i \in 1..(Len(queue) - 1)
        PROVE  queue'[i].slot = last_seen_slot' - Len(queue') + i
    BY <1>1, <1>3, <2>2 DEF Admits
  <2>4. queue'[Len(queue)].slot = last_seen_slot' - Len(queue') + Len(queue)
    BY <1>1, <1>3, <2>2 DEF Admits
  <2> QED BY <2>1, <2>2, <2>3, <2>4
<1>4. CASE Takes
  BY <1>1, <1>4, TailFacts DEF Takes
<1>5. CASE UNCHANGED <<queue, last_seen_slot>>
  BY <1>1, <1>5
<1> QED BY <1>2, <1>3, <1>4, <1>5 DEF QueueStep

\* An overflow costs the oldest event and never a newer one.
THEOREM OverflowCostsOldest == Spec => []NewestKept
<1>1. Init => NewestKept
  BY DEF Init, NewestKept
<1>2. Counted /\ NewestKept /\ [Next]_vars => NewestKept'
  BY NextIsQueueStep, NextNewest DEF Next, vars
<1> QED BY <1>1, <1>2, AlwaysCounted, PTL DEF Spec

\* Under drop_newest and fail_closed an admitted event is dispatched in turn.
THEOREM AdmittedAreDispatched == Spec => AdmittedNotDropped
<1> DEFINE Kept ==
      policy # "drop_oldest" /\ queue' # queue =>
          \/ /\ Len(queue') = Len(queue) + 1
             /\ \A i \in 1..Len(queue) : queue'[i] = queue[i]
          \/ /\ queue # <<>> /\ queue' = Tail(queue)
             /\ dropped_events' = dropped_events
<1>1. Counted /\ [Next]_vars => Kept
  <2> SUFFICES ASSUME Counted, [Next]_vars PROVE Kept
    OBVIOUS
  <2>1. queue \in Seq(Event)
    BY DEF Counted, TypeOK
  <2>2. CASE Receive
    <3>1. PICK sig \in NextSignatures :
             PushToQueue([slot |-> last_seen_slot + 1, sig |-> sig])
      BY <2>2 DEF Receive
    <3> DEFINE event == [slot |-> last_seen_slot + 1, sig |-> sig]
    <3> HIDE DEF event
    <3>2. policy = "drop_oldest" \/ queue' = queue \/ queue' = Append(queue, event)
      BY <3>1 DEF PushToQueue, PushToFullQueue, event
    <3>3. event \in Event
      BY <2>2 DEF event, NextSignatures, Counted, TypeOK, Event
    <3> QED BY <2>1, <3>2, <3>3
  <2>3. CASE DiscardDuplicate \/ DiscardStale \/ CallHandlers
    BY <2>3 DEF DiscardDuplicate, DiscardStale, CallHandlers, Dequeue, readVars
  <2>4. StreamFails \/ Reconnect \/ ReaderEnds \/ HandlersDone
          \/ DispatcherEnds \/ Stop \/ TimePasses \/ UNCHANGED vars
          => queue' = queue
    BY DEF StreamFails, Reconnect, ReaderEnds, HandlersDone, DispatcherEnds,
           Stop, TimePasses, vars
  <2> QED BY <2>2, <2>3, <2>4
          DEF Next, Read, Dispatch, Handle, HandleAtOnce, HandlerRaises
<1> QED BY <1>1, AlwaysCounted, PTL DEF Spec, AdmittedNotDropped

-----------------------------------------------------------------------------
(* The backoff                                                             *)

\* The delay after n doublings.
Delay(n) == IF 2 ^ n > MaxBackoff THEN MaxBackoff ELSE 2 ^ n

\* Doubling the delay and cutting it at the limit is doubling it once more.
LEMMA DelayDoubles ==
  ASSUME NEW n \in Nat
  PROVE  DoublesTo(Delay(n)) = Delay(n + 1)
<1> DEFINE p == 2 ^ n
           q == 2 ^ (n + 1)
<1>1. p \in Nat /\ q = 2 * p /\ MaxBackoff \in Nat
  BY PowerDoubles, LimitsAssumption
<1> HIDE DEF p, q
<1>2. DoublesTo(IF p > MaxBackoff THEN MaxBackoff ELSE p)
        = IF q > MaxBackoff THEN MaxBackoff ELSE q
  BY <1>1 DEF DoublesTo
<1> QED BY <1>2 DEF Delay, p, q

\* A reader that backs off has counted its failure and not yet doubled the
\* delay.
Backing ==
    /\ reconnects \in Nat
    /\ reader = "reading" => backoff = Delay(reconnects)
    /\ reader = "backoff" => /\ reconnects - 1 \in Nat
                             /\ backoff = Delay(reconnects - 1)

\* A failure and the wait after it, in either order of the policy's steps.
LEMMA NextBacking == Backing /\ [Next]_vars => Backing'
<1> SUFFICES ASSUME Backing, [Next]_vars PROVE Backing'
  OBVIOUS
<1> USE DEF Backing
<1>1. ASSUME reader = "reading", reader' = "backoff",
             reconnects' = reconnects + 1, UNCHANGED backoff
      PROVE  Backing'
  BY <1>1
<1>2. CASE UNCHANGED <<reader, backoff, reconnects>>
  BY <1>2
<1>3. CASE Receive
  BY <1>1, <1>2, <1>3 DEF Receive, PushToQueue, PushToFullQueue
<1>4. CASE StreamFails
  BY <1>1, <1>4 DEF StreamFails
<1>5. CASE Reconnect
  <2>1. DoublesTo(Delay(reconnects - 1)) = Delay(reconnects - 1 + 1)
    BY <1>5, DelayDoubles DEF Reconnect
  <2> QED BY <1>5, <2>1 DEF Reconnect
<1>6. CASE ReaderEnds
  BY <1>6 DEF ReaderEnds
<1>7. Dispatch \/ Stop \/ TimePasses \/ UNCHANGED vars
        => UNCHANGED <<reader, backoff, reconnects>>
  BY DEF Dispatch, DiscardDuplicate, DiscardStale, Handle, HandleAtOnce,
         HandlerRaises, CallHandlers, Dequeue, HandlersDone, DispatcherEnds, Stop, TimePasses, readVars, vars
<1> QED BY <1>2, <1>3, <1>4, <1>5, <1>6, <1>7 DEF Next, Read

\* The delay counts the failures of the process's whole life: no period of
\* successful reading, however long, makes it shorter.
THEOREM BackoffOnlyGrows == Spec => []BackoffNeverReset
<1>1. Init => Backing
  <2>1. Delay(0) = 1
    BY PowerOfZero, LimitsAssumption DEF Delay
  <2> QED BY <2>1 DEF Init, Backing
<1>2. Backing => BackoffNeverReset
  BY DEF Backing, Delay, BackoffNeverReset
<1> QED BY <1>1, <1>2, NextBacking, PTL DEF Spec

=============================================================================
