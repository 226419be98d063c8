-------------------------- MODULE ProjectionProofs --------------------------
(***************************************************************************)
(* Proofs about ProjectionCoordinator, for any number of threads and       *)
(* streams and any queue capacity, and about Access, for any number of     *)
(* administrators, grants, events, relations and requests.                 *)
(***************************************************************************)
EXTENDS ProjectionCoordinator, Access, FunctionTheorems, FiniteSetTheorems, SequenceTheorems,
        WellFoundedInduction, TLAPS

(***************************************************************************)
(* What the steps of a thread and of the worker may rely on.  The safety   *)
(* properties are inductive together with it.                              *)
(***************************************************************************)

SubmitCall == [op : {"submit"}, note : Notification]
WaitCall == [op : {"flush", "close"}, deadline : Deadline]

Established ==
    /\ \A c \in Clients :
           /\ pc[c] \in {"put", "defer", "settle"} => call[c] \in SubmitCall
           /\ pc[c] \in {"flush", "wait", "stop", "join"} => call[c] \in WaitCall
    /\ worker \in {"project", "publish"} => item \in Notification
    /\ worker \in {"failing", "drain", "notifyFailed"} => failed
    /\ \A s \in Sources : ingested[s] <= tail[s]

\* What submit has put in the queue is ingested or on its way to be.
Handed(s, n) ==
    \/ n < ingested[s]
    \/ \E i \in DOMAIN queue : Covers(queue[i], s, n)
    \/ worker \in {"project", "publish"} /\ Covers(item, s, n)

SettledIsHanded ==
    ~failed => \A c \in Clients : pc[c] = "settle" =>
                   Handed(call[c].note.source_id, call[c].note.canonical_sequence)

IInv ==
    /\ TypeOK /\ Established /\ UnfinishedIsExact /\ WatermarkIsIngested /\ SleeperWillBeWoken
    /\ IsFiniteSet(deferred) /\ DeferredIsBounded
    /\ SettledIsHanded /\ SubmittedIsNotForgotten

-----------------------------------------------------------------------------
\* The queue operations.
LEMMA QueueSteps ==
    ASSUME NEW S, NEW q \in Seq(S)
    PROVE  /\ \A x \in S : Append(q, x) \in Seq(S) /\ Len(Append(q, x)) = Len(q) + 1
           /\ q # <<>> => /\ Tail(q) \in Seq(S) /\ Head(q) \in S
                         /\ Len(q) \in Nat \ {0} /\ Len(Tail(q)) = Len(q) - 1
OBVIOUS

Entries == Notification \cup {Sentinel}

LEMMA QueueTypes ==
    ASSUME TypeOK
    PROVE  /\ \A x \in Entries : Append(queue, x) \in Seq(Entries) /\ Len(Append(queue, x)) = Len(queue) + 1
           /\ queue # <<>> => /\ Tail(queue) \in Seq(Entries) /\ Head(queue) \in Entries
                             /\ Len(queue) \in Nat \ {0} /\ Len(Tail(queue)) = Len(queue) - 1
           /\ queue \in Seq(Entries) /\ Len(queue) \in Nat
<1>1. queue \in Seq(Entries)
    BY DEF TypeOK, Entries
<1> QED BY <1>1, QueueSteps

LEMMA EnqueueTypes ==
    ASSUME TypeOK, NEW x \in Entries, Enqueue(x)
    PROVE  queue' \in Seq(Entries) /\ unfinished' \in Nat /\ Len(queue') = Len(queue) + 1
<1>1. unfinished \in Nat
    BY DEF TypeOK
<1> QED BY <1>1, QueueTypes DEF Enqueue

LEMMA InitIInv == Init => IInv
<1> SUFFICES ASSUME Init PROVE IInv
    OBVIOUS
<1> USE CoordinatorAssumption DEF Init
<1>1. TypeOK
    <2>1. queue \in Seq(Notification \cup {Sentinel})
        OBVIOUS
    <2>2. tail \in [Sources -> Nat] /\ ingested \in [Sources -> Nat]
        OBVIOUS
    <2>3. pc \in [Clients -> ClientSteps] /\ call \in [Clients -> Call \cup {NoCall}]
        BY DEF ClientSteps
    <2>4. submitted \in [Sources -> Int] /\ item \in Notification \cup {Sentinel, NoItem}
        OBVIOUS
    <2>5. worker \in WorkerSteps /\ deferred \in SUBSET Notification
        BY DEF WorkerSteps
    <2> QED BY <2>1, <2>2, <2>3, <2>4, <2>5 DEF TypeOK
<1>2. Established
    BY DEF Established
<1>3. UnfinishedIsExact /\ WatermarkIsIngested /\ SleeperWillBeWoken
    BY DEF UnfinishedIsExact, Working, WatermarkIsIngested, SleeperWillBeWoken
<1>4. IsFiniteSet(deferred) /\ DeferredIsBounded
    BY FS_EmptySet DEF DeferredIsBounded
<1>5. SettledIsHanded /\ SubmittedIsNotForgotten
    BY DEF SettledIsHanded, SubmittedIsNotForgotten
<1> QED BY <1>1, <1>2, <1>3, <1>4, <1>5 DEF IInv

LEMMA TypeStep == IInv /\ [Next]_vars => TypeOK'
<1> SUFFICES ASSUME IInv, [Next]_vars PROVE TypeOK'
    OBVIOUS
<1> USE CoordinatorAssumption DEF TypeOK, WorkerSteps, ClientSteps
<1>0. TypeOK /\ Established /\ UnfinishedIsExact
    BY DEF IInv
<1>1. ASSUME NEW s \in Sources, Append1(s) PROVE TypeOK'
    BY <1>0, <1>1 DEF Append1, work, flags, marks, clients
<1>2. CASE Start
    BY <1>0, <1>2 DEF Start, streams, work, flags, marks, clients
<1>3. ASSUME NEW c \in Clients, NEW s \in Sources, NEW n \in 0 .. MaxRecords - 1, Submit(c, s, n)
      PROVE  TypeOK'
    <2>1. [op |-> "submit", note |-> [source_id |-> s, canonical_sequence |-> n]] \in Call
        BY DEF Call, Notification
    <2>2. call' \in [Clients -> Call \cup {NoCall}] /\ pc' \in [Clients -> ClientSteps]
        BY <1>0, <1>3, <2>1 DEF Submit, Goto, clients
    <2>3. canonical' \in Nat /\ submitted' \in [Sources -> Int]
        BY <1>0, <1>3 DEF Submit, AtLeast
    <2> QED BY <1>0, <1>3, <2>2, <2>3 DEF Submit, streams, work, flags
<1>4. ASSUME NEW c \in Clients, Put(c) PROVE TypeOK'
    <2>1. call[c].note \in Notification
        BY <1>0, <1>4 DEF Put, Established, SubmitCall
    <2>2. queue' \in Seq(Entries) /\ unfinished' \in Nat
        <3>1. call[c].note \in Entries
            BY <2>1 DEF Entries
        <3>2. Enqueue(call[c].note) \/ UNCHANGED work
            BY <1>4 DEF Put
        <3>3. queue \in Seq(Entries) /\ unfinished \in Nat
            BY <1>0, QueueTypes
        <3> QED BY <1>0, <3>1, <3>2, <3>3, EnqueueTypes DEF work
    <2>3. pc' \in [Clients -> ClientSteps]
        BY <1>0, <1>4 DEF Put, Goto
    <2> QED BY <1>0, <1>4, <2>2, <2>3 DEF Put, Entries, streams, flags, marks
<1>5. ASSUME NEW c \in Clients, Defer(c) PROVE TypeOK'
    <2>1. call[c].note \in Notification
        BY <1>0, <1>5 DEF Defer, Established, SubmitCall
    <2>2. deferred' \in SUBSET Notification
        BY <1>0, <1>5, <2>1 DEF Defer
    <2>3. pc' \in [Clients -> ClientSteps]
        BY <1>0, <1>5 DEF Defer, Goto, NotifyAll
    <2>4. call' \in [Clients -> Call \cup {NoCall}]
        BY <1>0, <1>5 DEF Defer
    <2> QED BY <1>0, <1>5, <2>2, <2>3, <2>4 DEF Defer, streams, work, flags, marks
<1>6. ASSUME NEW c \in Clients, Settle(c) PROVE TypeOK'
    BY <1>0, <1>6 DEF Settle, NotifyAll, streams, work, flags, marks
<1>7. ASSUME NEW c \in Clients, NEW d \in {"none", "ahead"}, Flush(c, d) \/ Close(c, d) PROVE TypeOK'
    <2>1. [op |-> "flush", deadline |-> d] \in Call /\ [op |-> "close", deadline |-> d] \in Call
        BY DEF Call, Deadline
    <2>2. call' \in [Clients -> Call \cup {NoCall}] /\ pc' \in [Clients -> ClientSteps]
        BY <1>0, <1>7, <2>1 DEF Flush, Close, Goto, clients
    <2> QED BY <1>0, <1>7, <2>2 DEF Flush, Close, streams, work, flags, marks
<1>8. ASSUME NEW c \in Clients, FlushCheck(c) \/ Join(c) PROVE TypeOK'
    BY <1>0, <1>8 DEF FlushCheck, FlushReturn, Join, Return, Goto, streams, work, flags, marks
<1>9. ASSUME NEW c \in Clients, DeadlinePasses(c) PROVE TypeOK'
    <2>1. call[c] \in WaitCall
        BY <1>0, <1>9 DEF DeadlinePasses, Established
    <2>2. [call[c] EXCEPT !.deadline = "passed"] \in Call
        BY <2>1 DEF WaitCall, Call, Deadline
    <2>3. call' \in [Clients -> Call \cup {NoCall}]
        BY <1>0, <1>9, <2>2 DEF DeadlinePasses
    <2> QED BY <1>0, <1>9, <2>3 DEF DeadlinePasses, Goto, streams, work, flags, marks
<1>10. ASSUME NEW c \in Clients, Stop(c) PROVE TypeOK'
    <2>1. queue' \in Seq(Entries) /\ unfinished' \in Nat
        <3>1. Sentinel \in Entries
            BY DEF Entries
        <3>2. Enqueue(Sentinel) \/ UNCHANGED work
            BY <1>10 DEF Stop
        <3>3. queue \in Seq(Entries) /\ unfinished \in Nat
            BY <1>0, QueueTypes
        <3> QED BY <1>0, <3>1, <3>2, <3>3, EnqueueTypes DEF work
    <2>2. call' \in [Clients -> Call \cup {NoCall}] /\ pc' \in [Clients -> ClientSteps]
        BY <1>0, <1>10 DEF Stop, Return, Goto
    <2> QED BY <1>0, <1>10, <2>1, <2>2 DEF Stop, Entries, streams, flags, marks
<1>11. CASE Get
    BY <1>0, <1>11 DEF Get, streams, flags, marks, clients
<1>12. CASE Ingest \/ Publish \/ ProjectFails
    <2>1. item \in Notification /\ item.source_id \in Sources /\ item.canonical_sequence \in Nat
        BY <1>0, <1>12 DEF Ingest, Publish, ProjectFails, Established, Notification
    <2>2. CASE Ingest
        BY <1>0, <2>1, <2>2 DEF Ingest, work, flags, marks, clients
    <2>3. CASE Publish
        <3>1. derived' \in Nat
            BY <1>0, <2>1, <2>3 DEF Publish, AtLeast
        <3> QED BY <1>0, <2>3, <3>1 DEF Publish, streams, work, flags, clients
    <2>4. CASE ProjectFails
        BY <1>0, <2>4 DEF ProjectFails, streams, work, marks, clients
    <2> QED BY <1>12, <2>2, <2>3, <2>4
<1>13. CASE ItemDone
    BY <1>0, <1>13 DEF ItemDone, TaskDone, UnfinishedIsExact, Working, streams, flags, marks, clients
<1>14. CASE Drain
    <2>1. queue' \in Seq(Entries)
        BY <1>0, <1>14, QueueTypes DEF Drain, work
    <2>2. unfinished' \in Nat
        <3>1. queue # <<>> => unfinished >= 1
            BY <1>0, <1>14 DEF Drain, UnfinishedIsExact, Working
        <3> QED BY <1>0, <1>14, <3>1 DEF Drain, TaskDone, work
    <2> QED BY <1>0, <1>14, <2>1, <2>2 DEF Drain, Entries, streams, flags, marks, clients
<1>15. CASE Notify
    BY <1>0, <1>15 DEF Notify, WakeAll, streams, work, flags, marks
<1>16. CASE UNCHANGED vars
    BY <1>0, <1>16 DEF vars, streams, work, flags, marks, clients
<1> QED BY <1>1, <1>2, <1>3, <1>4, <1>5, <1>6, <1>7, <1>8, <1>9, <1>10, <1>11, <1>12, <1>13,
           <1>14, <1>15, <1>16 DEF Next, ClientStep, WorkerStep

-----------------------------------------------------------------------------
LEMMA EstablishedStep == IInv /\ [Next]_vars => Established'
<1> SUFFICES ASSUME IInv, [Next]_vars PROVE Established'
    OBVIOUS
<1> USE DEF Established
<1>0. TypeOK /\ Established
    BY DEF IInv
<1>1. ASSUME NEW s \in Sources, Append1(s) PROVE Established'
    BY <1>0, <1>1 DEF TypeOK, Append1, flags, clients
<1>2. CASE Start
    BY <1>0, <1>2 DEF Start, streams, flags, clients
<1>3. ASSUME NEW c \in Clients, NEW s \in Sources, NEW n \in 0 .. MaxRecords - 1, Submit(c, s, n)
      PROVE  Established'
    <2>1. [op |-> "submit", note |-> [source_id |-> s, canonical_sequence |-> n]] \in SubmitCall
        BY DEF SubmitCall, Notification
    <2> QED BY <1>0, <1>3, <2>1 DEF TypeOK, Submit, Goto, streams, flags, clients
<1>4. ASSUME NEW c \in Clients, Put(c) \/ Settle(c) \/ Defer(c) \/ Join(c) \/ Stop(c)
      PROVE  Established'
    BY <1>0, <1>4 DEF TypeOK, Put, Settle, Defer, Join, Stop, Return, Goto, NotifyAll, streams, flags
<1>5. ASSUME NEW c \in Clients, NEW d \in {"none", "ahead"}, Flush(c, d) \/ Close(c, d)
      PROVE  Established'
    <2>1. [op |-> "flush", deadline |-> d] \in WaitCall /\ [op |-> "close", deadline |-> d] \in WaitCall
        BY DEF WaitCall, Deadline
    <2> QED BY <1>0, <1>5, <2>1 DEF TypeOK, Flush, Close, Goto, streams, flags, clients
<1>6. ASSUME NEW c \in Clients, FlushCheck(c) PROVE Established'
    BY <1>0, <1>6 DEF TypeOK, FlushCheck, FlushReturn, Return, Goto, streams, flags
<1>7. ASSUME NEW c \in Clients, DeadlinePasses(c) PROVE Established'
    <2>1. [call[c] EXCEPT !.deadline = "passed"] \in WaitCall
        BY <1>0, <1>7 DEF DeadlinePasses, WaitCall, Deadline
    <2> QED BY <1>0, <1>7, <2>1 DEF TypeOK, DeadlinePasses, Goto, streams, flags
<1>8. CASE Get
    <2>1. worker' = "project" => item' \in Notification
        BY <1>0, <1>8, QueueTypes DEF Get, Entries
    <2> QED BY <1>0, <1>8, <2>1 DEF Get, streams, flags, clients
<1>9. CASE Ingest \/ Publish \/ ProjectFails
    <2>1. item \in Notification /\ item.source_id \in Sources
        BY <1>0, <1>9 DEF Ingest, Publish, ProjectFails, Notification
    <2> QED BY <1>0, <1>9, <2>1 DEF TypeOK, Ingest, Publish, ProjectFails, streams, flags, clients
<1>10. CASE ItemDone \/ Drain
    BY <1>0, <1>10 DEF ItemDone, Drain, streams, flags, clients
<1>11. CASE Notify
    BY <1>0, <1>11 DEF TypeOK, Notify, WakeAll, streams, flags
<1>12. CASE UNCHANGED vars
    BY <1>0, <1>12 DEF vars, streams, flags, clients
<1> QED BY <1>1, <1>2, <1>3, <1>4, <1>5, <1>6, <1>7, <1>8, <1>9, <1>10, <1>11, <1>12
        DEF Next, ClientStep, WorkerStep

\* Putting an item and taking one keep the count of unfinished work exact.
LEMMA CountStep == IInv /\ [Next]_vars => UnfinishedIsExact'
<1> SUFFICES ASSUME IInv, [Next]_vars PROVE UnfinishedIsExact'
    OBVIOUS
<1> USE DEF UnfinishedIsExact, Working
<1>0. /\ TypeOK /\ Established /\ UnfinishedIsExact
      /\ Len(queue) \in Nat /\ unfinished \in Nat /\ QueueCapacity \in Nat
    BY QueueTypes, CoordinatorAssumption DEF IInv, TypeOK
<1>1. ASSUME NEW c \in Clients, Put(c) PROVE UnfinishedIsExact'
    <2>1. call[c].note \in Entries
        BY <1>0, <1>1 DEF Put, Established, SubmitCall, Entries
    <2>2. CASE Enqueue(call[c].note) /\ Len(queue) < QueueCapacity
        <3>1. Len(queue') = Len(queue) + 1 /\ unfinished' = unfinished + 1
            BY <1>0, <2>1, <2>2, EnqueueTypes DEF Enqueue
        <3> QED BY <1>0, <1>1, <2>2, <3>1 DEF Put
    <2>3. CASE UNCHANGED work
        BY <1>0, <1>1, <2>3 DEF Put, work
    <2> QED BY <1>1, <2>2, <2>3 DEF Put
<1>2. ASSUME NEW c \in Clients, Stop(c) PROVE UnfinishedIsExact'
    <2>1. CASE Enqueue(Sentinel) /\ Len(queue) < QueueCapacity
        <3>1. Len(queue') = Len(queue) + 1 /\ unfinished' = unfinished + 1
            BY <1>0, <2>1, EnqueueTypes DEF Enqueue, Entries
        <3> QED BY <1>0, <1>2, <2>1, <3>1 DEF Stop
    <2>2. CASE UNCHANGED work
        BY <1>0, <1>2, <2>2 DEF Stop, work
    <2> QED BY <1>2, <2>1, <2>2 DEF Stop
<1>3. CASE Get
    <2>1. Len(queue') = Len(queue) - 1 /\ item' \in Entries
        BY <1>0, <1>3, QueueTypes DEF Get
    <2>2. item' # NoItem
        BY <2>1, CoordinatorAssumption DEF Entries
    <2>3. worker' \in {"stopping", "project"} /\ worker = "get"
        BY <1>3 DEF Get
    <2> QED BY <1>0, <1>3, <2>1, <2>2, <2>3 DEF Get
<1>4. CASE ItemDone
    BY <1>0, <1>4 DEF ItemDone, TaskDone
<1>5. CASE Drain
    <2>1. CASE queue = <<>>
        BY <1>0, <1>5, <2>1 DEF Drain, work
    <2>2. CASE queue # <<>>
        <3>1. Len(queue') = Len(queue) - 1
            BY <1>0, <1>5, <2>2, QueueTypes DEF Drain
        <3> QED BY <1>0, <1>5, <2>2, <3>1 DEF Drain, TaskDone
    <2> QED BY <2>1, <2>2
<1>6. CASE Start \/ Ingest \/ Publish \/ ProjectFails \/ Notify
    BY <1>0, <1>6 DEF Start, Ingest, Publish, ProjectFails, Notify, work
<1>7. ASSUME NEW s \in Sources, Append1(s) PROVE UnfinishedIsExact'
    BY <1>0, <1>7 DEF Append1, work
<1>8. ASSUME NEW c \in Clients,
             \/ \E s \in Sources : \E n \in 0 .. MaxRecords - 1 : Submit(c, s, n)
             \/ \E d \in {"none", "ahead"} : Flush(c, d) \/ Close(c, d)
             \/ Defer(c) \/ Settle(c) \/ FlushCheck(c) \/ Join(c) \/ DeadlinePasses(c)
      PROVE  UnfinishedIsExact'
    BY <1>0, <1>8 DEF Submit, Flush, Close, Defer, Settle, FlushCheck, Join, DeadlinePasses, work
<1>9. CASE UNCHANGED vars
    BY <1>0, <1>9 DEF vars, work
<1> QED BY <1>1, <1>2, <1>3, <1>4, <1>5, <1>6, <1>7, <1>8, <1>9 DEF Next, ClientStep, WorkerStep

\* Only a publishing worker raises the watermark, to what it has ingested.
LEMMA WatermarkStep == IInv /\ [Next]_vars => WatermarkIsIngested'
<1> SUFFICES ASSUME IInv, [Next]_vars PROVE WatermarkIsIngested'
    OBVIOUS
<1> USE DEF WatermarkIsIngested
<1>0. TypeOK /\ Established /\ WatermarkIsIngested
    BY DEF IInv
<1>1. CASE Ingest
    <2>1. item.source_id \in Sources
        BY <1>0, <1>1 DEF Ingest, Established, Notification
    <2>2. \A s \in Sources : ingested'[s] >= ingested[s]
        BY <1>0, <1>1, <2>1 DEF Ingest, Established, TypeOK
    <2> QED BY <1>0, <1>1, <2>2 DEF Ingest, TypeOK, marks
<1>2. CASE Publish
    <2>1. item.source_id \in Sources
        BY <1>0, <1>2 DEF Publish, Established, Notification
    <2> QED BY <1>0, <1>2, <2>1 DEF Publish, TypeOK, AtLeast, streams
<1>3. CASE UNCHANGED <<ingested, derived>>
    BY <1>0, <1>3
<1>4. ASSUME NEW c \in Clients,
             \/ \E s \in Sources : \E n \in 0 .. MaxRecords - 1 : Submit(c, s, n)
             \/ \E d \in {"none", "ahead"} : Flush(c, d) \/ Close(c, d)
             \/ ClientStep(c) \/ DeadlinePasses(c)
      PROVE  UNCHANGED <<ingested, derived>>
    BY <1>4 DEF ClientStep, Submit, Flush, Close, Put, Defer, Settle, FlushCheck, Stop, Join,
                DeadlinePasses, streams, marks
<1>5. CASE Start \/ Get \/ ProjectFails \/ ItemDone \/ Drain \/ Notify \/ UNCHANGED vars
    <2>1. UNCHANGED <<ingested, derived>>
        BY <1>5 DEF Start, Get, ProjectFails, ItemDone, Drain, Notify, vars, streams, marks
    <2> QED BY <1>3, <2>1
<1>6. ASSUME NEW s \in Sources, Append1(s) PROVE UNCHANGED <<ingested, derived>>
    BY <1>6 DEF Append1, marks
<1> QED BY <1>1, <1>2, <1>3, <1>4, <1>5, <1>6 DEF Next, WorkerStep

\* Work comes to its end in a step after which the worker is bound to notify,
\* or in one that notifies at once.
LEMMA SleeperStep == IInv /\ [Next]_vars => SleeperWillBeWoken'
<1> SUFFICES ASSUME IInv, [Next]_vars PROVE SleeperWillBeWoken'
    OBVIOUS
<1> USE DEF SleeperWillBeWoken, Busy
<1>0. TypeOK /\ Established /\ UnfinishedIsExact /\ SleeperWillBeWoken
    BY DEF IInv
<1>1. ASSUME NEW c \in Clients, Put(c) \/ Stop(c) PROVE SleeperWillBeWoken'
    BY <1>0, <1>1 DEF TypeOK, Put, Stop, Enqueue, Goto, Return, work, flags
<1>2. ASSUME NEW c \in Clients, Settle(c) PROVE SleeperWillBeWoken'
    BY <1>0, <1>2 DEF TypeOK, Settle, NotifyAll
<1>3. ASSUME NEW c \in Clients, Defer(c) PROVE SleeperWillBeWoken'
    BY <1>0, <1>3 DEF TypeOK, Defer, NotifyAll, Goto, work, flags
<1>4. ASSUME NEW c \in Clients, FlushCheck(c) PROVE SleeperWillBeWoken'
    BY <1>0, <1>4 DEF TypeOK, FlushCheck, FlushReturn, Return, Goto, work, flags
<1>5. ASSUME NEW c \in Clients,
             \/ \E s \in Sources : \E n \in 0 .. MaxRecords - 1 : Submit(c, s, n)
             \/ \E d \in {"none", "ahead"} : Flush(c, d) \/ Close(c, d)
             \/ Join(c) \/ DeadlinePasses(c)
      PROVE  SleeperWillBeWoken'
    BY <1>0, <1>5 DEF TypeOK, Submit, Flush, Close, Join, DeadlinePasses, Return, Goto, work, flags, clients
<1>6. CASE Start \/ Get \/ Ingest \/ Publish \/ ProjectFails
    BY <1>0, <1>6 DEF Start, Get, Ingest, Publish, ProjectFails, work, flags, clients
<1>7. CASE ItemDone \/ Drain
    BY <1>0, <1>7 DEF ItemDone, Drain, clients
<1>8. CASE Notify
    BY <1>0, <1>8 DEF TypeOK, Notify, WakeAll
<1>9. ASSUME NEW s \in Sources, Append1(s) PROVE SleeperWillBeWoken'
    BY <1>0, <1>9 DEF Append1, work, flags, clients
<1>10. CASE UNCHANGED vars
    BY <1>0, <1>10 DEF vars, work, flags, clients
<1> QED BY <1>1, <1>2, <1>3, <1>4, <1>5, <1>6, <1>7, <1>8, <1>9, <1>10 DEF Next, ClientStep, WorkerStep

-----------------------------------------------------------------------------
(***************************************************************************)
(* The deferred list.                                                      *)
(***************************************************************************)

LEMMA ImageIsNoLarger ==
    ASSUME NEW S, IsFiniteSet(S), NEW f, f \in [S -> {f[x] : x \in S}]
    PROVE  IsFiniteSet({f[x] : x \in S}) /\ Cardinality({f[x] : x \in S}) <= Cardinality(S)
<1>1. f \in Surjection(S, {f[x] : x \in S})
    BY DEF Surjection
<1> QED BY <1>1, FS_Surjection

\* With no deferred work of one of the sources there is less of it than sources.
LEMMA DeferredFits ==
    ASSUME TypeOK, IsFiniteSet(deferred), DeferredIsBounded, NEW s \in Sources, ~HasDeferred(s)
    PROVE  Cardinality(deferred) < Cardinality(Sources)
<1> DEFINE Others == Sources \ {s}
           f == [d \in deferred |-> d.source_id]
<1>1. IsFiniteSet(Others) /\ Cardinality(Others) = Cardinality(Sources) - 1
    BY CoordinatorAssumption, FS_RemoveElement
<1>2. \A d \in deferred : d.source_id \in Others
    BY DEF TypeOK, HasDeferred, Notification
<1>3. f \in Injection(deferred, Others)
    BY <1>2 DEF Injection, DeferredIsBounded, IsInjective
<1>4. Cardinality(deferred) <= Cardinality(Others)
    BY <1>1, <1>3, FS_Injection
<1>5. Cardinality(deferred) \in Nat /\ Cardinality(Sources) \in Nat
    BY FS_CardinalityType, CoordinatorAssumption
<1> QED BY <1>1, <1>4, <1>5

LEMMA DeferredStep ==
    IInv /\ [Next]_vars => IsFiniteSet(deferred)' /\ DeferredIsBounded'
<1> SUFFICES ASSUME IInv, [Next]_vars PROVE IsFiniteSet(deferred') /\ DeferredIsBounded'
    OBVIOUS
<1> USE DEF DeferredIsBounded
<1>0. /\ TypeOK /\ Established /\ DeferredIsBounded /\ IsFiniteSet(deferred)
      /\ Cardinality(deferred) \in Nat /\ QueueCapacity \in Nat
    BY FS_CardinalityType, CoordinatorAssumption DEF IInv
<1>1. ASSUME NEW c \in Clients, Defer(c) PROVE IsFiniteSet(deferred') /\ DeferredIsBounded'
    <2> DEFINE note == call[c].note
               Newer(d) == d.source_id = note.source_id /\ note.canonical_sequence > d.canonical_sequence
               f == [d \in deferred |-> IF Newer(d) THEN note ELSE d]
    <2>1. CASE HasDeferred(note.source_id)
        <3>1. deferred' = {f[d] : d \in deferred}
            BY <1>1, <2>1 DEF Defer
        <3>2. IsFiniteSet({f[d] : d \in deferred}) /\ Cardinality({f[d] : d \in deferred}) <= Cardinality(deferred)
            BY <1>0, ImageIsNoLarger
        <3>3. \A d \in deferred : f[d].source_id = d.source_id
            OBVIOUS
        <3>4. Cardinality(deferred') \in Nat
            BY <3>1, <3>2, FS_CardinalityType
        <3> HIDE DEF f
        <3> QED BY <1>0, <3>1, <3>2, <3>3, <3>4
    <2>2. CASE ~HasDeferred(note.source_id) /\ Cardinality(deferred) >= QueueCapacity
        <3>1. UNCHANGED deferred
            BY <1>0, <1>1, <2>2 DEF Defer
        <3> QED BY <1>0, <3>1
    <2>3. CASE ~HasDeferred(note.source_id) /\ Cardinality(deferred) < QueueCapacity
        <3>1. deferred' = deferred \cup {note}
            BY <1>0, <1>1, <2>3 DEF Defer
        <3> HIDE DEF note
        <3>4a. /\ IsFiniteSet(deferred \cup {note})
              /\ Cardinality(deferred \cup {note}) =
                     IF note \in deferred THEN Cardinality(deferred) ELSE Cardinality(deferred) + 1
            BY <1>0, FS_AddElement
        <3>2. IsFiniteSet(deferred') /\ Cardinality(deferred') <= Cardinality(deferred) + 1
            BY <1>0, <3>1, <3>4a
        <3>3. Cardinality(deferred') \in Nat
            BY <3>2, FS_CardinalityType
        <3>4. \A d \in deferred : d.source_id # note.source_id
            BY <2>3 DEF HasDeferred
        <3>5. \A d, e \in deferred' : d.source_id = e.source_id => d = e
            BY <1>0, <3>1, <3>4
        <3>6. Cardinality(deferred') <= QueueCapacity
            BY <1>0, <2>3, <3>2, <3>3
        <3> QED BY <3>2, <3>5, <3>6
    <2> QED BY <1>0, <2>1, <2>2, <2>3
<1>2. ASSUME NEW c \in Clients, Settle(c) PROVE IsFiniteSet(deferred') /\ DeferredIsBounded'
    <2>1. deferred' \in SUBSET deferred
        BY <1>2 DEF Settle
    <2>2. IsFiniteSet(deferred') /\ Cardinality(deferred') <= Cardinality(deferred) /\ Cardinality(deferred') \in Nat
        BY <1>0, <2>1, FS_Subset, FS_CardinalityType
    <2> QED BY <1>0, <2>1, <2>2
<1>3. CASE UNCHANGED deferred
    BY <1>0, <1>3
<1>4. ASSUME NEW c \in Clients,
             \/ \E s \in Sources : \E n \in 0 .. MaxRecords - 1 : Submit(c, s, n)
             \/ \E d \in {"none", "ahead"} : Flush(c, d) \/ Close(c, d)
             \/ Put(c) \/ FlushCheck(c) \/ Stop(c) \/ Join(c) \/ DeadlinePasses(c)
      PROVE  UNCHANGED deferred
    BY <1>4 DEF Submit, Flush, Close, Put, FlushCheck, Stop, Join, DeadlinePasses
<1>5. CASE WorkerStep \/ Start \/ UNCHANGED vars \/ \E s \in Sources : Append1(s)
    <2>1. UNCHANGED deferred
        BY <1>5 DEF WorkerStep, Start, Append1, Get, Ingest, Publish, ProjectFails, ItemDone, Drain, Notify, vars
    <2> QED BY <1>3, <2>1
<1> QED BY <1>1, <1>2, <1>3, <1>4, <1>5 DEF Next, ClientStep

-----------------------------------------------------------------------------
(***************************************************************************)
(* Nothing submitted is forgotten.                                         *)
(***************************************************************************)

\* What is handed to the queue stays handed while the worker is well: Get moves
\* it into the worker's hand, a publishing worker has ingested it.
LEMMA HandedStays ==
    ASSUME IInv, [Next]_vars, ~failed', NEW s \in Sources, NEW n \in Int, Handed(s, n)
    PROVE  Handed(s, n)'
<1> USE DEF Handed, Covers
<1>0. /\ TypeOK /\ Established /\ Len(queue) \in Nat /\ queue \in Seq(Entries)
    BY QueueTypes DEF IInv
<1>1. CASE Get
    <2>1. CASE \E i \in DOMAIN queue : Covers(queue[i], s, n)
        <3>1. PICK i \in DOMAIN queue : Covers(queue[i], s, n)
            BY <2>1
        <3>2. CASE i = 1
            BY <1>0, <1>1, <3>1, <3>2, CoordinatorAssumption DEF Get
        <3>3. CASE i # 1
            <4>1. i - 1 \in DOMAIN queue' /\ queue'[i - 1] = queue[i]
                BY <1>0, <1>1, <3>1, <3>3 DEF Get
            <4> QED BY <3>1, <4>1
        <3> QED BY <3>2, <3>3
    <2>2. CASE n < ingested[s]
        BY <1>1, <2>2 DEF Get, streams
    <2>3. worker = "get"
        BY <1>1 DEF Get
    <2> QED BY <2>1, <2>2, <2>3
<1>2. CASE Ingest
    <2>1. item.source_id \in Sources
        BY <1>0, <1>2 DEF Ingest, Established, Notification
    <2>2. ingested'[s] >= ingested[s] /\ ingested'[s] \in Nat /\ ingested[s] \in Nat
        BY <1>0, <1>2, <2>1 DEF Ingest, Established, TypeOK
    <2>3. UNCHANGED <<queue, item>> /\ worker = "project" /\ worker' = "publish"
        BY <1>2 DEF Ingest, work
    <2> QED BY <2>2, <2>3
<1>3. CASE Publish
    <2>1. item.source_id \in Sources /\ item.canonical_sequence \in Nat
        BY <1>0, <1>3 DEF Publish, Established, Notification
    <2>2. UNCHANGED <<queue, ingested>>
        BY <1>3 DEF Publish, streams, work
    <2>3. Covers(item, s, n) => n < ingested[s]
        BY <1>0, <1>3, <2>1 DEF Publish, TypeOK
    <2> QED BY <2>2, <2>3
<1>4. ASSUME NEW c \in Clients, Put(c) \/ Stop(c) PROVE Handed(s, n)'
    <2>1. UNCHANGED <<ingested, worker, item>>
        BY <1>4 DEF Put, Stop, streams
    <2>2. UNCHANGED queue \/ \E x \in Entries : queue' = Append(queue, x)
        BY <1>0, <1>4 DEF Put, Stop, Enqueue, work, Entries, Established, SubmitCall
    <2>3. \A i \in DOMAIN queue : i \in DOMAIN queue' /\ queue'[i] = queue[i]
        BY <1>0, <2>2
    <2> QED BY <2>1, <2>3
<1>5. CASE ItemDone
    BY <1>0, <1>5 DEF ItemDone, streams
<1>6. CASE Start \/ Notify
    BY <1>6 DEF Start, Notify, streams, work
<1>7. ASSUME NEW t \in Sources, Append1(t) PROVE Handed(s, n)'
    BY <1>7 DEF Append1, work
<1>8. ASSUME NEW c \in Clients,
             \/ \E t \in Sources : \E m \in 0 .. MaxRecords - 1 : Submit(c, t, m)
             \/ \E d \in {"none", "ahead"} : Flush(c, d) \/ Close(c, d)
             \/ Defer(c) \/ Settle(c) \/ FlushCheck(c) \/ Join(c) \/ DeadlinePasses(c)
      PROVE  Handed(s, n)'
    BY <1>8 DEF Submit, Flush, Close, Defer, Settle, FlushCheck, Join, DeadlinePasses, streams, work
<1>9. ~ProjectFails /\ ~Drain
    BY <1>0 DEF ProjectFails, Drain, Established, flags
<1>10. CASE UNCHANGED vars
    BY <1>10 DEF vars, streams, work
<1> QED BY <1>1, <1>2, <1>3, <1>4, <1>5, <1>6, <1>7, <1>8, <1>9, <1>10 DEF Next, ClientStep, WorkerStep

LEMMA FailureIsStable == [Next]_vars /\ failed => failed'
<1> SUFFICES ASSUME [Next]_vars, failed PROVE failed'
    OBVIOUS
<1>1. ASSUME NEW c \in Clients, ClientStep(c) \/ DeadlinePasses(c) PROVE failed'
    BY <1>1 DEF ClientStep, Put, Defer, Settle, FlushCheck, Stop, Join, DeadlinePasses, flags
<1>2. ASSUME NEW c \in Clients, NEW d \in {"none", "ahead"}, Flush(c, d) \/ Close(c, d) PROVE failed'
    BY <1>2 DEF Flush, Close, flags
<1>3. CASE WorkerStep
    BY <1>3 DEF WorkerStep, Get, Ingest, Publish, ProjectFails, ItemDone, Drain, Notify, flags
<1>4. CASE UNCHANGED vars
    BY <1>4 DEF vars, flags
<1> QED BY <1>1, <1>2, <1>3, <1>4 DEF Next, Append1, Start, Submit, flags

LEMMA SettledStep == IInv /\ [Next]_vars => SettledIsHanded'
<1> SUFFICES ASSUME IInv, [Next]_vars, ~failed', NEW c \in Clients, pc'[c] = "settle"
             PROVE  Handed(call[c].note.source_id, call[c].note.canonical_sequence)'
    BY DEF SettledIsHanded
<1>0. TypeOK /\ Established /\ SettledIsHanded /\ ~failed
    BY FailureIsStable DEF IInv
<1>1. CASE Put(c)
    <2>1. Enqueue(call[c].note) /\ call[c].note \in Notification /\ UNCHANGED call
        <3>1. pc'[c] # "defer"
            OBVIOUS
        <3> QED BY <1>0, <1>1, <3>1 DEF Put, Goto, TypeOK, Established, SubmitCall
    <2>2. Len(queue') \in DOMAIN queue' /\ queue'[Len(queue')] = call[c].note
        <3>1. queue \in Seq(Entries) /\ call[c].note \in Entries
            BY <1>0, <2>1, QueueTypes DEF Entries
        <3>2. queue' = Append(queue, call[c].note)
            BY <2>1 DEF Enqueue
        <3> QED BY <3>1, <3>2
    <2>3. call[c].note.canonical_sequence \in Nat
        BY <2>1 DEF Notification
    <2> QED BY <2>1, <2>2, <2>3 DEF Handed, Covers
<1>2. CASE ~Put(c)
    <2>1. pc[c] = "settle" /\ call'[c] = call[c]
        <3>1. ASSUME NEW d \in Clients, ClientStep(d) PROVE pc[c] = "settle" /\ call'[c] = call[c]
            BY <1>0, <1>2, <3>1 DEF ClientStep, Put, Defer, Settle, FlushCheck, FlushReturn, Stop, Join,
                                   Return, Goto, NotifyAll, TypeOK
        <3>2. ASSUME NEW d \in Clients, DeadlinePasses(d) PROVE pc[c] = "settle" /\ call'[c] = call[c]
            BY <1>0, <3>2 DEF DeadlinePasses, Goto, TypeOK
        <3>3. ASSUME NEW d \in Clients, NEW e \in {"none", "ahead"}, Flush(d, e) \/ Close(d, e)
              PROVE  pc[c] = "settle" /\ call'[c] = call[c]
            BY <1>0, <3>3 DEF Flush, Close, Goto, TypeOK, clients
        <3>4. ASSUME NEW d \in Clients, NEW s \in Sources, NEW n \in 0 .. MaxRecords - 1, Submit(d, s, n)
              PROVE  pc[c] = "settle" /\ call'[c] = call[c]
            BY <1>0, <3>4 DEF Submit, Goto, TypeOK, clients
        <3>5. CASE WorkerStep \/ Start \/ UNCHANGED vars \/ \E s \in Sources : Append1(s)
            BY <1>0, <3>5 DEF WorkerStep, Start, Append1, Get, Ingest, Publish, ProjectFails, ItemDone,
                              Drain, Notify, WakeAll, TypeOK, vars, clients
        <3> QED BY <3>1, <3>2, <3>3, <3>4, <3>5 DEF Next
    <2>2. call[c].note.source_id \in Sources /\ call[c].note.canonical_sequence \in Int
        BY <1>0, <2>1 DEF Established, SubmitCall, Notification
    <2>3. Handed(call[c].note.source_id, call[c].note.canonical_sequence)
        BY <1>0, <2>1 DEF SettledIsHanded
    <2>4. PICK s \in Sources, n \in Int : s = call[c].note.source_id /\ n = call[c].note.canonical_sequence
        BY <2>2
    <2>5. Handed(s, n)'
        BY <1>0, <2>3, <2>4, HandedStays
    <2> QED BY <2>1, <2>4, <2>5 DEF Handed, Covers
<1> QED BY <1>1, <1>2

\* Handed over is handed over for every smaller number too.
LEMMA HandedBelow ==
    ASSUME TypeOK, NEW s \in Sources, NEW n \in Int, NEW m \in Int, n <= m, Handed(s, m)
    PROVE  Handed(s, n)
BY DEF Handed, Covers, TypeOK, Notification

Accounted(s, n) == n < ingested[s] \/ OnItsWay(s, n)

\* Deferred work leaves the list for newer work, or for work that is handed over.
LEMMA DeferredStays ==
    ASSUME IInv, [Next]_vars, ~failed', NEW s \in Sources, NEW n \in Int,
           NEW d \in deferred, Covers(d, s, n)
    PROVE  Handed(s, n)' \/ \E e \in deferred' : Covers(e, s, n)
<1>0. TypeOK /\ Established /\ SettledIsHanded /\ ~failed
    BY FailureIsStable DEF IInv
<1>1. ASSUME NEW c \in Clients, Defer(c) PROVE \E e \in deferred' : Covers(e, s, n)
    <2> DEFINE note == call[c].note
               New(e) == IF e.source_id = note.source_id /\ note.canonical_sequence > e.canonical_sequence
                         THEN note ELSE e
    <2>1. note \in Notification /\ d \in Notification
        BY <1>0, <1>1 DEF Defer, Established, SubmitCall, TypeOK
    <2>2. CASE deferred' = {New(e) : e \in deferred}
        <3>1. New(d) \in deferred'
            BY <2>2
        <3>2. Covers(New(d), s, n)
            BY <2>1 DEF Covers, Notification
        <3> QED BY <3>1, <3>2
    <2>3. CASE deferred \subseteq deferred'
        BY <2>3
    <2>4. deferred' = {New(e) : e \in deferred} \/ deferred \subseteq deferred'
        BY <1>1 DEF Defer
    <2> QED BY <2>2, <2>3, <2>4
<1>2. ASSUME NEW c \in Clients, Settle(c), d \notin deferred' PROVE Handed(s, n)'
    <2>1. Superseded(d, call[c].note)
        BY <1>2 DEF Settle
    <2>2. call[c].note \in Notification
        BY <1>0, <1>2 DEF Settle, Established, SubmitCall
    <2>3. Handed(call[c].note.source_id, call[c].note.canonical_sequence)
        BY <1>0, <1>2 DEF Settle, SettledIsHanded
    <2>4. PICK m \in Int : m = call[c].note.canonical_sequence
        BY <2>2 DEF Notification
    <2>5. call[c].note.source_id = s /\ n <= m
        BY <2>1, <2>2, <2>4, <1>0 DEF Superseded, Covers, TypeOK, Notification
    <2>6. Handed(s, m)
        BY <2>3, <2>4, <2>5
    <2>7. Handed(s, n)
        BY <1>0, <2>5, <2>6, HandedBelow
    <2> QED BY <2>7, HandedStays
<1>3. CASE d \in deferred'
    BY <1>3
<1>4. ASSUME NEW c \in Clients,
             \/ \E t \in Sources : \E m \in 0 .. MaxRecords - 1 : Submit(c, t, m)
             \/ \E e \in {"none", "ahead"} : Flush(c, e) \/ Close(c, e)
             \/ Put(c) \/ FlushCheck(c) \/ Stop(c) \/ Join(c) \/ DeadlinePasses(c)
      PROVE  d \in deferred'
    BY <1>4 DEF Submit, Flush, Close, Put, FlushCheck, Stop, Join, DeadlinePasses
<1>5. CASE WorkerStep \/ Start \/ UNCHANGED vars \/ \E t \in Sources : Append1(t)
    <2>1. d \in deferred'
        BY <1>5 DEF WorkerStep, Start, Append1, Get, Ingest, Publish, ProjectFails, ItemDone, Drain, Notify, vars
    <2> QED BY <1>3, <2>1
<1> QED BY <1>1, <1>2, <1>3, <1>4, <1>5 DEF Next, ClientStep

\* A submit that is still going on queues its notification or defers it.
LEMMA SubmitStays ==
    ASSUME IInv, [Next]_vars, ~failed', Cardinality(Sources) <= QueueCapacity,
           NEW s \in Sources, NEW n \in Int,
           NEW c \in Clients, pc[c] \in {"put", "defer"}, Covers(call[c].note, s, n)
    PROVE  Accounted(s, n)'
<1> DEFINE note == call[c].note
<1>0. /\ TypeOK /\ Established /\ IsFiniteSet(deferred) /\ DeferredIsBounded
      /\ note \in Notification
    BY DEF IInv, Established, SubmitCall
<1>1. CASE Put(c)
    <2>1. CASE Enqueue(note)
        <3>1. queue \in Seq(Entries) /\ note \in Entries /\ queue' = Append(queue, note)
            BY <1>0, <2>1, QueueTypes DEF Enqueue, Entries
        <3>2. Len(queue') \in DOMAIN queue' /\ queue'[Len(queue')] = note
            BY <3>1
        <3>3. \E i \in DOMAIN queue' : Covers(queue'[i], s, n)
            BY <3>2
        <3> QED BY <3>3 DEF Accounted, OnItsWay, Covers
    <2>2. CASE Goto(c, "defer") /\ UNCHANGED call
        BY <1>0, <2>2 DEF Goto, Accounted, OnItsWay, Covers, TypeOK
    <2> QED BY <1>1, <2>1, <2>2 DEF Put
<1>2. CASE Defer(c)
    <2>1. \E d \in deferred' : Covers(d, s, n)
        <3>1. CASE HasDeferred(note.source_id)
            <4>1. PICK d \in deferred : d.source_id = note.source_id
                BY <3>1 DEF HasDeferred
            <4> DEFINE New(e) == IF e.source_id = note.source_id /\ note.canonical_sequence > e.canonical_sequence
                                 THEN note ELSE e
            <4>2. deferred' = {New(e) : e \in deferred}
                BY <1>2, <3>1 DEF Defer
            <4>3. New(d) \in deferred'
                BY <4>2
            <4>4. d \in Notification
                BY <1>0 DEF TypeOK
            <4>5. Covers(New(d), s, n)
                BY <1>0, <4>1, <4>4 DEF Covers, Notification
            <4> QED BY <4>3, <4>5
        <3>2. CASE ~HasDeferred(note.source_id)
            <4>1. note.source_id \in Sources
                BY <1>0 DEF Notification
            <4>2. Cardinality(deferred) < Cardinality(Sources)
                BY <1>0, <3>2, <4>1, DeferredFits
            <4>3. /\ Cardinality(deferred) \in Nat /\ Cardinality(Sources) \in Nat
                  /\ QueueCapacity \in Nat
                BY <1>0, FS_CardinalityType, CoordinatorAssumption
            <4>4. ~(Cardinality(deferred) >= QueueCapacity)
                BY <4>2, <4>3
            <4>5. note \in deferred'
                BY <1>2, <3>2, <4>4 DEF Defer
            <4> QED BY <4>5
        <3> QED BY <3>1, <3>2
    <2> QED BY <2>1 DEF Accounted, OnItsWay, Covers
<1>3. CASE ~Put(c) /\ ~Defer(c)
    <2>1. pc'[c] = pc[c] /\ call'[c] = call[c]
        <3>1. ASSUME NEW d \in Clients, ClientStep(d) PROVE pc'[c] = pc[c] /\ call'[c] = call[c]
            <4>1. d # c
                BY <1>3, <3>1 DEF ClientStep, Settle, FlushCheck, Stop, Join
            <4>2. CASE Put(d) \/ Stop(d) \/ Join(d) \/ FlushCheck(d)
                BY <1>0, <4>1, <4>2 DEF Put, Stop, Join, FlushCheck, FlushReturn, Return, Goto, TypeOK
            <4>3. CASE Defer(d) \/ Settle(d)
                BY <1>0, <4>1, <4>3 DEF Defer, Settle, Goto, NotifyAll, TypeOK
            <4> QED BY <3>1, <4>2, <4>3 DEF ClientStep
        <3>2. ASSUME NEW d \in Clients, DeadlinePasses(d) PROVE pc'[c] = pc[c] /\ call'[c] = call[c]
            BY <1>0, <3>2 DEF DeadlinePasses, Goto, TypeOK
        <3>3. ASSUME NEW d \in Clients, NEW e \in {"none", "ahead"}, Flush(d, e) \/ Close(d, e)
              PROVE  pc'[c] = pc[c] /\ call'[c] = call[c]
            BY <1>0, <3>3 DEF Flush, Close, Goto, TypeOK, clients
        <3>4. ASSUME NEW d \in Clients, NEW t \in Sources, NEW m \in 0 .. MaxRecords - 1, Submit(d, t, m)
              PROVE  pc'[c] = pc[c] /\ call'[c] = call[c]
            BY <1>0, <3>4 DEF Submit, Goto, TypeOK, clients
        <3>5. CASE WorkerStep \/ Start \/ UNCHANGED vars \/ \E t \in Sources : Append1(t)
            BY <1>0, <3>5 DEF WorkerStep, Start, Append1, Get, Ingest, Publish, ProjectFails, ItemDone,
                              Drain, Notify, WakeAll, TypeOK, vars, clients
        <3> QED BY <3>1, <3>2, <3>3, <3>4, <3>5 DEF Next
    <2> QED BY <2>1 DEF Accounted, OnItsWay, Covers
<1> QED BY <1>1, <1>2, <1>3

LEMMA ForgottenStep == IInv /\ [Next]_vars => SubmittedIsNotForgotten'
<1> SUFFICES ASSUME IInv, [Next]_vars, ~failed', Cardinality(Sources) <= QueueCapacity, NEW s \in Sources
             PROVE  (submitted[s] < ingested[s] \/ OnItsWay(s, submitted[s]))'
    BY DEF SubmittedIsNotForgotten
<1>0. TypeOK /\ ~failed /\ submitted[s] \in Int /\ Accounted(s, submitted[s])
    BY FailureIsStable DEF IInv, TypeOK, SubmittedIsNotForgotten, Accounted
<1>1. CASE submitted'[s] = submitted[s]
    <2>1. PICK n \in Int : n = submitted[s]
        BY <1>0
    <2>2. CASE Handed(s, n)
        <3>1. Handed(s, n)'
            BY <2>2, HandedStays
        <3> QED BY <1>1, <2>1, <3>1 DEF Handed, OnItsWay, Covers
    <2>3. CASE \E d \in deferred : Covers(d, s, n)
        <3>1. Handed(s, n)' \/ \E e \in deferred' : Covers(e, s, n)
            BY <2>3, DeferredStays
        <3> QED BY <1>1, <2>1, <3>1 DEF Handed, OnItsWay, Covers
    <2>4. CASE \E c \in Clients : pc[c] \in {"put", "defer"} /\ Covers(call[c].note, s, n)
        <3>1. Accounted(s, n)'
            BY <2>4, SubmitStays
        <3> QED BY <1>1, <2>1, <3>1 DEF Accounted, OnItsWay, Covers
    <2> QED BY <1>0, <2>1, <2>2, <2>3, <2>4 DEF Accounted, OnItsWay, Handed
<1>2. CASE submitted'[s] # submitted[s]
    <2>1. PICK c \in Clients, t \in Sources, n \in 0 .. MaxRecords - 1 : Submit(c, t, n)
        <3>1. ASSUME NEW d \in Clients, ClientStep(d) \/ DeadlinePasses(d) PROVE UNCHANGED submitted
            BY <3>1 DEF ClientStep, Put, Defer, Settle, FlushCheck, Stop, Join, DeadlinePasses, marks
        <3>2. ASSUME NEW d \in Clients, NEW e \in {"none", "ahead"}, Flush(d, e) \/ Close(d, e)
              PROVE  UNCHANGED submitted
            BY <3>2 DEF Flush, Close, marks
        <3>3. CASE WorkerStep \/ Start \/ UNCHANGED vars \/ \E x \in Sources : Append1(x)
            BY <1>2, <3>3 DEF WorkerStep, Start, Append1, Get, Ingest, Publish, ProjectFails, ItemDone,
                              Drain, Notify, vars, marks
        <3> QED BY <1>2, <3>1, <3>2, <3>3 DEF Next
    <2>2. t = s /\ submitted'[s] = n /\ pc'[c] = "put"
          /\ call'[c].note = [source_id |-> s, canonical_sequence |-> n]
        BY <1>0, <1>2, <2>1 DEF Submit, Goto, TypeOK
    <2>3. Covers(call'[c].note, s, n)
        BY <2>1, <2>2 DEF Covers, Notification
    <2> QED BY <2>2, <2>3 DEF OnItsWay, Covers
<1> QED BY <1>1, <1>2

-----------------------------------------------------------------------------
(***************************************************************************)
(* The results.                                                            *)
(***************************************************************************)

\* The inductive invariant holds in every state.
THEOREM Invariance == Spec => []IInv
<1>1. IInv /\ [Next]_vars => IInv'
    BY TypeStep, EstablishedStep, CountStep, WatermarkStep, SleeperStep, DeferredStep, SettledStep,
       ForgottenStep DEF IInv
<1> QED BY InitIInv, <1>1, PTL DEF Spec

\* Every variable keeps its type.
THEOREM TypeCorrect == Spec => []TypeOK
BY Invariance, PTL DEF IInv

\* unfinished_tasks is exact, so task_done never raises in the worker and flush
\* never waits for work that is not there.
THEOREM TaskCountIsExact == Spec => []UnfinishedIsExact
BY Invariance, PTL DEF IInv

\* The deferred list stays bounded, with one entry per stream.
THEOREM DeferredStaysBounded == Spec => []DeferredIsBounded
BY Invariance, PTL DEF IInv

\* No submission is forgotten while the worker is well.
THEOREM NothingIsForgotten == Spec => []SubmittedIsNotForgotten
BY Invariance, PTL DEF IInv

\* The count that flush waits on is exact and its wake-ups are not lost.
THEOREM FlushStaysServed == Spec => []FlushIsServed
BY Invariance, PTL DEF IInv, FlushIsServed

\* The derived watermark names a record that was ingested.
THEOREM WatermarkIsTrue == Spec => []WatermarkIsIngested
BY Invariance, PTL DEF IInv

\* No thread sleeps in flush without work to wait for or a worker about to
\* notify it.
THEOREM NoLostWakeUp == Spec => []SleeperWillBeWoken
BY Invariance, PTL DEF IInv
-----------------------------------------------------------------------------
(***************************************************************************)
(* Access.  A replay goes line by line, so a line more is a step more.     *)
(***************************************************************************)
EmptyReplay == [ok |-> TRUE, table |-> <<>>]
IsAfter(f, lines, m) ==
    f = [n \in 0..m |-> IF n = 0 THEN EmptyReplay ELSE Replayed(f[n - 1], lines[n])]

LEMMA AfterEach ==
    ASSUME NEW f, NEW lines, NEW m \in Nat, IsAfter(f, lines, m)
    PROVE  f[0] = EmptyReplay /\ \A n \in 1..m : f[n] = Replayed(f[n - 1], lines[n])
<1> DEFINE e(n) == IF n = 0 THEN EmptyReplay ELSE Replayed(f[n - 1], lines[n])
<1>1. \A n \in 0..m : f[n] = e(n)
    BY DEF IsAfter
<1>2. 0 \in 0..m /\ \A n \in 1..m : n \in 0..m /\ n # 0
    OBVIOUS
<1> QED BY <1>1, <1>2

LEMMA LeastLine ==
    ASSUME NEW S \in SUBSET Nat, S # {}
    PROVE  \E i \in S : \A j \in S : i <= j
<1>1. PICK i \in S : \A j \in S : ~ (<<j, i>> \in OpToRel(<, Nat))
    BY NatLessThanWellFounded, WFMin
<1>2. ASSUME NEW j \in S, j < i PROVE FALSE
    <2>1. <<j, i>> \in OpToRel(<, Nat)
        BY <1>2 DEF OpToRel
    <2> QED BY <1>1, <2>1
<1> QED BY <1>2

\* Two replays agree as far as their lines do.
LEMMA ReplaysAgree ==
    ASSUME NEW f, NEW g, NEW lines, NEW more, NEW m \in Nat, NEW k \in Nat, k <= m,
           IsAfter(f, lines, k), IsAfter(g, more, m), \A n \in 1..k : lines[n] = more[n]
    PROVE  f[k] = g[k]
<1> DEFINE T == {n \in 0..k : f[n] # g[n]}
<1>1. SUFFICES ASSUME T # {} PROVE FALSE
    OBVIOUS
<1>2. PICK n \in T : \A j \in T : n <= j
    <2>1. T \in SUBSET Nat
        OBVIOUS
    <2> HIDE DEF T
    <2> QED BY <1>1, <2>1, LeastLine
<1>3. f[0] = EmptyReplay /\ g[0] = EmptyReplay
    BY AfterEach
<1>4. n \in 1..k /\ n \in 1..m /\ n - 1 \in 0..k /\ n - 1 < n
    BY <1>2, <1>3
<1>5. f[n - 1] = g[n - 1]
    BY <1>2, <1>4
<1>6. f[n] = Replayed(f[n - 1], lines[n]) /\ g[n] = Replayed(g[n - 1], more[n])
    BY <1>4, AfterEach
<1> QED BY <1>2, <1>4, <1>5, <1>6

LEMMA ReplaysEnd ==
    ASSUME NEW lines, NEW m \in Nat
    PROVE  \E f : IsAfter(f, lines, m)
<1> DEFINE T == {k \in Nat : ~\E f : IsAfter(f, lines, k)}
<1>1. SUFFICES ASSUME T # {} PROVE FALSE
    OBVIOUS
<1>2. PICK k \in T : \A j \in T : k <= j
    BY <1>1, LeastLine
<1>3. CASE k = 0
    <2> DEFINE f == [n \in 0..0 |-> EmptyReplay]
    <2>1. f = [n \in 0..0 |-> IF n = 0 THEN EmptyReplay ELSE Replayed(f[n - 1], lines[n])]
        OBVIOUS
    <2>2. IsAfter(f, lines, 0)
        BY <2>1 DEF IsAfter
    <2> QED BY <1>2, <1>3, <2>2
<1>4. CASE k > 0
    <2>1. k - 1 \in Nat /\ k - 1 \notin T
        BY <1>2, <1>4
    <2>2. PICK f : IsAfter(f, lines, k - 1)
        BY <2>1
    <2>3. f[0] = EmptyReplay /\ \A n \in 1..(k - 1) : f[n] = Replayed(f[n - 1], lines[n])
        BY <2>1, <2>2, AfterEach
    <2> DEFINE g == [n \in 0..k |-> IF n = k THEN Replayed(f[k - 1], lines[k]) ELSE f[n]]
               e(n) == IF n = 0 THEN EmptyReplay ELSE Replayed(g[n - 1], lines[n])
    <2>4. ASSUME NEW n \in 0..k PROVE g[n] = e(n)
        <3>1. CASE n = 0
            BY <1>4, <2>3, <3>1
        <3>2. CASE n \in 1..(k - 1)
            BY <2>1, <2>3, <3>2
        <3>3. CASE n = k
            BY <1>4, <2>1, <3>3
        <3> QED BY <2>1, <3>1, <3>2, <3>3
    <2>5. g = [n \in 0..k |-> e(n)]
        <3> HIDE DEF e
        <3> QED BY <2>4
    <2>6. IsAfter(g, lines, k)
        BY <2>5 DEF IsAfter
    <2> QED BY <1>2, <2>6
<1> QED BY <1>2, <1>3, <1>4

LEMMA ReplayIsAfter ==
    ASSUME NEW lines, Len(lines) \in Nat
    PROVE  \E f : IsAfter(f, lines, Len(lines)) /\ ReplayOf(lines) = f[Len(lines)]
<1> DEFINE F == CHOOSE f : f = [n \in 0..Len(lines) |-> IF n = 0 THEN EmptyReplay ELSE Replayed(f[n - 1], lines[n])]
<1>1. ReplayOf(lines) = F[Len(lines)]
    BY DEF ReplayOf, EmptyReplay
<1>2. \E f : f = [n \in 0..Len(lines) |-> IF n = 0 THEN EmptyReplay ELSE Replayed(f[n - 1], lines[n])]
    BY ReplaysEnd DEF IsAfter
<1>3. IsAfter(F, lines, Len(lines))
    BY <1>2 DEF IsAfter
<1> QED BY <1>1, <1>3

\* What a line more does to the replay.
LEMMA ReplayedLine ==
    ASSUME NEW S, NEW lines \in Seq(S), NEW ev
    PROVE  ReplayOf(Append(lines, ev)) = Replayed(ReplayOf(lines), ev)
<1> DEFINE more == Append(lines, ev)
           n == Len(lines)
<1>1. n \in Nat /\ Len(more) = n + 1 /\ more[n + 1] = ev /\ \A i \in 1..n : lines[i] = more[i]
    OBVIOUS
<1> HIDE DEF more, n
<1>2. PICK f : IsAfter(f, lines, n) /\ ReplayOf(lines) = f[n]
    BY <1>1, ReplayIsAfter DEF n
<1>3. PICK g : IsAfter(g, more, n + 1) /\ ReplayOf(more) = g[n + 1]
    <2>1. Len(more) \in Nat
        BY <1>1
    <2> QED BY <1>1, <2>1, ReplayIsAfter
<1>4. f[n] = g[n]
    <2>1. n + 1 \in Nat /\ n <= n + 1
        BY <1>1
    <2> QED BY <1>1, <1>2, <1>3, <2>1, ReplaysAgree
<1>5. g[n + 1] = Replayed(g[n], ev)
    <2>1. n + 1 \in Nat /\ n + 1 \in 1..(n + 1) /\ (n + 1) - 1 = n
        BY <1>1
    <2>2. g[n + 1] = Replayed(g[(n + 1) - 1], more[n + 1])
        BY <1>3, <2>1, AfterEach
    <2> QED BY <1>1, <2>1, <2>2
<1> QED BY <1>2, <1>3, <1>4, <1>5 DEF more

-----------------------------------------------------------------------------
(***************************************************************************)
(* The table follows the log: a committed event that is not in the log yet *)
(* is the one step between them.                                           *)
(***************************************************************************)
OneStepAhead ==
    /\ (\A a \in Admins : pending[a] = NoEvent) => Replay = [ok |-> TRUE, table |-> grants]
    /\ \A a \in Admins : pending[a] # NoEvent =>
           /\ Replayed(Replay, pending[a]) = [ok |-> TRUE, table |-> grants]
           /\ \A b \in Admins \ {a} : pending[b] = NoEvent

GrantsInv ==
    /\ log \in Seq(ToSet(log)) /\ astray \in BOOLEAN
    /\ pending \in [Admins -> AdminRequests \cup {NoEvent}]
    /\ Replay = [ok |-> Replay.ok, table |-> Replay.table] /\ Replay.ok \in BOOLEAN
    /\ ~astray => OneStepAhead
    /\ audit \subseteq Decisions

LEMMA LogLine ==
    ASSUME GrantsInv, NEW ev, log' = Append(log, ev)
    PROVE  /\ log' \in Seq(ToSet(log)') /\ ToSet(log)' = ToSet(log) \cup {ev}
           /\ Replay' = Replayed(Replay, ev)
           /\ Replay' = [ok |-> Replay'.ok, table |-> Replay'.table] /\ Replay'.ok \in BOOLEAN
<1>1. log \in Seq(ToSet(log))
    BY DEF GrantsInv
<1>2. ToSet(log)' = ToSet(log) \cup {ev}
    <2>1. /\ Len(log) \in Nat /\ DOMAIN log = 1..Len(log) /\ DOMAIN log' = 1..(Len(log) + 1)
          /\ \A i \in 1..Len(log) : log'[i] = log[i]
          /\ log'[Len(log) + 1] = ev
        BY <1>1
    <2> QED BY <2>1 DEF ToSet
<1>3. log' \in Seq(ToSet(log) \cup {ev})
    <2>1. log \in Seq(ToSet(log) \cup {ev})
        BY <1>1
    <2> QED BY <2>1
<1>4. Replay' = Replayed(Replay, ev)
    BY <1>1, ReplayedLine DEF Replay
<1>5. Replayed(Replay, ev) = [ok |-> Replayed(Replay, ev).ok, table |-> Replayed(Replay, ev).table]
      /\ Replayed(Replay, ev).ok \in BOOLEAN
    <2> DEFINE r == Replay
    <2>1. r = [ok |-> r.ok, table |-> r.table] /\ r.ok \in BOOLEAN
        BY DEF GrantsInv
    <2> HIDE DEF r
    <2>2. Replayed(r, ev) \in {r, [ok |-> TRUE, table |-> ProjectGrantEvent(r.table, ev)], [ok |-> FALSE, table |-> r.table]}
        BY DEF Replayed
    <2>3. \A t : \A o \in BOOLEAN : LET x == [ok |-> o, table |-> t] IN x = [ok |-> x.ok, table |-> x.table] /\ x.ok \in BOOLEAN
        OBVIOUS
    <2>4. Replayed(r, ev) = [ok |-> Replayed(r, ev).ok, table |-> Replayed(r, ev).table] /\ Replayed(r, ev).ok \in BOOLEAN
        BY <2>1, <2>2, <2>3
    <2> QED BY <2>4 DEF r
<1> QED BY <1>2, <1>3, <1>4, <1>5

LEMMA GrantsInit == AccessInit => GrantsInv
<1> SUFFICES ASSUME AccessInit PROVE GrantsInv
    OBVIOUS
<1>1. log = <<>> /\ Len(log) = 0 /\ log \in Seq(ToSet(log))
    BY DEF AccessInit, ToSet
<1>2. PICK f : IsAfter(f, log, 0) /\ ReplayOf(log) = f[0]
    BY <1>1, ReplayIsAfter
<1>3. Replay = [ok |-> TRUE, table |-> <<>>]
    BY <1>2, AfterEach DEF Replay, EmptyReplay
<1> QED BY <1>1, <1>3 DEF AccessInit, GrantsInv, OneStepAhead

LEMMA CommitSteps ==
    ASSUME GrantsInv, NEW a \in Admins, NEW ev \in AdminRequests, Commit(a, ev)
    PROVE  GrantsInv'
<1>1. /\ pending[a] = NoEvent /\ Projectable(grants, ev) /\ UNCHANGED <<log, audit>>
      /\ grants' = ProjectGrantEvent(grants, ev) /\ pending' = [pending EXCEPT ![a] = ev]
      /\ astray' = (astray \/ \E b \in Admins : pending[b] # NoEvent)
    BY DEF Commit
<1>2. Replay' = Replay /\ Decisions' = Decisions
    BY <1>1 DEF Replay, Decisions
<1>3. ASSUME ~astray' PROVE OneStepAhead'
    <2>1. ~astray /\ \A b \in Admins : pending[b] = NoEvent
        BY <1>1, <1>3
    <2>2. Replay = [ok |-> TRUE, table |-> grants]
        BY <2>1 DEF GrantsInv, OneStepAhead
    <2>3. Replayed(Replay, ev) = [ok |-> TRUE, table |-> grants']
        <3>1. ev.op # "decision"
            BY GrantEventAssumption
        <3>2. Replay.ok /\ Replay.table = grants
            BY <2>2
        <3> QED BY <1>1, <3>1, <3>2 DEF Replayed
    <2>4. pending'[a] = ev /\ \A b \in Admins \ {a} : pending'[b] = NoEvent
        BY <1>1, <2>1 DEF GrantsInv
    <2>5. ev # NoEvent
        BY GrantEventAssumption DEF NoEvent
    <2> QED BY <1>2, <2>3, <2>4, <2>5 DEF OneStepAhead
<1> QED BY <1>1, <1>2, <1>3 DEF GrantsInv

LEMMA AppendEventSteps ==
    ASSUME GrantsInv, NEW a \in Admins, AppendEvent(a)
    PROVE  GrantsInv'
<1>1. /\ pending[a] # NoEvent /\ UNCHANGED <<grants, audit, astray>>
      /\ log' = Append(log, pending[a]) /\ pending' = [pending EXCEPT ![a] = NoEvent]
    BY DEF AppendEvent
<1>2. /\ log' \in Seq(ToSet(log)') /\ ToSet(log)' = ToSet(log) \cup {pending[a]}
      /\ Replay' = Replayed(Replay, pending[a])
      /\ Replay' = [ok |-> Replay'.ok, table |-> Replay'.table] /\ Replay'.ok \in BOOLEAN
    BY <1>1, LogLine
<1>3. audit' \subseteq Decisions'
    BY <1>1, <1>2 DEF GrantsInv, Decisions
<1>4. ASSUME ~astray PROVE OneStepAhead'
    <2>1. Replay' = [ok |-> TRUE, table |-> grants'] /\ \A b \in Admins : pending'[b] = NoEvent
        BY <1>1, <1>2, <1>4 DEF GrantsInv, OneStepAhead
    <2> QED BY <2>1 DEF OneStepAhead
<1>5. pending' \in [Admins -> AdminRequests \cup {NoEvent}] /\ astray' \in BOOLEAN
    BY <1>1 DEF GrantsInv
<1> QED BY <1>1, <1>2, <1>3, <1>4, <1>5 DEF GrantsInv

LEMMA LoseEventSteps ==
    ASSUME GrantsInv, NEW a \in Admins, LoseEvent(a)
    PROVE  GrantsInv'
<1>1. /\ UNCHANGED <<grants, audit, log>> /\ astray' = TRUE /\ pending' = [pending EXCEPT ![a] = NoEvent]
    BY DEF LoseEvent
<1>2. Replay' = Replay /\ Decisions' = Decisions
    BY <1>1 DEF Replay, Decisions
<1>3. pending' \in [Admins -> AdminRequests \cup {NoEvent}]
    BY <1>1 DEF GrantsInv
<1> QED BY <1>1, <1>2, <1>3 DEF GrantsInv

LEMMA RebuildSteps ==
    ASSUME GrantsInv, Rebuild
    PROVE  GrantsInv'
<1>1. /\ UNCHANGED <<log, pending>> /\ Replay.ok /\ grants' = Replay.table /\ audit' = Decisions
      /\ astray' = \E a \in Admins : pending[a] # NoEvent
    BY DEF Rebuild
<1>2. Replay' = Replay /\ Decisions' = Decisions
    BY <1>1 DEF Replay, Decisions
<1>3. Replay = [ok |-> TRUE, table |-> grants']
    <2> DEFINE r == Replay
    <2>1. r = [ok |-> r.ok, table |-> r.table] /\ r.ok \in BOOLEAN /\ r.ok /\ grants' = r.table
        BY <1>1 DEF GrantsInv
    <2> HIDE DEF r
    <2>2. r = [ok |-> TRUE, table |-> grants']
        BY <2>1
    <2> QED BY <2>2 DEF r
<1>4. ~astray' => OneStepAhead'
    BY <1>1, <1>2, <1>3 DEF OneStepAhead
<1> QED BY <1>1, <1>2, <1>4 DEF GrantsInv

LEMMA DecideSteps ==
    ASSUME GrantsInv, NEW r \in WriteRequests, DecideWrite(r)
    PROVE  GrantsInv'
<1>1. UNCHANGED <<grants, audit, pending, astray>>
    BY DEF DecideWrite
<1>2. CASE log' = log
    <2>1. Replay' = Replay /\ Decisions' = Decisions
        BY <1>2 DEF Replay, Decisions
    <2> QED BY <1>1, <1>2, <2>1 DEF GrantsInv, OneStepAhead
<1>3. ASSUME NEW ev, ev.op = "decision", log' = Append(log, ev) PROVE GrantsInv'
    <2>1. /\ log' \in Seq(ToSet(log)') /\ ToSet(log)' = ToSet(log) \cup {ev}
          /\ Replay' = Replayed(Replay, ev)
        BY <1>3, LogLine
    <2>2. Replay' = Replay
        BY <1>3, <2>1 DEF Replayed
    <2>3. Decisions \subseteq Decisions'
        BY <2>1 DEF Decisions
    <2> QED BY <1>1, <2>1, <2>2, <2>3 DEF GrantsInv, OneStepAhead
<1>4. log' = log \/ \E ev : ev.op = "decision" /\ log' = Append(log, ev)
    BY DEF DecideWrite
<1> QED BY <1>2, <1>3, <1>4

LEMMA GrantsNext == ASSUME GrantsInv, [AccessNext]_accessVars PROVE GrantsInv'
<1>1. CASE UNCHANGED <<grants, audit, log, pending, astray>>
    <2>1. Replay' = Replay /\ Decisions' = Decisions
        BY <1>1 DEF Replay, Decisions
    <2> QED BY <1>1, <2>1 DEF GrantsInv, OneStepAhead
<1>2. \/ RebuildFails \/ \E id \in DOMAIN EventTable : Arrive(id) \/ Delete(id)
      \/ \E v \in Verifications : LoseVerification(v)
      \/ \E q \in ReadRequests : StartWalk(q)
      \/ NextPage \/ PerformWrite \/ UNCHANGED accessVars
      => UNCHANGED <<grants, audit, log, pending, astray>>
    BY DEF RebuildFails, Arrive, Delete, LoseVerification, StartWalk, NextPage, PerformWrite, accessVars
<1> QED BY <1>1, <1>2, CommitSteps, AppendEventSteps, LoseEventSteps, RebuildSteps, DecideSteps DEF AccessNext

\* While every committed grant event was appended in the order of the
\* commits, the log replays into exactly the table that gates the reads,
\* after any number of rebuilds, and no decision is in the table alone.
THEOREM TableStaysWithLog == AccessSpec => []TableFollowsLog
<1>1. GrantsInv => TableFollowsLog
    BY DEF GrantsInv, OneStepAhead, TableFollowsLog
<1> QED BY <1>1, GrantsInit, GrantsNext, PTL DEF AccessSpec
-----------------------------------------------------------------------------
(***************************************************************************)
(* Pages: a set put in order, and the first of it.                         *)
(***************************************************************************)
StrictlyOrders(R, S) ==
    /\ \A x \in S : <<x, x>> \notin R
    /\ \A x, y, z \in S : <<x, y>> \in R /\ <<y, z>> \in R => <<x, z>> \in R
    /\ \A x, y \in S : x # y => <<x, y>> \in R \/ <<y, x>> \in R

Before(x, S, R) == {y \in S : <<y, x>> \in R}

LEMMA Ranks ==
    ASSUME NEW S, IsFiniteSet(S), NEW R, StrictlyOrders(R, S)
    PROVE  /\ Cardinality(S) \in Nat
           /\ \A x \in S : Cardinality(Before(x, S, R)) \in 0..(Cardinality(S) - 1)
           /\ \A x, y \in S : <<y, x>> \in R => Cardinality(Before(y, S, R)) < Cardinality(Before(x, S, R))
<1>1. Cardinality(S) \in Nat
    BY FS_CardinalityType
<1>2. \A x \in S : IsFiniteSet(Before(x, S, R)) /\ Cardinality(Before(x, S, R)) \in Nat
    <2>1. \A x \in S : Before(x, S, R) \in SUBSET S
        BY DEF Before
    <2> QED BY <2>1, FS_Subset, FS_CardinalityType
<1>3. ASSUME NEW x \in S PROVE Cardinality(Before(x, S, R)) < Cardinality(S)
    <2>1. Before(x, S, R) \in SUBSET S /\ Before(x, S, R) # S
        BY DEF Before, StrictlyOrders
    <2>2. Cardinality(Before(x, S, R)) <= Cardinality(S) /\ Cardinality(S) # Cardinality(Before(x, S, R))
        BY <2>1, FS_Subset
    <2> QED BY <1>1, <1>2, <2>2
<1>4. ASSUME NEW x \in S, NEW y \in S, <<y, x>> \in R
      PROVE  Cardinality(Before(y, S, R)) < Cardinality(Before(x, S, R))
    <2>1. Before(y, S, R) \in SUBSET Before(x, S, R) /\ y \in Before(x, S, R) /\ y \notin Before(y, S, R)
        BY <1>4 DEF Before, StrictlyOrders
    <2>2. Cardinality(Before(y, S, R)) <= Cardinality(Before(x, S, R))
          /\ Cardinality(Before(x, S, R)) # Cardinality(Before(y, S, R))
        BY <1>2, <2>1, FS_Subset
    <2> QED BY <1>2, <2>2
<1> QED BY <1>1, <1>2, <1>3, <1>4

LEMMA InOrderSound ==
    ASSUME NEW S, IsFiniteSet(S), NEW R, StrictlyOrders(R, S)
    PROVE  /\ Cardinality(S) \in Nat
           /\ InOrder(S, R) \in [1..Cardinality(S) -> S]
           /\ \A x \in S : \E k \in 1..Cardinality(S) : InOrder(S, R)[k] = x
           /\ \A i, j \in 1..Cardinality(S) : i < j => <<InOrder(S, R)[i], InOrder(S, R)[j]>> \in R
<1> DEFINE n == Cardinality(S)
           c(x) == Cardinality(Before(x, S, R))
           s == InOrder(S, R)
           f == [x \in S |-> c(x) + 1]
<1>1. n \in Nat /\ \A x \in S : c(x) \in Nat /\ c(x) + 1 \in 1..n
    BY Ranks
<1>2. \A x, y \in S : <<y, x>> \in R => c(y) < c(x)
    BY Ranks
<1>3. \A x, y \in S : c(x) = c(y) => x = y
    <2>1. SUFFICES ASSUME NEW x \in S, NEW y \in S, c(x) = c(y), x # y PROVE FALSE
        BY DEF c
    <2> HIDE DEF c
    <2>2. <<x, y>> \in R \/ <<y, x>> \in R
        BY <2>1 DEF StrictlyOrders
    <2>3. c(x) < c(y) \/ c(y) < c(x)
        BY <1>2, <2>2
    <2>4. c(x) \in Nat /\ c(y) \in Nat
        BY <1>1
    <2> QED BY <2>1, <2>3, <2>4
<1>4. \A k \in 1..n : \E x \in S : c(x) = k - 1
    <2>1. f \in Injection(S, 1..n)
        <3>1. f \in [S -> 1..n]
            BY <1>1
        <3>2. \A x, y \in S : f[x] = f[y] => x = y
            <4>1. \A x \in S : f[x] = c(x) + 1 /\ c(x) \in Nat
                BY <1>1
            <4> HIDE DEF f, c
            <4> QED BY <1>3, <4>1
        <3> HIDE DEF f
        <3> QED BY <3>1, <3>2 DEF Injection, IsInjective
    <2>2. IsFiniteSet(1..n) /\ Cardinality(1..n) = n
        <3>1. 1 \in Int /\ n \in Int
            BY <1>1
        <3>2. IsFiniteSet(1..n) /\ Cardinality(1..n) = IF 1 > n THEN 0 ELSE n - 1 + 1
            BY <3>1, FS_Interval
        <3> HIDE DEF n
        <3> QED BY <1>1, <3>2
    <2>3. f \in Surjection(S, 1..n)
        <3> HIDE DEF f
        <3> QED BY <2>1, <2>2, FS_Injection
    <2>4. \A k \in 1..n : \E x \in S : f[x] = k
        <3> HIDE DEF f
        <3> QED BY <2>3 DEF Surjection
    <2>5. \A x \in S : f[x] = c(x) + 1
        OBVIOUS
    <2> HIDE DEF f, c, n
    <2> QED BY <1>1, <2>4, <2>5
<1>5. s = [k \in 1..n |-> CHOOSE x \in S : c(x) = k - 1]
    BY DEF InOrder, Before
<1>6. \A k \in 1..n : s[k] \in S /\ c(s[k]) = k - 1
    <2> HIDE DEF s, c, n
    <2> QED BY <1>4, <1>5
<1>7. \A x \in S : \E k \in 1..n : s[k] = x
    <2> HIDE DEF s, c, n
    <2>1. ASSUME NEW x \in S PROVE s[c(x) + 1] = x /\ c(x) + 1 \in 1..n
        <3>1. c(x) + 1 \in 1..n /\ c(x) \in Nat
            BY <1>1
        <3>2. s[c(x) + 1] \in S /\ c(s[c(x) + 1]) = (c(x) + 1) - 1
            BY <1>6, <3>1
        <3> QED BY <1>3, <3>1, <3>2
    <2> QED BY <2>1
<1>8. \A i, j \in 1..n : i < j => <<s[i], s[j]>> \in R
    <2>1. SUFFICES ASSUME NEW i \in 1..n, NEW j \in 1..n, i < j PROVE <<s[i], s[j]>> \in R
        BY DEF s, n
    <2> HIDE DEF s, c, n
    <2>2. s[i] \in S /\ s[j] \in S /\ c(s[i]) = i - 1 /\ c(s[j]) = j - 1
        BY <1>6
    <2>3. i - 1 < j - 1 /\ i - 1 # j - 1
        BY <1>1, <2>1
    <2>4. s[i] # s[j]
        BY <2>2, <2>3
    <2>5. ~(<<s[j], s[i]>> \in R)
        <3>1. ASSUME <<s[j], s[i]>> \in R PROVE j - 1 < i - 1
            BY <1>2, <2>2, <3>1
        <3> QED BY <1>1, <2>1, <3>1
    <2> QED BY <2>2, <2>4, <2>5 DEF StrictlyOrders
<1>9. s \in [1..n -> S]
    <2>1. s = [k \in 1..n |-> s[k]]
        <3> HIDE DEF s, c, n
        <3> QED BY <1>5
    <2> HIDE DEF s, c, n
    <2> QED BY <1>6, <2>1
<1> QED BY <1>1, <1>7, <1>8, <1>9

LEMMA FunctionIsSeq ==
    ASSUME NEW S, NEW n \in Nat, NEW f \in [1..n -> S]
    PROVE  f \in Seq(S) /\ Len(f) = n /\ DOMAIN f = 1..n /\ ToSet(f) = {f[i] : i \in 1..n}
<1>1. DOMAIN f = 1..n
    OBVIOUS
<1>2. f \in Seq(S)
    BY SeqDef
<1>3. Len(f) = n
    BY <1>1, <1>2, LenProperties
<1> QED BY <1>1, <1>2, <1>3 DEF ToSet

LEMMA FirstOfOrder ==
    ASSUME NEW S, IsFiniteSet(S), NEW R, StrictlyOrders(R, S), NEW n \in Nat
    PROVE  /\ AtMost(n, InOrder(S, R)) \in Seq(S)
           /\ Len(AtMost(n, InOrder(S, R))) = IF n < Cardinality(S) THEN n ELSE Cardinality(S)
           /\ \A i, j \in 1..Len(AtMost(n, InOrder(S, R))) :
                  i < j => <<AtMost(n, InOrder(S, R))[i], AtMost(n, InOrder(S, R))[j]>> \in R
           /\ \A x \in S : \/ \E k \in 1..Len(AtMost(n, InOrder(S, R))) : AtMost(n, InOrder(S, R))[k] = x
                           \/ n < Cardinality(S) /\ \A k \in 1..n : <<AtMost(n, InOrder(S, R))[k], x>> \in R
<1> DEFINE s == InOrder(S, R)
           c == Cardinality(S)
           m == IF n < c THEN n ELSE c
           p == AtMost(n, s)
<1>1. c \in Nat /\ s \in [1..c -> S] /\ (\A x \in S : \E k \in 1..c : s[k] = x)
      /\ \A i, j \in 1..c : i < j => <<s[i], s[j]>> \in R
    BY InOrderSound
<1> HIDE DEF s, c
<1>2. Len(s) = c
    BY <1>1, FunctionIsSeq
<1>3. p = [k \in 1..m |-> s[k]] /\ m \in Nat /\ 1..m \subseteq 1..c
    BY <1>1, <1>2 DEF AtMost
<1> HIDE DEF p
<1>4. p \in [1..m -> S] /\ \A k \in 1..m : p[k] = s[k]
    BY <1>1, <1>3
<1>5. p \in Seq(S) /\ Len(p) = m
    BY <1>3, <1>4, FunctionIsSeq
<1>6. ASSUME NEW x \in S PROVE (\E k \in 1..m : p[k] = x) \/ (n < c /\ \A k \in 1..n : <<p[k], x>> \in R)
    <2>1. PICK k \in 1..c : s[k] = x
        BY <1>1
    <2>2. CASE k \in 1..m
        BY <1>4, <2>1, <2>2
    <2>3. CASE k \notin 1..m
        <3>1. m = n /\ m < k /\ n < c
            BY <1>1, <2>3
        <3>2. \A i \in 1..n : i \in 1..c /\ i < k
            BY <1>1, <1>3, <3>1
        <3> QED BY <1>1, <1>4, <2>1, <3>1, <3>2
    <2> QED BY <2>2, <2>3
<1>7. \A i, j \in 1..m : i < j => <<p[i], p[j]>> \in R
    BY <1>1, <1>3, <1>4
<1> QED BY <1>5, <1>6, <1>7 DEF p, s, c

LEMMA NumbersAreOrdered ==
    ASSUME NEW S \in SUBSET Nat
    PROVE  /\ StrictlyOrders({p \in S \X S : p[1] < p[2]}, S)
           /\ \A x, y \in S : <<x, y>> \in {p \in S \X S : p[1] < p[2]} <=> x < y
<1> DEFINE R == {p \in S \X S : p[1] < p[2]}
<1>1. \A x, y \in S : <<x, y>> \in R <=> x < y
    OBVIOUS
<1> HIDE DEF R
<1>2. StrictlyOrders(R, S)
    BY <1>1 DEF StrictlyOrders
<1> QED BY <1>1, <1>2 DEF R

LEMMA FirstBySound ==
    ASSUME NEW S \in SUBSET Nat, IsFiniteSet(S), NEW n \in Nat
    PROVE  /\ FirstBy(S, n) \in Seq(S)
           /\ Len(FirstBy(S, n)) = IF n < Cardinality(S) THEN n ELSE Cardinality(S)
           /\ \A i, j \in 1..Len(FirstBy(S, n)) : i < j => FirstBy(S, n)[i] < FirstBy(S, n)[j]
           /\ \A x \in S : \/ \E k \in 1..Len(FirstBy(S, n)) : FirstBy(S, n)[k] = x
                           \/ n < Cardinality(S) /\ \A k \in 1..n : FirstBy(S, n)[k] < x
<1> DEFINE R == {p \in S \X S : p[1] < p[2]}
           p == AtMost(n, InOrder(S, R))
<1>1. StrictlyOrders(R, S) /\ \A x, y \in S : <<x, y>> \in R <=> x < y
    BY NumbersAreOrdered
<1>2. FirstBy(S, n) = p
    BY DEF FirstBy, Ascending
<1> HIDE DEF R
<1>3. /\ p \in Seq(S) /\ Len(p) = IF n < Cardinality(S) THEN n ELSE Cardinality(S)
      /\ \A i, j \in 1..Len(p) : i < j => <<p[i], p[j]>> \in R
      /\ \A x \in S : (\E k \in 1..Len(p) : p[k] = x) \/ (n < Cardinality(S) /\ \A k \in 1..n : <<p[k], x>> \in R)
    BY <1>1, FirstOfOrder
<1> HIDE DEF p
<1>4. \A i \in 1..Len(p) : p[i] \in S
    BY <1>3
<1>5. \A i, j \in 1..Len(p) : i < j => p[i] < p[j]
    BY <1>1, <1>3, <1>4
<1>6. \A x \in S : (\E k \in 1..Len(p) : p[k] = x) \/ (n < Cardinality(S) /\ \A k \in 1..n : p[k] < x)
    BY <1>1, <1>3, <1>4
<1> QED BY <1>2, <1>3, <1>5, <1>6

LEMMA AtPlaces ==
    ASSUME NEW list, NEW places \in SUBSET Nat, IsFiniteSet(places)
    PROVE  /\ Cardinality(places) \in Nat /\ Ascending(places) \in [1..Cardinality(places) -> places]
           /\ At(list, places) = [k \in 1..Cardinality(places) |-> list[Ascending(places)[k]]]
           /\ \A x \in places : \E k \in 1..Cardinality(places) : Ascending(places)[k] = x
           /\ \A i, j \in 1..Cardinality(places) : i < j => Ascending(places)[i] < Ascending(places)[j]
<1> DEFINE R == {p \in places \X places : p[1] < p[2]}
           a == Ascending(places)
           n == Cardinality(places)
<1>1. StrictlyOrders(R, places) /\ \A x, y \in places : <<x, y>> \in R <=> x < y
    BY NumbersAreOrdered
<1>2. a = InOrder(places, R)
    BY DEF Ascending
<1>3. At(list, places) = [k \in 1..n |-> list[a[k]]]
    BY DEF At
<1> HIDE DEF R, a
<1>4. /\ n \in Nat /\ a \in [1..n -> places]
      /\ \A x \in places : \E k \in 1..n : a[k] = x
      /\ \A i, j \in 1..n : i < j => <<a[i], a[j]>> \in R
    BY <1>1, <1>2, InOrderSound
<1> HIDE DEF n
<1>5. \A i, j \in 1..n : i < j => a[i] < a[j]
    BY <1>1, <1>4
<1> QED BY <1>3, <1>4, <1>5 DEF a, n

LEMMA AtSound ==
    ASSUME NEW list, NEW places \in SUBSET Nat, IsFiniteSet(places)
    PROVE  /\ At(list, places) \in Seq({list[i] : i \in places})
           /\ DOMAIN At(list, places) = 1..Cardinality(places) /\ Cardinality(places) \in Nat
           /\ ToSet(At(list, places)) = {list[i] : i \in places}
<1> DEFINE a == Ascending(places)
           n == Cardinality(places)
           t == At(list, places)
           V == {list[i] : i \in places}
<1>1. /\ n \in Nat /\ a \in [1..n -> places] /\ t = [k \in 1..n |-> list[a[k]]]
      /\ \A x \in places : \E k \in 1..n : a[k] = x
    BY AtPlaces
<1> HIDE DEF a, n, t
<1>2. \A k \in 1..n : t[k] = list[a[k]] /\ a[k] \in places
    BY <1>1
<1> HIDE DEF V
<1>3. t \in [1..n -> V]
    <2>1. \A k \in 1..n : t[k] \in V
        BY <1>2 DEF V
    <2> QED BY <1>1, <2>1
<1>4. t \in Seq(V) /\ DOMAIN t = 1..n /\ ToSet(t) = {t[i] : i \in 1..n}
    <2>1. n \in Nat
        BY <1>1
    <2> QED BY <1>3, <2>1, FunctionIsSeq
<1>5. {t[i] : i \in 1..n} = V
    <2>1. \A i \in 1..n : t[i] \in V
        BY <1>2 DEF V
    <2>2. \A x \in places : \E i \in 1..n : t[i] = list[x]
        BY <1>1, <1>2
    <2> QED BY <2>1, <2>2 DEF V
<1> QED BY <1>1, <1>4, <1>5 DEF t, n, V

LEMMA AtAscends ==
    ASSUME NEW list, NEW places \in SUBSET Nat, IsFiniteSet(places),
           NEW k \in DOMAIN At(list, places), NEW m \in DOMAIN At(list, places), k < m
    PROVE  \E i, j \in places : i < j /\ At(list, places)[k] = list[i] /\ At(list, places)[m] = list[j]
<1> DEFINE a == Ascending(places)
           n == Cardinality(places)
<1>1. /\ n \in Nat /\ a \in [1..n -> places] /\ At(list, places) = [x \in 1..n |-> list[a[x]]]
      /\ \A i, j \in 1..n : i < j => a[i] < a[j]
    BY AtPlaces
<1> HIDE DEF a, n
<1>2. k \in 1..n /\ m \in 1..n
    BY <1>1
<1>3. a[k] \in places /\ a[m] \in places /\ a[k] < a[m]
      /\ At(list, places)[k] = list[a[k]] /\ At(list, places)[m] = list[a[m]]
    BY <1>1, <1>2
<1> QED BY <1>3
-----------------------------------------------------------------------------
(***************************************************************************)
(* Scopes: what the base policy gives, what the grants add to it, and that *)
(* the SQL predicate admits nothing the second look refuses.               *)
(***************************************************************************)
LEMMA AllowFields ==
    ASSUME NEW r, NEW global, NEW reason
    PROVE  /\ Allow(r, global, reason).scope.isGrant = FALSE /\ Allow(r, global, reason).scope.global = global
           /\ Allow(r, global, reason).scope.profiles = IF OwnProfileOnly(r) THEN r.profiles ELSE {}
BY DEF Allow, Scope

LEMMA BaseSound ==
    ASSUME NEW r
    PROVE  /\ Evaluate(r).scope.isGrant = FALSE
           /\ Evaluate(r).scope.profiles \subseteq {r.requester} \ {None}
           /\ Evaluate(r).scope.global => r.includeGlobal /\ ~r.isolated
           /\ Evaluate(r).allow /\ r.requester = None => Evaluate(r).scope.global
<1>1. CASE r.requester = None
    BY <1>1 DEF Evaluate, EvaluateUnbound, Deny, EmptyScope, Scope
<1>2. CASE r.requester # None
    <2>1. CASE Evaluate(r) = Allow(r, r.operation = "READ" /\ r.includeGlobal /\ ~r.isolated, "local")
        <3> DEFINE global == r.operation = "READ" /\ r.includeGlobal /\ ~r.isolated
        <3>1. /\ Evaluate(r).scope.isGrant = FALSE /\ Evaluate(r).scope.global = global
              /\ Evaluate(r).scope.profiles = IF OwnProfileOnly(r) THEN r.profiles ELSE {}
            <4>1. Evaluate(r) = Allow(r, global, "local")
                BY <2>1
            <4> HIDE DEF global
            <4>2. /\ Allow(r, global, "local").scope.isGrant = FALSE /\ Allow(r, global, "local").scope.global = global
                  /\ Allow(r, global, "local").scope.profiles = IF OwnProfileOnly(r) THEN r.profiles ELSE {}
                BY AllowFields
            <4> QED BY <4>1, <4>2
        <3>2. Evaluate(r).scope.profiles \subseteq {r.requester} \ {None}
            BY <1>2, <3>1 DEF OwnProfileOnly
        <3>3. Evaluate(r).scope.global => r.includeGlobal /\ ~r.isolated
            BY <3>1, Zenon
        <3> QED BY <1>2, <3>1, <3>2, <3>3
    <2>2. CASE \E reason : Evaluate(r) = Deny(reason)
        BY <1>2, <2>2 DEF Deny, EmptyScope, Scope
    <2> QED BY <1>2, <2>1, <2>2 DEF Evaluate
<1> QED BY <1>1, <1>2

\* The second look agrees with the SQL predicate of every scope of a gate.
LEMMA AdmittedIsAllowed ==
    ASSUME NEW scope, NEW requester, NEW e, scope.isGrant => ~scope.global, SqlAdmits(scope, requester, e)
    PROVE  ScopeAllows(scope, requester, e)
<1>1. CASE scope.isGrant
    BY <1>1 DEF SqlAdmits, ScopeAllows, ProfileClause, ProfileRestricted, SpaceClause
<1>2. CASE ~scope.isGrant /\ scope.global
    BY <1>2 DEF SqlAdmits, ScopeAllows, ProfileClause, ProfileRestricted, SpaceClause
<1>3. CASE ~scope.isGrant /\ ~scope.global
    BY <1>3 DEF SqlAdmits, ScopeAllows, ProfileClause, ProfileRestricted, SpaceClause
<1> QED BY <1>1, <1>2, <1>3

IsTable(table) == table \in Seq(ToSet(table))

Held(r, table) == {i \in DOMAIN table : Reads(table[i], r)}

LEMMA TablePlaces ==
    ASSUME NEW table, IsTable(table), NEW places \in SUBSET DOMAIN table
    PROVE  places \in SUBSET Nat /\ IsFiniteSet(places)
<1>1. Len(table) \in Nat /\ DOMAIN table = 1..Len(table)
    BY DEF IsTable
<1>2. 1 \in Int /\ Len(table) \in Int
    BY <1>1
<1>3. IsFiniteSet(DOMAIN table) /\ DOMAIN table \in SUBSET Nat
    BY <1>1, <1>2, FS_Interval
<1> QED BY <1>3, FS_Subset

LEMMA HeldSound ==
    ASSUME NEW r, NEW table, IsTable(table)
    PROVE  /\ ResolveReadGrants(r, table) \in Seq({table[i] : i \in Held(r, table)})
           /\ ToSet(ResolveReadGrants(r, table)) = {table[i] : i \in Held(r, table)}
<1>1. Held(r, table) \in SUBSET Nat /\ IsFiniteSet(Held(r, table))
    BY TablePlaces DEF Held
<1>2. ResolveReadGrants(r, table) = At(table, Held(r, table))
    BY DEF ResolveReadGrants, Held
<1> QED BY <1>1, <1>2, AtSound

GrantScopes(r, table) == {GrantScope(table[i], r.isolated) : i \in Held(r, table)}

LEMMA EffectiveFields ==
    ASSUME NEW allow, NEW reason, NEW base, NEW scopes, NEW refs, NEW resources
    PROVE  /\ Effective(allow, reason, base, scopes, refs, resources).allow = allow
           /\ Effective(allow, reason, base, scopes, refs, resources).base = base
           /\ Effective(allow, reason, base, scopes, refs, resources).scopes = scopes
BY DEF Effective

\* The scopes of the grants that name a target.
LEMMA NarrowSound ==
    ASSUME NEW r, NEW table, IsTable(table), NEW held, held = ResolveReadGrants(r, table),
           NEW places \in SUBSET DOMAIN held, NEW narrow, narrow = At(held, places)
    PROVE  [i \in DOMAIN narrow |-> GrantScope(narrow[i], r.isolated)] \in Seq(GrantScopes(r, table))
<1>1. held \in Seq({table[i] : i \in Held(r, table)})
    BY HeldSound
<1>2. IsTable(held)
    BY <1>1, HeldSound DEF IsTable
<1>3. places \in SUBSET Nat /\ IsFiniteSet(places)
    BY <1>2, TablePlaces
<1>4. /\ narrow \in Seq({held[i] : i \in places}) /\ Cardinality(places) \in Nat
      /\ DOMAIN narrow = 1..Cardinality(places)
    <2>1. At(held, places) \in Seq({held[i] : i \in places})
        BY <1>3, AtSound
    <2>2. Cardinality(places) \in Nat
        BY <1>3, FS_CardinalityType
    <2>3. DOMAIN At(held, places) = 1..Cardinality(places)
        BY DEF At
    <2> QED BY <2>1, <2>2, <2>3
<1>5. ASSUME NEW k \in DOMAIN narrow PROVE GrantScope(narrow[k], r.isolated) \in GrantScopes(r, table)
    <2>1. narrow[k] \in {held[i] : i \in places}
        BY <1>4
    <2>2. \A i \in DOMAIN held : held[i] \in {table[j] : j \in Held(r, table)}
        BY <1>1
    <2>3. PICK j \in Held(r, table) : narrow[k] = table[j]
        BY <2>1, <2>2
    <2> QED BY <2>3 DEF GrantScopes
<1> DEFINE f == [i \in DOMAIN narrow |-> GrantScope(narrow[i], r.isolated)]
<1>6. f \in [1..Cardinality(places) -> GrantScopes(r, table)]
    BY <1>4, <1>5
<1> HIDE DEF f
<1>7. f \in Seq(GrantScopes(r, table))
    BY <1>4, <1>6, FunctionIsSeq
<1> QED BY <1>7 DEF f

\* What a request that is allowed may be answered under.
LEMMA GateSound ==
    ASSUME NEW r, NEW table, IsTable(table), Gate(r, table).allow
    PROVE  /\ Gate(r, table).base.isGrant = FALSE
           /\ Gate(r, table).base.profiles \subseteq {r.requester} \ {None}
           /\ Gate(r, table).base.global =>
                  \/ r.includeGlobal /\ ~r.isolated
                  \/ \E i \in Held(r, table) : table[i].type = "profile" /\ table[i].target = Everyone
           /\ r.requester = None => Gate(r, table).base.global \/ Held(r, table) # {}
           /\ Gate(r, table).scopes \in Seq(GrantScopes(r, table))
<1> DEFINE held == ResolveReadGrants(r, table)
           eff == Compose(r, held)
           base == Evaluate(r)
           grants_ == ToSet(held)
           global == \E g \in grants_ : g.type = "profile" /\ g.target = Everyone
           projects == GrantTargets(grants_, "project")
           spaces == GrantTargets(grants_, "knowledge_space")
           own == base.scope.profiles \cup ({r.requester} \ {None})
           refs == {g.id : g \in grants_}
           places == {i \in DOMAIN held : held[i].type # "global" /\ held[i].target # Everyone}
           narrow == At(held, places)
           scopes == [i \in DOMAIN narrow |-> GrantScope(narrow[i], r.isolated)]
           first == IF r.profiles = {} THEN own ELSE own \cap r.profiles
           asked == base.scope.projects \cup ToSet(r.projects)
           open == base.scope.spaces \cup r.spaces
           wide == base.scope.global \/ global
<1>1. \/ eff = Effective(base.allow, base.reason, base.scope, <<>>, {}, <<>>)
      \/ eff = Effective(base.allow, base.reason, base.scope, <<>>, refs, <<>>)
      \/ eff = Effective(FALSE, "cross", EmptyScope, <<>>, {}, <<>>)
      \/ /\ grants_ # {}
         /\ eff = Effective(TRUE, "granted", Scope(first, asked, open, wide, r.isolated, FALSE), scopes, refs,
                            ProjectResources(held))
    BY DEF Compose, GrantTargets
<1>2. Gate(r, table) = eff \/ Gate(r, table).allow = FALSE
    BY DEF Gate, Effective
<1>3. Gate(r, table) = eff
    BY <1>2
<1>4. grants_ = {table[i] : i \in Held(r, table)}
    BY HeldSound
<1>5. /\ base.scope.isGrant = FALSE /\ base.scope.profiles \subseteq {r.requester} \ {None}
      /\ base.scope.global => r.includeGlobal /\ ~r.isolated
      /\ base.allow /\ r.requester = None => base.scope.global
    BY BaseSound
<1>6. scopes \in Seq(GrantScopes(r, table))
    <2>1. places \in SUBSET DOMAIN held
        OBVIOUS
    <2> HIDE DEF held, places
    <2>2. held = ResolveReadGrants(r, table)
        BY DEF held
    <2> QED BY <2>1, <2>2, NarrowSound
<1>7. first \subseteq {r.requester} \ {None}
    BY <1>5
<1>8. wide => \/ r.includeGlobal /\ ~r.isolated
              \/ \E i \in Held(r, table) : table[i].type = "profile" /\ table[i].target = Everyone
    BY <1>4, <1>5
<1>9. <<>> \in Seq(GrantScopes(r, table))
    OBVIOUS
<1> HIDE DEF eff, base, held, grants_, global, refs, places, narrow, scopes, first, asked, open, wide
<1>10. CASE \E rs : eff = Effective(base.allow, base.reason, base.scope, <<>>, rs, <<>>)
    <2>1. eff.allow = base.allow /\ eff.base = base.scope /\ eff.scopes = <<>>
        BY <1>10, EffectiveFields
    <2>2. base.allow
        BY <1>3, <2>1
    <2> QED BY <1>3, <1>5, <1>9, <2>1, <2>2
<1>11. CASE eff = Effective(FALSE, "cross", EmptyScope, <<>>, {}, <<>>)
    BY <1>3, <1>11 DEF Effective
<1>12. CASE /\ grants_ # {}
            /\ eff = Effective(TRUE, "granted", Scope(first, asked, open, wide, r.isolated, FALSE), scopes, refs,
                               ProjectResources(held))
    <2>1. eff.base = Scope(first, asked, open, wide, r.isolated, FALSE) /\ eff.scopes = scopes
        BY <1>12 DEF Effective
    <2>2. eff.base.isGrant = FALSE /\ eff.base.profiles = first /\ eff.base.global = wide
        BY <2>1 DEF Scope
    <2>3. Held(r, table) # {}
        BY <1>4, <1>12
    <2> QED BY <1>3, <1>6, <1>7, <1>8, <2>1, <2>2, <2>3
<1> QED BY <1>1, <1>10, <1>11, <1>12

LEMMA GateOrdered ==
    ASSUME NEW r, NEW table, IsTable(table), Gate(r, table).allow
    PROVE  /\ OrderedScopes(Gate(r, table)) \in Seq({Gate(r, table).base} \cup GrantScopes(r, table))
           /\ \A scope \in ToSet(OrderedScopes(Gate(r, table))) :
                  /\ scope = Gate(r, table).base \/ \E i \in Held(r, table) : scope = GrantScope(table[i], r.isolated)
                  /\ scope.isGrant => ~scope.global
<1> DEFINE eff == Gate(r, table)
           S == {eff.base} \cup GrantScopes(r, table)
<1>1. eff.base.isGrant = FALSE /\ eff.scopes \in Seq(GrantScopes(r, table))
    BY GateSound
<1> HIDE DEF eff
<1>2. eff.scopes \in Seq(S) /\ <<eff.base>> \in Seq(S)
    <2>1. eff.scopes \in Seq(S)
        BY <1>1
    <2>2. <<eff.base>> \in Seq(S)
        <3>1. eff.base \in S
            OBVIOUS
        <3> HIDE DEF S
        <3> QED BY <3>1
    <2> QED BY <2>1, <2>2
<1> HIDE DEF S
<1>3. OrderedScopes(eff) \in Seq(S)
    BY <1>2 DEF OrderedScopes
<1>4. ToSet(OrderedScopes(eff)) \subseteq S
    BY <1>3 DEF ToSet
<1>5. ASSUME NEW scope \in S
      PROVE  /\ scope = eff.base \/ \E i \in Held(r, table) : scope = GrantScope(table[i], r.isolated)
             /\ scope.isGrant => ~scope.global
    <2>1. CASE scope = eff.base
        BY <1>1, <2>1
    <2>2. ASSUME NEW i \in Held(r, table), scope = GrantScope(table[i], r.isolated)
          PROVE  scope.global = FALSE
        BY <2>2 DEF GrantScope, Scope
    <2> QED BY <2>1, <2>2 DEF S, GrantScopes
<1> QED BY <1>3, <1>4, <1>5 DEF eff, S

LEMMA ListedIsReadable ==
    ASSUME NEW r, NEW table, IsTable(table), Gate(r, table).allow, NEW e,
           Listed(Gate(r, table), r.requester, e)
    PROVE  Readable(Gate(r, table), r.requester, e)
BY GateOrdered, AdmittedIsAllowed DEF Listed, Readable

\* What a gate lets through is the requester's, open to all, or granted.
LEMMA ReadableIsCovered ==
    ASSUME NEW r, NEW table, IsTable(table), Gate(r, table).allow, Held(r, table) # {} => r.requester # None,
           NEW e, Readable(Gate(r, table), r.requester, e)
    PROVE  \/ e.profile = r.requester
           \/ e.profile = None /\ r.includeGlobal /\ ~r.isolated
           \/ \E i \in Held(r, table) : Opens(table[i], e)
<1> DEFINE eff == Gate(r, table)
<1>1. /\ eff.base.isGrant = FALSE /\ eff.base.profiles \subseteq {r.requester} \ {None}
      /\ eff.base.global =>
             \/ r.includeGlobal /\ ~r.isolated
             \/ \E i \in Held(r, table) : table[i].type = "profile" /\ table[i].target = Everyone
      /\ r.requester = None => eff.base.global \/ Held(r, table) # {}
    BY GateSound
<1>2. PICK scope \in ToSet(OrderedScopes(eff)) : ScopeAllows(scope, r.requester, e)
    BY DEF Readable
<1>3. scope = eff.base \/ \E i \in Held(r, table) : scope = GrantScope(table[i], r.isolated)
    BY GateOrdered
<1> HIDE DEF eff
<1>4. CASE scope = eff.base
    <2>1. CASE eff.base.global /\ e.profile = None
        BY <1>1, <2>1 DEF Opens
    <2>2. CASE ~(eff.base.global /\ e.profile = None)
        <3>1. eff.base.profiles \cup ({r.requester} \ {None}) # {} \/ eff.base.global
            BY <1>1
        <3>2. e.profile \in eff.base.profiles \cup ({r.requester} \ {None})
            BY <1>1, <1>2, <1>4, <2>2, <3>1 DEF ScopeAllows
        <3> QED BY <1>1, <3>2
    <2> QED BY <2>1, <2>2
<1>5. ASSUME NEW i \in Held(r, table), scope = GrantScope(table[i], r.isolated)
      PROVE  Opens(table[i], e)
    <2>1. /\ scope.isGrant = TRUE /\ scope.global = FALSE /\ scope.profiles = Named(table[i], "profile")
          /\ scope.projects = Named(table[i], "project") /\ scope.spaces = Named(table[i], "knowledge_space")
        BY <1>5 DEF GrantScope, Scope
    <2>2. \/ e.profile \in scope.profiles
          \/ e.project \in scope.projects
          \/ scope.spaces \cap e.spaces # {}
        BY <1>2, <2>1 DEF ScopeAllows
    <2> QED BY <2>1, <2>2 DEF Opens, Named
<1> QED BY <1>3, <1>4, <1>5
-----------------------------------------------------------------------------
(***************************************************************************)
(* The live rows of a replay are the lines that stand.                     *)
(***************************************************************************)
IsRow(row) == {"id", "state", "lifecycle"} \subseteq DOMAIN row

AreRows(t) ==
    /\ IsTable(t) /\ \A i \in DOMAIN t : IsRow(t[i])
    /\ \A i, j \in DOMAIN t : t[i].id = t[j].id => i = j

RowsAreLines(t, lines) ==
    /\ \A i \in DOMAIN t : Live(t[i]) => \E k \in DOMAIN lines : Stands(lines, k) /\ lines[k].row = t[i]
    /\ \A k \in DOMAIN lines : Stands(lines, k) => \E i \in DOMAIN t : t[i] = lines[k].row

LEMMA UpsertRows ==
    ASSUME NEW t, AreRows(t), NEW row, IsRow(row)
    PROVE  /\ AreRows(Upsert(t, row))
           /\ \E i \in DOMAIN Upsert(t, row) : Upsert(t, row)[i] = row
           /\ \A i \in DOMAIN Upsert(t, row) :
                  Upsert(t, row)[i] = row \/ (i \in DOMAIN t /\ Upsert(t, row)[i] = t[i] /\ t[i].id # row.id)
           /\ \A i \in DOMAIN t : t[i].id # row.id => i \in DOMAIN Upsert(t, row) /\ Upsert(t, row)[i] = t[i]
<1> DEFINE u == Upsert(t, row)
           V == ToSet(t) \cup {row}
           n == Len(t)
<1>1. t \in Seq(V) /\ n \in Nat /\ DOMAIN t = 1..n /\ \A i \in 1..n : t[i] \in V
    BY DEF AreRows, IsTable
<1>2. CASE HasRow(t, row.id)
    <2>1. u = [i \in DOMAIN t |-> IF t[i].id = row.id THEN row ELSE t[i]]
        BY <1>2 DEF Upsert
    <2> HIDE DEF u
    <2>2. DOMAIN u = DOMAIN t /\ \A i \in DOMAIN t : u[i] = IF t[i].id = row.id THEN row ELSE t[i]
        BY <2>1
    <2>3. u \in [1..n -> ToSet(u)]
        BY <1>1, <2>1, <2>2 DEF ToSet
    <2>4. IsTable(u)
        BY <1>1, <2>3, FunctionIsSeq DEF IsTable
    <2>5. \A i \in DOMAIN u : IsRow(u[i]) /\ u[i].id = t[i].id
        BY <2>2 DEF AreRows
    <2>6. AreRows(u)
        BY <2>2, <2>4, <2>5 DEF AreRows
    <2>7. \E i \in DOMAIN u : u[i] = row
        BY <1>2, <2>2 DEF HasRow
    <2>8. \A i \in DOMAIN u : u[i] = row \/ (i \in DOMAIN t /\ u[i] = t[i] /\ t[i].id # row.id)
        BY <2>2
    <2>9. \A i \in DOMAIN t : t[i].id # row.id => i \in DOMAIN u /\ u[i] = t[i]
        BY <2>2
    <2> QED BY <2>6, <2>7, <2>8, <2>9, Zenon DEF u
<1>3. CASE ~HasRow(t, row.id)
    <2>1. u = Append(t, row) /\ row \in V
        BY <1>3 DEF Upsert
    <2> HIDE DEF u, V
    <2>2. /\ u \in Seq(V) /\ DOMAIN u = 1..(n + 1) /\ u[n + 1] = row /\ Len(u) = n + 1
          /\ \A i \in 1..n : u[i] = t[i]
        BY <1>1, <2>1
    <2>3. u \in [1..(n + 1) -> ToSet(u)] /\ n + 1 \in Nat
        <3>1. u \in [1..(n + 1) -> V]
            BY <2>2
        <3> QED BY <1>1, <2>2, <3>1 DEF ToSet
    <2>4. IsTable(u)
        BY <2>3, FunctionIsSeq DEF IsTable
    <2>5. \A i \in 1..n : i # n + 1 /\ t[i].id # row.id
        BY <1>1, <1>3 DEF HasRow
    <2>6. AreRows(u)
        <3>1. \A i \in DOMAIN u : IsRow(u[i])
            BY <1>1, <2>2 DEF AreRows
        <3>2. ASSUME NEW i \in DOMAIN u, NEW j \in DOMAIN u, u[i].id = u[j].id PROVE i = j
            <4>1. (i \in 1..n \/ i = n + 1) /\ (j \in 1..n \/ j = n + 1)
                BY <1>1, <2>2
            <4> QED BY <1>1, <2>2, <2>5, <3>2, <4>1 DEF AreRows
        <3> QED BY <2>4, <3>1, <3>2 DEF AreRows
    <2>7. n + 1 \in DOMAIN u /\ 1..n \subseteq DOMAIN u /\ \A i \in DOMAIN u : i \in 1..n \/ i = n + 1
        BY <1>1, <2>2
    <2>8. \A i \in DOMAIN u : u[i] = row \/ (i \in DOMAIN t /\ u[i] = t[i] /\ t[i].id # row.id)
        BY <1>1, <2>2, <2>5, <2>7
    <2>9. \A i \in DOMAIN t : t[i].id # row.id => i \in DOMAIN u /\ u[i] = t[i]
        BY <1>1, <2>2, <2>7
    <2>10. \E i \in DOMAIN u : u[i] = row
        BY <2>2, <2>7
    <2> QED BY <2>6, <2>8, <2>9, <2>10, Zenon DEF u
<1> QED BY <1>2, <1>3

LEMMA MarkedRows ==
    ASSUME NEW t, AreRows(t), NEW id, NEW columns, "id" \notin DOMAIN columns
    PROVE  /\ AreRows(Marked(t, id, columns)) /\ DOMAIN Marked(t, id, columns) = DOMAIN t
           /\ \A i \in DOMAIN t : t[i].id # id => Marked(t, id, columns)[i] = t[i]
           /\ \A i \in DOMAIN t : t[i].id = id =>
                  /\ "state" \in DOMAIN columns => Marked(t, id, columns)[i].state = columns.state
                  /\ "lifecycle" \in DOMAIN columns => Marked(t, id, columns)[i].lifecycle = columns.lifecycle
           /\ \A i \in DOMAIN t : Marked(t, id, columns)[i].id = t[i].id
<1> DEFINE u == Marked(t, id, columns)
           n == Len(t)
<1>1. n \in Nat /\ DOMAIN t = 1..n
    BY DEF AreRows, IsTable
<1>2. DOMAIN u = DOMAIN t /\ \A i \in DOMAIN t : u[i] = IF t[i].id = id THEN Written(columns, t[i]) ELSE t[i]
    BY DEF Marked
<1>3. u = [i \in DOMAIN t |-> u[i]]
    BY DEF Marked
<1> HIDE DEF u
<1>4. IsTable(u)
    <2>1. u \in [1..n -> ToSet(u)]
        BY <1>1, <1>2, <1>3 DEF ToSet
    <2> QED BY <1>1, <2>1, FunctionIsSeq DEF IsTable
<1>5. \A i \in DOMAIN t : IsRow(t[i])
    BY DEF AreRows
<1>6. ASSUME NEW row, IsRow(row)
      PROVE  /\ IsRow(Written(columns, row)) /\ Written(columns, row).id = row.id
             /\ "state" \in DOMAIN columns => Written(columns, row).state = columns.state
             /\ "lifecycle" \in DOMAIN columns => Written(columns, row).lifecycle = columns.lifecycle
    BY <1>6 DEF Written, IsRow
<1>7. \A i \in DOMAIN t : IsRow(u[i]) /\ u[i].id = t[i].id
    BY <1>2, <1>5, <1>6
<1>8. AreRows(u)
    BY <1>2, <1>4, <1>7 DEF AreRows
<1> QED BY <1>2, <1>5, <1>6, <1>7, <1>8 DEF u

Gives(ev) == ev.op \in {"create", "supersede"}

\* What stands after a line more.
LEMMA StandingAfter ==
    ASSUME NEW V, NEW lines \in Seq(V), NEW ev
    PROVE  /\ DOMAIN lines = 1..Len(lines) /\ Len(lines) \in Nat
           /\ DOMAIN Append(lines, ev) = 1..(Len(lines) + 1) /\ Append(lines, ev)[Len(lines) + 1] = ev
           /\ \A k \in DOMAIN lines : Append(lines, ev)[k] = lines[k]
           /\ \A k \in DOMAIN lines :
                  Stands(Append(lines, ev), k) <=> Stands(lines, k) /\ ~Governs(ev, lines[k].row.id)
           /\ Stands(Append(lines, ev), Len(lines) + 1) <=> Gives(ev)
<1> DEFINE more == Append(lines, ev)
           n == Len(lines)
<1>1. /\ n \in Nat /\ DOMAIN lines = 1..n /\ DOMAIN more = 1..(n + 1) /\ more[n + 1] = ev
      /\ \A k \in 1..n : more[k] = lines[k]
    OBVIOUS
<1> HIDE DEF more, n
<1>2. ASSUME NEW k \in 1..n PROVE Stands(more, k) <=> Stands(lines, k) /\ ~Governs(ev, lines[k].row.id)
    <2>1. more[k] = lines[k] /\ n + 1 > k /\ n + 1 \in 1..(n + 1)
        BY <1>1
    <2>2. \A m \in 1..(n + 1) : m \in 1..n \/ m = n + 1
        BY <1>1
    <2>3. 1..n \subseteq 1..(n + 1)
        BY <1>1
    <2>4. (\A m \in 1..(n + 1) : m > k => ~Governs(more[m], lines[k].row.id))
          <=> (\A m \in 1..n : m > k => ~Governs(lines[m], lines[k].row.id)) /\ ~Governs(ev, lines[k].row.id)
        BY <1>1, <2>1, <2>2, <2>3
    <2> QED BY <1>1, <2>1, <2>4 DEF Stands
<1>3. Stands(more, n + 1) <=> Gives(ev)
    <2>1. \A m \in 1..(n + 1) : ~(m > n + 1)
        BY <1>1
    <2> QED BY <1>1, <2>1 DEF Stands, Gives
<1> QED BY <1>1, <1>2, <1>3 DEF more, n

\* It is enough that what the event governs goes and what it gives comes.
LEMMA RowsFollowLine ==
    ASSUME NEW V, NEW lines \in Seq(V), NEW ev, NEW t, NEW u, RowsAreLines(t, lines),
           \A i \in DOMAIN u : Live(u[i]) =>
               \/ Gives(ev) /\ u[i] = ev.row
               \/ \E j \in DOMAIN t : u[i] = t[j] /\ ~Governs(ev, t[j].id),
           \A i \in DOMAIN t : ~Governs(ev, t[i].id) => \E j \in DOMAIN u : u[j] = t[i],
           Gives(ev) => \E i \in DOMAIN u : u[i] = ev.row
    PROVE  RowsAreLines(u, Append(lines, ev))
<1> DEFINE more == Append(lines, ev)
           n == Len(lines)
<1>1. /\ n \in Nat /\ DOMAIN lines = 1..n /\ DOMAIN more = 1..(n + 1) /\ more[n + 1] = ev
      /\ \A k \in DOMAIN lines : more[k] = lines[k]
      /\ \A k \in DOMAIN lines : Stands(more, k) <=> Stands(lines, k) /\ ~Governs(ev, lines[k].row.id)
      /\ Stands(more, n + 1) <=> Gives(ev)
    BY StandingAfter
<1> HIDE DEF more, n
<1>2. n + 1 \in DOMAIN more /\ DOMAIN lines \subseteq DOMAIN more
      /\ \A k \in DOMAIN more : k \in DOMAIN lines \/ k = n + 1
    BY <1>1
<1>3. ASSUME NEW i \in DOMAIN u, Live(u[i])
      PROVE  \E k \in DOMAIN more : Stands(more, k) /\ more[k].row = u[i]
    <2>1. CASE Gives(ev) /\ u[i] = ev.row
        BY <1>1, <1>2, <2>1
    <2>2. ASSUME NEW j \in DOMAIN t, u[i] = t[j], ~Governs(ev, t[j].id)
          PROVE  \E k \in DOMAIN more : Stands(more, k) /\ more[k].row = u[i]
        <3>1. PICK k \in DOMAIN lines : Stands(lines, k) /\ lines[k].row = t[j]
            BY <1>3, <2>2 DEF RowsAreLines
        <3> QED BY <1>1, <1>2, <2>2, <3>1
    <2> QED BY <1>3, <2>1, <2>2
<1>4. ASSUME NEW k \in DOMAIN more, Stands(more, k)
      PROVE  \E i \in DOMAIN u : u[i] = more[k].row
    <2>1. CASE k = n + 1
        BY <1>1, <1>4, <2>1
    <2>2. CASE k \in DOMAIN lines
        <3>1. Stands(lines, k) /\ ~Governs(ev, lines[k].row.id) /\ more[k] = lines[k]
            BY <1>1, <1>4, <2>2
        <3>2. PICK i \in DOMAIN t : t[i] = lines[k].row
            BY <2>2, <3>1 DEF RowsAreLines
        <3> QED BY <3>1, <3>2
    <2> QED BY <1>2, <2>1, <2>2
<1> QED BY <1>3, <1>4 DEF RowsAreLines, more

LEMMA GrantLine ==
    ASSUME NEW V, NEW lines \in Seq(V), NEW ev \in AdminRequests, NEW t, AreRows(t), RowsAreLines(t, lines)
    PROVE  AreRows(ProjectGrantEvent(t, ev)) /\ RowsAreLines(ProjectGrantEvent(t, ev), Append(lines, ev))
<1> DEFINE u == ProjectGrantEvent(t, ev)
           v == Upsert(t, ev.row)
<1>1. IsRow(ev.row) /\ ev.op \in {"create", "revoke", "supersede"}
      /\ (ev.op = "supersede" => ev.row.supersedes # ev.row.id)
    BY GrantEventAssumption DEF IsRow
<1>2. /\ AreRows(v) /\ \E i \in DOMAIN v : v[i] = ev.row
      /\ \A i \in DOMAIN v : v[i] = ev.row \/ (i \in DOMAIN t /\ v[i] = t[i] /\ t[i].id # ev.row.id)
      /\ \A i \in DOMAIN t : t[i].id # ev.row.id => i \in DOMAIN v /\ v[i] = t[i]
    BY <1>1, UpsertRows
<1> HIDE DEF v
<1>3. CASE ev.op = "create"
    <2>1. u = v
        BY <1>3 DEF ProjectGrantEvent, v
    <2>2. Gives(ev) /\ \A id : Governs(ev, id) <=> ev.row.id = id
        BY <1>3 DEF Gives, Governs
    <2> HIDE DEF u
    <2>3. RowsAreLines(u, Append(lines, ev))
        BY <1>2, <2>1, <2>2, RowsFollowLine
    <2> QED BY <1>2, <2>1, <2>3 DEF u
<1>4. CASE ev.op = "revoke"
    <2>1. u = Marked(t, ev.row.id, [state |-> "revoked"])
        BY <1>4 DEF ProjectGrantEvent
    <2>2. ~Gives(ev) /\ \A id : Governs(ev, id) <=> ev.row.id = id
        BY <1>4 DEF Gives, Governs
    <2> HIDE DEF u
    <2> DEFINE columns == [state |-> "revoked"]
    <2>3. "id" \notin DOMAIN columns /\ "state" \in DOMAIN columns /\ columns.state = "revoked"
        OBVIOUS
    <2> HIDE DEF columns
    <2>4. /\ AreRows(u) /\ DOMAIN u = DOMAIN t /\ \A i \in DOMAIN t : t[i].id # ev.row.id => u[i] = t[i]
          /\ \A i \in DOMAIN t : t[i].id = ev.row.id => u[i].state = "revoked"
        <3>1. u = Marked(t, ev.row.id, columns)
            BY <2>1 DEF columns
        <3> QED BY <2>3, <3>1, MarkedRows
    <2>5. \A i \in DOMAIN u : Live(u[i]) => i \in DOMAIN t /\ u[i] = t[i] /\ t[i].id # ev.row.id
        BY <2>4 DEF Live
    <2>6. RowsAreLines(u, Append(lines, ev))
        BY <2>2, <2>4, <2>5, RowsFollowLine
    <2> QED BY <2>4, <2>6 DEF u
<1>5. CASE ev.op = "supersede"
    <2> DEFINE columns == [lifecycle |-> "superseded", replacedBy |-> ev.row.id]
               old == ev.row.supersedes
    <2>1. u = Marked(v, old, columns)
        BY <1>5 DEF ProjectGrantEvent, v
    <2>2. Gives(ev) /\ \A id : Governs(ev, id) <=> ev.row.id = id \/ old = id
        BY <1>5 DEF Gives, Governs
    <2> HIDE DEF u
    <2>3. "id" \notin DOMAIN columns /\ "lifecycle" \in DOMAIN columns /\ columns.lifecycle = "superseded"
        OBVIOUS
    <2> HIDE DEF columns, old
    <2>4. /\ AreRows(u) /\ DOMAIN u = DOMAIN v /\ \A i \in DOMAIN v : v[i].id # old => u[i] = v[i]
          /\ \A i \in DOMAIN v : v[i].id = old => u[i].lifecycle = "superseded"
        BY <1>2, <2>1, <2>3, MarkedRows
    <2>5. ev.row.id # old
        BY <1>1, <1>5 DEF old
    <2>6. \A i \in DOMAIN u : Live(u[i]) => v[i].id # old /\ u[i] = v[i]
        BY <2>4 DEF Live
    <2>7. \A i \in DOMAIN u : Live(u[i]) =>
              u[i] = ev.row \/ (i \in DOMAIN t /\ u[i] = t[i] /\ ~Governs(ev, t[i].id))
        BY <1>2, <2>2, <2>4, <2>6
    <2>8. \A i \in DOMAIN t : ~Governs(ev, t[i].id) => i \in DOMAIN u /\ u[i] = t[i]
        BY <1>2, <2>2, <2>4
    <2>9. \E i \in DOMAIN u : u[i] = ev.row
        BY <1>2, <2>4, <2>5
    <2>10. RowsAreLines(u, Append(lines, ev))
        BY <2>2, <2>7, <2>8, <2>9, RowsFollowLine
    <2> QED BY <2>4, <2>10 DEF u
<1> QED BY <1>1, <1>3, <1>4, <1>5

\* A decision is about no grant.
LEMMA DecisionLine ==
    ASSUME NEW V, NEW lines \in Seq(V), NEW ev, ev.op = "decision", NEW t, RowsAreLines(t, lines)
    PROVE  RowsAreLines(t, Append(lines, ev))
<1>1. ~Gives(ev) /\ \A id : ~Governs(ev, id)
    BY DEF Gives, Governs
<1> QED BY <1>1, RowsFollowLine

LEMMA GrantRows ==
    ASSUME NEW ev \in AdminRequests, NEW t, AreRows(t)
    PROVE  AreRows(ProjectGrantEvent(t, ev))
<1>1. IsRow(ev.row) /\ ev.op \in {"create", "revoke", "supersede"}
    BY GrantEventAssumption DEF IsRow
<1>2. AreRows(Upsert(t, ev.row))
    BY <1>1, UpsertRows
<1>3. ASSUME NEW s, AreRows(s), NEW id, NEW columns, "id" \notin DOMAIN columns PROVE AreRows(Marked(s, id, columns))
    BY <1>3, MarkedRows
<1>4. "id" \notin DOMAIN [state |-> "revoked"]
      /\ "id" \notin DOMAIN [lifecycle |-> "superseded", replacedBy |-> ev.row.id]
    OBVIOUS
<1> QED BY <1>1, <1>2, <1>3, <1>4 DEF ProjectGrantEvent

RowsInv ==
    /\ \A k \in DOMAIN log : log[k].op = "decision" \/ log[k] \in AdminRequests
    /\ AreRows(Replay.table) /\ AreRows(grants)
    /\ Replay.ok => RowsAreLines(Replay.table, log)

LEMMA RowsInit == AccessInit => RowsInv
<1> SUFFICES ASSUME AccessInit PROVE RowsInv
    OBVIOUS
<1>1. log = <<>> /\ Len(log) = 0 /\ grants = <<>>
    BY DEF AccessInit
<1>2. PICK f : IsAfter(f, log, 0) /\ ReplayOf(log) = f[0]
    BY <1>1, ReplayIsAfter
<1>3. Replay.table = <<>>
    BY <1>2, AfterEach DEF Replay, EmptyReplay
<1>4. AreRows(<<>>)
    BY DEF AreRows, IsTable, ToSet
<1>5. RowsAreLines(<<>>, <<>>)
    BY DEF RowsAreLines
<1> QED BY <1>1, <1>3, <1>4, <1>5 DEF RowsInv

\* A line more, be it a grant event or a decision.
LEMMA RowsAppended ==
    ASSUME GrantsInv, RowsInv, NEW ev, log' = Append(log, ev), grants' = grants,
           ev.op = "decision" \/ ev \in AdminRequests
    PROVE  RowsInv'
<1>1. log \in Seq(ToSet(log)) /\ Replay.ok \in BOOLEAN
    BY DEF GrantsInv
<1>2. /\ DOMAIN log = 1..Len(log) /\ Len(log) \in Nat /\ DOMAIN log' = 1..(Len(log) + 1)
      /\ log'[Len(log) + 1] = ev /\ \A k \in DOMAIN log : log'[k] = log[k]
    BY <1>1, StandingAfter
<1>3. \A k \in DOMAIN log' : log'[k].op = "decision" \/ log'[k] \in AdminRequests
    BY <1>2 DEF RowsInv
<1>4. Replay' = Replayed(Replay, ev)
    BY LogLine
<1> DEFINE r == Replay
<1>5. AreRows(r.table) /\ (r.ok => RowsAreLines(r.table, log)) /\ r.ok \in BOOLEAN
    BY <1>1 DEF RowsInv
<1> HIDE DEF r
<1>6. AreRows(Replayed(r, ev).table) /\ (Replayed(r, ev).ok => RowsAreLines(Replayed(r, ev).table, log'))
    <2>1. CASE ev.op = "decision"
        <3>1. Replayed(r, ev) = r
            BY <2>1 DEF Replayed
        <3>2. r.ok => RowsAreLines(r.table, log')
            BY <1>1, <1>5, <2>1, DecisionLine
        <3> QED BY <1>5, <3>1, <3>2
    <2>2. CASE ev.op # "decision" /\ r.ok /\ Projectable(r.table, ev)
        <3>1. Replayed(r, ev) = [ok |-> TRUE, table |-> ProjectGrantEvent(r.table, ev)]
            BY <2>2 DEF Replayed
        <3>2. Replayed(r, ev).table = ProjectGrantEvent(r.table, ev)
            BY <3>1
        <3>3. AreRows(ProjectGrantEvent(r.table, ev)) /\ RowsAreLines(ProjectGrantEvent(r.table, ev), log')
            BY <1>1, <1>5, <2>2, GrantLine
        <3> QED BY <3>2, <3>3
    <2>3. CASE ev.op # "decision" /\ ~(r.ok /\ Projectable(r.table, ev))
        <3>1. Replayed(r, ev) = [ok |-> FALSE, table |-> r.table]
            BY <2>3 DEF Replayed
        <3> QED BY <1>5, <3>1
    <2> QED BY <2>1, <2>2, <2>3
<1>7. AreRows(grants')
    BY DEF RowsInv
<1> QED BY <1>3, <1>4, <1>6, <1>7 DEF RowsInv, r

LEMMA RowsNext == ASSUME GrantsInv, RowsInv, [AccessNext]_accessVars PROVE RowsInv'
<1>1. CASE UNCHANGED <<grants, log>>
    <2>1. Replay' = Replay
        BY <1>1 DEF Replay
    <2> QED BY <1>1, <2>1 DEF RowsInv
<1>2. ASSUME NEW a \in Admins, NEW ev \in AdminRequests, Commit(a, ev) PROVE RowsInv'
    <2>1. grants' = ProjectGrantEvent(grants, ev) /\ log' = log
        BY <1>2 DEF Commit
    <2>2. AreRows(grants')
        BY <2>1, GrantRows DEF RowsInv
    <2>3. Replay' = Replay
        BY <2>1 DEF Replay
    <2> QED BY <2>1, <2>2, <2>3 DEF RowsInv
<1>3. ASSUME NEW a \in Admins, AppendEvent(a) PROVE RowsInv'
    <2>1. pending[a] # NoEvent /\ log' = Append(log, pending[a]) /\ grants' = grants
        BY <1>3 DEF AppendEvent
    <2>2. pending[a] \in AdminRequests
        BY <2>1 DEF GrantsInv
    <2> QED BY <2>1, <2>2, RowsAppended
<1>4. CASE Rebuild
    <2>1. grants' = Replay.table /\ log' = log
        BY <1>4 DEF Rebuild
    <2>2. Replay' = Replay
        BY <2>1 DEF Replay
    <2> QED BY <2>1, <2>2 DEF RowsInv
<1>5. ASSUME NEW r \in WriteRequests, DecideWrite(r) PROVE RowsInv'
    <2>1. grants' = grants /\ (log' = log \/ \E ev : ev.op = "decision" /\ log' = Append(log, ev))
        BY <1>5 DEF DecideWrite
    <2> QED BY <1>1, <2>1, RowsAppended
<1>6. \/ RebuildFails \/ \E a \in Admins : LoseEvent(a)
      \/ \E id \in DOMAIN EventTable : Arrive(id) \/ Delete(id)
      \/ \E v \in Verifications : LoseVerification(v)
      \/ \E q \in ReadRequests : StartWalk(q)
      \/ NextPage \/ PerformWrite \/ UNCHANGED accessVars
      => UNCHANGED <<grants, log>>
    BY DEF RebuildFails, LoseEvent, Arrive, Delete, LoseVerification, StartWalk, NextPage, PerformWrite, accessVars
<1> QED BY <1>1, <1>2, <1>3, <1>4, <1>5, <1>6 DEF AccessNext

\* While log and table have not parted, a live row is a grant of the log.
LEMMA LiveIsLogged ==
    ASSUME GrantsInv, RowsInv, ~astray, \A a \in Admins : pending[a] = NoEvent
    PROVE  /\ AreRows(grants)
           /\ \A i \in DOMAIN grants : Live(grants[i]) =>
                  /\ grants[i] \in LogGrants(grants[i].subject, grants[i].operation)
                  /\ grants[i].subject # None /\ grants[i].id # None
           /\ \A subject, operation : \A g \in LogGrants(subject, operation) :
                  /\ Live(g) /\ g.subject = subject /\ g.operation = operation
                  /\ \E i \in DOMAIN grants : grants[i] = g
<1>1. Replay = [ok |-> TRUE, table |-> grants]
    BY DEF GrantsInv, OneStepAhead
<1>2. Replay.ok /\ Replay.table = grants
    BY <1>1
<1>3. AreRows(grants) /\ RowsAreLines(grants, log)
    BY <1>2 DEF RowsInv
<1>4. \A k \in DOMAIN log : Stands(log, k) =>
          log[k].row.subject # None /\ log[k].row.id # None /\ Live(log[k].row)
    BY GrantEventAssumption DEF RowsInv, Stands
<1>5. ASSUME NEW i \in DOMAIN grants, Live(grants[i])
      PROVE  /\ grants[i] \in LogGrants(grants[i].subject, grants[i].operation)
             /\ grants[i].subject # None /\ grants[i].id # None
    <2>1. PICK k \in DOMAIN log : Stands(log, k) /\ log[k].row = grants[i]
        BY <1>3, <1>5 DEF RowsAreLines
    <2> QED BY <1>4, <2>1 DEF LogGrants
<1>6. ASSUME NEW subject, NEW operation, NEW g \in LogGrants(subject, operation)
      PROVE  Live(g) /\ g.subject = subject /\ g.operation = operation /\ \E i \in DOMAIN grants : grants[i] = g
    <2>1. PICK k \in DOMAIN log : /\ Stands(log, k) /\ log[k].row = g
                                  /\ log[k].row.subject = subject /\ log[k].row.operation = operation
        BY DEF LogGrants
    <2> QED BY <1>3, <1>4, <2>1 DEF RowsAreLines
<1> QED BY <1>3, <1>5, <1>6

LEMMA WriteGranted ==
    ASSUME NEW subject, NEW type, NEW target, NEW resource, NEW table, IsTable(table), NEW known,
           ResolveWriteGrant(subject, type, target, resource, table, known).outcome = "granted"
    PROVE  \E x \in DOMAIN table :
               /\ {i \in DOMAIN table : Writes(table[i], subject, type, target, resource)} = {x}
               /\ table[x].verification \in known
               /\ ResolveWriteGrant(subject, type, target, resource, table, known).grant = table[x]
<1> DEFINE candidates == {i \in DOMAIN table : Writes(table[i], subject, type, target, resource)}
           only == CHOOSE i \in candidates : TRUE
<1>1. IsFiniteSet(candidates)
    BY TablePlaces
<1>2. ResolveWriteGrant(subject, type, target, resource, table, known) =
          CASE Cardinality(candidates) > 1 -> [outcome |-> "conflict"]
            [] Cardinality(candidates) = 1 /\ table[only].verification \in known ->
                   [outcome |-> "granted", grant |-> table[only]]
            [] OTHER -> [outcome |-> "absent"]
    BY DEF ResolveWriteGrant
<1> HIDE DEF candidates
<1>4. Cardinality(candidates) \in Nat
    BY <1>1, FS_CardinalityType
<1>5. /\ Cardinality(candidates) = 1 /\ table[only].verification \in known
      /\ ResolveWriteGrant(subject, type, target, resource, table, known) = [outcome |-> "granted", grant |-> table[only]]
    BY <1>2, <1>4
<1>6. PICK x : candidates = {x}
    BY <1>1, <1>5, FS_Singleton
<1>7. only = x
    BY <1>6
<1>8. x \in DOMAIN table
    BY <1>6 DEF candidates
<1> QED BY <1>5, <1>6, <1>7, <1>8 DEF candidates

LEMMA WritesStep ==
    ASSUME GrantsInv, RowsInv, NEW r \in WriteRequests, DecideWrite(r), writing'.grant # None,
           ~astray, \A a \in Admins : pending[a] = NoEvent
    PROVE  LET target == PrimaryTarget(writing'.request)
               covering == {g \in LogGrants(writing'.request.requester, "WRITE") :
                   g.type = target[1] /\ g.target = target[2] /\ writing'.request.resource \in g.resources \cup {None}}
           IN  /\ {g.id : g \in covering} = {writing'.grant}
               /\ \A g \in covering : g.verification \in verified
<1> DEFINE decision == AuthorizeWrite(r)
           target == PrimaryTarget(r)
           held == ResolveWriteGrant(r.requester, target[1], target[2], r.resource, grants, verified)
           covering == {g \in LogGrants(r.requester, "WRITE") :
                            g.type = target[1] /\ g.target = target[2] /\ r.resource \in g.resources \cup {None}}
<1>1. writing' = [grant |-> decision.grant, allow |-> decision.allow, request |-> r]
    BY DEF DecideWrite
<1>2. writing'.grant = decision.grant /\ writing'.request = r
    <2> HIDE DEF decision
    <2> QED BY <1>1
<1>3. held.outcome = "granted" /\ decision.grant = held.grant.id
    <2> HIDE DEF held, target
    <2>1. \/ decision.grant = None
          \/ held.outcome = "granted" /\ decision.grant = held.grant.id
        BY DEF AuthorizeWrite, held, target
    <2> QED BY <1>2, <2>1
<1>4. AreRows(grants) /\ IsTable(grants)
    BY LiveIsLogged DEF AreRows
<1>5. PICK x \in DOMAIN grants :
          /\ \A i \in DOMAIN grants : Writes(grants[i], r.requester, target[1], target[2], r.resource) <=> i = x
          /\ grants[x].verification \in verified /\ held.grant = grants[x]
    <2> DEFINE type == target[1]
               named == target[2]
    <2>1. ResolveWriteGrant(r.requester, type, named, r.resource, grants, verified).outcome = "granted"
        BY <1>3
    <2> HIDE DEF target, type, named
    <2>2. \E x \in DOMAIN grants :
              /\ {i \in DOMAIN grants : Writes(grants[i], r.requester, type, named, r.resource)} = {x}
              /\ grants[x].verification \in verified
              /\ ResolveWriteGrant(r.requester, type, named, r.resource, grants, verified).grant = grants[x]
        BY <1>4, <2>1, WriteGranted
    <2> QED BY <2>2 DEF type, named
<1> HIDE DEF held, target, decision
<1>6. grants[x] \in covering
    <2>1. Writes(grants[x], r.requester, target[1], target[2], r.resource)
        BY <1>5
    <2> QED BY <2>1, LiveIsLogged DEF Writes
<1>7. ASSUME NEW g \in covering PROVE g = grants[x]
    <2>1. PICK i \in DOMAIN grants : grants[i] = g /\ Live(g) /\ g.subject = r.requester /\ g.operation = "WRITE"
        BY LiveIsLogged
    <2> QED BY <1>5, <2>1 DEF Writes
<1> HIDE DEF covering
<1>8. {g.id : g \in covering} = {writing'.grant} /\ \A g \in covering : g.verification \in verified
    BY <1>2, <1>3, <1>5, <1>6, <1>7
<1> QED BY <1>2, <1>8 DEF covering, target

LEMMA WritesAreLogged ==
    ASSUME GrantsInv, RowsInv, [AccessNext]_accessVars,
           writing = NoWrite, writing'.grant # None, ~astray, \A a \in Admins : pending[a] = NoEvent
    PROVE  LET r == writing'.request
               target == PrimaryTarget(r)
               covering == {g \in LogGrants(r.requester, "WRITE") :
                                g.type = target[1] /\ g.target = target[2] /\ r.resource \in g.resources \cup {None}}
           IN  /\ {g.id : g \in covering} = {writing'.grant}
               /\ \A g \in covering : g.verification \in verified
<1>1. CASE writing' = writing \/ writing' = NoWrite
    BY <1>1 DEF NoWrite
<1>2. ASSUME NEW r \in WriteRequests, DecideWrite(r)
      PROVE  LET target == PrimaryTarget(writing'.request)
                 covering == {g \in LogGrants(writing'.request.requester, "WRITE") :
                     g.type = target[1] /\ g.target = target[2] /\ writing'.request.resource \in g.resources \cup {None}}
             IN  /\ {g.id : g \in covering} = {writing'.grant}
                 /\ \A g \in covering : g.verification \in verified
    BY <1>2, WritesStep
<1>3. (\E r \in WriteRequests : DecideWrite(r)) \/ writing' = writing \/ writing' = NoWrite
    BY DEF AccessNext, accessVars, Commit, AppendEvent, LoseEvent, Rebuild, RebuildFails, Arrive, Delete,
           LoseVerification, StartWalk, NextPage, PerformWrite
<1> QED BY <1>1, <1>2, <1>3

LEMMA FirstInSet ==
    ASSUME NEW S \in SUBSET Nat, IsFiniteSet(S), NEW n \in Nat
    PROVE  /\ Len(FirstBy(S, n)) \in Nat /\ DOMAIN FirstBy(S, n) = 1..Len(FirstBy(S, n))
           /\ \A k \in 1..Len(FirstBy(S, n)) : FirstBy(S, n)[k] \in S
           /\ ToSet(FirstBy(S, n)) \subseteq S /\ Cardinality(S) \in Nat
<1>1. FirstBy(S, n) \in Seq(S) /\ Cardinality(S) \in Nat
    BY FirstBySound, FS_CardinalityType
<1> QED BY <1>1 DEF ToSet

\* One row of look-ahead in every source is enough: what a source has and the
\* merged page has not comes after the page.
LEMMA LookAhead ==
    ASSUME NEW M \in SUBSET Nat, IsFiniteSet(M), NEW S \in SUBSET Nat, IsFiniteSet(S), NEW n \in Nat \ {0},
           ToSet(FirstBy(S, n + 1)) \subseteq M, NEW x \in S, x \notin M
    PROVE  n < Cardinality(M) /\ FirstBy(M, n)[n] < x
<1> DEFINE p == FirstBy(S, n + 1)
           items == FirstBy(M, n)
<1>1. n + 1 \in Nat /\ n \in Nat
    OBVIOUS
<1>2. /\ Len(p) = IF n + 1 < Cardinality(S) THEN n + 1 ELSE Cardinality(S)
      /\ \A i, j \in 1..Len(p) : i < j => p[i] < p[j]
      /\ \A y \in S : (\E k \in 1..Len(p) : p[k] = y) \/ (n + 1 < Cardinality(S) /\ \A k \in 1..(n + 1) : p[k] < y)
    BY <1>1, FirstBySound
<1>3. DOMAIN p = 1..Len(p) /\ (\A k \in 1..Len(p) : p[k] \in S) /\ Cardinality(S) \in Nat
    BY <1>1, FirstInSet
<1>4. /\ Len(items) = IF n < Cardinality(M) THEN n ELSE Cardinality(M)
      /\ \A y \in M : (\E k \in 1..Len(items) : items[k] = y) \/ (n < Cardinality(M) /\ \A k \in 1..n : items[k] < y)
    BY <1>1, FirstBySound
<1>5. (\A k \in 1..Len(items) : items[k] \in M) /\ Cardinality(M) \in Nat
    BY <1>1, FirstInSet
<1>6. \A k \in 1..Len(p) : p[k] \in M
    BY <1>3 DEF ToSet
<1> HIDE DEF p, items
<1>7. Len(p) = n + 1 /\ \A k \in 1..(n + 1) : p[k] < x
    BY <1>2, <1>6
<1> DEFINE f == [k \in 1..(n + 1) |-> p[k]]
<1>8. f \in Injection(1..(n + 1), M)
    <2>1. f \in [1..(n + 1) -> M] /\ \A k \in 1..(n + 1) : f[k] = p[k] /\ p[k] \in Nat
        BY <1>3, <1>6, <1>7
    <2> HIDE DEF f
    <2>2. \A i, j \in 1..(n + 1) : f[i] = f[j] => i = j
        <3>1. SUFFICES ASSUME NEW i \in 1..(n + 1), NEW j \in 1..(n + 1), f[i] = f[j], i # j PROVE FALSE
            OBVIOUS
        <3>2. i < j \/ j < i
            BY <3>1
        <3>3. p[i] < p[j] \/ p[j] < p[i]
            BY <1>2, <1>7, <3>2
        <3> QED BY <2>1, <3>1, <3>3
    <2> QED BY <2>1, <2>2 DEF Injection, IsInjective
<1>9. IsFiniteSet(1..(n + 1)) /\ Cardinality(1..(n + 1)) = n + 1 /\ IsFiniteSet(1..n) /\ Cardinality(1..n) = n
    <2>1. 1 \in Int /\ n \in Int /\ n + 1 \in Int /\ ~(1 > n) /\ ~(1 > n + 1)
        BY <1>1
    <2>2. IsFiniteSet(1..(n + 1)) /\ Cardinality(1..(n + 1)) = IF 1 > n + 1 THEN 0 ELSE (n + 1) - 1 + 1
        BY <2>1, FS_Interval
    <2>3. IsFiniteSet(1..n) /\ Cardinality(1..n) = IF 1 > n THEN 0 ELSE n - 1 + 1
        BY <2>1, FS_Interval
    <2> QED BY <1>1, <2>1, <2>2, <2>3
<1>10. n < Cardinality(M)
    <2> HIDE DEF f
    <2>1. Cardinality(1..(n + 1)) <= Cardinality(M)
        BY <1>8, FS_Injection
    <2> QED BY <1>1, <1>5, <1>9, <2>1
<1>11. ASSUME ~(items[n] < x) PROVE FALSE
    <2>1. \A j \in 1..(n + 1) : \E k \in 1..n : items[k] = p[j]
        <3>1. SUFFICES ASSUME NEW j \in 1..(n + 1) PROVE \E k \in 1..n : items[k] = p[j]
            OBVIOUS
        <3>2. p[j] \in M /\ p[j] \in Nat /\ p[j] < x
            BY <1>6, <1>7
        <3>3. n \in 1..n /\ Len(items) = n
            BY <1>4, <1>10
        <3>4. ~(items[n] < p[j])
            <4>1. items[n] \in Nat /\ x \in Nat
                BY <1>5, <3>3
            <4> QED BY <1>11, <3>2, <4>1
        <3> QED BY <1>4, <3>2, <3>3, <3>4
    <2> DEFINE g == [j \in 1..(n + 1) |-> CHOOSE k \in 1..n : items[k] = p[j]]
    <2>2. g \in [1..(n + 1) -> 1..n] /\ \A j \in 1..(n + 1) : items[g[j]] = p[j]
        BY <2>1
    <2> HIDE DEF g
    <2>3. PICK i, j \in 1..(n + 1) : i # j /\ g[i] = g[j]
        <3>1. Cardinality(1..n) < Cardinality(1..(n + 1))
            BY <1>1, <1>9
        <3> DEFINE A == 1..(n + 1)
                   B == 1..n
        <3>2. IsFiniteSet(A) /\ IsFiniteSet(B) /\ Cardinality(B) < Cardinality(A) /\ g \in [A -> B]
            BY <1>9, <2>2, <3>1
        <3> HIDE DEF A, B
        <3>3. \E i, j \in A : i # j /\ g[i] = g[j]
            BY <3>2, FS_PigeonHole
        <3> QED BY <3>3 DEF A
    <2>4. p[i] = p[j]
        BY <2>2, <2>3
    <2>5. f[i] = f[j]
        BY <2>4
    <2> HIDE DEF f
    <2> QED BY <1>8, <2>3, <2>5 DEF Injection, IsInjective
<1> QED BY <1>10, <1>11 DEF items
-----------------------------------------------------------------------------
(***************************************************************************)
(* Pages.  What a page owes is what its query has beyond the keyset now.   *)
(***************************************************************************)
GoodPage(p, kind, owed, after) ==
    /\ p.items \in Seq(DOMAIN EventTable) /\ \A i \in DOMAIN p.items : p.items[i] > after
    /\ \A i, j \in DOMAIN p.items : i < j =>
           p.items[i] < p.items[j] \/ (kind = "related" /\ p.items[i] = p.items[j])
    /\ \/ p.state \in {"open", "done"}
       \/ p.state \in {"denied", "mismatch", "boundary"} /\ p.items = <<>> /\ ~(p.state = "boundary" /\ kind = "list")
    /\ p.state = "done" => owed \subseteq ToSet(p.items)
    /\ p.state = "open" =>
           /\ p.cursor.at \in Nat /\ p.cursor.at >= after /\ \A i \in DOMAIN p.items : p.items[i] <= p.cursor.at
           /\ \A id \in owed : id > p.cursor.at \/ id \in ToSet(p.items)

ReadablePage(p, q, eff) ==
    \A id \in ToSet(p.items) : Readable(eff, q.access.requester, EventTable[id]) \/ LinkReadable(eff, q, id)

LEMMA PageFields ==
    ASSUME NEW state, NEW items, NEW cursor
    PROVE  /\ Page(state, items, cursor).state = state /\ Page(state, items, cursor).items = items
           /\ Page(state, items, cursor).cursor = cursor
BY DEF Page

LEMMA EmptyPage ==
    ASSUME NEW state, NEW cursor, NEW kind, NEW owed, NEW after, NEW q, NEW eff,
           state \in {"denied", "mismatch", "boundary"}, ~(state = "boundary" /\ kind = "list")
    PROVE  GoodPage(Page(state, <<>>, cursor), kind, owed, after) /\ ReadablePage(Page(state, <<>>, cursor), q, eff)
<1> DEFINE p == Page(state, <<>>, cursor)
           none == <<>>
<1>1. p.state = state /\ p.items = none
    BY PageFields
<1>2. none \in Seq(DOMAIN EventTable) /\ DOMAIN none = {} /\ ToSet(none) = {}
    BY DEF ToSet
<1> HIDE DEF p, none
<1>3. GoodPage(p, kind, owed, after)
    BY <1>1, <1>2 DEF GoodPage, none
<1>4. ReadablePage(p, q, eff)
    BY <1>1, <1>2 DEF ReadablePage
<1> QED BY <1>3, <1>4 DEF p

LEMMA AliveSets ==
    ASSUME present \subseteq DOMAIN EventTable, NEW S \in SUBSET Alive
    PROVE  S \in SUBSET Nat /\ IsFiniteSet(S) /\ S \subseteq DOMAIN EventTable
<1>1. S \in SUBSET DOMAIN EventTable
    BY DEF Alive
<1> QED BY <1>1, ReadAssumption, FS_Subset

\* The first rows of what there is make a page, open only if more was fetched.
LEMMA FullPage ==
    ASSUME present \subseteq DOMAIN EventTable, NEW M \in SUBSET Alive, NEW n \in Nat \ {0}, NEW after \in Nat,
           \A id \in M : id > after, n <= Cardinality(M)
    PROVE  /\ Len(FirstBy(M, n)) = n /\ Last(FirstBy(M, n)) = FirstBy(M, n)[n] /\ FirstBy(M, n)[n] \in Nat
           /\ FirstBy(M, n)[n] > after
           /\ \A i \in DOMAIN FirstBy(M, n) : FirstBy(M, n)[i] <= FirstBy(M, n)[n]
           /\ \A id \in M : id > FirstBy(M, n)[n] \/ id \in ToSet(FirstBy(M, n))
<1> DEFINE items == FirstBy(M, n)
<1>1. M \in SUBSET Nat /\ IsFiniteSet(M) /\ n \in Nat
    BY AliveSets
<1>2. /\ Len(items) = IF n < Cardinality(M) THEN n ELSE Cardinality(M)
      /\ \A i, j \in 1..Len(items) : i < j => items[i] < items[j]
      /\ \A x \in M : (\E k \in 1..Len(items) : items[k] = x) \/ (n < Cardinality(M) /\ \A k \in 1..n : items[k] < x)
    BY <1>1, FirstBySound
<1>3. /\ DOMAIN items = 1..Len(items) /\ \A k \in 1..Len(items) : items[k] \in M
      /\ Cardinality(M) \in Nat
    BY <1>1, FirstInSet
<1> HIDE DEF items
<1>4. Len(items) = n /\ n \in 1..n
    BY <1>1, <1>2, <1>3
<1>5. Last(items) = items[n]
    BY <1>4 DEF Last
<1>6. items[n] \in Nat /\ items[n] > after
    BY <1>1, <1>3, <1>4
<1>7. \A i \in 1..n : items[i] <= items[n]
    <2>1. SUFFICES ASSUME NEW i \in 1..n PROVE items[i] <= items[n]
        OBVIOUS
    <2>2. i < n \/ i = n
        BY <1>1
    <2>3. items[i] \in Nat
        BY <1>1, <1>3, <1>4
    <2> QED BY <1>2, <1>4, <1>6, <2>2, <2>3
<1>8. \A id \in M : id > items[n] \/ id \in ToSet(items)
    <2>1. SUFFICES ASSUME NEW id \in M PROVE id > items[n] \/ id \in ToSet(items)
        OBVIOUS
    <2>2. CASE \E k \in 1..Len(items) : items[k] = id
        BY <1>3, <2>2 DEF ToSet
    <2>3. CASE \A k \in 1..n : items[k] < id
        BY <1>1, <1>4, <1>6, <2>3
    <2> QED BY <1>2, <2>2, <2>3
<1> QED BY <1>3, <1>4, <1>5, <1>6, <1>7, <1>8 DEF items

ListOwed(q, eff, after) == UNION {Rows(q, scope, after, Alive) : scope \in ToSet(OrderedScopes(eff))}

LEMMA ListPageSound ==
    ASSUME present \subseteq DOMAIN EventTable, IsTable(grants), NEW q \in ReadRequests,
           NEW eff, eff = Gate(q.access, grants), eff.allow, NEW after \in Nat
    PROVE  /\ GoodPage(ListPage(q, eff, after), "list", ListOwed(q, eff, after), after)
           /\ ReadablePage(ListPage(q, eff, after), q, eff)
<1> DEFINE scopes == OrderedScopes(eff)
           n == q.limit
           S(i) == Rows(q, scopes[i], after, Alive)
           fetched == [i \in DOMAIN scopes |-> ToSet(FirstBy(S(i), n + 1))]
           merged == UNION {fetched[i] : i \in DOMAIN scopes}
           items == FirstBy(merged, n)
           cursor == [at |-> Rank(Last(items)), fp |-> Fingerprint(q, eff), mode |-> "and"]
           torn == \E i \in DOMAIN scopes : \E id \in fetched[i] :
                       /\ \A j \in 1..(i - 1) : id \notin fetched[j]
                       /\ ~ScopeAllows(scopes[i], q.access.requester, EventTable[id])
           p == ListPage(q, eff, after)
<1>1. p = IF torn THEN Page("boundary", <<>>, NoCursor)
          ELSE IF Cardinality(merged) > n THEN Page("open", items, cursor) ELSE Page("done", items, NoCursor)
    BY DEF ListPage
<1>2. n \in Nat \ {0} /\ n \in Nat /\ n + 1 \in Nat
    BY ReadAssumption
<1>3. /\ \A i \in DOMAIN scopes : scopes[i].isGrant => ~scopes[i].global
      /\ ToSet(scopes) = {scopes[i] : i \in DOMAIN scopes}
    BY GateOrdered DEF ToSet
<1> HIDE DEF scopes, n
<1>4. ASSUME NEW i \in DOMAIN scopes
      PROVE  /\ S(i) \in SUBSET Alive /\ S(i) \in SUBSET Nat /\ IsFiniteSet(S(i)) /\ fetched[i] \subseteq S(i)
             /\ fetched[i] = ToSet(FirstBy(S(i), n + 1)) /\ \A id \in S(i) : id > after
             /\ \A id \in S(i) : SqlAdmits(scopes[i], q.access.requester, EventTable[id])
    <2>1. S(i) \in SUBSET Alive /\ (\A id \in S(i) : id > after)
          /\ \A id \in S(i) : SqlAdmits(scopes[i], q.access.requester, EventTable[id])
        BY DEF Rows, Rank
    <2>2. fetched[i] = ToSet(FirstBy(S(i), n + 1))
        OBVIOUS
    <2> HIDE DEF S, fetched
    <2>3. S(i) \in SUBSET Nat /\ IsFiniteSet(S(i))
        BY <2>1, AliveSets
    <2> QED BY <1>2, <2>1, <2>2, <2>3, FirstInSet
<1> HIDE DEF S, fetched
<1>5. ~torn
    BY <1>3, <1>4, AdmittedIsAllowed
<1>6. merged \in SUBSET Alive /\ (\A id \in merged : id > after)
      /\ \A i \in DOMAIN scopes : fetched[i] \subseteq merged
    BY <1>4
<1>7. \A id \in merged : \E i \in DOMAIN scopes : SqlAdmits(scopes[i], q.access.requester, EventTable[id])
    BY <1>4
<1> HIDE DEF merged, torn
<1>8. merged \in SUBSET Nat /\ IsFiniteSet(merged) /\ merged \subseteq DOMAIN EventTable
    BY <1>6, AliveSets
<1>9. /\ items \in Seq(merged) /\ Len(items) = IF n < Cardinality(merged) THEN n ELSE Cardinality(merged)
      /\ \A i, j \in 1..Len(items) : i < j => items[i] < items[j]
      /\ \A x \in merged : \/ \E k \in 1..Len(items) : items[k] = x
                           \/ n < Cardinality(merged) /\ \A k \in 1..n : items[k] < x
    BY <1>2, <1>8, FirstBySound
<1>10. /\ DOMAIN items = 1..Len(items) /\ (\A k \in 1..Len(items) : items[k] \in merged)
       /\ ToSet(items) \subseteq merged /\ Cardinality(merged) \in Nat
    BY <1>2, <1>8, FirstInSet
<1>11. ASSUME NEW id \in ListOwed(q, eff, after), id \notin merged
       PROVE  n < Cardinality(merged) /\ items[n] < id
    <2>1. PICK i \in DOMAIN scopes : id \in S(i)
        BY <1>3, <1>11 DEF ListOwed, S, scopes
    <2> HIDE DEF items
    <2>2. S(i) \in SUBSET Nat /\ IsFiniteSet(S(i)) /\ ToSet(FirstBy(S(i), n + 1)) \subseteq merged
        BY <1>4, <1>6
    <2> QED BY <1>2, <1>8, <1>11, <2>1, <2>2, LookAhead DEF items
<1>12. \A id \in ListOwed(q, eff, after) : id \in Nat
    <2>1. \A i \in DOMAIN scopes : S(i) \subseteq Nat
        BY <1>4
    <2> QED BY <1>3, <2>1 DEF ListOwed, S, scopes
<1>13. items \in Seq(DOMAIN EventTable)
    <2> DEFINE D == DOMAIN EventTable
    <2>1. items \in Seq(merged) /\ merged \subseteq D
        BY <1>8, <1>9
    <2> HIDE DEF items, D
    <2>2. items \in Seq(D)
        BY <2>1
    <2> QED BY <2>2 DEF D
<1>14. \A id \in merged : Readable(eff, q.access.requester, EventTable[id])
    BY <1>3, <1>7, AdmittedIsAllowed DEF Readable, scopes
<1> HIDE DEF p
<1>15. CASE Cardinality(merged) > n
    <2>1. p = Page("open", items, cursor)
        BY <1>1, <1>5, <1>15
    <2>2. p.state = "open" /\ p.items = items /\ p.cursor = cursor
        BY <2>1, PageFields
    <2>3. n <= Cardinality(merged) /\ n < Cardinality(merged)
        BY <1>2, <1>10, <1>15
    <2>4. /\ Last(items) = items[n] /\ items[n] \in Nat /\ items[n] > after
          /\ \A i \in DOMAIN items : items[i] <= items[n]
          /\ \A id \in merged : id > items[n] \/ id \in ToSet(items)
        BY <1>2, <1>6, <2>3, FullPage
    <2> HIDE DEF items
    <2>5. p.cursor.at = items[n]
        BY <2>2, <2>4 DEF Rank
    <2>6. \A id \in ListOwed(q, eff, after) : id > items[n] \/ id \in ToSet(items)
        BY <1>11, <1>12, <2>4
    <2>7. GoodPage(p, "list", ListOwed(q, eff, after), after)
        BY <1>6, <1>9, <1>10, <1>13, <2>2, <2>4, <2>5, <2>6 DEF GoodPage
    <2>8. ReadablePage(p, q, eff)
        BY <1>10, <1>14, <2>2 DEF ReadablePage
    <2> QED BY <2>7, <2>8 DEF p
<1>16. CASE ~(Cardinality(merged) > n)
    <2>1. p = Page("done", items, NoCursor)
        BY <1>1, <1>5, <1>16
    <2>2. p.state = "done" /\ p.items = items
        BY <2>1, PageFields
    <2>3. ~(n < Cardinality(merged))
        BY <1>2, <1>10, <1>16
    <2> HIDE DEF items
    <2>4. ListOwed(q, eff, after) \subseteq ToSet(items)
        BY <1>9, <1>10, <1>11, <2>3 DEF ToSet
    <2>5. GoodPage(p, "list", ListOwed(q, eff, after), after)
        BY <1>6, <1>9, <1>10, <1>13, <2>2, <2>4 DEF GoodPage
    <2>6. ReadablePage(p, q, eff)
        BY <1>10, <1>14, <2>2 DEF ReadablePage
    <2> QED BY <2>5, <2>6 DEF p
<1> QED BY <1>15, <1>16

LEMMA SearchPageSound ==
    ASSUME present \subseteq DOMAIN EventTable, IsTable(grants), NEW q \in ReadRequests,
           NEW eff, eff = Gate(q.access, grants), eff.allow, NEW after \in Nat
    PROVE  /\ GoodPage(SearchPage(q, eff, after), "search", Hits(q, eff, after, "and", Alive), after)
           /\ ReadablePage(SearchPage(q, eff, after), q, eff)
<1> DEFINE owed == Hits(q, eff, after, "and", Alive)
           mode == IF owed = {} /\ Cardinality(q.words) > 1 THEN "or" ELSE "and"
           hits == Hits(q, eff, after, mode, Alive)
           n == q.limit
           page == FirstBy(hits, n)
           places == {k \in DOMAIN page : Readable(eff, q.access.requester, EventTable[page[k]])}
           items == At(page, places)
           cursor == [at |-> Rank(Last(page)), fp |-> Fingerprint(q, eff), mode |-> mode]
           p == SearchPage(q, eff, after)
<1>1. p = IF Cardinality(hits) >= n THEN Page("open", items, cursor) ELSE Page("done", items, NoCursor)
    BY DEF SearchPage
<1>2. n \in Nat \ {0} /\ n \in Nat
    BY ReadAssumption
<1>3. /\ hits \in SUBSET Alive /\ (\A id \in hits : id > after)
      /\ \A id \in hits : Listed(eff, q.access.requester, EventTable[id])
    BY DEF Hits, Rank
<1>4. owed \subseteq hits
    OBVIOUS
<1> HIDE DEF owed, mode, hits, n, p
<1>5. \A id \in hits : Readable(eff, q.access.requester, EventTable[id])
    BY <1>3, ListedIsReadable
<1>6. hits \in SUBSET Nat /\ IsFiniteSet(hits) /\ hits \subseteq DOMAIN EventTable
    BY <1>3, AliveSets
<1>7. /\ page \in Seq(hits) /\ Len(page) = IF n < Cardinality(hits) THEN n ELSE Cardinality(hits)
      /\ \A i, j \in 1..Len(page) : i < j => page[i] < page[j]
      /\ \A x \in hits : \/ \E k \in 1..Len(page) : page[k] = x
                         \/ n < Cardinality(hits) /\ \A k \in 1..n : page[k] < x
    BY <1>2, <1>6, FirstBySound
<1>8. /\ DOMAIN page = 1..Len(page) /\ Len(page) \in Nat /\ (\A k \in 1..Len(page) : page[k] \in hits)
      /\ ToSet(page) \subseteq hits /\ Cardinality(hits) \in Nat
    BY <1>2, <1>6, FirstInSet
<1>9. places = DOMAIN page
    BY <1>5, <1>8
<1> HIDE DEF page, places
<1>10. places \in SUBSET Nat /\ IsFiniteSet(places)
    <2>1. IsTable(page) /\ places \in SUBSET DOMAIN page
        <3>1. page \in [1..Len(page) -> ToSet(page)]
            BY <1>7, <1>8 DEF ToSet
        <3> QED BY <1>8, <1>9, <3>1, FunctionIsSeq DEF IsTable
    <2> QED BY <2>1, TablePlaces
<1>11. /\ items \in Seq({page[i] : i \in places}) /\ ToSet(items) = {page[i] : i \in places}
       /\ \A k, m \in DOMAIN items : k < m => \E i, j \in places : i < j /\ items[k] = page[i] /\ items[m] = page[j]
    <2>1. items \in Seq({page[i] : i \in places}) /\ ToSet(items) = {page[i] : i \in places}
        BY <1>10, AtSound
    <2>2. \A k, m \in DOMAIN items : k < m => \E i, j \in places : i < j /\ items[k] = page[i] /\ items[m] = page[j]
        BY <1>10, AtAscends
    <2> QED BY <2>1, <2>2
<1> HIDE DEF items
<1>12. {page[i] : i \in places} = ToSet(page)
    BY <1>9 DEF ToSet
<1>13. /\ ToSet(items) = ToSet(page) /\ items \in Seq(DOMAIN EventTable)
       /\ \A k \in DOMAIN items : items[k] \in ToSet(page)
    <2> DEFINE D == DOMAIN EventTable
               T == {page[i] : i \in places}
    <2>1. T \subseteq D /\ items \in Seq(T)
        BY <1>6, <1>8, <1>11, <1>12
    <2> HIDE DEF D, T
    <2>2. items \in Seq(D) /\ \A k \in DOMAIN items : items[k] \in T
        BY <2>1
    <2> QED BY <1>11, <1>12, <2>2 DEF D, T
<1>14. \A k, m \in DOMAIN items : k < m => items[k] < items[m]
    BY <1>7, <1>8, <1>9, <1>11
<1>15. ReadablePage(p, q, eff)
    <2>1. p.items = items
        BY <1>1, PageFields
    <2> QED BY <1>5, <1>8, <1>13, <2>1 DEF ReadablePage
<1>16. \A k \in DOMAIN items : items[k] \in hits /\ items[k] > after
    BY <1>3, <1>8, <1>13
<1>17. CASE Cardinality(hits) >= n
    <2>1. p.state = "open" /\ p.items = items /\ p.cursor = cursor
        BY <1>1, <1>17, PageFields
    <2>2. n <= Cardinality(hits)
        BY <1>2, <1>8, <1>17
    <2>3. /\ Last(page) = page[n] /\ page[n] \in Nat /\ page[n] > after
          /\ \A i \in DOMAIN page : page[i] <= page[n]
          /\ \A id \in hits : id > page[n] \/ id \in ToSet(page)
        BY <1>2, <1>3, <2>2, FullPage DEF page
    <2>4. p.cursor.at = page[n]
        BY <2>1, <2>3 DEF Rank
    <2>5. \A k \in DOMAIN items : items[k] <= page[n]
        BY <1>13, <2>3 DEF ToSet
    <2>6. \A id \in owed : id > page[n] \/ id \in ToSet(items)
        BY <1>4, <1>13, <2>3
    <2>7. GoodPage(p, "search", owed, after)
        BY <1>13, <1>14, <1>16, <2>1, <2>3, <2>4, <2>5, <2>6 DEF GoodPage
    <2> QED BY <1>15, <2>7 DEF p, owed
<1>18. CASE ~(Cardinality(hits) >= n)
    <2>1. p.state = "done" /\ p.items = items
        BY <1>1, <1>18, PageFields
    <2>2. ~(n < Cardinality(hits))
        BY <1>2, <1>8, <1>18
    <2>3. owed \subseteq ToSet(items)
        BY <1>4, <1>7, <1>8, <1>13, <2>2 DEF ToSet
    <2>4. GoodPage(p, "search", owed, after)
        BY <1>13, <1>14, <1>16, <2>1, <2>3 DEF GoodPage
    <2> QED BY <1>15, <2>4 DEF p, owed
<1> QED BY <1>17, <1>18

\* Relations of one event: finitely many, each another end and a place.
LEMMA RelatedShape ==
    ASSUME NEW source
    PROVE  IsFiniteSet(Related(source)) /\ \A t \in Related(source) : t = <<t[1], t[2]>> /\ t[2] \in Nat
<1> DEFINE A == {d \in Edges : d.from = source}
           B == {d \in Edges : d.to = source}
           f == {<<d.to, d.relation>> : d \in A}
           g == {<<d.from, d.relation>> : d \in B}
<1>1. A \in SUBSET Edges /\ B \in SUBSET Edges /\ IsFiniteSet(Edges)
    BY ReadAssumption
<1>2. IsFiniteSet(A) /\ IsFiniteSet(B)
    BY <1>1, FS_Subset
<1>3. IsFiniteSet(f)
    <2> DEFINE h == [d \in A |-> <<d.to, d.relation>>]
    <2>1. h \in [A -> f] /\ \A t \in f : \E d \in A : h[d] = t
        <3> HIDE DEF A
        <3> QED OBVIOUS
    <2> HIDE DEF A, f, h
    <2> QED BY <1>2, <2>1, FS_Surjection DEF Surjection
<1>4. IsFiniteSet(g)
    <2> DEFINE h == [d \in B |-> <<d.from, d.relation>>]
    <2>1. h \in [B -> g] /\ \A t \in g : \E d \in B : h[d] = t
        <3> HIDE DEF B
        <3> QED OBVIOUS
    <2> HIDE DEF B, g, h
    <2> QED BY <1>2, <2>1, FS_Surjection DEF Surjection
<1>5. Related(source) = f \cup g
    BY DEF Related
<1>6. \A t \in f \cup g : t = <<t[1], t[2]>> /\ t[2] \in Nat
    BY ReadAssumption
<1> HIDE DEF f, g
<1>7. IsFiniteSet(f \cup g)
    BY <1>3, <1>4, FS_Union
<1> QED BY <1>5, <1>6, <1>7

LEMMA RelationsAreOrdered ==
    ASSUME NEW S, \A t \in S : t = <<t[1], t[2]>> /\ t[1] \in Nat /\ t[2] \in Nat
    PROVE  /\ StrictlyOrders({p \in S \X S : ComesBefore(p[1], p[2])}, S)
           /\ \A x, y \in S : <<x, y>> \in {p \in S \X S : ComesBefore(p[1], p[2])} <=>
                                  x[1] < y[1] \/ (x[1] = y[1] /\ x[2] < y[2])
<1> DEFINE R == {p \in S \X S : ComesBefore(p[1], p[2])}
<1>1. \A x, y \in S : <<x, y>> \in R <=> x[1] < y[1] \/ (x[1] = y[1] /\ x[2] < y[2])
    BY DEF ComesBefore, Rank
<1> HIDE DEF R
<1>2. \A x \in S : <<x, x>> \notin R
    BY <1>1
<1>3. \A x, y, z \in S : <<x, y>> \in R /\ <<y, z>> \in R => <<x, z>> \in R
    BY <1>1
<1>4. \A x, y \in S : x # y => <<x, y>> \in R \/ <<y, x>> \in R
    BY <1>1
<1>5. StrictlyOrders(R, S)
    BY <1>2, <1>3, <1>4 DEF StrictlyOrders
<1> QED BY <1>1, <1>5 DEF R

LEMMA RelatedPageSound ==
    ASSUME present \subseteq DOMAIN EventTable, NEW q \in ReadRequests, NEW eff, NEW after \in Nat
    PROVE  /\ GoodPage(RelatedPage(q, eff, after), "related", {t[1] : t \in RelatedAfter(q.source, after, Alive)}, after)
           /\ ReadablePage(RelatedPage(q, eff, after), q, eff)
<1> DEFINE rest == RelatedAfter(q.source, after, Alive)
           owed == {t[1] : t \in rest}
           R == {p \in rest \X rest : ComesBefore(p[1], p[2])}
           n == q.limit
           rows == AtMost(n, InOrder(rest, R))
           items == [i \in DOMAIN rows |-> rows[i][1]]
           torn == \/ q.source \in Alive /\ ~LinkReadable(eff, q, q.source)
                   \/ \E id \in ToSet(items) : ~LinkReadable(eff, q, id)
           cursor == [at |-> Rank(Last(items)), fp |-> Fingerprint(q, eff), mode |-> "and"]
           p == RelatedPage(q, eff, after)
<1>1. p = IF torn THEN Page("boundary", <<>>, NoCursor)
          ELSE IF Len(items) >= n THEN Page("open", items, cursor) ELSE Page("done", items, NoCursor)
    BY DEF RelatedPage
<1>2. n \in Nat /\ n # 0
    BY ReadAssumption
<1>3. /\ rest \in SUBSET Related(q.source)
      /\ \A t \in rest : t[1] \in Alive /\ t[1] > after
    BY DEF RelatedAfter, Rank
<1> HIDE DEF rest, n
<1>4. \A t \in rest : t = <<t[1], t[2]>> /\ t[1] \in Nat /\ t[2] \in Nat /\ t[1] \in DOMAIN EventTable
    BY <1>3, RelatedShape, ReadAssumption DEF Alive
<1>5. IsFiniteSet(rest)
    BY <1>3, RelatedShape, FS_Subset
<1>6. StrictlyOrders(R, rest) /\ \A x, y \in rest : <<x, y>> \in R <=> x[1] < y[1] \/ (x[1] = y[1] /\ x[2] < y[2])
    BY <1>4, RelationsAreOrdered
<1> HIDE DEF R
<1>7. /\ rows \in Seq(rest) /\ Len(rows) = IF n < Cardinality(rest) THEN n ELSE Cardinality(rest)
      /\ \A i, j \in 1..Len(rows) : i < j => <<rows[i], rows[j]>> \in R
      /\ \A x \in rest : (\E k \in 1..Len(rows) : rows[k] = x) \/ (n < Cardinality(rest) /\ \A k \in 1..n : <<rows[k], x>> \in R)
    BY <1>2, <1>5, <1>6, FirstOfOrder
<1>8. Cardinality(rest) \in Nat
    BY <1>5, FS_CardinalityType
<1> HIDE DEF rows
<1> DEFINE m == Len(rows)
<1>9. m \in Nat /\ DOMAIN rows = 1..m /\ \A k \in 1..m : rows[k] \in rest
    BY <1>7
<1> HIDE DEF m
<1>10. \A k \in 1..m : items[k] = rows[k][1]
    BY <1>9
<1>11. items \in [1..m -> DOMAIN EventTable] /\ items \in [1..m -> owed]
    <2>1. DOMAIN rows = 1..m /\ \A k \in 1..m : rows[k][1] \in DOMAIN EventTable /\ rows[k][1] \in owed
        BY <1>4, <1>9
    <2> HIDE DEF owed
    <2> QED BY <2>1
<1> HIDE DEF items, torn, p, owed
<1>12. items \in Seq(DOMAIN EventTable) /\ Len(items) = m /\ DOMAIN items = 1..m /\ ToSet(items) = {items[i] : i \in 1..m}
    BY <1>9, <1>11, FunctionIsSeq
<1>13. \A k \in 1..m : items[k] \in Nat /\ items[k] > after
    BY <1>3, <1>4, <1>9, <1>10
<1>14. \A i, j \in 1..m : i < j => items[i] <= items[j]
    <2>1. SUFFICES ASSUME NEW i \in 1..m, NEW j \in 1..m, i < j PROVE items[i] <= items[j]
        OBVIOUS
    <2>2. <<rows[i], rows[j]>> \in R /\ rows[i] \in rest /\ rows[j] \in rest
        BY <1>7, <1>9, <2>1 DEF m
    <2>3. rows[i][1] < rows[j][1] \/ rows[i][1] = rows[j][1]
        BY <1>6, <2>2
    <2>4. rows[i][1] \in Nat /\ rows[j][1] \in Nat
        BY <1>4, <2>2
    <2> QED BY <1>10, <2>3, <2>4
<1>15. \A i, j \in 1..m : i < j => items[i] < items[j] \/ items[i] = items[j]
    BY <1>13, <1>14
<1>16. CASE torn
    <2>1. p = Page("boundary", <<>>, NoCursor)
        BY <1>1, <1>16
    <2> QED BY <2>1, EmptyPage DEF p, owed, rest
<1>17. ASSUME ~torn, p.items = items PROVE ReadablePage(p, q, eff)
    BY <1>17 DEF ReadablePage, torn
<1>18. CASE ~torn /\ m >= n
    <2>1. p = Page("open", items, cursor)
        BY <1>1, <1>12, <1>18
    <2>2. p.state = "open" /\ p.items = items /\ p.cursor = cursor
        BY <2>1, PageFields
    <2>3. m = n /\ m \in 1..m
        BY <1>2, <1>7, <1>8, <1>9, <1>18 DEF m
    <2>4. p.cursor.at = items[m]
        BY <1>12, <2>2 DEF Rank, Last
    <2>5. items[m] \in Nat /\ items[m] >= after /\ \A i \in 1..m : items[i] <= items[m]
        <3>1. items[m] \in Nat /\ items[m] > after
            BY <1>13, <2>3
        <3>2. ASSUME NEW i \in 1..m PROVE items[i] <= items[m]
            <4>1. i < m \/ i = m
                BY <1>9
            <4> QED BY <1>14, <2>3, <3>1, <4>1
        <3> QED BY <3>1, <3>2
    <2>6. \A id \in owed : id > items[m] \/ id \in ToSet(items)
        <3>1. SUFFICES ASSUME NEW x \in rest PROVE x[1] > items[m] \/ x[1] \in ToSet(items)
            BY DEF owed
        <3>2. CASE \E k \in 1..m : rows[k] = x
            BY <1>10, <1>12, <3>2
        <3>3. CASE \A k \in 1..n : <<rows[k], x>> \in R
            <4>1. <<rows[m], x>> \in R /\ rows[m] \in rest
                BY <1>9, <2>3, <3>3
            <4>2. rows[m][1] < x[1] \/ rows[m][1] = x[1]
                BY <1>6, <4>1
            <4>3. items[m] = rows[m][1] /\ items[m] \in ToSet(items)
                BY <1>10, <1>12, <2>3
            <4>4. rows[m][1] \in Nat /\ x[1] \in Nat
                BY <1>4, <4>1
            <4> QED BY <4>2, <4>3, <4>4
        <3> QED BY <1>7, <3>2, <3>3 DEF m
    <2>7. GoodPage(p, "related", owed, after)
        BY <1>12, <1>13, <1>15, <2>2, <2>4, <2>5, <2>6 DEF GoodPage
    <2> QED BY <1>17, <1>18, <2>2, <2>7 DEF p, owed, rest
<1>19. CASE ~torn /\ ~(m >= n)
    <2>1. p = Page("done", items, NoCursor)
        BY <1>1, <1>12, <1>19
    <2>2. p.state = "done" /\ p.items = items
        BY <2>1, PageFields
    <2>3. ~(n < Cardinality(rest))
        BY <1>2, <1>7, <1>8, <1>9, <1>19 DEF m
    <2>4. owed \subseteq ToSet(items)
        <3>1. \A x \in rest : \E k \in 1..m : rows[k] = x
            BY <1>7, <2>3 DEF m
        <3> QED BY <1>10, <1>12, <3>1 DEF owed
    <2>5. GoodPage(p, "related", owed, after)
        BY <1>12, <1>13, <1>15, <2>2, <2>4 DEF GoodPage
    <2> QED BY <1>17, <1>19, <2>2, <2>5 DEF p, owed, rest
<1> QED BY <1>16, <1>18, <1>19

LEMMA OweLess ==
    ASSUME NEW p, NEW kind, NEW owed, NEW less \in SUBSET owed, NEW after, GoodPage(p, kind, owed, after)
    PROVE  GoodPage(p, kind, less, after)
BY DEF GoodPage

Owed(q, after) == {id \in Wanted(q, grants, Alive) : id > after}

\* A page gives the first of what is owed, and nothing its gate does not allow.
LEMMA PageOfSound ==
    ASSUME present \subseteq DOMAIN EventTable, IsTable(grants), NEW q \in ReadRequests, NEW cursor, cursor.at \in Nat
    PROVE  /\ GoodPage(PageOf(q, cursor), q.kind, Owed(q, cursor.at), cursor.at)
           /\ ReadablePage(PageOf(q, cursor), q, Gate(q.access, grants))
           /\ Gate(q.access, grants).allow \/ PageOf(q, cursor).items = <<>>
<1> DEFINE eff == Gate(q.access, grants)
           after == cursor.at
           p == PageOf(q, cursor)
           refused == cursor # NoCursor /\ cursor.fp # Fingerprint(q, eff)
<1>1. p = IF ~eff.allow THEN Page("denied", <<>>, NoCursor)
          ELSE IF refused THEN Page("mismatch", <<>>, NoCursor)
          ELSE CASE q.kind = "list" -> ListPage(q, eff, after)
                 [] q.kind = "search" -> SearchPage(q, eff, after)
                 [] q.kind = "related" -> RelatedPage(q, eff, after)
    BY DEF PageOf
<1>2. eff.allow => Wanted(q, grants, Alive) =
          CASE q.kind = "list" -> UNION {Rows(q, scope, 0, Alive) : scope \in ToSet(OrderedScopes(eff))}
            [] q.kind = "search" -> Hits(q, eff, 0, "and", Alive)
            [] q.kind = "related" -> {t[1] : t \in RelatedAfter(q.source, 0, Alive)}
    BY DEF Wanted
<1>3. q.kind \in {"list", "search", "related"}
    BY ReadAssumption
<1> HIDE DEF eff, p, refused
<1>4. CASE ~eff.allow
    <2>1. p = Page("denied", <<>>, NoCursor)
        BY <1>1, <1>4
    <2>2. p.items = <<>>
        BY <2>1, PageFields
    <2> QED BY <2>1, <2>2, EmptyPage DEF p, eff
<1>5. CASE eff.allow /\ refused
    <2>1. p = Page("mismatch", <<>>, NoCursor)
        BY <1>1, <1>5
    <2> QED BY <1>5, <2>1, EmptyPage DEF p, eff
<1>6. CASE eff.allow /\ ~refused /\ q.kind = "list"
    <2>1. p = ListPage(q, eff, after)
        BY <1>1, <1>6
    <2>2. GoodPage(p, "list", ListOwed(q, eff, after), after) /\ ReadablePage(p, q, eff)
        BY <1>6, <2>1, ListPageSound DEF eff
    <2>3. Owed(q, after) \in SUBSET ListOwed(q, eff, after)
        BY <1>2, <1>6 DEF Owed, ListOwed, Rows, Rank
    <2>4. GoodPage(p, "list", Owed(q, after), after)
        BY <2>2, <2>3, OweLess
    <2> QED BY <1>6, <2>2, <2>4 DEF p, eff
<1>7. CASE eff.allow /\ ~refused /\ q.kind = "search"
    <2>1. p = SearchPage(q, eff, after)
        BY <1>1, <1>7
    <2>2. GoodPage(p, "search", Hits(q, eff, after, "and", Alive), after) /\ ReadablePage(p, q, eff)
        BY <1>7, <2>1, SearchPageSound DEF eff
    <2>3. Owed(q, after) \in SUBSET Hits(q, eff, after, "and", Alive)
        BY <1>2, <1>7 DEF Owed, Hits, Rank
    <2>4. GoodPage(p, "search", Owed(q, after), after)
        BY <2>2, <2>3, OweLess
    <2> QED BY <1>7, <2>2, <2>4 DEF p, eff
<1>8. CASE eff.allow /\ ~refused /\ q.kind = "related"
    <2>1. p = RelatedPage(q, eff, after)
        BY <1>1, <1>8
    <2> DEFINE rest == {t[1] : t \in RelatedAfter(q.source, after, Alive)}
    <2>2. GoodPage(p, "related", rest, after) /\ ReadablePage(p, q, eff)
        BY <1>8, <2>1, RelatedPageSound DEF eff
    <2>3. Owed(q, after) \in SUBSET rest
        BY <1>2, <1>8 DEF Owed, RelatedAfter, Rank
    <2> HIDE DEF rest
    <2>4. GoodPage(p, "related", Owed(q, after), after)
        BY <2>2, <2>3, OweLess
    <2> QED BY <1>8, <2>2, <2>4 DEF p, eff
<1> QED BY <1>3, <1>4, <1>5, <1>6, <1>7, <1>8
-----------------------------------------------------------------------------
(***************************************************************************)
(* Walks.  What an open walk still owes lies beyond its cursor, and what   *)
(* it has given does not.                                                  *)
(***************************************************************************)
LEMMA WalkFields ==
    ASSUME NEW state, NEW query, NEW cursor, NEW seen, NEW steady
    PROVE  /\ WalkAt(state, query, cursor, seen, steady).state = state
           /\ WalkAt(state, query, cursor, seen, steady).query = query
           /\ WalkAt(state, query, cursor, seen, steady).cursor = cursor
           /\ WalkAt(state, query, cursor, seen, steady).seen = seen
           /\ WalkAt(state, query, cursor, seen, steady).steady = steady
BY DEF WalkAt

OpenWalk ==
    /\ walk.cursor.at \in Nat /\ \A i \in DOMAIN walk.seen : walk.seen[i] <= walk.cursor.at
    /\ walk.steady \subseteq Wanted(walk.query, grants, Alive)
    /\ \A id \in walk.steady : id \in ToSet(walk.seen) \/ id > walk.cursor.at

GoodWalk ==
    /\ walk.state \in {"idle", "open", "done", "denied", "mismatch", "boundary"}
    /\ walk.state # "idle" => walk.query \in ReadRequests /\ walk.seen \in Seq(DOMAIN EventTable)
    /\ walk.state = "open" => OpenWalk
    /\ WalkIsExact

WalkInv == present \subseteq DOMAIN EventTable /\ GoodWalk

LEMMA WalkInit == AccessInit => WalkInv
<1> SUFFICES ASSUME AccessInit PROVE WalkInv
    OBVIOUS
<1>1. walk.state = "idle" /\ present \subseteq DOMAIN EventTable
    BY DEF AccessInit, NoWalk
<1> QED BY <1>1 DEF WalkInv, GoodWalk, WalkIsExact, WalkMissesNothing, PagesAscend, ListingIsNeverTornDown

\* Whatever else happens, an open walk only comes to owe less.
LEMMA WalkWatched == ASSUME WalkInv, present' \subseteq DOMAIN EventTable, Watched PROVE WalkInv'
<1>1. CASE walk.state # "open"
    <2>1. walk' = walk
        BY <1>1 DEF Watched
    <2> QED BY <1>1, <2>1 DEF WalkInv, GoodWalk, WalkIsExact, WalkMissesNothing, PagesAscend, ListingIsNeverTornDown
<1>2. CASE walk.state = "open"
    <2> DEFINE left == walk.steady \cap Wanted(walk.query, grants', present' \ deleted')
    <2>1. walk' = WalkAt("open", walk.query, walk.cursor, walk.seen, left)
        BY <1>2 DEF Watched
    <2>2. /\ left \subseteq walk.steady /\ left \subseteq Wanted(walk.query, grants', present' \ deleted')
          /\ Alive' = present' \ deleted'
        BY DEF Alive
    <2> HIDE DEF left
    <2>3. /\ walk'.state = "open" /\ walk'.query = walk.query /\ walk'.cursor = walk.cursor
          /\ walk'.seen = walk.seen /\ walk'.steady = left
        BY <2>1, WalkFields
    <2>4. /\ walk.query \in ReadRequests /\ walk.seen \in Seq(DOMAIN EventTable) /\ PagesAscend /\ OpenWalk
        BY <1>2 DEF WalkInv, GoodWalk, WalkIsExact
    <2>5. Wanted(walk.query, grants, Alive)' = Wanted(walk.query, grants', present' \ deleted')
        BY <2>2, <2>3 DEF Wanted
    <2>6. OpenWalk'
        BY <2>2, <2>3, <2>4, <2>5 DEF OpenWalk
    <2>7. PagesAscend' /\ WalkMissesNothing' /\ ListingIsNeverTornDown'
        BY <1>2, <2>3, <2>4 DEF PagesAscend, WalkMissesNothing, ListingIsNeverTornDown
    <2> QED BY <2>3, <2>4, <2>6, <2>7 DEF WalkInv, GoodWalk, WalkIsExact
<1> QED BY <1>1, <1>2

LEMMA WalkStarts == ASSUME WalkInv, NEW q \in ReadRequests, StartWalk(q) PROVE WalkInv'
<1> DEFINE none == <<>>
           all == Wanted(q, grants, Alive)
<1>1. walk' = WalkAt("open", q, NoCursor, none, all) /\ UNCHANGED <<grants, present, deleted>>
    BY DEF StartWalk
<1>2. none \in Seq(DOMAIN EventTable) /\ DOMAIN none = {} /\ NoCursor.at = 0
    BY DEF NoCursor
<1>3. \A id \in all : id > 0
    BY ReadAssumption DEF Wanted, Rows, Hits, RelatedAfter, Rank
<1> HIDE DEF none, all
<1>4. walk'.state = "open" /\ walk'.query = q /\ walk'.cursor = NoCursor /\ walk'.seen = none /\ walk'.steady = all
    BY <1>1, WalkFields
<1>5. Wanted(walk.query, grants, Alive)' = all
    <2>1. grants' = grants /\ Alive' = Alive
        BY <1>1 DEF Alive
    <2> QED BY <1>4, <2>1 DEF all, Wanted
<1>6. OpenWalk'
    BY <1>2, <1>3, <1>4, <1>5 DEF OpenWalk
<1>7. PagesAscend' /\ WalkMissesNothing' /\ ListingIsNeverTornDown'
    BY <1>2, <1>4 DEF PagesAscend, WalkMissesNothing, ListingIsNeverTornDown
<1> QED BY <1>1, <1>2, <1>4, <1>6, <1>7 DEF WalkInv, GoodWalk, WalkIsExact

Climbs(s, kind) ==
    \A i, j \in DOMAIN s : i < j => s[i] < s[j] \/ (kind = "related" /\ s[i] = s[j])

LEMMA Joined ==
    ASSUME NEW D, NEW s \in Seq(D), NEW t \in Seq(D)
    PROVE  /\ s \o t \in Seq(D) /\ DOMAIN (s \o t) = 1..(Len(s) + Len(t))
           /\ DOMAIN s = 1..Len(s) /\ DOMAIN t = 1..Len(t) /\ Len(s) \in Nat /\ Len(t) \in Nat
           /\ \A k \in 1..(Len(s) + Len(t)) : (s \o t)[k] = IF k <= Len(s) THEN s[k] ELSE t[k - Len(s)]
<1> DEFINE u == s \o t
<1>1. /\ u \in Seq(D) /\ Len(u) = Len(s) + Len(t)
      /\ \A k \in 1..(Len(s) + Len(t)) : u[k] = IF k <= Len(s) THEN s[k] ELSE t[k - Len(s)]
    BY ConcatProperties
<1> HIDE DEF u
<1>2. DOMAIN u = 1..Len(u)
    BY <1>1
<1> QED BY <1>1, <1>2 DEF u

LEMMA JoinedHas ==
    ASSUME NEW D, NEW s \in Seq(D), NEW t \in Seq(D)
    PROVE  ToSet(s \o t) = ToSet(s) \cup ToSet(t)
<1> DEFINE u == s \o t
<1>1. /\ DOMAIN u = 1..(Len(s) + Len(t))
      /\ DOMAIN s = 1..Len(s) /\ DOMAIN t = 1..Len(t) /\ Len(s) \in Nat /\ Len(t) \in Nat
      /\ \A k \in 1..(Len(s) + Len(t)) : u[k] = IF k <= Len(s) THEN s[k] ELSE t[k - Len(s)]
    BY Joined
<1> HIDE DEF u
<1>2. \A k \in 1..Len(s) : k \in DOMAIN u /\ u[k] = s[k]
    BY <1>1
<1>3. \A k \in 1..Len(t) : k + Len(s) \in DOMAIN u /\ u[k + Len(s)] = t[k]
    BY <1>1
<1>4. \A k \in DOMAIN u : \/ k \in 1..Len(s) /\ u[k] = s[k]
                          \/ k - Len(s) \in 1..Len(t) /\ u[k] = t[k - Len(s)]
    BY <1>1
<1>5. ToSet(s) \subseteq ToSet(u) /\ ToSet(t) \subseteq ToSet(u)
    <2>1. \A k \in DOMAIN s : s[k] \in ToSet(u)
        BY <1>1, <1>2 DEF ToSet
    <2>2. \A k \in DOMAIN t : t[k] \in ToSet(u)
        BY <1>1, <1>3 DEF ToSet
    <2> QED BY <2>1, <2>2 DEF ToSet
<1>6. ASSUME NEW k \in DOMAIN u PROVE u[k] \in ToSet(s) \cup ToSet(t)
    BY <1>1, <1>4 DEF ToSet
<1>7. ToSet(u) = ToSet(s) \cup ToSet(t)
    BY <1>5, <1>6 DEF ToSet
<1> QED BY <1>7 DEF u

LEMMA JoinedClimbs ==
    ASSUME NEW D \in SUBSET Nat, NEW s \in Seq(D), NEW t \in Seq(D), NEW n \in Nat, NEW kind,
           \A i \in DOMAIN s : s[i] <= n, \A i \in DOMAIN t : t[i] > n, Climbs(s, kind), Climbs(t, kind)
    PROVE  Climbs(s \o t, kind)
<1> DEFINE u == s \o t
<1>1. /\ DOMAIN u = 1..(Len(s) + Len(t))
      /\ DOMAIN s = 1..Len(s) /\ DOMAIN t = 1..Len(t) /\ Len(s) \in Nat /\ Len(t) \in Nat
      /\ \A k \in 1..(Len(s) + Len(t)) : u[k] = IF k <= Len(s) THEN s[k] ELSE t[k - Len(s)]
    BY Joined
<1> HIDE DEF u
<1>2. (\A k \in 1..Len(s) : s[k] \in Nat) /\ \A k \in 1..Len(t) : t[k] \in Nat
    <2>1. s \in [1..Len(s) -> D] /\ t \in [1..Len(t) -> D]
        OBVIOUS
    <2> QED BY <2>1
<1>3. SUFFICES ASSUME NEW i \in DOMAIN u, NEW j \in DOMAIN u, i < j
               PROVE  u[i] < u[j] \/ (kind = "related" /\ u[i] = u[j])
    BY DEF Climbs, u
<1>4. CASE j <= Len(s)
    <2>1. u[i] = s[i] /\ u[j] = s[j] /\ i \in DOMAIN s /\ j \in DOMAIN s
        BY <1>1, <1>3, <1>4
    <2> QED BY <1>3, <2>1 DEF Climbs
<1>5. CASE i <= Len(s) /\ ~(j <= Len(s))
    <2>1. u[i] = s[i] /\ u[j] = t[j - Len(s)] /\ i \in 1..Len(s) /\ j - Len(s) \in 1..Len(t)
        BY <1>1, <1>3, <1>5
    <2>2. s[i] \in Nat /\ t[j - Len(s)] \in Nat /\ s[i] <= n /\ t[j - Len(s)] > n
        BY <1>1, <1>2, <2>1
    <2> QED BY <2>1, <2>2
<1>6. CASE ~(i <= Len(s))
    <2>1. /\ u[i] = t[i - Len(s)] /\ u[j] = t[j - Len(s)]
          /\ i - Len(s) \in DOMAIN t /\ j - Len(s) \in DOMAIN t /\ i - Len(s) < j - Len(s)
        BY <1>1, <1>3, <1>6
    <2> QED BY <2>1 DEF Climbs
<1> QED BY <1>4, <1>5, <1>6

\* A page goes on from where the walk was.
LEMMA WalkGoesOn == ASSUME WalkInv, IsTable(grants), NextPage PROVE WalkInv'
<1> DEFINE q == walk.query
           after == walk.cursor.at
           p == PageOf(q, walk.cursor)
           owed == Owed(q, after)
           s == walk.seen
           t == p.items
           u == s \o t
           D == DOMAIN EventTable
<1>1. /\ walk' = WalkAt(p.state, q, p.cursor, u, walk.steady) /\ walk.state = "open"
      /\ UNCHANGED <<grants, present, deleted>>
    BY DEF NextPage
<1>2. /\ walk'.state = p.state /\ walk'.query = q /\ walk'.cursor = p.cursor
      /\ walk'.seen = u /\ walk'.steady = walk.steady
    <2> HIDE DEF p, q, s, t, u
    <2> QED BY <1>1, WalkFields
<1>3. /\ q \in ReadRequests /\ s \in Seq(D) /\ PagesAscend /\ present \subseteq D /\ OpenWalk
    BY <1>1 DEF WalkInv, GoodWalk, WalkIsExact
<1>4. GoodPage(p, q.kind, owed, after)
    BY <1>3, PageOfSound DEF OpenWalk
<1> HIDE DEF p, u
<1>5. t \in Seq(D) /\ Climbs(t, q.kind) /\ \A i \in DOMAIN t : t[i] > after
    BY <1>4 DEF GoodPage, Climbs
<1>6. after \in Nat /\ (\A i \in DOMAIN s : s[i] <= after) /\ D \in SUBSET Nat
    BY <1>3, ReadAssumption DEF OpenWalk
<1>7. Climbs(s, q.kind)
    <2>1. \A i \in DOMAIN s : s[i] \in Nat
        BY <1>3, <1>6
    <2> QED BY <1>1, <1>3, <2>1 DEF PagesAscend, Climbs, Rank
<1>8. u \in Seq(D) /\ ToSet(u) = ToSet(s) \cup ToSet(t) /\ Climbs(u, q.kind)
    <2> HIDE DEF s, t, D, q, after
    <2>1. s \o t \in Seq(D)
        BY <1>3, <1>5, ConcatProperties
    <2>2. ToSet(s \o t) = ToSet(s) \cup ToSet(t)
        BY <1>3, <1>5, JoinedHas
    <2> DEFINE kind == q.kind
    <2>3. Climbs(s, kind) /\ Climbs(t, kind)
        BY <1>5, <1>7
    <2> HIDE DEF kind
    <2>4. Climbs(s \o t, kind)
        BY <1>3, <1>5, <1>6, <2>3, JoinedClimbs
    <2> QED BY <2>1, <2>2, <2>4 DEF u, kind
<1>9. \A id \in walk.steady : id \in ToSet(s) \/ id \in owed
    BY <1>3 DEF OpenWalk, Owed
<1>10. PagesAscend'
    <2>1. \A i \in DOMAIN u : u[i] \in Nat
        BY <1>6, <1>8
    <2> QED BY <1>2, <1>8, <2>1 DEF PagesAscend, Climbs, Rank
<1>11. WalkMissesNothing'
    <2>1. p.state = "done" => owed \subseteq ToSet(t)
        BY <1>4 DEF GoodPage
    <2> QED BY <1>2, <1>8, <1>9, <2>1 DEF WalkMissesNothing
<1>12. ListingIsNeverTornDown'
    BY <1>2, <1>4 DEF GoodPage, ListingIsNeverTornDown
<1>13. p.state = "open" => OpenWalk'
    <2>1. SUFFICES ASSUME p.state = "open" PROVE OpenWalk'
        OBVIOUS
    <2>2. /\ p.cursor.at \in Nat /\ p.cursor.at >= after /\ \A i \in DOMAIN t : t[i] <= p.cursor.at
          /\ \A id \in owed : id > p.cursor.at \/ id \in ToSet(t)
        BY <1>4, <2>1 DEF GoodPage
    <2>3. \A i \in DOMAIN u : u[i] <= p.cursor.at
        <3>1. \A i \in DOMAIN s : s[i] \in Nat /\ s[i] <= p.cursor.at
            BY <1>3, <1>6, <2>2
        <3>2. \A id \in ToSet(u) : id <= p.cursor.at
            BY <1>8, <2>2, <3>1 DEF ToSet
        <3> QED BY <3>2 DEF ToSet
    <2>4. Wanted(walk.query, grants, Alive)' = Wanted(q, grants, Alive)
        <3>1. grants' = grants /\ Alive' = Alive
            BY <1>1 DEF Alive
        <3> QED BY <1>2, <3>1 DEF Wanted
    <2>5. \A id \in walk.steady : id \in ToSet(u) \/ id > p.cursor.at
        BY <1>8, <1>9, <2>2
    <2>6. walk.steady \subseteq Wanted(q, grants, Alive)
        BY <1>3 DEF OpenWalk
    <2> HIDE DEF q, s, t
    <2> QED BY <1>2, <2>2, <2>3, <2>4, <2>5, <2>6 DEF OpenWalk
<1>14. p.state \in {"idle", "open", "done", "denied", "mismatch", "boundary"}
    BY <1>4 DEF GoodPage
<1> HIDE DEF q, s, t
<1> QED BY <1>1, <1>2, <1>3, <1>8, <1>10, <1>11, <1>12, <1>13, <1>14 DEF WalkInv, GoodWalk, WalkIsExact

LEMMA WalkNext == ASSUME RowsInv, WalkInv, [AccessNext]_accessVars PROVE WalkInv'
<1>1. IsTable(grants) /\ present \subseteq DOMAIN EventTable
    BY DEF RowsInv, AreRows, WalkInv
<1>2. CASE UNCHANGED <<walk, grants, present, deleted>>
    BY <1>2 DEF WalkInv, GoodWalk, OpenWalk, WalkIsExact, WalkMissesNothing, PagesAscend, ListingIsNeverTornDown,
                Alive, Wanted
<1>3. CASE Watched /\ present' \subseteq DOMAIN EventTable
    BY <1>3, WalkWatched
<1>4. ASSUME NEW q \in ReadRequests, StartWalk(q) PROVE WalkInv'
    BY <1>4, WalkStarts
<1>5. CASE NextPage
    BY <1>1, <1>5, WalkGoesOn
<1>6. \/ \E a \in Admins, ev \in AdminRequests : Commit(a, ev)
      \/ Rebuild
      \/ \E id \in DOMAIN EventTable : Arrive(id) \/ Delete(id)
      => Watched /\ present' \subseteq DOMAIN EventTable
    BY <1>1 DEF Commit, Rebuild, Arrive, Delete
<1>7. \/ RebuildFails \/ \E a \in Admins : AppendEvent(a) \/ LoseEvent(a)
      \/ \E v \in Verifications : LoseVerification(v)
      \/ \E r \in WriteRequests : DecideWrite(r)
      \/ PerformWrite \/ UNCHANGED accessVars
      => UNCHANGED <<walk, grants, present, deleted>>
    BY DEF RebuildFails, LoseEvent, AppendEvent, LoseVerification, DecideWrite, PerformWrite, accessVars
<1> QED BY <1>2, <1>3, <1>4, <1>5, <1>6, <1>7 DEF AccessNext

\* A view that carries no spaces is covered by no more than the row is.
LEMMA LinkIsCovered ==
    ASSUME NEW id, NEW g, Opens(g, LinkedView(id))
    PROVE  Opens(g, EventTable[id])
BY DEF Opens, LinkedView

LEMMA ReadsStep ==
    ASSUME GrantsInv, RowsInv, WalkInv, NextPage, ~astray, \A a \in Admins : pending[a] = NoEvent,
           NEW i \in DOMAIN walk'.seen, i > Len(walk.seen),
           NEW r, r = walk.query.access, NEW e, e = EventTable[walk'.seen[i]]
    PROVE  \/ e.profile = r.requester
           \/ e.profile = None /\ r.includeGlobal /\ ~r.isolated
           \/ \E g \in LogGrants(r.requester, "READ") : Opens(g, e)
<1> DEFINE q == walk.query
           p == PageOf(q, walk.cursor)
           s == walk.seen
           t == p.items
           D == DOMAIN EventTable
           u == s \o t
<1>1. walk' = WalkAt(p.state, q, p.cursor, u, walk.steady) /\ walk.state = "open"
    BY DEF NextPage
<1>2. walk'.seen = u
    <2> HIDE DEF p, q, s, t, u
    <2> QED BY <1>1, WalkFields
<1>3. /\ q \in ReadRequests /\ s \in Seq(D) /\ present \subseteq D /\ IsTable(grants)
      /\ walk.cursor.at \in Nat
    BY <1>1 DEF WalkInv, GoodWalk, OpenWalk, RowsInv, AreRows
<1>4. GoodPage(p, q.kind, Owed(q, walk.cursor.at), walk.cursor.at)
    BY <1>3, PageOfSound
<1>5. ReadablePage(p, q, Gate(q.access, grants)) /\ (Gate(q.access, grants).allow \/ p.items = <<>>)
    BY <1>3, PageOfSound
<1> HIDE DEF p
<1>6. t \in Seq(D)
    BY <1>4 DEF GoodPage
<1> DEFINE id == walk'.seen[i]
<1>7. id \in ToSet(t)
    <2> HIDE DEF s, t, D
    <2>1. /\ DOMAIN (s \o t) = 1..(Len(s) + Len(t)) /\ DOMAIN t = 1..Len(t) /\ Len(s) \in Nat /\ Len(t) \in Nat
          /\ \A k \in 1..(Len(s) + Len(t)) : (s \o t)[k] = IF k <= Len(s) THEN s[k] ELSE t[k - Len(s)]
        BY <1>3, <1>6, Joined
    <2>2. i \in DOMAIN u /\ i > Len(s) /\ id = u[i]
        BY <1>2 DEF s
    <2> HIDE DEF u, id
    <2>3. i - Len(s) \in DOMAIN t /\ id = t[i - Len(s)]
        BY <2>1, <2>2 DEF u
    <2> QED BY <2>3 DEF ToSet
<1>8. Gate(r, grants).allow
    BY <1>5, <1>7 DEF ToSet
<1>9. Readable(Gate(r, grants), r.requester, e) \/ Readable(Gate(r, grants), r.requester, LinkedView(id))
    BY <1>5, <1>7 DEF ReadablePage, LinkReadable
<1>10. \A k \in Held(r, grants) : /\ grants[k] \in LogGrants(r.requester, "READ") /\ r.requester # None
    BY LiveIsLogged DEF Held, Reads
<1>11. \/ e.profile = r.requester
       \/ e.profile = None /\ r.includeGlobal /\ ~r.isolated
       \/ \E k \in Held(r, grants) : Opens(grants[k], e)
    <2>1. CASE Readable(Gate(r, grants), r.requester, e)
        BY <1>3, <1>8, <1>10, <2>1, ReadableIsCovered
    <2>2. CASE Readable(Gate(r, grants), r.requester, LinkedView(id))
        <3> DEFINE v == LinkedView(id)
        <3>1. v.profile = e.profile
            BY DEF LinkedView
        <3> HIDE DEF v, id
        <3>2. \/ v.profile = r.requester
              \/ v.profile = None /\ r.includeGlobal /\ ~r.isolated
              \/ \E k \in Held(r, grants) : Opens(grants[k], v)
            BY <1>3, <1>8, <1>10, <2>2, ReadableIsCovered DEF v
        <3> QED BY <3>1, <3>2, LinkIsCovered DEF v, id
    <2> QED BY <1>9, <2>1, <2>2
<1> QED BY <1>10, <1>11

LEMMA ReadsAreLogged ==
    ASSUME GrantsInv, RowsInv, WalkInv, [AccessNext]_accessVars
    PROVE  (walk.state = "open" /\ walk'.seen # walk.seen /\ ~astray /\ \A a \in Admins : pending[a] = NoEvent) =>
               LET r == walk.query.access IN
               \A i \in DOMAIN walk'.seen : i > Len(walk.seen) =>
                   LET e == EventTable[walk'.seen[i]] IN
                   \/ e.profile = r.requester
                   \/ e.profile = None /\ r.includeGlobal /\ ~r.isolated
                   \/ \E g \in LogGrants(r.requester, "READ") : Opens(g, e)
<1> SUFFICES ASSUME walk.state = "open", walk'.seen # walk.seen, ~astray, \A a \in Admins : pending[a] = NoEvent,
                    NEW i \in DOMAIN walk'.seen, i > Len(walk.seen)
             PROVE  LET r == walk.query.access
                        e == EventTable[walk'.seen[i]]
                    IN  \/ e.profile = r.requester
                        \/ e.profile = None /\ r.includeGlobal /\ ~r.isolated
                        \/ \E g \in LogGrants(r.requester, "READ") : Opens(g, e)
    OBVIOUS
<1>1. Watched => walk'.seen = walk.seen
    BY WalkFields DEF Watched
<1>2. NextPage
    BY <1>1 DEF AccessNext, accessVars, Commit, AppendEvent, LoseEvent, Rebuild, RebuildFails, Arrive, Delete,
                LoseVerification, StartWalk, DecideWrite, PerformWrite
<1> QED BY <1>2, ReadsStep

\* A finished walk is the listing, whatever was granted, revoked, ingested or
\* deleted between its pages.
THEOREM FinishedWalksAreExact == AccessSpec => []WalkIsExact
<1>1. GrantsInv /\ RowsInv /\ WalkInv /\ [AccessNext]_accessVars => RowsInv' /\ WalkInv'
    BY RowsNext, WalkNext
<1>2. WalkInv => WalkIsExact
    BY DEF WalkInv, GoodWalk
<1> QED BY <1>1, <1>2, GrantsInit, GrantsNext, RowsInit, WalkInit, PTL DEF AccessSpec

\* Nothing is read and nothing is written that the log does not allow.
THEOREM AccessIsLogged == AccessSpec => AccessFollowsTheLog
<1>1. GrantsInv /\ RowsInv /\ WalkInv /\ [AccessNext]_accessVars => RowsInv' /\ WalkInv'
    BY RowsNext, WalkNext
<1> DEFINE Reading == (walk.state = "open" /\ walk'.seen # walk.seen /\ ~astray /\ \A a \in Admins : pending[a] = NoEvent) =>
               LET r == walk.query.access IN
               \A i \in DOMAIN walk'.seen : i > Len(walk.seen) =>
                   LET e == EventTable[walk'.seen[i]] IN
                   \/ e.profile = r.requester
                   \/ e.profile = None /\ r.includeGlobal /\ ~r.isolated
                   \/ \E g \in LogGrants(r.requester, "READ") : Opens(g, e)
           Writing == (writing = NoWrite /\ writing'.grant # None /\ ~astray /\ \A a \in Admins : pending[a] = NoEvent) =>
               LET r == writing'.request
                   target == PrimaryTarget(r)
                   covering == {g \in LogGrants(r.requester, "WRITE") :
                                    g.type = target[1] /\ g.target = target[2] /\ r.resource \in g.resources \cup {None}}
               IN  /\ {g.id : g \in covering} = {writing'.grant}
                   /\ \A g \in covering : g.verification \in verified
<1>2. GrantsInv /\ RowsInv /\ WalkInv /\ [AccessNext]_accessVars => Reading
    BY ReadsAreLogged
<1>3. GrantsInv /\ RowsInv /\ [AccessNext]_accessVars => Writing
    BY WritesAreLogged
<1> HIDE DEF Reading, Writing
<1>4. AccessSpec => [][Reading]_accessVars /\ [][Writing]_accessVars
    BY <1>1, <1>2, <1>3, GrantsInit, GrantsNext, RowsInit, WalkInit, PTL DEF AccessSpec
<1> QED BY <1>4, PTL DEF AccessFollowsTheLog, ReadsFollowTheLog, WritesFollowTheLog, Reading, Writing
=============================================================================
