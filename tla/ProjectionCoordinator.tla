----------------------- MODULE ProjectionCoordinator -----------------------
(***************************************************************************)
(* The projection coordinator, src/storage/projection.py: client threads   *)
(* submit the sequence numbers of appended records, one worker thread      *)
(* projects (ingests) the canonical streams, and flush and close wait for  *)
(* the worker.                                                             *)
(*                                                                         *)
(* One action is one critical section of _condition, one operation of the  *)
(* queue, or one step of the worker between two of them.  submit is three  *)
(* of them: the queue is filled between its two critical sections.         *)
(*                                                                         *)
(* Calls that return without changing state (an invalid argument, submit   *)
(* on a closed or failed coordinator, snapshot) are not actions.  The      *)
(* projector is from_ingest: under the file lock it brings the derived     *)
(* store up to the end of the stream, or it raises.                        *)
(***************************************************************************)
EXTENDS Integers, Sequences, FiniteSets

CONSTANTS Sources,         \* source_id values
          Clients,         \* threads that call the coordinator
          QueueCapacity,   \* ProjectionConfig.queue_capacity
          MaxRecords,      \* bound: records a canonical stream can reach
          Sentinel,        \* _SENTINEL
          NoItem,          \* the worker holds nothing
          NoCall           \* a client is not inside a call

Notification == [source_id : Sources, canonical_sequence : Nat]

\* The deadline of a call: none, not reached, or reached.
Deadline == {"none", "ahead", "passed"}

Call == [op : {"submit"}, note : Notification] \cup [op : {"flush", "close"}, deadline : Deadline]

ASSUME CoordinatorAssumption ==
    /\ QueueCapacity \in Nat \ {0}
    /\ MaxRecords \in Nat
    /\ IsFiniteSet(Sources)
    /\ Sentinel \notin Notification
    /\ NoItem \notin Notification \cup {Sentinel}
    /\ NoCall \notin Call

VARIABLES
    tail,        \* the number of records in each canonical stream
    ingested,    \* the number of them the derived store has
    queue,       \* _queue
    unfinished,  \* _queue.unfinished_tasks
    deferred,    \* _deferred, as a set: its order is never used
    failed,      \* _failed
    closed,      \* _closed
    canonical,   \* _canonical_sequence
    derived,     \* _derived_sequence
    submitted,   \* _submitted; -1 where the dictionary has no entry
    worker,      \* where the worker thread is
    item,        \* what it took from the queue
    pc,          \* where each client is
    call         \* the call it is in

streams == <<tail, ingested>>
work == <<queue, unfinished>>
marks == <<canonical, derived, submitted>>
flags == <<failed, closed>>
clients == <<pc, call>>
vars == <<streams, work, deferred, flags, marks, worker, item, clients>>

-----------------------------------------------------------------------------
AtLeast(a, b) == IF a >= b THEN a ELSE b

HasDeferred(s) == \E d \in deferred : d.source_id = s

\* What flush waits for to end.
Busy == unfinished > 0 \/ deferred # {}

\* snapshot().status.
SnapshotStatus ==
    CASE closed -> "PROJECTION_CLOSED"
      [] ~closed /\ failed -> "DERIVED_UNAVAILABLE"
      [] ~closed /\ ~failed /\ derived >= canonical /\ ~Busy -> "DERIVED_CURRENT"
      [] OTHER -> "DERIVED_PENDING"

\* Client c goes on at step next; every thread waiting on the condition wakes.
NotifyAll(c, next) ==
    pc' = [d \in Clients |-> IF d = c THEN next ELSE IF pc[d] = "wait" THEN "flush" ELSE pc[d]]

WakeAll == pc' = [d \in Clients |-> IF pc[d] = "wait" THEN "flush" ELSE pc[d]]

Goto(c, next) == pc' = [pc EXCEPT ![c] = next]

Return(c) == Goto(c, "idle") /\ call' = [call EXCEPT ![c] = NoCall]

Enqueue(x) == queue' = Append(queue, x) /\ unfinished' = unfinished + 1

\* queue.task_done
TaskDone == unfinished' = unfinished - 1

\* A new coordinator over streams of which the derived store has a part.
Init ==
    /\ tail \in [Sources -> 0 .. MaxRecords]
    /\ ingested \in [Sources -> 0 .. MaxRecords]
    /\ \A s \in Sources : ingested[s] <= tail[s]
    /\ queue = <<>> /\ unfinished = 0 /\ deferred = {}
    /\ failed = FALSE /\ closed = FALSE
    /\ canonical = 0 /\ derived = 0
    /\ submitted = [s \in Sources |-> -1]
    /\ worker = "unstarted" /\ item = NoItem
    /\ pc = [c \in Clients |-> "idle"]
    /\ call = [c \in Clients |-> NoCall]

\* The capture store appends a record.
Append1(s) ==
    /\ tail[s] < MaxRecords
    /\ tail' = [tail EXCEPT ![s] = @ + 1]
    /\ UNCHANGED <<ingested, work, deferred, flags, marks, worker, item, clients>>

Start ==
    /\ worker = "unstarted" /\ ~closed
    /\ worker' = "get"
    /\ UNCHANGED <<streams, work, deferred, flags, marks, item, clients>>

-----------------------------------------------------------------------------
(***************************************************************************)
(* submit                                                                  *)
(***************************************************************************)

\* The first critical section.  A sequence number already submitted is answered
\* at once, unless the source has deferred work.
Submit(c, s, n) ==
    /\ pc[c] = "idle"
    /\ n < tail[s]
    /\ ~closed /\ ~failed /\ worker # "unstarted"
    /\ canonical' = AtLeast(canonical, n)
    /\ \/ /\ n <= submitted[s] /\ ~HasDeferred(s)
          /\ UNCHANGED <<submitted, clients>>
       \/ /\ n > submitted[s] \/ HasDeferred(s)
          /\ submitted' = [submitted EXCEPT ![s] = n]
          /\ Goto(c, "put")
          /\ call' = [call EXCEPT ![c] =
                 [op |-> "submit", note |-> [source_id |-> s, canonical_sequence |-> n]]]
    /\ UNCHANGED <<streams, work, deferred, flags, derived, worker, item>>

\* put_nowait, outside the condition.
Put(c) ==
    /\ pc[c] = "put"
    /\ \/ /\ Len(queue) < QueueCapacity
          /\ Enqueue(call[c].note)
          /\ Goto(c, "settle")
       \/ /\ Len(queue) >= QueueCapacity
          /\ Goto(c, "defer")
          /\ UNCHANGED work
    /\ UNCHANGED <<streams, deferred, flags, marks, worker, item, call>>

\* queue.Full: replace the source's deferred work, or add to it, or give up
\* (DERIVED_UNAVAILABLE, the number stays in _submitted).
Defer(c) ==
    LET note == call[c].note
        Newer(d) == d.source_id = note.source_id /\ note.canonical_sequence > d.canonical_sequence
    IN  /\ pc[c] = "defer"
        /\ call' = [call EXCEPT ![c] = NoCall]
        /\ \/ /\ HasDeferred(note.source_id)
              /\ deferred' = {IF Newer(d) THEN note ELSE d : d \in deferred}
              /\ NotifyAll(c, "idle")
           \/ /\ ~HasDeferred(note.source_id) /\ Cardinality(deferred) >= QueueCapacity
              /\ Goto(c, "idle")
              /\ UNCHANGED deferred
           \/ /\ ~HasDeferred(note.source_id) /\ Cardinality(deferred) < QueueCapacity
              /\ deferred' = deferred \cup {note}
              /\ NotifyAll(c, "idle")
        /\ UNCHANGED <<streams, work, flags, marks, worker, item>>

\* Mutant: all deferred work of the source is dropped, newer work too.
SupersededBySource(d, note) == d.source_id = note.source_id

Superseded(d, note) ==
    d.source_id = note.source_id /\ d.canonical_sequence <= note.canonical_sequence

\* The last critical section: the queued notification supersedes deferred work.
Settle(c) ==
    /\ pc[c] = "settle"
    /\ deferred' = {d \in deferred : ~Superseded(d, call[c].note)}
    /\ NotifyAll(c, "idle") /\ call' = [call EXCEPT ![c] = NoCall]
    /\ UNCHANGED <<streams, work, flags, marks, worker, item>>

-----------------------------------------------------------------------------
(***************************************************************************)
(* flush and close                                                         *)
(***************************************************************************)

Flush(c, deadline) ==
    /\ pc[c] = "idle"
    /\ Goto(c, "flush")
    /\ call' = [call EXCEPT ![c] = [op |-> "flush", deadline |-> deadline]]
    /\ UNCHANGED <<streams, work, deferred, flags, marks, worker, item>>

\* close, which flushes first if there is a worker.
Close(c, deadline) ==
    /\ pc[c] = "idle" /\ ~closed
    /\ closed' = TRUE
    /\ \/ worker = "unstarted" /\ UNCHANGED clients
       \/ /\ worker # "unstarted"
          /\ Goto(c, "flush")
          /\ call' = [call EXCEPT ![c] = [op |-> "close", deadline |-> deadline]]
    /\ UNCHANGED <<streams, work, deferred, failed, marks, worker, item>>

\* flush returns to its caller, which may be close.
FlushReturn(c) == IF call[c].op = "flush" THEN Return(c) ELSE Goto(c, "stop") /\ UNCHANGED call

\* One turn of the loop in flush.
FlushCheck(c) ==
    /\ pc[c] = "flush"
    /\ \/ /\ ~Busy \/ failed \/ call[c].deadline = "passed"
          /\ FlushReturn(c)
       \/ /\ Busy /\ ~failed /\ call[c].deadline # "passed"
          /\ Goto(c, "wait") /\ UNCHANGED call
    /\ UNCHANGED <<streams, work, deferred, flags, marks, worker, item>>

\* The deadline passes, which ends a wait.
DeadlinePasses(c) ==
    /\ pc[c] \in {"flush", "wait", "stop", "join"}
    /\ call[c].deadline = "ahead"
    /\ call' = [call EXCEPT ![c].deadline = "passed"]
    /\ Goto(c, IF pc[c] = "wait" THEN "flush" ELSE pc[c])
    /\ UNCHANGED <<streams, work, deferred, flags, marks, worker, item>>

\* Mutant: the loop looks at the queue only.
StopUntilPut(c) ==
    /\ pc[c] = "stop"
    /\ \/ worker = "dead" /\ Return(c) /\ UNCHANGED work
       \/ /\ worker # "dead" /\ Len(queue) < QueueCapacity
          /\ Enqueue(Sentinel)
          /\ Goto(c, "join") /\ UNCHANGED call
    /\ UNCHANGED <<streams, deferred, flags, marks, worker, item>>

\* The loop that puts the sentinel: it ends when the worker is dead, the queue
\* has room or the deadline has passed.
Stop(c) ==
    /\ pc[c] = "stop"
    /\ \/ worker = "dead" /\ Return(c) /\ UNCHANGED work
       \/ /\ worker # "dead" /\ Len(queue) < QueueCapacity
          /\ Enqueue(Sentinel)
          /\ Goto(c, "join") /\ UNCHANGED call
       \/ /\ worker # "dead" /\ Len(queue) >= QueueCapacity /\ call[c].deadline = "passed"
          /\ Return(c) /\ UNCHANGED work
    /\ UNCHANGED <<streams, deferred, flags, marks, worker, item>>

Join(c) ==
    /\ pc[c] = "join"
    /\ worker = "dead" \/ call[c].deadline = "passed"
    /\ Return(c)
    /\ UNCHANGED <<streams, work, deferred, flags, marks, worker, item>>

-----------------------------------------------------------------------------
(***************************************************************************)
(* The worker: _run and _drain_after_failure                               *)
(***************************************************************************)

Get ==
    /\ worker = "get" /\ queue # <<>>
    /\ item' = Head(queue) /\ queue' = Tail(queue)
    /\ worker' = IF Head(queue) = Sentinel THEN "stopping" ELSE "project"
    /\ UNCHANGED <<streams, unfinished, deferred, flags, marks, clients>>

\* ingest_file under both locks: it reads the stream to its end.
Ingest ==
    /\ worker = "project"
    /\ ingested' = [ingested EXCEPT ![item.source_id] = tail[item.source_id]]
    /\ worker' = "publish"
    /\ UNCHANGED <<tail, work, deferred, flags, marks, item, clients>>

\* The projector returned the last sequence number of its source.
Publish ==
    /\ worker = "publish"
    /\ ingested[item.source_id] > item.canonical_sequence
    /\ derived' = AtLeast(derived, ingested[item.source_id] - 1)
    /\ worker' = "done"
    /\ UNCHANGED <<streams, work, deferred, flags, canonical, submitted, item, clients>>

\* The projector raised, before or after it changed the derived store, or it
\* returned a number below the notification's.
ProjectFails ==
    /\ worker \in {"project", "publish"}
    /\ failed' = TRUE
    /\ worker' = "failing"
    /\ UNCHANGED <<streams, work, deferred, closed, marks, item, clients>>

ItemDone ==
    /\ worker \in {"done", "stopping", "failing"}
    /\ TaskDone
    /\ item' = NoItem
    /\ worker' = CASE worker = "done" -> "notify"
                   [] worker = "stopping" -> "notifyStopped"
                   [] worker = "failing" -> "drain"
    /\ UNCHANGED <<streams, queue, deferred, flags, marks, clients>>

\* Mutant: drained items are not marked done.
DrainUncounted ==
    /\ worker = "drain"
    /\ \/ queue = <<>> /\ worker' = "notifyFailed" /\ UNCHANGED work
       \/ /\ queue # <<>>
          /\ queue' = Tail(queue) /\ UNCHANGED unfinished
          /\ worker' = IF Head(queue) = Sentinel THEN "notifyFailed" ELSE "drain"
    /\ UNCHANGED <<streams, deferred, flags, marks, item, clients>>

\* One get_nowait of the drain after a failure, and its task_done.
Drain ==
    /\ worker = "drain"
    /\ \/ queue = <<>> /\ worker' = "notifyFailed" /\ UNCHANGED work
       \/ /\ queue # <<>>
          /\ queue' = Tail(queue) /\ TaskDone
          /\ worker' = IF Head(queue) = Sentinel THEN "notifyFailed" ELSE "drain"
    /\ UNCHANGED <<streams, deferred, flags, marks, item, clients>>

\* Mutant: only a success notifies.
NotifyOnSuccess ==
    /\ worker \in {"notify", "notifyStopped", "notifyFailed"}
    /\ IF worker = "notify" THEN WakeAll ELSE UNCHANGED pc
    /\ worker' = IF worker = "notify" THEN "get" ELSE "dead"
    /\ UNCHANGED <<streams, work, deferred, flags, marks, item, call>>

\* Mutant: the worker ends after one item.
NotifyAndEnd ==
    /\ worker \in {"notify", "notifyStopped", "notifyFailed"}
    /\ WakeAll
    /\ worker' = "dead"
    /\ UNCHANGED <<streams, work, deferred, flags, marks, item, call>>

Notify ==
    /\ worker \in {"notify", "notifyStopped", "notifyFailed"}
    /\ WakeAll
    /\ worker' = IF worker = "notify" THEN "get" ELSE "dead"
    /\ UNCHANGED <<streams, work, deferred, flags, marks, item, call>>

-----------------------------------------------------------------------------
ClientStep(c) ==
    Put(c) \/ Defer(c) \/ Settle(c) \/ FlushCheck(c) \/ Stop(c) \/ Join(c)

WorkerStep == Get \/ Ingest \/ Publish \/ ProjectFails \/ ItemDone \/ Drain \/ Notify

Next ==
    \/ \E s \in Sources : Append1(s)
    \/ Start
    \/ \E c \in Clients :
           \/ \E s \in Sources : \E n \in 0 .. MaxRecords - 1 : Submit(c, s, n)
           \/ \E d \in {"none", "ahead"} : Flush(c, d) \/ Close(c, d)
           \/ ClientStep(c) \/ DeadlinePasses(c)
    \/ WorkerStep

Spec == Init /\ [][Next]_vars

\* Threads that can go on do, and time passes.  The worker may hang inside the
\* projector: nothing says how long an ingest takes.
ClientFairness == \A c \in Clients : WF_vars(ClientStep(c)) /\ WF_vars(DeadlinePasses(c))

TimedSpec == Spec /\ ClientFairness

-----------------------------------------------------------------------------
(***************************************************************************)
(* Properties.                                                             *)
(***************************************************************************)

WorkerSteps == {"unstarted", "get", "project", "publish", "done", "notify", "stopping",
                "notifyStopped", "failing", "drain", "notifyFailed", "dead"}

ClientSteps == {"idle", "put", "defer", "settle", "flush", "wait", "stop", "join"}

TypeOK ==
    /\ tail \in [Sources -> Nat] /\ ingested \in [Sources -> Nat]
    /\ queue \in Seq(Notification \cup {Sentinel})
    /\ unfinished \in Nat
    /\ deferred \in SUBSET Notification
    /\ failed \in BOOLEAN /\ closed \in BOOLEAN
    /\ canonical \in Nat /\ derived \in Nat
    /\ submitted \in [Sources -> Int]
    /\ worker \in WorkerSteps
    /\ item \in Notification \cup {Sentinel, NoItem}
    /\ pc \in [Clients -> ClientSteps]
    /\ call \in [Clients -> Call \cup {NoCall}]

\* unfinished_tasks, which flush and snapshot go by, is exactly the items in the
\* queue and in the worker's hand, whoever puts while a failed worker drains
\* (get, task_done and _drain_after_failure): task_done is never called once too
\* often, which would raise in the worker, nor once too seldom.
Working == {"project", "publish", "done", "stopping", "failing"}

UnfinishedIsExact ==
    /\ unfinished = Len(queue) + IF worker \in Working THEN 1 ELSE 0
    /\ Len(queue) <= QueueCapacity
    /\ (item = NoItem) = (worker \notin Working)

\* However submits interleave between their two critical sections, no source
\* is deferred twice, and deferred work never outgrows the bound (a deque with
\* maxlen would drop its oldest entry without a word).
DeferredIsBounded ==
    /\ Cardinality(deferred) <= QueueCapacity
    /\ \A d, e \in deferred : d.source_id = e.source_id => d = e

\* A notification of at least n for source s is somewhere on its way.
Covers(x, s, n) == x \in Notification /\ x.source_id = s /\ x.canonical_sequence >= n

OnItsWay(s, n) ==
    \/ \E i \in DOMAIN queue : Covers(queue[i], s, n)
    \/ \E d \in deferred : Covers(d, s, n)
    \/ worker \in {"project", "publish"} /\ Covers(item, s, n)
    \/ \E c \in Clients : pc[c] \in {"put", "defer"} /\ Covers(call[c].note, s, n)

\* No submission is forgotten while the worker is well: what submit recorded of
\* a source is ingested, queued, deferred, in the worker's hand or still in a
\* submit.  (A source that finds the deferred list full of other sources is
\* told DERIVED_UNAVAILABLE, which needs more sources than the list has places.)
SubmittedIsNotForgotten ==
    ~failed /\ Cardinality(Sources) <= QueueCapacity =>
        \A s \in Sources : submitted[s] < ingested[s] \/ OnItsWay(s, submitted[s])

\* A watermark above zero was ingested: snapshot, sync and health never show
\* derived data that is not there, whatever was submitted during an ingest.
WatermarkIsIngested == derived > 0 => \E s \in Sources : derived < ingested[s]

\* No wake-up is lost: a thread asleep in flush has work to wait for, or the
\* worker is on its way to notify it (task_done and the failure flag change
\* outside the notifying critical section).
SleeperWillBeWoken ==
    \A c \in Clients : pc[c] = "wait" =>
        \/ Busy /\ ~failed
        \/ worker \in {"failing", "drain", "notify", "notifyStopped", "notifyFailed"}

\* flush is served: what it waits for is counted exactly, so that it neither
\* returns early nor waits for ever, and the notification it waits for comes.
FlushIsServed == UnfinishedIsExact /\ SleeperWillBeWoken

\* A call with a deadline returns, whatever the worker does: also when it hangs
\* in the projector with a full queue, or died.
TimedCallsReturn ==
    \A c \in Clients :
        (call[c] # NoCall /\ call[c].op # "submit" /\ call[c].deadline # "none") ~> call[c] = NoCall

\* A notification that is in the queue while the worker still takes items is
\* projected, or the coordinator fails, if ingests end: close lets the worker
\* come to the sentinel and does not cut off what was queued before it.
QueuedAhead(s, n) ==
    /\ worker \notin {"stopping", "notifyStopped", "dead"}
    /\ \E i \in DOMAIN queue :
           /\ queue[i] = [source_id |-> s, canonical_sequence |-> n]
           /\ \A j \in 1 .. i : queue[j] # Sentinel

EnqueuedIsProjected == WF_vars(WorkerStep) =>
    \A s \in Sources : \A n \in 0 .. MaxRecords - 1 :
        QueuedAhead(s, n) ~> n < ingested[s] \/ failed
=============================================================================
