------------------------------ MODULE Sidecar ------------------------------
(***************************************************************************)
(* ZeroMemSidecar of src/src/integration/sidecar.py: callers hand requests *)
(* to a dispatcher on a pool of threads, under a bound on the requests     *)
(* admitted, each with a deadline, and may close the sidecar meanwhile.    *)
(*                                                                         *)
(* One process of the model is one call of handle.  Requests that are      *)
(* refused before admission change nothing and are left out, and so are    *)
(* the counters, which only repeat the outcomes.  The pool is Python's     *)
(* ThreadPoolExecutor as the sidecar uses it: a FIFO of work, a future     *)
(* whose done callback runs after its waiters may see the result.          *)
(***************************************************************************)
EXTENDS Naturals, Sequences, FiniteSets

CONSTANTS
    Requests,        \* calls of handle
    Closers,         \* calls of close
    MaxConcurrency,  \* pool threads
    MaxQueue         \* further requests admitted

ASSUME BoundsAssumption ==
    /\ MaxConcurrency \in Nat \ {0} /\ MaxQueue \in Nat
    /\ IsFiniteSet(Requests)

VARIABLES
    pc,        \* where each call of handle is
    status,    \* its result
    late,      \* the calls whose deadline has passed
    patient,   \* the calls made with wait_timeout # 0
    asleep,    \* the calls that wait on _admission_condition
    admitted,  \* _admitted
    closed,    \* _closed
    futures,   \* _futures
    work,      \* state of each call's future
    queue,     \* the executor's work queue
    called,    \* the futures whose done callback has run
    closing,   \* where each call of close is
    owned,     \* the futures each call of close saw
    shut       \* the executor takes and keeps no more work

callers == <<pc, status, late, patient>>
admission == <<asleep, admitted, closed, futures>>
pool == <<work, queue, called, shut>>
closers == <<closing, owned>>
vars == <<callers, admission, pool, closers>>

AdmissionCapacity == MaxConcurrency + MaxQueue

Done == {"finished", "raised", "refused", "cancelled"}
Running == {r \in Requests : work[r] \in {"started", "dispatching"}}

\* Pool threads with work in hand, the callback of ended work included.
Busy == Running \cup {r \in Requests : work[r] \in Done \ {"cancelled"} /\ r \notin called}

Init ==
    /\ pc = [r \in Requests |-> "idle"]
    /\ status = [r \in Requests |-> "none"]
    /\ late = {} /\ patient = {} /\ asleep = {} /\ futures = {}
    /\ admitted = 0
    /\ closed = FALSE
    /\ work = [r \in Requests |-> "none"]
    /\ queue = <<>>
    /\ called = {}
    /\ shut = FALSE
    /\ closing = [c \in Closers |-> "idle"]
    /\ owned = [c \in Closers |-> {}]

Goto(r, where) == pc' = [pc EXCEPT ![r] = where]

Return(r, what) ==
    /\ Goto(r, "returned")
    /\ status' = [status EXCEPT ![r] = what]

-----------------------------------------------------------------------------
(***************************************************************************)
(* handle.                                                                 *)
(***************************************************************************)

\* A well-formed request on a sidecar that was open a moment ago.
Handle(r) ==
    /\ pc[r] = "idle" /\ ~closed
    /\ Goto(r, "acquire")
    /\ \/ patient' = patient \cup {r} /\ UNCHANGED late
       \/ late' = late \cup {r} /\ UNCHANGED patient
    /\ UNCHANGED <<status, admission, pool, closers>>

\* The deadline of a call passes; a sleeper wakes.
DeadlinePasses(r) ==
    /\ pc[r] \notin {"idle", "returned"} /\ r \notin late
    /\ late' = late \cup {r}
    /\ asleep' = asleep \ {r}
    /\ UNCHANGED <<pc, status, patient, admitted, closed, futures, pool, closers>>

\* One turn of the loop of _acquire_admission.
Acquire(r) ==
    /\ pc[r] = "acquire" /\ r \notin asleep
    /\ \/ /\ closed
          /\ Return(r, "closed")
          /\ UNCHANGED <<asleep, admitted>>
       \/ /\ ~closed /\ admitted < AdmissionCapacity
          /\ admitted' = admitted + 1
          /\ Goto(r, "submit")
          /\ UNCHANGED <<asleep, status>>
       \/ /\ ~closed /\ admitted >= AdmissionCapacity /\ r \in late
          /\ Return(r, IF r \in patient THEN "deadline_exceeded" ELSE "overloaded")
          /\ UNCHANGED <<asleep, admitted>>
       \/ /\ ~closed /\ admitted >= AdmissionCapacity /\ r \notin late
          /\ asleep' = asleep \cup {r}
          /\ UNCHANGED <<pc, status, admitted>>
    /\ UNCHANGED <<late, patient, closed, futures, pool, closers>>

\* A slot comes back: everyone asleep is notified.
Release ==
    /\ admitted' = admitted - 1
    /\ asleep' = {}

\* Mutant: the slot of a call that found the sidecar closed is kept.
SubmitKeepsSlot(r) ==
    /\ pc[r] = "submit"
    /\ \/ /\ closed
          /\ Return(r, "closed")
          /\ UNCHANGED <<asleep, admitted, futures, work, queue>>
       \/ /\ ~closed
          /\ work' = [work EXCEPT ![r] = "pending"]
          /\ queue' = Append(queue, r)
          /\ futures' = futures \cup {r}
          /\ Goto(r, "wait")
          /\ UNCHANGED <<asleep, admitted, status>>
    /\ UNCHANGED <<late, patient, closed, called, shut, closers>>

\* Admitted: submit the work, unless the sidecar was closed in between.
Submit(r) ==
    /\ pc[r] = "submit"
    /\ \/ /\ closed
          /\ Release
          /\ Return(r, "closed")
          /\ UNCHANGED <<futures, work, queue>>
       \/ /\ ~closed
          /\ work' = [work EXCEPT ![r] = "pending"]
          /\ queue' = Append(queue, r)
          /\ futures' = futures \cup {r}
          /\ Goto(r, "wait")
          /\ UNCHANGED <<asleep, admitted, status>>
    /\ UNCHANGED <<late, patient, closed, called, shut, closers>>

\* The executor refuses (RuntimeError at interpreter shutdown).
SubmitFails(r) ==
    /\ pc[r] = "submit" /\ ~closed
    /\ Release
    /\ Return(r, "unavailable")
    /\ UNCHANGED <<late, patient, closed, futures, pool, closers>>

\* Mutant: future.result waits without a timeout.
ResultWithoutTimeout(r) ==
    /\ pc[r] = "wait"
    /\ \/ /\ work[r] = "finished" \/ work[r] = "refused"
          /\ Goto(r, "answer")
          /\ UNCHANGED status
       \/ work[r] = "raised" /\ Return(r, "downstream_error")
       \/ work[r] = "cancelled" /\ Return(r, "closed")
    /\ UNCHANGED <<late, patient, admission, pool, closers>>

\* future.result: an answer, an exception, or the deadline.
Result(r) ==
    /\ pc[r] = "wait"
    /\ \/ /\ work[r] = "finished" \/ work[r] = "refused"
          /\ Goto(r, "answer")
          /\ UNCHANGED status
       \/ work[r] = "raised" /\ Return(r, "downstream_error")
       \/ work[r] = "cancelled" /\ Return(r, "closed")
       \/ /\ work[r] \notin Done /\ r \in late
          /\ Goto(r, "timeout")
          /\ UNCHANGED status
    /\ UNCHANGED <<late, patient, admission, pool, closers>>

\* future.cancel succeeds on work nobody has started.
Cancelled(R) == [r \in Requests |-> IF r \in R /\ work[r] = "pending" THEN "cancelled" ELSE work[r]]

\* Mutant: a call that times out leaves its work in the queue.
TimeOutOnly(r) ==
    /\ pc[r] = "timeout"
    /\ Return(r, "deadline_exceeded")
    /\ UNCHANGED <<late, patient, admission, pool, closers>>

\* The call gives up and cancels its work if it has not started.
TimeOut(r) ==
    /\ pc[r] = "timeout"
    /\ work' = Cancelled({r})
    /\ Return(r, "deadline_exceeded")
    /\ UNCHANGED <<late, patient, admission, queue, called, shut, closers>>

\* Mutant: the answer is given without another look at _closed.
AnswerAnyway(r) ==
    /\ pc[r] = "answer"
    /\ \/ work[r] = "refused" /\ Return(r, "downstream_error")
       \/ work[r] = "finished" /\ \E what \in {"ok", "downstream_error"} : Return(r, what)
    /\ UNCHANGED <<late, patient, admission, pool, closers>>

\* What came back is checked once more against _closed, then against the
\* bounds of an answer.
Answer(r) ==
    /\ pc[r] = "answer"
    /\ \/ closed /\ Return(r, "closed")
       \/ ~closed /\ work[r] = "refused" /\ Return(r, "downstream_error")
       \/ /\ ~closed /\ work[r] = "finished"
          /\ \E what \in {"ok", "downstream_error", "payload_too_large"} : Return(r, what)
    /\ UNCHANGED <<late, patient, admission, pool, closers>>

-----------------------------------------------------------------------------
(***************************************************************************)
(* The pool and _future_done.                                              *)
(***************************************************************************)

\* A free thread takes the next work; cancelled work is passed over.
Take ==
    /\ queue # <<>> /\ Cardinality(Busy) < MaxConcurrency
    /\ queue' = Tail(queue)
    /\ work' = [work EXCEPT ![Head(queue)] = IF @ = "pending" THEN "started" ELSE @]
    /\ UNCHANGED <<callers, admission, called, shut, closers>>

\* _dispatch_if_open.
Dispatch(r) ==
    /\ work[r] = "started"
    /\ work' = [work EXCEPT ![r] = IF closed THEN "refused" ELSE "dispatching"]
    /\ UNCHANGED <<callers, admission, queue, called, shut, closers>>

DispatchEnds(r) ==
    /\ work[r] = "dispatching"
    /\ \E end \in {"finished", "raised"} : work' = [work EXCEPT ![r] = end]
    /\ UNCHANGED <<callers, admission, queue, called, shut, closers>>

\* Mutant: the slot comes back without a word.
FutureDoneSilently(r) ==
    /\ work[r] \in Done /\ r \notin called
    /\ called' = called \cup {r}
    /\ futures' = futures \ {r}
    /\ admitted' = admitted - 1
    /\ UNCHANGED <<asleep, closed, callers, work, queue, shut, closers>>

\* Mutant: the slot comes back when the caller is gone, done or not.
FutureDoneEarly(r) ==
    /\ work[r] \in Done \/ (pc[r] = "returned" /\ r \in futures)
    /\ r \notin called
    /\ called' = called \cup {r}
    /\ futures' = futures \ {r}
    /\ Release
    /\ UNCHANGED <<closed, callers, work, queue, shut, closers>>

\* Mutant: work that raised is not accounted for.
FutureDoneUnlessRaised(r) ==
    /\ work[r] \in Done \ {"raised"} /\ r \notin called
    /\ called' = called \cup {r}
    /\ futures' = futures \ {r}
    /\ Release
    /\ UNCHANGED <<closed, callers, work, queue, shut, closers>>

\* The done callback, in the thread that ended or cancelled the work.
FutureDone(r) ==
    /\ work[r] \in Done /\ r \notin called
    /\ called' = called \cup {r}
    /\ futures' = futures \ {r}
    /\ Release
    /\ UNCHANGED <<closed, callers, work, queue, shut, closers>>

-----------------------------------------------------------------------------
(***************************************************************************)
(* close.                                                                  *)
(***************************************************************************)

Close(c) ==
    /\ closing[c] = "idle"
    /\ \/ /\ closed
          /\ closing' = [closing EXCEPT ![c] = "complete"]
          /\ UNCHANGED <<closed, asleep, owned>>
       \/ /\ ~closed
          /\ closed' = TRUE
          /\ asleep' = {}
          /\ owned' = [owned EXCEPT ![c] = futures]
          /\ closing' = [closing EXCEPT ![c] = "cancel"]
    /\ UNCHANGED <<callers, admitted, futures, pool>>

\* Cancel what has not started and shut the executor down without waiting.
Shutdown(c) ==
    /\ closing[c] = "cancel"
    /\ work' = Cancelled(owned[c])
    /\ queue' = <<>>
    /\ shut' = TRUE
    /\ closing' = [closing EXCEPT ![c] = "await"]
    /\ UNCHANGED <<callers, admission, called, owned>>

\* Mutant: the futures still known are looked at, not the ones seen before.
AwaitRemaining(c) ==
    /\ closing[c] = "await"
    /\ \/ /\ \A r \in owned[c] : work[r] \in Done \/ pc[r] = "returned"
          /\ closing' = [closing EXCEPT ![c] = "complete"]
       \/ /\ \E r \in owned[c] : work[r] \notin Done
          /\ closing' = [closing EXCEPT ![c] = "incomplete"]
    /\ UNCHANGED <<callers, admission, pool, owned>>

\* Every owned future is done, or the timeout passes before that.
Await(c) ==
    /\ closing[c] = "await"
    /\ \/ /\ \A r \in owned[c] : work[r] \in Done
          /\ closing' = [closing EXCEPT ![c] = "complete"]
       \/ /\ \E r \in owned[c] : work[r] \notin Done
          /\ closing' = [closing EXCEPT ![c] = "incomplete"]
    /\ UNCHANGED <<callers, admission, pool, owned>>

-----------------------------------------------------------------------------
HandleStep(r) ==
    \/ Acquire(r) \/ Submit(r) \/ SubmitFails(r) \/ Result(r) \/ TimeOut(r) \/ Answer(r)

CloseStep(c) == Shutdown(c) \/ Await(c)

PoolStep == Take \/ \E r \in Requests : Dispatch(r) \/ FutureDone(r)

Next ==
    \/ \E r \in Requests : Handle(r) \/ DeadlinePasses(r) \/ HandleStep(r) \/ DispatchEnds(r)
    \/ \E c \in Closers : Close(c) \/ CloseStep(c)
    \/ PoolStep

Spec == Init /\ [][Next]_vars

\* Threads run, deadlines pass; the dispatcher may hang.
CallFairness ==
    \A r \in Requests : WF_vars(HandleStep(r)) /\ WF_vars(DeadlinePasses(r))

CallSpec == Spec /\ CallFairness

\* The pool's threads run and the dispatcher returns.
PoolFairness ==
    /\ WF_vars(Take)
    /\ \A r \in Requests : WF_vars(Dispatch(r)) /\ WF_vars(FutureDone(r)) /\ WF_vars(DispatchEnds(r))
    /\ \A c \in Closers : WF_vars(CloseStep(c))

-----------------------------------------------------------------------------
(***************************************************************************)
(* Properties.                                                             *)
(***************************************************************************)

Statuses == {"none", "ok", "closed", "overloaded", "deadline_exceeded", "unavailable",
             "downstream_error", "payload_too_large"}

\* Every variable has its type.
TypeOK ==
    /\ pc \in [Requests -> {"idle", "acquire", "submit", "wait", "timeout", "answer", "returned"}]
    /\ status \in [Requests -> Statuses]
    /\ late \subseteq Requests /\ patient \subseteq Requests
    /\ asleep \subseteq Requests /\ futures \subseteq Requests /\ called \subseteq Requests
    /\ admitted \in 0 .. AdmissionCapacity
    /\ closed \in BOOLEAN /\ shut \in BOOLEAN
    /\ work \in [Requests -> {"none", "pending", "started", "dispatching"} \cup Done]
    /\ queue \in Seq(Requests)
    /\ closing \in [Closers -> {"idle", "cancel", "await", "complete", "incomplete"}]
    /\ owned \in [Closers -> SUBSET Requests]

\* _admitted counts the calls between admission and submission and the futures
\* whose callback has not run, on every path through handle, the pool, close.
AdmissionIsExact ==
    /\ futures = {r \in Requests : work[r] # "none" /\ r \notin called}
    /\ admitted = Cardinality({r \in Requests : pc[r] = "submit"} \cup futures)

\* Work that a timed-out caller left behind keeps its slot: started and queued
\* work together never exceed the admission capacity.
PoolIsBounded ==
    Cardinality({r \in Requests : work[r] \in {"pending", "started", "dispatching"}})
        <= AdmissionCapacity

\* DEF-033: once its caller has its answer, queued work never starts.
AbandonedWorkIsCancelled == \A r \in Requests : pc[r] = "returned" => work[r] # "pending"

\* A call sleeps on _admission_condition only while there is something to wait
\* for; no release and no close leaves a sleeper behind.
SleeperWillBeWoken == asleep # {} => ~closed /\ admitted >= AdmissionCapacity

\* The admission slots are sound: each is counted once, they bound the work in
\* the pool, abandoned work included, and nobody sleeps while one is free.
SlotsAreSound == AdmissionIsExact /\ PoolIsBounded /\ SleeperWillBeWoken

\* close: no work enters the dispatcher and no result is delivered afterwards.
ClosedForGood ==
    [][closed => \A r \in Requests :
           /\ work'[r] = "dispatching" => work[r] = "dispatching"
           /\ status'[r] = "ok" => status[r] = "ok"]_vars

\* close returns TRUE when owned work has fully terminated.
CloseReportsTermination ==
    (\E c \in Closers : closing[c] = "complete") => \A r \in Requests : work[r] \in Done \cup {"none"}

\* Work does not outlive the call or the close that answers for it, except as
\* running work that the answer told of.
WorkEndsWithItsOwner == AbandonedWorkIsCancelled /\ CloseReportsTermination

\* A call of handle returns, though the dispatcher may hang for ever.
CallsReturn == \A r \in Requests : pc[r] = "acquire" ~> pc[r] = "returned"

\* Every slot comes back when dispatchers return.
SlotsComeBack == PoolFairness => (admitted > 0 ~> admitted = 0)

\* Nothing stays taken: the thread of a call, by its deadline, and the slot of
\* its work, if dispatchers return.
NothingStaysTaken == CallsReturn /\ SlotsComeBack
=============================================================================
