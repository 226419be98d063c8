---------------------------- MODULE SidecarProofs ----------------------------
(***************************************************************************)
(* Proofs about Sidecar for any number of calls, closes and threads: slots *)
(* are counted exactly, the pool is bounded, and no sleeper is forgotten.  *)
(* Then about Corpus, the documents it serves: the registry, the tables    *)
(* projected from it, and the reads of them.                               *)
(***************************************************************************)
EXTENDS Sidecar, Corpus, FiniteSetTheorems, WellFoundedInduction, TLAPS

\* The calls that hold a slot.
Holders == {r \in Requests : pc[r] = "submit"} \cup futures

\* A call has a future from its submission on; only done futures are called.
FutureAfterSubmit ==
    /\ \A r \in Requests : pc[r] \in {"idle", "acquire", "submit"} => work[r] = "none"
    /\ \A r \in called : work[r] \in Done

IInv == TypeOK /\ AdmissionIsExact /\ FutureAfterSubmit /\ SleeperWillBeWoken

\* Capacity is a number.
LEMMA CapacityType == AdmissionCapacity \in Nat \ {0}
BY BoundsAssumption DEF AdmissionCapacity

\* Slots are as many as their holders.
LEMMA HoldersCount ==
    ASSUME IInv
    PROVE  /\ Holders \subseteq Requests /\ IsFiniteSet(Holders)
           /\ admitted = Cardinality(Holders) /\ admitted \in Nat
<1>1. Holders \subseteq Requests
    BY DEF Holders, IInv, TypeOK
<1>2. IsFiniteSet(Holders)
    BY <1>1, BoundsAssumption, FS_Subset
<1>3. admitted = Cardinality(Holders)
    BY DEF Holders, IInv, AdmissionIsExact
<1> QED BY <1>1, <1>2, <1>3, FS_CardinalityType

LEMMA AddHolder ==
    ASSUME IInv, NEW r \in Requests, r \notin Holders
    PROVE  Cardinality(Holders \cup {r}) = admitted + 1
BY HoldersCount, FS_AddElement

LEMMA RemoveHolder ==
    ASSUME IInv, NEW r \in Holders
    PROVE  Cardinality(Holders \ {r}) = admitted - 1 /\ admitted >= 1
<1>1. Cardinality(Holders \ {r}) = admitted - 1
    BY HoldersCount, FS_RemoveElement
<1>2. Holders # {}
    OBVIOUS
<1>3. Cardinality(Holders) # 0
    BY <1>2, HoldersCount, FS_EmptySet
<1> QED BY <1>1, <1>3, HoldersCount

\* The holders of a step in which neither they nor the count change.
LEMMA SameHolders ==
    ASSUME IInv, UNCHANGED admitted, futures' \subseteq Requests, Holders' = Holders,
           futures' = {r \in Requests : work'[r] # "none" /\ r \notin called'}
    PROVE  AdmissionIsExact'
BY HoldersCount DEF AdmissionIsExact, Holders

LEMMA TypeInit == Init => IInv
<1> SUFFICES ASSUME Init PROVE IInv
    OBVIOUS
<1>1. TypeOK
    <2>1. admitted \in 0 .. AdmissionCapacity
        BY CapacityType DEF Init
    <2>2. /\ pc \in [Requests -> {"idle", "acquire", "submit", "wait", "timeout", "answer", "returned"}]
          /\ status \in [Requests -> Statuses]
        BY DEF Init, Statuses
    <2>3. work \in [Requests -> {"none", "pending", "started", "dispatching"} \cup Done]
        BY DEF Init
    <2>4. /\ closing \in [Closers -> {"idle", "cancel", "await", "complete", "incomplete"}]
          /\ owned \in [Closers -> SUBSET Requests]
        BY DEF Init
    <2>5. queue \in Seq(Requests)
        BY DEF Init
    <2>6. /\ late \subseteq Requests /\ patient \subseteq Requests
          /\ asleep \subseteq Requests /\ futures \subseteq Requests /\ called \subseteq Requests
          /\ closed \in BOOLEAN /\ shut \in BOOLEAN
        BY DEF Init
    <2> QED BY <2>1, <2>2, <2>3, <2>4, <2>5, <2>6 DEF TypeOK
<1>2. {r \in Requests : pc[r] = "submit"} \cup futures = {}
    BY DEF Init
<1>3. AdmissionIsExact
    BY <1>2, FS_EmptySet DEF Init, AdmissionIsExact
<1>4. FutureAfterSubmit /\ SleeperWillBeWoken
    BY DEF Init, FutureAfterSubmit, SleeperWillBeWoken
<1> QED BY <1>1, <1>3, <1>4 DEF IInv

\* A released slot leaves the count in its range.
LEMMA ReleaseEffect ==
    ASSUME IInv, NEW r \in Holders, Release, Holders' = Holders \ {r}, futures' \subseteq Requests,
           futures' = {q \in Requests : work'[q] # "none" /\ q \notin called'}
    PROVE  /\ admitted' \in 0 .. AdmissionCapacity
           /\ AdmissionIsExact'
<1>1. admitted' = admitted - 1 /\ admitted >= 1 /\ admitted' = Cardinality(Holders')
    BY RemoveHolder DEF Release
<1>2. admitted' \in 0 .. AdmissionCapacity
    BY <1>1, CapacityType DEF IInv, TypeOK
<1> QED BY <1>1, <1>2 DEF AdmissionIsExact, Holders

\* Cancelling changes pending work only.
LEMMA CancelledType ==
    ASSUME TypeOK, NEW R
    PROVE  /\ Cancelled(R) \in [Requests -> {"none", "pending", "started", "dispatching"} \cup Done]
           /\ \A r \in Requests : /\ (Cancelled(R)[r] = "none") = (work[r] = "none")
                                  /\ work[r] \in Done => Cancelled(R)[r] \in Done
                                  /\ Cancelled(R)[r] = "pending" => work[r] = "pending"
BY DEF TypeOK, Cancelled, Done

-----------------------------------------------------------------------------
(***************************************************************************)
(* Each step keeps the invariant.                                          *)
(***************************************************************************)

LEMMA AcquireStep ==
    ASSUME IInv, NEW r \in Requests, Acquire(r) PROVE IInv'
<1>1. futures' = futures /\ work' = work /\ called' = called /\ closed' = closed
    BY DEF Acquire, pool
<1>2. CASE pc'[r] = "submit" /\ admitted < AdmissionCapacity /\ admitted' = admitted + 1
           /\ asleep' = asleep /\ status' = status /\ pc' = [pc EXCEPT ![r] = "submit"] /\ pc[r] = "acquire"
    <2>1. r \notin Holders
        BY <1>2 DEF IInv, FutureAfterSubmit, AdmissionIsExact, Holders
    <2>2. Holders' = Holders \cup {r}
        BY <1>1, <1>2 DEF Holders, IInv, TypeOK
    <2>3. admitted' = Cardinality(Holders')
        BY <1>2, <2>1, <2>2, AddHolder
    <2>4. AdmissionIsExact'
        BY <1>1, <2>3 DEF IInv, AdmissionIsExact, Holders
    <2>5. admitted' \in 0 .. AdmissionCapacity
        BY <1>2, CapacityType DEF IInv, TypeOK
    <2>6. pc' \in [Requests -> {"idle", "acquire", "submit", "wait", "timeout", "answer", "returned"}]
        BY <1>2 DEF IInv, TypeOK
    <2>7. TypeOK'
        BY <1>1, <1>2, <2>5, <2>6 DEF IInv, TypeOK, Acquire, pool, closers
    <2>8. asleep = {}
        BY <1>2, CapacityType DEF IInv, SleeperWillBeWoken, TypeOK
    <2>9. FutureAfterSubmit'
        BY <1>1, <1>2 DEF IInv, FutureAfterSubmit, TypeOK
    <2> QED BY <1>2, <2>4, <2>7, <2>8, <2>9 DEF IInv, SleeperWillBeWoken
<1>3. CASE admitted' = admitted
           /\ \/ Return(r, "closed") \/ Return(r, "deadline_exceeded") \/ Return(r, "overloaded")
              \/ UNCHANGED <<pc, status>>
    <2>1. pc' \in [Requests -> {"idle", "acquire", "submit", "wait", "timeout", "answer", "returned"}]
          /\ status' \in [Requests -> Statuses]
          /\ \A q \in Requests : pc'[q] = pc[q] \/ (q = r /\ pc'[q] = "returned")
        BY <1>3 DEF Return, Goto, IInv, TypeOK, Statuses
    <2>2. pc[r] = "acquire"
        BY DEF Acquire
    <2>3. {q \in Requests : pc'[q] = "submit"} = {q \in Requests : pc[q] = "submit"}
        BY <2>1, <2>2
    <2>4. AdmissionIsExact'
        BY <1>1, <1>3, <2>3 DEF IInv, AdmissionIsExact
    <2>5. asleep' \subseteq Requests
        BY DEF Acquire, IInv, TypeOK
    <2>6. TypeOK'
        BY <1>1, <1>3, <2>1, <2>5 DEF IInv, TypeOK, Acquire, pool, closers
    <2>7. FutureAfterSubmit'
        BY <1>1, <2>1 DEF IInv, FutureAfterSubmit
    <2>8. SleeperWillBeWoken'
        BY <1>1, <1>3 DEF IInv, SleeperWillBeWoken, Acquire
    <2> QED BY <2>4, <2>6, <2>7, <2>8 DEF IInv
<1>4. pc[r] = "acquire"
    BY DEF Acquire
<1> QED BY <1>2, <1>3, <1>4 DEF Acquire, Return, Goto, IInv, TypeOK

LEMMA SubmitStep ==
    ASSUME IInv, NEW r \in Requests, Submit(r) \/ SubmitFails(r) PROVE IInv'
<1>1. pc[r] = "submit" /\ work[r] = "none" /\ r \notin called /\ r \in Holders /\ r \notin futures
    BY DEF Submit, SubmitFails, IInv, FutureAfterSubmit, Holders, AdmissionIsExact, Done
<1>2. UNCHANGED <<late, patient, closed, called, shut, closing, owned>>
    BY DEF Submit, SubmitFails, pool, closers
<1>3. CASE /\ Release /\ UNCHANGED <<futures, work, queue>>
           /\ Return(r, "closed") \/ Return(r, "unavailable")
    <2>1. pc' = [pc EXCEPT ![r] = "returned"] /\ status' \in [Requests -> Statuses]
        BY <1>3 DEF Return, Goto, IInv, TypeOK, Statuses
    <2>2. Holders' = Holders \ {r}
        BY <1>1, <1>3, <2>1 DEF Holders, IInv, TypeOK
    <2>3. futures' \subseteq Requests
          /\ futures' = {q \in Requests : work'[q] # "none" /\ q \notin called'}
        BY <1>2, <1>3 DEF IInv, TypeOK, AdmissionIsExact
    <2>4. admitted' \in 0 .. AdmissionCapacity /\ AdmissionIsExact'
        BY <1>1, <1>3, <2>2, <2>3, ReleaseEffect
    <2>5. TypeOK'
        BY <1>2, <1>3, <2>1, <2>4 DEF IInv, TypeOK, Release
    <2>6. FutureAfterSubmit'
        BY <1>2, <1>3, <2>1 DEF IInv, TypeOK, FutureAfterSubmit
    <2> QED BY <1>3, <2>4, <2>5, <2>6 DEF IInv, SleeperWillBeWoken, Release
<1>4. CASE /\ work' = [work EXCEPT ![r] = "pending"]
           /\ queue' = Append(queue, r)
           /\ futures' = futures \cup {r}
           /\ Goto(r, "wait")
           /\ UNCHANGED <<asleep, admitted, status>>
    <2>1. pc' = [pc EXCEPT ![r] = "wait"]
        BY <1>4 DEF Goto
    <2>2. Holders' = Holders
        BY <1>1, <1>4, <2>1 DEF Holders, IInv, TypeOK
    <2>3. futures' = {q \in Requests : work'[q] # "none" /\ q \notin called'}
        BY <1>1, <1>2, <1>4 DEF IInv, TypeOK, AdmissionIsExact
    <2>4. AdmissionIsExact'
        BY <1>4, <2>2, <2>3, SameHolders
    <2>5. TypeOK'
        BY <1>2, <1>4, <2>1 DEF IInv, TypeOK
    <2>6. FutureAfterSubmit'
        BY <1>1, <1>2, <1>4, <2>1 DEF IInv, TypeOK, FutureAfterSubmit
    <2> QED BY <1>2, <1>4, <2>4, <2>5, <2>6 DEF IInv, SleeperWillBeWoken
<1> QED BY <1>3, <1>4 DEF Submit, SubmitFails, pool

LEMMA FutureDoneStep ==
    ASSUME IInv, NEW r \in Requests, FutureDone(r) PROVE IInv'
<1>1. r \in futures /\ pc[r] # "submit"
    BY DEF FutureDone, IInv, AdmissionIsExact, FutureAfterSubmit, Done
<1>2. r \in Holders
    BY <1>1 DEF Holders
<1>3. Holders' = Holders \ {r}
    BY <1>1 DEF Holders, FutureDone, callers
<1>4. futures' \subseteq Requests
      /\ futures' = {q \in Requests : work'[q] # "none" /\ q \notin called'}
    BY DEF FutureDone, IInv, TypeOK, AdmissionIsExact
<1>5. admitted' \in 0 .. AdmissionCapacity /\ AdmissionIsExact'
    BY <1>2, <1>3, <1>4, ReleaseEffect DEF FutureDone
<1>6. TypeOK'
    BY <1>4, <1>5 DEF IInv, TypeOK, FutureDone, Release, callers, closers
<1>7. FutureAfterSubmit'
    BY DEF IInv, FutureAfterSubmit, FutureDone, callers
<1> QED BY <1>5, <1>6, <1>7 DEF IInv, SleeperWillBeWoken, FutureDone, Release

\* The other steps of a call leave slots and futures alone.
LEMMA CallStep ==
    ASSUME IInv, NEW r \in Requests,
           Handle(r) \/ DeadlinePasses(r) \/ Result(r) \/ TimeOut(r) \/ Answer(r)
    PROVE  IInv'
<1>1. UNCHANGED <<admitted, closed, futures, called, queue, shut, closing, owned>>
    BY DEF Handle, DeadlinePasses, Result, TimeOut, Answer, admission, pool, closers
<1>2. /\ pc' \in [Requests -> {"idle", "acquire", "submit", "wait", "timeout", "answer", "returned"}]
      /\ status' \in [Requests -> Statuses]
    BY DEF Handle, DeadlinePasses, Result, TimeOut, Answer, Return, Goto, IInv, TypeOK, Statuses
<1>3. \A q \in Requests : pc'[q] # pc[q] =>
          /\ q = r
          /\ pc[q] # "submit" /\ pc'[q] # "submit"
          /\ pc'[q] = "acquire" => pc[q] = "idle"
          /\ pc'[q] # "idle"
    BY DEF Handle, DeadlinePasses, Result, TimeOut, Answer, Return, Goto, IInv, TypeOK
<1>4. /\ late' \subseteq Requests /\ patient' \subseteq Requests
      /\ asleep' \subseteq asleep
    BY DEF Handle, DeadlinePasses, Result, TimeOut, Answer, admission, IInv, TypeOK
<1>5. /\ work' \in [Requests -> {"none", "pending", "started", "dispatching"} \cup Done]
      /\ \A q \in Requests : /\ (work'[q] = "none") = (work[q] = "none")
                             /\ work[q] \in Done => work'[q] \in Done
    BY CancelledType DEF Handle, DeadlinePasses, Result, TimeOut, Answer, pool, IInv, TypeOK
<1>6. {q \in Requests : pc'[q] = "submit"} = {q \in Requests : pc[q] = "submit"}
    BY <1>3
<1>7. AdmissionIsExact'
    BY <1>1, <1>5, <1>6 DEF IInv, AdmissionIsExact
<1>8. TypeOK'
    BY <1>1, <1>2, <1>4, <1>5 DEF IInv, TypeOK
<1>9. FutureAfterSubmit'
    BY <1>1, <1>3, <1>5 DEF IInv, FutureAfterSubmit, TypeOK
<1>10. SleeperWillBeWoken'
    BY <1>1, <1>4 DEF IInv, SleeperWillBeWoken
<1> QED BY <1>7, <1>8, <1>9, <1>10 DEF IInv

\* Steps of the pool and of close leave calls and slots alone.
LEMMA PoolAndCloseStep ==
    ASSUME IInv,
           \/ Take
           \/ \E r \in Requests : Dispatch(r) \/ DispatchEnds(r)
           \/ \E c \in Closers : Close(c) \/ CloseStep(c)
    PROVE  IInv'
<1>1. UNCHANGED <<pc, status, late, patient, admitted, futures, called>>
    BY DEF Take, Dispatch, DispatchEnds, Close, CloseStep, Shutdown, Await,
           callers, admission, pool
<1>2. /\ work' \in [Requests -> {"none", "pending", "started", "dispatching"} \cup Done]
      /\ \A q \in Requests : /\ (work'[q] = "none") = (work[q] = "none")
                             /\ work[q] \in Done => work'[q] \in Done
    <2>1. CASE Take
        <3>1. Head(queue) \in Requests
            BY <2>1 DEF Take, IInv, TypeOK
        <3> QED BY <2>1, <3>1 DEF Take, IInv, TypeOK, Done
    <2>2. CASE \E r \in Requests : Dispatch(r) \/ DispatchEnds(r)
        BY <2>2 DEF Dispatch, DispatchEnds, IInv, TypeOK, Done
    <2>3. CASE \E c \in Closers : Close(c) \/ CloseStep(c)
        BY <2>3, CancelledType DEF Close, CloseStep, Shutdown, Await, pool, IInv, TypeOK
    <2> QED BY <2>1, <2>2, <2>3
<1>3. /\ queue' \in Seq(Requests) /\ shut' \in BOOLEAN /\ closed' \in BOOLEAN
      /\ asleep' \subseteq Requests
    <2>1. CASE Take
        <3>1. Tail(queue) \in Seq(Requests)
            BY <2>1 DEF Take, IInv, TypeOK
        <3> QED BY <2>1, <3>1 DEF Take, IInv, TypeOK, admission
    <2>2. CASE \E r \in Requests : Dispatch(r) \/ DispatchEnds(r)
        BY <2>2 DEF Dispatch, DispatchEnds, admission, IInv, TypeOK
    <2>3. CASE \E c \in Closers : Close(c)
        BY <2>3 DEF Close, pool, IInv, TypeOK
    <2>4. CASE \E c \in Closers : CloseStep(c)
        <3>1. <<>> \in Seq(Requests)
            OBVIOUS
        <3> QED BY <2>4, <3>1 DEF CloseStep, Shutdown, Await, admission, pool, IInv, TypeOK
    <2> QED BY <2>1, <2>2, <2>3, <2>4
<1>4. /\ closing' \in [Closers -> {"idle", "cancel", "await", "complete", "incomplete"}]
      /\ owned' \in [Closers -> SUBSET Requests]
    BY DEF Take, Dispatch, DispatchEnds, Close, CloseStep, Shutdown, Await, closers, IInv, TypeOK
<1>5. TypeOK'
    BY <1>1, <1>2, <1>3, <1>4 DEF IInv, TypeOK
<1>6. AdmissionIsExact'
    BY <1>1, <1>2 DEF IInv, AdmissionIsExact
<1>7. FutureAfterSubmit'
    BY <1>1, <1>2 DEF IInv, TypeOK, FutureAfterSubmit
<1>8. SleeperWillBeWoken'
    BY <1>1 DEF Take, Dispatch, DispatchEnds, Close, CloseStep, Shutdown, Await, admission,
                IInv, SleeperWillBeWoken
<1> QED BY <1>5, <1>6, <1>7, <1>8 DEF IInv

LEMMA Step == IInv /\ [Next]_vars => IInv'
<1> SUFFICES ASSUME IInv, [Next]_vars PROVE IInv'
    OBVIOUS
<1>1. CASE UNCHANGED vars
    BY <1>1 DEF vars, callers, admission, pool, closers, IInv, TypeOK, AdmissionIsExact,
                FutureAfterSubmit, SleeperWillBeWoken
<1> QED BY <1>1, AcquireStep, SubmitStep, FutureDoneStep, CallStep, PoolAndCloseStep
        DEF Next, HandleStep, PoolStep

LEMMA Invariance == Spec => []IInv
BY TypeInit, Step, PTL DEF Spec

\* Types hold, for any number of calls, closes and threads.
THEOREM TypeCorrect == Spec => []TypeOK
<1>1. IInv => TypeOK
    BY DEF IInv
<1> QED BY <1>1, Invariance, PTL

\* A slot is held by exactly the calls being submitted and the futures whose
\* callback has not run: none leaks, none is given back twice.
THEOREM SlotsAreCounted == Spec => []AdmissionIsExact
<1>1. IInv => AdmissionIsExact
    BY DEF IInv
<1> QED BY <1>1, Invariance, PTL

\* Abandoned or not, unfinished work stays within the admission capacity.
THEOREM WorkIsBounded == Spec => []PoolIsBounded
<1>1. IInv => PoolIsBounded
    <2> SUFFICES ASSUME IInv PROVE PoolIsBounded
        OBVIOUS
    <2> DEFINE Unfinished == {r \in Requests : work[r] \in {"pending", "started", "dispatching"}}
    <2>1. Unfinished \subseteq Holders
        BY DEF Holders, IInv, AdmissionIsExact, FutureAfterSubmit, Done
    <2>2. Cardinality(Unfinished) <= Cardinality(Holders)
        BY <2>1, HoldersCount, FS_Subset
    <2>3. IsFiniteSet(Unfinished)
        BY <2>1, HoldersCount, FS_Subset
    <2>4. Cardinality(Unfinished) \in Nat
        BY <2>3, FS_CardinalityType
    <2>5. Cardinality(Holders) <= AdmissionCapacity
        BY HoldersCount, CapacityType DEF IInv, TypeOK
    <2> HIDE DEF Unfinished
    <2>6. Cardinality(Unfinished) <= AdmissionCapacity
        BY <2>2, <2>4, <2>5, HoldersCount, CapacityType
    <2> QED BY <2>6 DEF PoolIsBounded, Unfinished
<1> QED BY <1>1, Invariance, PTL

\* No call sleeps while there is a slot, nor after close.
THEOREM NoSleeperIsForgotten == Spec => []SleeperWillBeWoken
<1>1. IInv => SleeperWillBeWoken
    BY DEF IInv
<1> QED BY <1>1, Invariance, PTL

\* Slots are counted once, bound the work and keep nobody asleep.
THEOREM SlotsStaySound == Spec => []SlotsAreSound
<1>1. AdmissionIsExact /\ PoolIsBounded /\ SleeperWillBeWoken => SlotsAreSound
    BY DEF SlotsAreSound
<1> QED BY <1>1, SlotsAreCounted, WorkIsBounded, NoSleeperIsForgotten, PTL

-----------------------------------------------------------------------------
(***************************************************************************)
(* After close, and after a call has its answer.                           *)
(***************************************************************************)

\* Work in the pool that is not done.
Unfinished == {r \in Requests : work[r] \in {"pending", "started", "dispatching"}}

\* A call that has its answer left no pending work; an answer comes of work
\* that finished or was refused.
AnswersAreFinal ==
    \A r \in Requests : /\ pc[r] = "returned" => work[r] # "pending"
                        /\ pc[r] = "answer" => work[r] \in {"finished", "refused"}

\* What is unfinished was seen by the close that closed the sidecar.
CloseOwnsTheRest ==
    /\ closed => \E c \in Closers : closing[c] # "idle"
    /\ \A c \in Closers : closing[c] # "idle" => closed /\ Unfinished \subseteq owned[c]
    /\ \A c \in Closers : closing[c] = "complete" => Unfinished = {}

\* Whoever closes, closes alone.
OneCloser == \A c, d \in Closers : c = d

\* Only a call being submitted brings work; done work stays as it is.
LEMMA WorkOnlyAdvances ==
    ASSUME IInv, [Next]_vars, NEW r \in Requests
    PROVE  /\ work[r] = "none" /\ work'[r] # "none" => pc[r] = "submit" /\ pc'[r] = "wait" /\ ~closed
           /\ work[r] \in Done => work'[r] = work[r]
           /\ work'[r] = "pending" => work[r] = "pending" \/ pc[r] = "submit"
<1>1. CASE UNCHANGED vars
    BY <1>1 DEF vars, callers, pool
<1>2. CASE Take
    <2>1. Head(queue) \in Requests
        BY <1>2 DEF Take, IInv, TypeOK
    <2> QED BY <1>2, <2>1 DEF Take, IInv, TypeOK, Done
<1>3. CASE \E q \in Requests : Submit(q)
    BY <1>3 DEF Submit, Goto, Return, IInv, TypeOK, FutureAfterSubmit, Done
<1>4. CASE \E q \in Requests : Dispatch(q) \/ DispatchEnds(q)
    BY <1>4 DEF Dispatch, DispatchEnds, IInv, TypeOK, Done
<1>5. CASE \E q \in Requests : TimeOut(q)
    BY <1>5 DEF TimeOut, Cancelled, IInv, TypeOK, Done
<1>6. CASE \E c \in Closers : Shutdown(c)
    BY <1>6 DEF Shutdown, Cancelled, IInv, TypeOK, Done
<1>7. CASE UNCHANGED work
    BY <1>7
<1> QED BY <1>1, <1>2, <1>3, <1>4, <1>5, <1>6, <1>7
        DEF Next, HandleStep, CloseStep, PoolStep, Handle, DeadlinePasses, Acquire, SubmitFails,
            Result, Answer, FutureDone, Close, Await, pool

LEMMA AnswersStep ==
    ASSUME IInv, AnswersAreFinal, [Next]_vars PROVE AnswersAreFinal'
<1> SUFFICES ASSUME NEW r \in Requests
             PROVE  /\ pc'[r] = "returned" => work'[r] # "pending"
                    /\ pc'[r] = "answer" => work'[r] \in {"finished", "refused"}
    BY DEF AnswersAreFinal
<1>1. CASE pc'[r] = pc[r]
    BY <1>1, WorkOnlyAdvances DEF AnswersAreFinal, Done
<1>2. CASE Handle(r) \/ Acquire(r)
    <2>1. work[r] = "none" /\ work' = work /\ pc'[r] # "answer"
        BY <1>2 DEF Handle, Acquire, Return, Goto, pool, IInv, TypeOK, FutureAfterSubmit
    <2> QED BY <2>1
<1>3. CASE Submit(r) \/ SubmitFails(r)
    <2>1. pc'[r] # "answer" /\ (pc'[r] = "returned" => work'[r] = "none")
        BY <1>3 DEF Submit, SubmitFails, Return, Goto, pool, IInv, TypeOK, FutureAfterSubmit
    <2> QED BY <2>1
<1>4. CASE Result(r)
    BY <1>4 DEF Result, Return, Goto, pool, IInv, TypeOK
<1>5. CASE TimeOut(r)
    BY <1>5 DEF TimeOut, Return, Goto, Cancelled, IInv, TypeOK
<1>6. CASE Answer(r)
    BY <1>6 DEF Answer, Return, Goto, pool, AnswersAreFinal, IInv, TypeOK
<1>7. pc'[r] = pc[r] \/ Handle(r) \/ HandleStep(r)
    <2>1. ASSUME NEW q \in Requests, Handle(q) \/ HandleStep(q), q # r PROVE pc'[r] = pc[r]
        <3>1. CASE Handle(q) \/ Acquire(q) \/ Submit(q) \/ SubmitFails(q)
            BY <2>1, <3>1 DEF Handle, Acquire, Submit, SubmitFails, Return, Goto, IInv, TypeOK
        <3>2. CASE Result(q) \/ TimeOut(q) \/ Answer(q)
            BY <2>1, <3>2 DEF Result, TimeOut, Answer, Return, Goto, IInv, TypeOK
        <3> QED BY <2>1, <3>1, <3>2 DEF HandleStep
    <2>2. (\E q \in Requests : DeadlinePasses(q) \/ DispatchEnds(q)) \/ PoolStep => pc' = pc
        BY DEF DeadlinePasses, DispatchEnds, PoolStep, Take, Dispatch, FutureDone, callers
    <2>3. (\E c \in Closers : Close(c) \/ CloseStep(c)) \/ UNCHANGED vars => pc' = pc
        BY DEF Close, CloseStep, Shutdown, Await, vars, callers
    <2> QED BY <2>1, <2>2, <2>3 DEF Next
<1> QED BY <1>1, <1>2, <1>3, <1>4, <1>5, <1>6, <1>7 DEF HandleStep

LEMMA CloseOwnsStep ==
    ASSUME OneCloser, IInv, CloseOwnsTheRest, [Next]_vars PROVE CloseOwnsTheRest'
<1>1. closed => Unfinished' \subseteq Unfinished
    BY WorkOnlyAdvances DEF Unfinished, IInv, TypeOK, Done
<1>2. CASE UNCHANGED <<closed, closing, owned>>
    BY <1>1, <1>2 DEF CloseOwnsTheRest
<1>3. ASSUME NEW c \in Closers, Close(c) PROVE CloseOwnsTheRest'
    <2>1. ~closed
        BY <1>3 DEF Close, CloseOwnsTheRest, OneCloser
    <2>2. /\ closed' /\ work' = work /\ owned' = [owned EXCEPT ![c] = futures]
          /\ closing' = [closing EXCEPT ![c] = "cancel"]
        BY <1>3, <2>1 DEF Close, pool
    <2>3. Unfinished \subseteq futures
        BY DEF Unfinished, IInv, AdmissionIsExact, FutureAfterSubmit, Done
    <2>4. \A d \in Closers : d = c
        BY DEF OneCloser
    <2> QED BY <2>2, <2>3, <2>4 DEF CloseOwnsTheRest, Unfinished, IInv, TypeOK
<1>4. ASSUME NEW c \in Closers, Shutdown(c) PROVE CloseOwnsTheRest'
    <2>1. closed' = closed /\ owned' = owned /\ closing' = [closing EXCEPT ![c] = "await"] /\ closing[c] = "cancel"
        BY <1>4 DEF Shutdown, admission
    <2> QED BY <1>1, <2>1 DEF CloseOwnsTheRest, IInv, TypeOK
<1>5. ASSUME NEW c \in Closers, Await(c) PROVE CloseOwnsTheRest'
    <2>1. closed' = closed /\ owned' = owned /\ work' = work /\ closing[c] = "await"
        BY <1>5 DEF Await, admission, pool
    <2>2. closing' \in {[closing EXCEPT ![c] = "complete"], [closing EXCEPT ![c] = "incomplete"]}
        BY <1>5 DEF Await
    <2>3. closing'[c] = "complete" => Unfinished = {}
        BY <1>5, <2>1 DEF Await, CloseOwnsTheRest, Unfinished, IInv, TypeOK, Done
    <2> QED BY <2>1, <2>2, <2>3 DEF CloseOwnsTheRest, Unfinished, IInv, TypeOK
<1> QED BY <1>2, <1>3, <1>4, <1>5
        DEF Next, HandleStep, CloseStep, PoolStep, vars, admission, closers, Handle, DeadlinePasses, Acquire, Submit,
            SubmitFails, Result, TimeOut, Answer, FutureDone, Take, Dispatch, DispatchEnds

\* DEF-033 for any number of calls, closes and threads: work whose caller has
\* its answer never starts afterwards.
THEOREM AbandonedWorkNeverStarts == Spec => []AbandonedWorkIsCancelled
<1>1. Init => AnswersAreFinal
    BY DEF Init, AnswersAreFinal
<1>2. IInv /\ AnswersAreFinal /\ [Next]_vars => AnswersAreFinal'
    BY AnswersStep
<1>3. AnswersAreFinal => AbandonedWorkIsCancelled
    BY DEF AnswersAreFinal, AbandonedWorkIsCancelled
<1> QED BY <1>1, <1>2, <1>3, Invariance, PTL DEF Spec

\* Work ends with the call or the close that answers for it, when one caller
\* closes: a second close answers TRUE at once, whatever the first left.
THEOREM WorkEndsWithItsOwnerAlways == OneCloser => (Spec => []WorkEndsWithItsOwner)
<1> SUFFICES ASSUME OneCloser PROVE Spec => []WorkEndsWithItsOwner
    OBVIOUS
<1>1. Init => CloseOwnsTheRest
    BY DEF Init, CloseOwnsTheRest
<1>2. IInv /\ CloseOwnsTheRest /\ [Next]_vars => CloseOwnsTheRest'
    BY CloseOwnsStep
<1>3. IInv /\ CloseOwnsTheRest => CloseReportsTermination
    BY DEF CloseOwnsTheRest, CloseReportsTermination, Unfinished, IInv, TypeOK
<1>4. AbandonedWorkIsCancelled /\ CloseReportsTermination => WorkEndsWithItsOwner
    BY DEF WorkEndsWithItsOwner
<1> QED BY <1>1, <1>2, <1>3, <1>4, AbandonedWorkNeverStarts, Invariance, PTL DEF Spec

\* Once closed, no work enters the dispatcher and no result is delivered,
\* whichever call or close had got how far.
THEOREM ClosedStaysClosed == Spec => ClosedForGood
<1> DEFINE Silent == closed => \A r \in Requests :
                                  /\ work'[r] = "dispatching" => work[r] = "dispatching"
                                  /\ status'[r] = "ok" => status[r] = "ok"
<1>1. IInv /\ [Next]_vars => Silent
    <2> SUFFICES ASSUME IInv, [Next]_vars, closed, NEW r \in Requests
                 PROVE  /\ work'[r] = "dispatching" => work[r] = "dispatching"
                        /\ status'[r] = "ok" => status[r] = "ok"
        OBVIOUS
    <2>1. work'[r] = "dispatching" => work[r] = "dispatching"
        <3>1. CASE Take
            <4>1. Head(queue) \in Requests
                BY <3>1 DEF Take, IInv, TypeOK
            <4> QED BY <3>1, <4>1 DEF Take, IInv, TypeOK
        <3> QED BY <3>1 DEF Next, HandleStep, CloseStep, PoolStep, vars, pool, Handle, DeadlinePasses, Acquire, Submit,
                SubmitFails, Result, TimeOut, Answer, FutureDone, Dispatch, DispatchEnds, Close, Shutdown, Await,
                Cancelled, IInv, TypeOK
    <2>2. status'[r] = "ok" => status[r] = "ok"
        BY DEF Next, HandleStep, CloseStep, PoolStep, vars, callers, Handle, DeadlinePasses, Acquire, Submit,
               SubmitFails, Result, TimeOut, Answer, FutureDone, Take, Dispatch, DispatchEnds, Close, Shutdown, Await,
               Return, Goto, IInv, TypeOK
    <2> QED BY <2>1, <2>2
<1>2. IInv /\ [Next]_vars => [Silent]_vars
    BY <1>1
<1>3. [][Silent]_vars <=> ClosedForGood
    BY PTL DEF ClosedForGood
<1> HIDE DEF Silent
<1> QED BY <1>2, <1>3, Invariance, PTL DEF Spec
-----------------------------------------------------------------------------
(***************************************************************************)
(* The registry of the corpus.  What an instance has in memory is in the   *)
(* file, or the file does not load and never will again.                   *)
(***************************************************************************)
IsSequence(s) == s \in Seq(ToSet(s))

InstanceIsSound(p) ==
  /\ reg[p] # None => mem[p] # None /\ Stored(reg[p]) = blobs
  /\ mem[p] # None => IsSequence(mem[p]) /\ (Loads(file, torn) => ToSet(mem[p]) \subseteq ToSet(file))

RegistryInv ==
  /\ IsSequence(file) /\ DOMAIN mem = Processes /\ DOMAIN reg = Processes
  /\ RegistryIsWhole
  /\ \A p \in Processes : InstanceIsSound(p)

(* A line more. *)
LEMMA OneLineMore ==
  ASSUME NEW s, IsSequence(s), NEW e
  PROVE  /\ IsSequence(Append(s, e)) /\ ToSet(Append(s, e)) = ToSet(s) \cup {e}
         /\ Len(s) \in Nat /\ Len(Append(s, e)) = Len(s) + 1 /\ DOMAIN s = 1..Len(s)
         /\ DOMAIN Append(s, e) = 1..(Len(s) + 1)
         /\ \A i \in 1..Len(s) : Append(s, e)[i] = s[i]
         /\ Append(s, e)[Len(s) + 1] = e
<1>1. s \in Seq(ToSet(s))
  BY DEF IsSequence
<1>2. /\ Len(s) \in Nat /\ Len(Append(s, e)) = Len(s) + 1 /\ DOMAIN s = 1..Len(s)
      /\ DOMAIN Append(s, e) = 1..(Len(s) + 1)
      /\ \A i \in 1..Len(s) : Append(s, e)[i] = s[i]
      /\ Append(s, e)[Len(s) + 1] = e
  BY <1>1
<1>3. Append(s, e) \in Seq(ToSet(s) \cup {e})
  <2>1. s \in Seq(ToSet(s) \cup {e})
    BY <1>1
  <2> QED BY <2>1
<1>4. ToSet(Append(s, e)) = ToSet(s) \cup {e}
  BY <1>2 DEF ToSet
<1> QED BY <1>2, <1>3, <1>4 DEF IsSequence

LEMMA Greatest ==
  ASSUME NEW n \in Nat, NEW S \in SUBSET (1..n), S # {}
  PROVE  \E m \in S : \A j \in S : m >= j
<1> DEFINE T == {n - i : i \in S}
<1>1. T \in SUBSET Nat /\ T # {}
  <2>1. \A i \in S : n - i \in Nat
    OBVIOUS
  <2>2. PICK i \in S : TRUE
    OBVIOUS
  <2>3. n - i \in T
    BY <2>2
  <2> QED BY <2>1, <2>3
<1>2. PICK k \in T : \A j \in T : ~ (<<j, k>> \in OpToRel(<, Nat))
  BY <1>1, NatLessThanWellFounded, WFMin
<1>3. PICK m \in S : k = n - m
  BY <1>2
<1>4. ASSUME NEW j \in S, m < j PROVE FALSE
  <2>1. n - j \in T /\ n - j \in Nat /\ k \in Nat /\ n - j < k
    BY <1>3, <1>4
  <2>2. <<n - j, k>> \in OpToRel(<, Nat)
    BY <2>1 DEF OpToRel
  <2> QED BY <1>2, <2>1, <2>2
<1> QED BY <1>3, <1>4

(* The latest version of a source is one of its records. *)
LEMMA LatestIsOne ==
  ASSUME NEW records, IsSequence(records), NEW source, Known(records, source)
  PROVE  Latest(records, source) \in ToSet(records) /\ Latest(records, source).source = source
<1> DEFINE S == IsOf(records, source)
<1>1. Len(records) \in Nat /\ DOMAIN records = 1..Len(records) /\ S \in SUBSET (1..Len(records)) /\ S # {}
  BY DEF IsSequence, IsOf, Known
<1>2. \E m \in S : \A j \in S : m >= j
  <2> HIDE DEF S
  <2> QED BY <1>1, Greatest
<1>3. Max(S) \in S
  BY <1>2 DEF Max
<1> QED BY <1>3 DEF Latest, IsOf, ToSet

LEMMA RegistryInit == CorpusInit => RegistryInv
<1> SUFFICES ASSUME CorpusInit PROVE RegistryInv
  OBVIOUS
<1>1. file = <<>> /\ DOMAIN file = {} /\ ToSet(file) = {} /\ IsSequence(file)
  BY DEF CorpusInit, ToSet, IsSequence
<1>2. RegistryIsWhole
  BY <1>1 DEF CorpusInit, RegistryIsWhole, NothingGivenIsLost, HistoryHasNoHoles, BlobsNeverDangle
<1> QED BY <1>1, <1>2 DEF CorpusInit, RegistryInv, InstanceIsSound

(* The record of a registration that is not known yet: its blob is stored, *)
(* and what it replaces is a line of the file, when the file loads.        *)
LEMMA RecordFits ==
  ASSUME RegistryInv, NEW p \in Processes, Appending(p)
  PROVE  /\ Record(p).blob \in blobs \cup {None}
         /\ Loads(file, torn) /\ Record(p).supersedes # None =>
              \E j \in 1..Len(file) : Record(p).supersedes = VersionOf(file[j].source, file[j].content)
<1> DEFINE r == reg[p]
           s == SourceId(r)
<1>1. r # None /\ mem[p] # None /\ Stored(r) = blobs /\ IsSequence(mem[p])
      /\ (Loads(file, torn) => ToSet(mem[p]) \subseteq ToSet(file)) /\ IsSequence(file)
  BY DEF Appending, RegistryInv, InstanceIsSound
<1>2. Record(p).blob \in blobs \cup {None}
  <2>1. CASE r.blob
    BY <1>1, <2>1 DEF Record, NewRecord, Stored
  <2>2. CASE ~r.blob
    BY <2>2 DEF Record, NewRecord
  <2> QED BY <2>1, <2>2
<1>3. ASSUME Loads(file, torn), Record(p).supersedes # None
      PROVE  \E j \in 1..Len(file) : Record(p).supersedes = VersionOf(file[j].source, file[j].content)
  <2>1. Known(mem[p], s) /\ Record(p).supersedes = VersionOf(s, Latest(mem[p], s).content)
    BY <1>3 DEF Record, NewRecord
  <2>2. Latest(mem[p], s) \in ToSet(file) /\ Latest(mem[p], s).source = s
    BY <1>1, <1>3, <2>1, LatestIsOne
  <2>3. PICK j \in DOMAIN file : file[j] = Latest(mem[p], s)
    BY <2>2 DEF ToSet
  <2>4. DOMAIN file = 1..Len(file)
    BY <1>1 DEF IsSequence
  <2> QED BY <2>1, <2>2, <2>3, <2>4
<1> QED BY <1>2, <1>3

(* What a record written to the file does to it. *)
LEMMA WrittenKeeps ==
  ASSUME RegistryInv, NEW p \in Processes, Appending(p), Written(Record(p)), UNCHANGED blobs
  PROVE  /\ IsSequence(file') /\ HistoryHasNoHoles' /\ BlobsNeverDangle'
         /\ ToSet(file) \subseteq ToSet(file')
         /\ Loads(file', torn') => Loads(file, torn) /\ ToSet(file') = ToSet(file) \cup {Record(p)}
<1> DEFINE e == IF torn THEN Malformed ELSE Record(p)
           n == Len(file)
<1>1. file' = Append(file, e) /\ torn' = FALSE /\ IsSequence(file)
  BY DEF Written, RegistryInv
<1> HIDE DEF e
<1>2. /\ IsSequence(file') /\ ToSet(file') = ToSet(file) \cup {e}
      /\ n \in Nat /\ DOMAIN file = 1..n /\ DOMAIN file' = 1..(n + 1)
      /\ \A i \in 1..n : file'[i] = file[i]
      /\ file'[n + 1] = e
  BY <1>1, OneLineMore
<1>3. Loads(file', torn') => ~torn /\ e = Record(p) /\ Loads(file, torn)
  BY <1>1, <1>2 DEF Loads, e
<1>4. HistoryHasNoHoles'
  <2> SUFFICES ASSUME Loads(file', torn'), NEW i \in DOMAIN file', file'[i].supersedes # None
               PROVE  \E j \in 1..(i - 1) : file'[i].supersedes = VersionOf(file'[j].source, file'[j].content)
    BY DEF HistoryHasNoHoles
  <2>1. CASE i \in 1..n
    <3>1. PICK j \in 1..(i - 1) : file[i].supersedes = VersionOf(file[j].source, file[j].content)
      BY <1>2, <1>3, <2>1 DEF RegistryInv, RegistryIsWhole, HistoryHasNoHoles
    <3>2. j \in 1..n
      BY <1>2, <2>1
    <3> QED BY <1>2, <2>1, <3>1, <3>2
  <2>2. CASE i = n + 1
    <3>1. PICK j \in 1..n : Record(p).supersedes = VersionOf(file[j].source, file[j].content)
      BY <1>2, <1>3, <2>2, RecordFits
    <3>2. j \in 1..(i - 1)
      BY <1>2, <2>2
    <3> QED BY <1>2, <1>3, <2>2, <3>1, <3>2
  <2> QED BY <1>2, <2>1, <2>2
<1>5. BlobsNeverDangle'
  <2> SUFFICES ASSUME NEW i \in DOMAIN file', file'[i] # Malformed PROVE file'[i].blob \in blobs \cup {None}
    BY DEF BlobsNeverDangle
  <2>1. CASE i \in 1..n
    BY <1>2, <2>1 DEF RegistryInv, RegistryIsWhole, BlobsNeverDangle
  <2>2. CASE i = n + 1
    BY <1>2, <2>2, RecordFits DEF e
  <2> QED BY <1>2, <2>1, <2>2
<1> QED BY <1>2, <1>3, <1>4, <1>5

(* A half line ends it: nothing loads the file any more. *)
LEMMA InterruptedKeeps ==
  ASSUME RegistryInv, NEW p \in Processes, Appending(p), Interrupted(p), UNCHANGED blobs
  PROVE  /\ IsSequence(file') /\ HistoryHasNoHoles' /\ BlobsNeverDangle'
         /\ ToSet(file) \subseteq ToSet(file')
         /\ Loads(file', torn') => Loads(file, torn)
<1>1. IsSequence(file) /\ HistoryHasNoHoles /\ BlobsNeverDangle
  BY DEF RegistryInv, RegistryIsWhole
<1>2. CASE UNCHANGED <<file, torn>>
  BY <1>1, <1>2 DEF HistoryHasNoHoles, BlobsNeverDangle
<1>3. CASE torn' = TRUE /\ UNCHANGED file
  BY <1>1, <1>3 DEF HistoryHasNoHoles, BlobsNeverDangle, Loads
<1>4. CASE Written(Record(p))
  BY <1>4, WrittenKeeps
<1> QED BY <1>2, <1>3, <1>4 DEF Interrupted

(* Instances of the processes that do not move. *)
LEMMA InstancesKeep ==
  ASSUME RegistryInv, ToSet(file) \subseteq ToSet(file'), Loads(file', torn') => Loads(file, torn),
         blobs \subseteq blobs', NEW p \in Processes, mem'[p] = mem[p], reg'[p] \in {reg[p], None}
  PROVE  InstanceIsSound(p)'
<1>1. InstanceIsSound(p)
  BY DEF RegistryInv
<1>2. ASSUME reg'[p] # None PROVE mem'[p] # None /\ Stored(reg[p])' = blobs'
  <2>1. reg'[p] = reg[p] /\ mem[p] # None /\ Stored(reg[p]) = blobs
    BY <1>1, <1>2 DEF InstanceIsSound
  <2>2. reg[p].blob => reg[p].content \in blobs'
    BY <2>1 DEF Stored
  <2> QED BY <2>1, <2>2 DEF Stored
<1>3. mem'[p] # None => IsSequence(mem[p])' /\ (Loads(file', torn') => ToSet(mem[p])' \subseteq ToSet(file'))
  BY <1>1 DEF InstanceIsSound
<1> QED BY <1>2, <1>3 DEF InstanceIsSound

LEMMA OpenSteps ==
  ASSUME RegistryInv, NEW p \in Processes, Open(p) PROVE RegistryInv'
<1>1. RegistryIsWhole' /\ IsSequence(file') /\ DOMAIN mem' = Processes /\ DOMAIN reg' = Processes
  BY DEF Open, RegistryInv, RegistryIsWhole, NothingGivenIsLost, HistoryHasNoHoles, BlobsNeverDangle
<1>2. ASSUME NEW q \in Processes PROVE InstanceIsSound(q)'
  <2>1. CASE q = p
    <3>1. mem'[p] = file /\ reg'[p] = reg[p] /\ reg[p] = None
      BY DEF Open, RegistryInv, InstanceIsSound
    <3> QED BY <2>1, <3>1 DEF Open, RegistryInv, InstanceIsSound
  <2>2. CASE q # p
    BY <2>2, InstancesKeep DEF Open, RegistryInv
  <2> QED BY <2>1, <2>2
<1> QED BY <1>1, <1>2 DEF RegistryInv

LEMMA StartSteps ==
  ASSUME RegistryInv, NEW p \in Processes, NEW r \in Catalogue, StartRegister(p, r) PROVE RegistryInv'
<1>1. blobs \subseteq blobs' /\ blobs' = Stored(r) /\ UNCHANGED <<file, torn, mem, acked>>
  BY DEF StartRegister, Stored
<1>2. RegistryIsWhole' /\ IsSequence(file') /\ DOMAIN mem' = Processes /\ DOMAIN reg' = Processes
  BY <1>1 DEF StartRegister, RegistryInv, RegistryIsWhole, NothingGivenIsLost, HistoryHasNoHoles, BlobsNeverDangle
<1>3. ASSUME NEW q \in Processes PROVE InstanceIsSound(q)'
  <2>1. CASE q = p
    <3>1. reg'[p] = r /\ mem[p] # None
      BY DEF StartRegister, RegistryInv
    <3>2. Stored(r)' = blobs'
      BY <1>1 DEF Stored
    <3> QED BY <1>1, <2>1, <3>1, <3>2 DEF RegistryInv, InstanceIsSound
  <2>2. CASE q # p
    <3>1. reg'[q] = reg[q] /\ mem'[q] = mem[q]
      BY <1>1, <2>2 DEF StartRegister, RegistryInv
    <3> QED BY <1>1, <3>1, InstancesKeep
  <2> QED BY <2>1, <2>2
<1> QED BY <1>2, <1>3 DEF RegistryInv

LEMMA ReturnSteps ==
  ASSUME RegistryInv, NEW p \in Processes, ReturnExisting(p) PROVE RegistryInv'
<1>1. UNCHANGED <<file, torn, blobs, mem>> /\ reg' = [reg EXCEPT ![p] = None]
  BY DEF ReturnExisting
<1>2. Loads(file, torn) => Latest(mem[p], SourceId(reg[p])) \in ToSet(file)
  <2>1. mem[p] # None /\ InstanceIsSound(p) /\ Known(mem[p], SourceId(reg[p]))
    BY DEF ReturnExisting, Unchanged, RegistryInv, InstanceIsSound
  <2>2. Latest(mem[p], SourceId(reg[p])) \in ToSet(mem[p])
    BY <2>1, LatestIsOne DEF InstanceIsSound
  <2> QED BY <2>1, <2>2 DEF InstanceIsSound
<1>3. RegistryIsWhole'
  BY <1>1, <1>2 DEF ReturnExisting, RegistryInv, RegistryIsWhole, NothingGivenIsLost, HistoryHasNoHoles, BlobsNeverDangle
<1>4. ASSUME NEW q \in Processes PROVE InstanceIsSound(q)'
  BY <1>1, InstancesKeep DEF RegistryInv
<1> QED BY <1>1, <1>3, <1>4 DEF RegistryInv

LEMMA AppendSteps ==
  ASSUME RegistryInv, NEW p \in Processes, AppendRecord(p) PROVE RegistryInv'
<1>1. /\ Appending(p) /\ Written(Record(p)) /\ UNCHANGED blobs
      /\ reg' = [reg EXCEPT ![p] = None] /\ mem' = [mem EXCEPT ![p] = Append(@, Record(p))]
      /\ acked' = acked \cup {Record(p)}
  BY DEF AppendRecord, Appending
<1>2. /\ IsSequence(file') /\ HistoryHasNoHoles' /\ BlobsNeverDangle'
      /\ ToSet(file) \subseteq ToSet(file')
      /\ Loads(file', torn') => Loads(file, torn) /\ ToSet(file') = ToSet(file) \cup {Record(p)}
  BY <1>1, WrittenKeeps
<1>3. NothingGivenIsLost'
  BY <1>1, <1>2 DEF RegistryInv, RegistryIsWhole, NothingGivenIsLost
<1>4. ASSUME NEW q \in Processes PROVE InstanceIsSound(q)'
  <2>1. CASE q = p
    <3>1. reg'[p] = None /\ mem'[p] = Append(mem[p], Record(p)) /\ mem[p] # None /\ InstanceIsSound(p)
      BY <1>1 DEF RegistryInv, InstanceIsSound, Appending
    <3>2. IsSequence(mem'[p]) /\ ToSet(mem'[p]) = ToSet(mem[p]) \cup {Record(p)}
      BY <3>1, OneLineMore DEF InstanceIsSound
    <3> QED BY <1>2, <2>1, <3>1, <3>2 DEF InstanceIsSound
  <2>2. CASE q # p
    <3>1. reg'[q] = reg[q] /\ mem'[q] = mem[q]
      BY <1>1, <2>2 DEF RegistryInv
    <3> QED BY <1>1, <1>2, <3>1, InstancesKeep
  <2> QED BY <2>1, <2>2
<1> QED BY <1>1, <1>2, <1>3, <1>4 DEF RegistryInv, RegistryIsWhole

LEMMA FailureSteps ==
  ASSUME RegistryInv, NEW p \in Processes, AppendFails(p) \/ Die(p) PROVE RegistryInv'
<1>1. /\ UNCHANGED <<blobs, acked>> /\ reg' = [reg EXCEPT ![p] = None]
      /\ mem' = mem \/ mem' = [mem EXCEPT ![p] = None]
  BY DEF AppendFails, Die, Appending, IndexNothing
<1>2. /\ IsSequence(file') /\ HistoryHasNoHoles' /\ BlobsNeverDangle'
      /\ ToSet(file) \subseteq ToSet(file')
      /\ Loads(file', torn') => Loads(file, torn)
  <2>1. CASE UNCHANGED <<file, torn>>
    BY <1>1, <2>1 DEF RegistryInv, RegistryIsWhole, HistoryHasNoHoles, BlobsNeverDangle
  <2>2. CASE Interrupted(p) /\ Appending(p)
    BY <1>1, <2>2, InterruptedKeeps
  <2> QED BY <2>1, <2>2 DEF AppendFails, Die, Appending
<1>3. NothingGivenIsLost'
  BY <1>1, <1>2 DEF RegistryInv, RegistryIsWhole, NothingGivenIsLost
<1>4. ASSUME NEW q \in Processes PROVE InstanceIsSound(q)'
  <2>1. CASE mem'[q] = mem[q]
    BY <1>1, <1>2, <2>1, InstancesKeep DEF RegistryInv
  <2>2. CASE mem'[q] # mem[q]
    <3>1. mem'[q] = None /\ reg'[q] = None
      BY <1>1, <2>2 DEF RegistryInv
    <3> QED BY <3>1 DEF InstanceIsSound
  <2> QED BY <2>1, <2>2
<1> QED BY <1>1, <1>2, <1>3, <1>4 DEF RegistryInv, RegistryIsWhole

(* The projections and the readers take nothing from the registry. *)
LEMMA RegistryNext == ASSUME RegistryInv, [CorpusNext]_corpusVars PROVE RegistryInv'
<1>1. CASE UNCHANGED canonical
  BY <1>1 DEF canonical, RegistryInv, InstanceIsSound, Stored, RegistryIsWhole, NothingGivenIsLost, HistoryHasNoHoles, BlobsNeverDangle
<1>2. CASE Registry
  BY <1>2, OpenSteps, StartSteps, ReturnSteps, AppendSteps, FailureSteps DEF Registry
<1>3. Projector => UNCHANGED canonical
  BY DEF Projector, StartJob, StartProjection, DropTables, RecreateTables, ProjectCorpus, ProjectRecord, Commit, RollBack, BuildGraph
<1>4. Reader => UNCHANGED canonical
  BY DEF Reader, StartSearch, StartNeighbourhood, Search, Widen, EndRead, ReadNodes, NextLevel, Visit
<1>5. UNCHANGED corpusVars => UNCHANGED canonical
  BY DEF corpusVars, canonical
<1> QED BY <1>1, <1>2, <1>3, <1>4, <1>5 DEF CorpusNext

(* For any number of instances that know nothing of each other, failures   *)
(* and deaths: what a caller was given is in the file, its history has no  *)
(* holes and its bytes are stored.                                         *)
THEOREM RegistryStaysWhole == CorpusSpec => []RegistryIsWhole
<1>1. RegistryInv => RegistryIsWhole
  BY DEF RegistryInv
<1> QED BY <1>1, RegistryInit, RegistryNext, PTL DEF CorpusSpec
-----------------------------------------------------------------------------
(***************************************************************************)
(* The tables of the corpus.  The rows that record i writes are A[i]; a    *)
(* projection that goes over rows of the first L records again and has     *)
(* come to record d leaves, of every id, the row of the last record that   *)
(* wrote it, as of the first time it was written.                          *)
(***************************************************************************)
Wrote(A, i, k) == \E row \in A[i] : row.id = k
Reached(L, d) == IF d > L THEN d ELSE L
IsFirst(A, w, i, k) == \A j \in 1..w : Wrote(A, j, k) => i <= j
IsShown(A, L, d, i, k) ==
  \/ i <= d /\ \A j \in 1..d : Wrote(A, j, k) => j <= i
  \/ /\ \A j \in 1..d : ~Wrote(A, j, k)
     /\ i <= L /\ \A j \in 1..L : Wrote(A, j, k) => j <= i

RowsAreWritten(rows, A, L, d, w) ==
  \A row \in rows : \E i, j \in 1..w : \E new \in A[i], old \in A[j] :
    /\ new.id = old.id /\ row = [new EXCEPT !.at = old.at]
    /\ IsShown(A, L, d, i, new.id) /\ IsFirst(A, w, j, new.id)
WrittenAreRows(rows, A, w) == \A i \in 1..w : \A new \in A[i] : \E row \in rows : row.id = new.id
Overlaid(rows, A, L, d) == RowsAreWritten(rows, A, L, d, Reached(L, d)) /\ WrittenAreRows(rows, A, Reached(L, d))

(* A record writes one row of an id. *)
AreRows(A, n) ==
  \A i \in 1..n : \A row \in A[i] : {"id", "at"} \subseteq DOMAIN row /\ \A other \in A[i] : row.id = other.id => row = other

(* What an upsert leaves: the rows of other ids, and the new rows, as of    *)
(* the time of the row they meet.                                          *)
LEMMA UpsertRows ==
  ASSUME NEW rows, NEW new
  PROVE  /\ \A row \in rows : (\A r \in new : r.id # row.id) => row \in Upsert(rows, new)
         /\ \A r \in new : (\A old \in rows : old.id # r.id) => [r EXCEPT !.at = r.at] \in Upsert(rows, new)
         /\ \A r \in new : (\E old \in rows : old.id = r.id) =>
              \E old \in rows : old.id = r.id /\ [r EXCEPT !.at = old.at] \in Upsert(rows, new)
         /\ \A row \in Upsert(rows, new) :
              \/ row \in rows /\ \A r \in new : r.id # row.id
              \/ \E r \in new : row = [r EXCEPT !.at = r.at] /\ \A old \in rows : old.id # r.id
              \/ \E r \in new, old \in rows : old.id = r.id /\ row = [r EXCEPT !.at = old.at]
<1> DEFINE Kept == {old \in rows : \A r \in new : r.id # old.id}
           Met(r) == CHOOSE old \in rows : old.id = r.id
           Row(r) == [r EXCEPT !.at = IF \E old \in rows : old.id = r.id THEN Met(r).at ELSE @]
<1>1. Upsert(rows, new) = Kept \cup {Row(r) : r \in new}
  BY DEF Upsert
<1>2. ASSUME NEW r \in new, \A old \in rows : old.id # r.id PROVE Row(r) = [r EXCEPT !.at = r.at]
  BY <1>2
<1>3. ASSUME NEW r \in new, \E old \in rows : old.id = r.id
      PROVE  Met(r) \in rows /\ Met(r).id = r.id /\ Row(r) = [r EXCEPT !.at = Met(r).at]
  <2>1. Met(r) \in rows /\ Met(r).id = r.id
    BY <1>3
  <2>2. Row(r) = [r EXCEPT !.at = Met(r).at]
    BY <1>3
  <2> QED BY <2>1, <2>2
<1> HIDE DEF Row, Met
<1>4. ASSUME NEW row \in Upsert(rows, new)
      PROVE  \/ row \in rows /\ \A r \in new : r.id # row.id
             \/ \E r \in new : row = [r EXCEPT !.at = r.at] /\ \A old \in rows : old.id # r.id
             \/ \E r \in new, old \in rows : old.id = r.id /\ row = [r EXCEPT !.at = old.at]
  <2>1. CASE row \in Kept
    BY <2>1
  <2>2. CASE row \notin Kept
    <3>1. PICK r \in new : row = Row(r)
      BY <1>1, <1>4, <2>2
    <3> QED BY <1>2, <1>3, <3>1
  <2> QED BY <2>1, <2>2
<1>5. \A row \in rows : (\A r \in new : r.id # row.id) => row \in Upsert(rows, new)
  BY <1>1
<1>6. \A r \in new : Row(r) \in Upsert(rows, new)
  BY <1>1
<1>7. \A r \in new : (\A old \in rows : old.id # r.id) => [r EXCEPT !.at = r.at] \in Upsert(rows, new)
  BY <1>2, <1>6
<1>8. ASSUME NEW r \in new, \E old \in rows : old.id = r.id
      PROVE  \E old \in rows : old.id = r.id /\ [r EXCEPT !.at = old.at] \in Upsert(rows, new)
  BY <1>3, <1>6, <1>8
<1> QED BY <1>4, <1>5, <1>7, <1>8

(* The next record of the projection. *)
LEMMA OverlaidNext ==
  ASSUME NEW rows, NEW A, NEW L \in Nat, NEW d \in Nat, NEW n \in Nat, L <= n, d + 1 <= n, AreRows(A, n),
         Overlaid(rows, A, L, d)
  PROVE  Overlaid(Upsert(rows, A[d + 1]), A, L, d + 1)
<1> DEFINE w == Reached(L, d)
           v == Reached(L, d + 1)
           e == d + 1
           R == Upsert(rows, A[e])
<1>1. w \in Nat /\ v \in Nat /\ w <= v /\ v <= n /\ e \in 1..v /\ (v = w \/ (v = e /\ w = d)) /\ e \in 1..n
  BY DEF Reached
<1>2. \A j \in 1..v : j \in 1..w \/ (j = e /\ w = d)
  BY <1>1
<1>r. ASSUME NEW r, NEW t, {"id", "at"} \subseteq DOMAIN r
      PROVE  [r EXCEPT !.at = t].id = r.id /\ [r EXCEPT !.at = t].at = t
  BY <1>r
<1>3. \A row \in rows : \E i, j \in 1..w : \E new \in A[i], old \in A[j] :
        /\ new.id = old.id /\ row = [new EXCEPT !.at = old.at] /\ row.id = new.id /\ row.at = old.at
        /\ IsShown(A, L, d, i, new.id) /\ IsFirst(A, w, j, new.id)
  <2> TAKE row \in rows
  <2>1. PICK i \in 1..w, j \in 1..w : \E new \in A[i], old \in A[j] :
          /\ new.id = old.id /\ row = [new EXCEPT !.at = old.at]
          /\ IsShown(A, L, d, i, new.id) /\ IsFirst(A, w, j, new.id)
    BY DEF Overlaid, RowsAreWritten
  <2>2. PICK new \in A[i], old \in A[j] :
          /\ new.id = old.id /\ row = [new EXCEPT !.at = old.at]
          /\ IsShown(A, L, d, i, new.id) /\ IsFirst(A, w, j, new.id)
    BY <2>1
  <2>3. {"id", "at"} \subseteq DOMAIN new
    BY <1>1, <2>2 DEF AreRows
  <2> HIDE DEF w
  <2>4. row.id = new.id /\ row.at = old.at
    BY <1>r, <2>2, <2>3
  <2> QED BY <2>2, <2>4
<1>4. \A i \in 1..w : \A new \in A[i] : \E row \in rows : row.id = new.id
  BY DEF Overlaid, WrittenAreRows
<1> HIDE DEF w, v
<1>5. ASSUME NEW row \in R
      PROVE  \E i, j \in 1..v : \E new \in A[i], old \in A[j] :
               /\ new.id = old.id /\ row = [new EXCEPT !.at = old.at]
               /\ IsShown(A, L, e, i, new.id) /\ IsFirst(A, v, j, new.id)
  <2>1. CASE row \in rows /\ \A r \in A[e] : r.id # row.id
    <3>0. PICK i \in 1..w, j \in 1..w : \E new \in A[i], old \in A[j] :
            /\ new.id = old.id /\ row = [new EXCEPT !.at = old.at] /\ row.id = new.id
            /\ IsShown(A, L, d, i, new.id) /\ IsFirst(A, w, j, new.id)
      BY <1>3, <2>1
    <3>1. PICK new \in A[i], old \in A[j] :
            /\ new.id = old.id /\ row = [new EXCEPT !.at = old.at] /\ row.id = new.id
            /\ IsShown(A, L, d, i, new.id) /\ IsFirst(A, w, j, new.id)
      BY <3>0
    <3>2. ~Wrote(A, e, new.id)
      BY <2>1, <3>1 DEF Wrote
    <3>3. IsFirst(A, v, j, new.id)
      BY <1>2, <3>1, <3>2 DEF IsFirst
    <3>4. IsShown(A, L, e, i, new.id)
      <4>1. \A k \in 1..e : Wrote(A, k, new.id) => k \in 1..d
        BY <3>2
      <4>2. i <= d => i <= e
        BY <1>1
      <4> QED BY <3>1, <4>1, <4>2 DEF IsShown
    <3>5. i \in 1..v /\ j \in 1..v
      BY <1>1
    <3> QED BY <3>1, <3>3, <3>4, <3>5
  <2>2. ASSUME NEW r \in A[e], row = [r EXCEPT !.at = r.at], \A old \in rows : old.id # r.id
        PROVE  \E i, j \in 1..v : \E new \in A[i], old \in A[j] :
                 /\ new.id = old.id /\ row = [new EXCEPT !.at = old.at]
                 /\ IsShown(A, L, e, i, new.id) /\ IsFirst(A, v, j, new.id)
    <3>1. \A j \in 1..w : ~Wrote(A, j, r.id)
      BY <1>4, <2>2 DEF Wrote
    <3>2. IsFirst(A, v, e, r.id)
      BY <1>2, <3>1 DEF IsFirst
    <3>3. IsShown(A, L, e, e, r.id)
      BY DEF IsShown
    <3> QED BY <1>1, <2>2, <3>2, <3>3
  <2>3. ASSUME NEW r \in A[e], NEW met \in rows, met.id = r.id, row = [r EXCEPT !.at = met.at]
        PROVE  \E i, j \in 1..v : \E new \in A[i], old \in A[j] :
                 /\ new.id = old.id /\ row = [new EXCEPT !.at = old.at]
                 /\ IsShown(A, L, e, i, new.id) /\ IsFirst(A, v, j, new.id)
    <3>0. PICK j \in 1..w : \E old \in A[j] : met.id = old.id /\ met.at = old.at /\ IsFirst(A, w, j, met.id)
      BY <1>3
    <3>1. PICK old \in A[j] : met.id = old.id /\ met.at = old.at /\ IsFirst(A, w, j, met.id)
      BY <3>0
    <3>2. IsFirst(A, v, j, r.id)
      <4>1. j <= e \/ v = w
        BY <1>1
      <4> QED BY <1>2, <2>3, <3>1, <4>1 DEF IsFirst
    <3>3. IsShown(A, L, e, e, r.id)
      BY DEF IsShown
    <3>4. j \in 1..v
      BY <1>1
    <3> QED BY <1>1, <2>3, <3>1, <3>2, <3>3, <3>4
  <2> HIDE DEF R
  <2>4. \/ row \in rows /\ \A r \in A[e] : r.id # row.id
        \/ \E r \in A[e] : row = [r EXCEPT !.at = r.at] /\ \A old \in rows : old.id # r.id
        \/ \E r \in A[e], old \in rows : old.id = r.id /\ row = [r EXCEPT !.at = old.at]
    BY <1>5, UpsertRows DEF R
  <2> QED BY <2>1, <2>2, <2>3, <2>4
<1>6. ASSUME NEW i \in 1..v, NEW new \in A[i] PROVE \E row \in R : row.id = new.id
  <2>1. ASSUME NEW r \in A[e], r.id = new.id PROVE \E row \in R : row.id = new.id
    <3>1. {"id", "at"} \subseteq DOMAIN r
      BY <1>1 DEF AreRows
    <3>2. \E t : [r EXCEPT !.at = t] \in R
      BY UpsertRows
    <3> HIDE DEF R
    <3> QED BY <1>r, <2>1, <3>1, <3>2
  <2>2. CASE \A r \in A[e] : r.id # new.id
    <3>1. i \in 1..w
      BY <1>2, <2>2
    <3>2. PICK row \in rows : row.id = new.id
      BY <1>4, <3>1
    <3> QED BY <2>2, <3>2, UpsertRows
  <2> QED BY <2>1, <2>2
<1> QED BY <1>5, <1>6 DEF Overlaid, RowsAreWritten, WrittenAreRows, v

(* A projection over the rows it finds starts from what the last one left. *)
LEMMA OverlaidStart ==
  ASSUME NEW rows, NEW A, NEW B, NEW L \in Nat, \A i \in 1..L : A[i] = B[i], Overlaid(rows, A, L, L)
  PROVE  Overlaid(rows, B, L, 0)
<1>1. RowsAreWritten(rows, A, L, L, L) /\ WrittenAreRows(rows, A, L) /\ Reached(L, 0) = L
  BY DEF Overlaid, Reached
<1>2. \A k : \A i \in 1..L : IsShown(A, L, L, i, k) => IsShown(B, L, 0, i, k)
  BY DEF IsShown, Wrote
<1>3. \A k : \A j \in 1..L : IsFirst(A, L, j, k) => IsFirst(B, L, j, k)
  BY DEF IsFirst, Wrote
<1>4. ASSUME NEW row \in rows
      PROVE  \E i, j \in 1..L : \E new \in B[i], old \in B[j] :
               /\ new.id = old.id /\ row = [new EXCEPT !.at = old.at]
               /\ IsShown(B, L, 0, i, new.id) /\ IsFirst(B, L, j, new.id)
  <2>1. PICK i \in 1..L, j \in 1..L : \E new \in A[i], old \in A[j] :
          /\ new.id = old.id /\ row = [new EXCEPT !.at = old.at]
          /\ IsShown(A, L, L, i, new.id) /\ IsFirst(A, L, j, new.id)
    BY <1>1 DEF RowsAreWritten
  <2>2. PICK new \in A[i], old \in A[j] :
          /\ new.id = old.id /\ row = [new EXCEPT !.at = old.at]
          /\ IsShown(A, L, L, i, new.id) /\ IsFirst(A, L, j, new.id)
    BY <2>1
  <2> QED BY <1>2, <1>3, <2>2
<1>5. \A i \in 1..L : \A new \in B[i] : \E row \in rows : row.id = new.id
  BY <1>1 DEF WrittenAreRows
<1>6. RowsAreWritten(rows, B, L, 0, L) /\ WrittenAreRows(rows, B, L)
  BY <1>4, <1>5 DEF RowsAreWritten, WrittenAreRows
<1> QED BY <1>1, <1>6 DEF Overlaid

(* Once it has gone over all of them, the old rows leave no trace.         *)
LEMMA OverlaidEnd ==
  ASSUME NEW rows, NEW A, NEW L \in Nat, NEW n \in Nat, L <= n, Overlaid(rows, A, L, n)
  PROVE  Overlaid(rows, A, n, n)
<1>1. RowsAreWritten(rows, A, L, n, n) /\ WrittenAreRows(rows, A, n) /\ Reached(n, n) = n
  <2>1. Reached(L, n) = n /\ Reached(n, n) = n
    BY DEF Reached
  <2> QED BY <2>1 DEF Overlaid
<1>2. \A k : \A i \in 1..n : IsShown(A, L, n, i, k) => IsShown(A, n, n, i, k)
  BY DEF IsShown
<1>3. ASSUME NEW row \in rows
      PROVE  \E i, j \in 1..n : \E new \in A[i], old \in A[j] :
               /\ new.id = old.id /\ row = [new EXCEPT !.at = old.at]
               /\ IsShown(A, n, n, i, new.id) /\ IsFirst(A, n, j, new.id)
  <2>1. PICK i \in 1..n, j \in 1..n : \E new \in A[i], old \in A[j] :
          /\ new.id = old.id /\ row = [new EXCEPT !.at = old.at]
          /\ IsShown(A, L, n, i, new.id) /\ IsFirst(A, n, j, new.id)
    BY <1>1 DEF RowsAreWritten
  <2> QED BY <1>2, <2>1
<1>4. \A i \in 1..n : \A new \in A[i] : \E row \in rows : row.id = new.id
  BY <1>1 DEF WrittenAreRows
<1>5. RowsAreWritten(rows, A, n, n, n) /\ WrittenAreRows(rows, A, n)
  BY <1>3, <1>4 DEF RowsAreWritten, WrittenAreRows
<1> QED BY <1>1, <1>5 DEF Overlaid

(* And then the rows are, of every id, the last one written, as of the      *)
(* first.                                                                  *)
LEMMA OverlaidRows ==
  ASSUME NEW rows, NEW A, NEW n \in Nat, AreRows(A, n), Overlaid(rows, A, n, n)
  PROVE  /\ \A row \in rows : \E i, j \in 1..n : \E new \in A[i], old \in A[j] :
              /\ new.id = old.id /\ row = [new EXCEPT !.at = old.at] /\ row.id = new.id
              /\ \A m \in 1..n : Wrote(A, m, new.id) => m <= i /\ j <= m
         /\ \A i \in 1..n : \A new \in A[i] : \E row \in rows : row.id = new.id
<1>1. RowsAreWritten(rows, A, n, n, n) /\ WrittenAreRows(rows, A, n)
  BY DEF Overlaid, Reached
<1>2. ASSUME NEW row \in rows
      PROVE  \E i, j \in 1..n : \E new \in A[i], old \in A[j] :
               /\ new.id = old.id /\ row = [new EXCEPT !.at = old.at] /\ row.id = new.id
               /\ \A m \in 1..n : Wrote(A, m, new.id) => m <= i /\ j <= m
  <2>1. PICK i \in 1..n, j \in 1..n : \E new \in A[i], old \in A[j] :
          /\ new.id = old.id /\ row = [new EXCEPT !.at = old.at]
          /\ IsShown(A, n, n, i, new.id) /\ IsFirst(A, n, j, new.id)
    BY <1>1 DEF RowsAreWritten
  <2>2. PICK new \in A[i], old \in A[j] :
          /\ new.id = old.id /\ row = [new EXCEPT !.at = old.at]
          /\ IsShown(A, n, n, i, new.id) /\ IsFirst(A, n, j, new.id)
    BY <2>1
  <2>3. row.id = new.id
    <3>1. {"id", "at"} \subseteq DOMAIN new
      BY <2>2 DEF AreRows
    <3> QED BY <2>2, <3>1
  <2>4. Wrote(A, i, new.id)
    BY <2>2 DEF Wrote
  <2>5. \A m \in 1..n : Wrote(A, m, new.id) => m <= i /\ j <= m
    BY <2>2, <2>4 DEF IsShown, IsFirst
  <2> QED BY <2>2, <2>3, <2>5
<1>3. \A i \in 1..n : \A new \in A[i] : \E row \in rows : row.id = new.id
  BY <1>1 DEF WrittenAreRows
<1> QED BY <1>2, <1>3

UnitRows(records, b) == [i \in 1..Len(records) |-> {UnitRow(records[i], n) : n \in Extracted(records[i], b)}]
SourceRows(records) == [i \in 1..Len(records) |-> {SourceRow(records[i])}]
Reflects(view, records, b, L, d) ==
  Overlaid(view.units, UnitRows(records, b), L, d) /\ Overlaid(view.sources, SourceRows(records), L, d)

AllStored(records, b) == IsSequence(records) /\ \A i \in 1..Len(records) : records[i].blob \in b \cup {None}
Columns == {"sources", "units", "edges"}

LEMMA RecordRows ==
  ASSUME NEW records, NEW b, Len(records) \in Nat
  PROVE  AreRows(UnitRows(records, b), Len(records)) /\ AreRows(SourceRows(records), Len(records))
<1>1. ASSUME NEW i \in 1..Len(records), NEW row \in UnitRows(records, b)[i]
      PROVE  /\ {"id", "at"} \subseteq DOMAIN row
             /\ \A other \in UnitRows(records, b)[i] : row.id = other.id => row = other
  <2>1. UnitRows(records, b)[i] = {UnitRow(records[i], n) : n \in Extracted(records[i], b)}
    BY DEF UnitRows
  <2>2. PICK n : row = UnitRow(records[i], n)
    BY <2>1
  <2>3. \A m : UnitRow(records[i], m).id = <<records[i].source, m>> /\ {"id", "at"} \subseteq DOMAIN UnitRow(records[i], m)
    BY DEF UnitRow, UnitId
  <2>4. ASSUME NEW other \in UnitRows(records, b)[i], row.id = other.id PROVE row = other
    <3>1. PICK m : other = UnitRow(records[i], m)
      BY <2>1
    <3>2. m = n
      BY <2>2, <2>3, <2>4, <3>1
    <3> QED BY <2>2, <3>1, <3>2
  <2> QED BY <2>2, <2>3, <2>4
<1>2. ASSUME NEW i \in 1..Len(records), NEW row \in SourceRows(records)[i]
      PROVE  /\ {"id", "at"} \subseteq DOMAIN row
             /\ \A other \in SourceRows(records)[i] : row.id = other.id => row = other
  <2>1. SourceRows(records)[i] = {SourceRow(records[i])}
    BY DEF SourceRows
  <2>2. {"id", "at"} \subseteq DOMAIN SourceRow(records[i])
    BY DEF SourceRow
  <2> QED BY <2>1, <2>2
<1> QED BY <1>1, <1>2 DEF AreRows

(* What a blob that is stored makes of a record stays so.                  *)
LEMMA RowsStay ==
  ASSUME NEW records, NEW b, NEW c, b \subseteq c, AllStored(records, b)
  PROVE  UnitRows(records, c) = UnitRows(records, b) /\ AllStored(records, c)
<1>1. \A i \in 1..Len(records) : Extracted(records[i], c) = Extracted(records[i], b)
  BY DEF AllStored, Extracted, Readable
<1> QED BY <1>1 DEF UnitRows, AllStored

(* Over the rows of a prefix, and of one record more.                      *)
LEMMA ProjectionStarts ==
  ASSUME NEW view, NEW b, NEW old, NEW records, IsSequence(old), IsSequence(records), IsPrefix(old, records),
         Reflects(view, old, b, Len(old), Len(old))
  PROVE  Reflects(view, records, b, Len(old), 0)
<1>1. Len(old) \in Nat /\ Len(records) \in Nat /\ Len(old) <= Len(records)
  BY DEF IsSequence, IsPrefix
<1>2. \A i \in 1..Len(old) : old[i] = records[i]
  <2>1. \A i \in 1..Len(old) : SubSeq(old, 1, Len(old))[i] = old[i] /\ SubSeq(records, 1, Len(old))[i] = records[i]
    BY <1>1 DEF IsSequence
  <2> QED BY <2>1 DEF IsPrefix
<1>3. \A i \in 1..Len(old) : UnitRows(old, b)[i] = UnitRows(records, b)[i] /\ SourceRows(old)[i] = SourceRows(records)[i]
  BY <1>1, <1>2 DEF UnitRows, SourceRows
<1> QED BY <1>1, <1>3, OverlaidStart DEF Reflects

LEMMA ProjectionGoesOn ==
  ASSUME NEW view, NEW b, NEW records, NEW L \in Nat, NEW d \in Nat, Len(records) \in Nat, L <= Len(records),
         d < Len(records), DOMAIN view = Columns, Reflects(view, records, b, L, d)
  PROVE  Reflects(InsertRecord(view, records[d + 1], b), records, b, L, d + 1)
<1> DEFINE rec == records[d + 1]
           next == InsertRecord(view, rec, b)
<1>1. d + 1 \in 1..Len(records)
  OBVIOUS
<1>2. /\ UnitRows(records, b)[d + 1] = {UnitRow(rec, n) : n \in Extracted(rec, b)}
      /\ SourceRows(records)[d + 1] = {SourceRow(rec)}
  BY <1>1 DEF UnitRows, SourceRows
<1>3. /\ next.units = Upsert(view.units, UnitRows(records, b)[d + 1])
      /\ next.sources = Upsert(view.sources, SourceRows(records)[d + 1])
  <2>1. next.units = Upsert(view.units, {UnitRow(rec, n) : n \in Extracted(rec, b)}) /\ next.sources = Upsert(view.sources, {SourceRow(rec)})
    BY DEF InsertRecord, Columns
  <2> QED BY <1>2, <2>1
<1>4. Overlaid(next.units, UnitRows(records, b), L, d + 1)
  <2> HIDE DEF next
  <2> QED BY <1>1, <1>3, RecordRows, OverlaidNext DEF Reflects
<1>5. Overlaid(next.sources, SourceRows(records), L, d + 1)
  <2> HIDE DEF next
  <2> QED BY <1>1, <1>3, RecordRows, OverlaidNext DEF Reflects
<1> QED BY <1>4, <1>5 DEF Reflects

LEMMA ProjectionEnds ==
  ASSUME NEW view, NEW b, NEW records, NEW L \in Nat, Len(records) \in Nat, L <= Len(records),
         Reflects(view, records, b, L, Len(records))
  PROVE  Reflects(view, records, b, Len(records), Len(records))
BY OverlaidEnd DEF Reflects

(* Such rows are the ones said without the upserts.                        *)
LEMMA TheLast ==
  ASSUME NEW n \in Nat, NEW S \in SUBSET (1..n), NEW i \in S, NEW j \in S, \A m \in S : m <= i /\ j <= m
  PROVE  Max(S) = i /\ Min(S) = j
<1>1. \A m \in S : m \in Nat
  OBVIOUS
<1>2. Max(S) \in S /\ \A m \in S : Max(S) >= m
  BY <1>1 DEF Max
<1>3. Min(S) \in S /\ \A m \in S : Min(S) <= m
  BY <1>1 DEF Min
<1>4. Max(S) \in Nat /\ Min(S) \in Nat /\ i \in Nat /\ j \in Nat
  BY <1>1, <1>2, <1>3
<1>5. Max(S) <= i /\ Max(S) >= i /\ Min(S) <= j /\ Min(S) >= j
  BY <1>2, <1>3
<1> QED BY <1>4, <1>5

LEMMA EveryIdIsThere ==
  ASSUME NEW rows, NEW A, NEW n \in Nat, Overlaid(rows, A, n, n), NEW i \in 1..n, NEW new \in A[i]
  PROVE  \E row \in rows : row.id = new.id
<1>1. WrittenAreRows(rows, A, n)
  BY DEF Overlaid, Reached
<1> QED BY <1>1 DEF WrittenAreRows

LEMMA ExpectedUnitsAreRows ==
  ASSUME NEW view, NEW records, IsSequence(records), Reflects(view, records, blobs, Len(records), Len(records))
  PROVE  view.units = ExpectedUnits(records)
<1> DEFINE N == Len(records)
           A == UnitRows(records, blobs)
           Row(s, n) == LET is == Versions(records, s, n) IN [UnitRow(records[Max(is)], n) EXCEPT !.at = records[Min(is)].at]
<1>1. N \in Nat /\ DOMAIN records = 1..N
  BY DEF IsSequence
<1>2. \A i \in 1..N : A[i] = {UnitRow(records[i], n) : n \in Extracted(records[i], blobs)}
  BY DEF UnitRows
<1>3. \A i \in 1..N, n \in UNION {Extracted(records[i], blobs) : i \in 1..N} :
        UnitRow(records[i], n).id = <<records[i].source, n>> /\ UnitRow(records[i], n).at = records[i].at
  BY DEF UnitRow, UnitId
<1>4. ExpectedUnits(records) = UNION {{Row(records[i].source, n) : n \in Extracted(records[i], blobs)} : i \in 1..N}
  BY <1>1 DEF ExpectedUnits
<1>5. \A i \in 1..N : \A n \in Extracted(records[i], blobs) : Row(records[i].source, n) \in ExpectedUnits(records)
  <2> HIDE DEF Row
  <2> QED BY <1>4
<1>6. ASSUME NEW row \in ExpectedUnits(records)
      PROVE  \E i \in 1..N : \E n \in Extracted(records[i], blobs) : row = Row(records[i].source, n)
  <2> HIDE DEF Row
  <2> QED BY <1>4, <1>6
<1>7. ASSUME NEW i \in 1..N, NEW n \in Extracted(records[i], blobs)
      PROVE  \A m \in 1..N : Wrote(A, m, <<records[i].source, n>>) <=> m \in Versions(records, records[i].source, n)
  <2> TAKE m \in 1..N
  <2>1. Wrote(A, m, <<records[i].source, n>>)
          <=> \E k \in Extracted(records[m], blobs) : UnitRow(records[m], k).id = <<records[i].source, n>>
    BY <1>2 DEF Wrote
  <2>2. \A k : UnitRow(records[m], k).id = <<records[m].source, k>>
    BY DEF UnitRow, UnitId
  <2>3. m \in Versions(records, records[i].source, n) <=> records[m].source = records[i].source /\ n \in Extracted(records[m], blobs)
    BY <1>1 DEF Versions, IsOf
  <2> QED BY <2>1, <2>2, <2>3
<1>w. AreRows(A, N) /\ Overlaid(view.units, A, N, N)
  BY <1>1, RecordRows DEF Reflects
<1>8. ASSUME NEW row \in view.units
      PROVE  \E i \in 1..N : \E n \in Extracted(records[i], blobs) :
               row = Row(records[i].source, n) /\ row.id = <<records[i].source, n>>
  <2> HIDE DEF A, Row
  <2>1. PICK i \in 1..N, j \in 1..N : \E new \in A[i], old \in A[j] :
          /\ new.id = old.id /\ row = [new EXCEPT !.at = old.at] /\ row.id = new.id
          /\ \A m \in 1..N : Wrote(A, m, new.id) => m <= i /\ j <= m
    BY <1>1, <1>w, OverlaidRows
  <2>2. PICK new \in A[i], old \in A[j] :
          /\ new.id = old.id /\ row = [new EXCEPT !.at = old.at] /\ row.id = new.id
          /\ \A m \in 1..N : Wrote(A, m, new.id) => m <= i /\ j <= m
    BY <2>1
  <2>3. PICK n \in Extracted(records[i], blobs) : new = UnitRow(records[i], n)
    BY <1>2, <2>2
  <2>4. PICK k \in Extracted(records[j], blobs) : old = UnitRow(records[j], k)
    BY <1>2, <2>2
  <2> DEFINE S == Versions(records, records[i].source, n)
  <2>5. new.id = <<records[i].source, n>> /\ old.at = records[j].at
    BY <2>3, <2>4 DEF UnitRow, UnitId
  <2>6. i \in S /\ j \in S /\ S \subseteq 1..N /\ \A m \in S : m <= i /\ j <= m
    <3>1. Wrote(A, i, new.id) /\ Wrote(A, j, new.id)
      BY <2>2 DEF Wrote
    <3>2. S \subseteq 1..N
      BY <1>1 DEF Versions, IsOf
    <3> HIDE DEF S
    <3>3. \A m \in 1..N : Wrote(A, m, new.id) <=> m \in S
      BY <1>7, <2>5 DEF S
    <3> QED BY <2>2, <3>1, <3>2, <3>3
  <2>7. Max(S) = i /\ Min(S) = j
    <3> HIDE DEF S
    <3> QED BY <1>1, <2>6, TheLast
  <2>8. Row(records[i].source, n) = [UnitRow(records[i], n) EXCEPT !.at = records[j].at]
    BY <2>7 DEF Row
  <2> QED BY <2>2, <2>3, <2>5, <2>8
<1>9. ASSUME NEW i \in 1..N, NEW n \in Extracted(records[i], blobs) PROVE Row(records[i].source, n) \in view.units
  <2> HIDE DEF A, Row
  <2>1. UnitRow(records[i], n) \in A[i] /\ UnitRow(records[i], n).id = <<records[i].source, n>>
    BY <1>2 DEF UnitRow, UnitId
  <2>2. PICK row \in view.units : row.id = <<records[i].source, n>>
    BY <1>1, <1>w, <2>1, EveryIdIsThere
  <2>3. PICK m \in 1..N : \E k \in Extracted(records[m], blobs) :
          row = Row(records[m].source, k) /\ row.id = <<records[m].source, k>>
    BY <1>8
  <2> QED BY <2>2, <2>3
<1> HIDE DEF Row
<1>10. view.units \subseteq ExpectedUnits(records)
  BY <1>5, <1>8
<1>11. ExpectedUnits(records) \subseteq view.units
  BY <1>6, <1>9
<1> QED BY <1>10, <1>11

LEMMA ExpectedSourcesAreRows ==
  ASSUME NEW view, NEW records, IsSequence(records), Reflects(view, records, blobs, Len(records), Len(records))
  PROVE  view.sources = ExpectedSources(records)
<1> DEFINE N == Len(records)
           A == SourceRows(records)
           Row(s) == [SourceRow(Latest(records, s)) EXCEPT !.at = records[Min(IsOf(records, s))].at]
<1>1. N \in Nat /\ DOMAIN records = 1..N
  BY DEF IsSequence
<1>2. \A i \in 1..N : A[i] = {SourceRow(records[i])}
  BY DEF SourceRows
<1>3. \A i \in 1..N : SourceRow(records[i]).id = records[i].source /\ SourceRow(records[i]).at = records[i].at
  BY DEF SourceRow
<1>4. ExpectedSources(records) = {Row(s) : s \in {records[i].source : i \in 1..N}}
  BY <1>1 DEF ExpectedSources
<1>7. \A k : \A m \in 1..N : Wrote(A, m, k) <=> m \in IsOf(records, k)
  BY <1>1, <1>2, <1>3 DEF Wrote, IsOf
<1> HIDE DEF A
<1>w. AreRows(A, N) /\ Overlaid(view.sources, A, N, N)
  BY <1>1, RecordRows DEF Reflects, A
<1>8. ASSUME NEW row \in view.sources
      PROVE  \E i \in 1..N : row = Row(records[i].source) /\ row.id = records[i].source
  <2> HIDE DEF Row
  <2>1. PICK i \in 1..N, j \in 1..N : \E new \in A[i], old \in A[j] :
          /\ new.id = old.id /\ row = [new EXCEPT !.at = old.at] /\ row.id = new.id
          /\ \A m \in 1..N : Wrote(A, m, new.id) => m <= i /\ j <= m
    BY <1>1, <1>w, OverlaidRows
  <2>2. PICK new \in A[i], old \in A[j] :
          /\ new.id = old.id /\ row = [new EXCEPT !.at = old.at] /\ row.id = new.id
          /\ \A m \in 1..N : Wrote(A, m, new.id) => m <= i /\ j <= m
    BY <2>1
  <2>3. new = SourceRow(records[i]) /\ old = SourceRow(records[j])
    BY <1>2, <2>2
  <2> DEFINE S == IsOf(records, records[i].source)
  <2>6. i \in S /\ j \in S /\ S \subseteq 1..N /\ \A m \in S : m <= i /\ j <= m
    BY <1>1, <1>3, <1>7, <2>2, <2>3 DEF IsOf
  <2>7. Max(S) = i /\ Min(S) = j
    <3> HIDE DEF S
    <3> QED BY <1>1, <2>6, TheLast
  <2>8. Row(records[i].source) = [SourceRow(records[i]) EXCEPT !.at = records[j].at]
    BY <2>7 DEF Row, Latest
  <2> QED BY <1>3, <2>2, <2>3, <2>8
<1>9. ASSUME NEW i \in 1..N PROVE Row(records[i].source) \in view.sources
  <2> HIDE DEF Row
  <2>2. PICK row \in view.sources : row.id = records[i].source
    <3>1. SourceRow(records[i]) \in A[i] /\ SourceRow(records[i]).id = records[i].source
      BY <1>2, <1>3
    <3> QED BY <1>1, <1>w, <3>1, EveryIdIsThere
  <2>3. PICK m \in 1..N : row = Row(records[m].source) /\ row.id = records[m].source
    BY <1>8
  <2> QED BY <2>2, <2>3
<1> HIDE DEF Row
<1> QED BY <1>4, <1>8, <1>9

(* The rows are finitely many.                                             *)
LEMMA FiniteImage ==
  ASSUME NEW S, IsFiniteSet(S), NEW f, DOMAIN f = S
  PROVE  IsFiniteSet({f[x] : x \in S})
<1> DEFINE T == {f[x] : x \in S}
           g == [x \in S |-> f[x]]
<1>1. g \in Surjection(S, T)
  BY DEF Surjection
<1> QED BY <1>1, FS_Surjection

LEMMA FiniteUpsert ==
  ASSUME NEW rows, NEW new, IsFiniteSet(rows), IsFiniteSet(new)
  PROVE  IsFiniteSet(Upsert(rows, new))
<1> DEFINE Kept == {old \in rows : \A row \in new : row.id # old.id}
           f == [r \in new |-> [r EXCEPT !.at = IF \E old \in rows : old.id = r.id THEN (CHOOSE old \in rows : old.id = r.id).at ELSE @]]
<1>1. Upsert(rows, new) = Kept \cup {f[r] : r \in new}
  BY DEF Upsert
<1>2. IsFiniteSet(Kept)
  BY FS_Subset
<1>3. IsFiniteSet({f[r] : r \in new})
  <2>1. DOMAIN f = new
    OBVIOUS
  <2> HIDE DEF f
  <2> QED BY <2>1, FiniteImage
<1> HIDE DEF Kept, f
<1> QED BY <1>1, <1>2, <1>3, FS_Union

LEMMA FiniteRows ==
  ASSUME NEW view, NEW rec, NEW b, DOMAIN view = Columns, IsFiniteSet(view.units), \A c \in b : IsFiniteSet(DOMAIN Text[c])
  PROVE  IsFiniteSet(InsertRecord(view, rec, b).units) /\ DOMAIN InsertRecord(view, rec, b) = Columns
<1> DEFINE f == [n \in Extracted(rec, b) |-> UnitRow(rec, n)]
           new == {UnitRow(rec, n) : n \in Extracted(rec, b)}
<1>1. IsFiniteSet(Extracted(rec, b))
  <2>1. CASE Readable(rec, b)
    <3>1. Extracted(rec, b) \subseteq DOMAIN Text[rec.blob] /\ IsFiniteSet(DOMAIN Text[rec.blob])
      BY <2>1 DEF Extracted, Readable, Normalized
    <3> QED BY <3>1, FS_Subset
  <2>2. CASE ~Readable(rec, b)
    BY <2>2, FS_EmptySet DEF Extracted
  <2> QED BY <2>1, <2>2
<1>2. IsFiniteSet(new)
  <2>1. DOMAIN f = Extracted(rec, b) /\ new = {f[n] : n \in Extracted(rec, b)}
    OBVIOUS
  <2> HIDE DEF f, new
  <2> QED BY <1>1, <2>1, FiniteImage
<1>3. InsertRecord(view, rec, b).units = Upsert(view.units, new) /\ DOMAIN InsertRecord(view, rec, b) = DOMAIN view
  BY DEF InsertRecord, Columns
<1> HIDE DEF new
<1> QED BY <1>2, <1>3, FiniteUpsert

(* One projection at a time writes, and what it has written is the rows of *)
(* the records it went over, on top of those it found.                     *)
TablesAreSound ==
  /\ AllStored(seen, blobs)
  /\ tables = NoTables => seen = <<>>
  /\ tables # NoTables => DOMAIN tables = Columns /\ IsFiniteSet(tables.units)
  /\ tables # NoTables /\ tidy => Reflects(tables, seen, blobs, Len(seen), Len(seen))

JobIsSound(p) ==
  /\ job[p].pc = "recreate" => AllStored(mem[p], blobs)
  /\ job[p].pc \in {"project", "insert"} => AllStored(job[p].records, blobs)
  /\ job[p].pc = "insert" =>
       /\ DOMAIN job[p] = {"pc", "records", "done", "view"} /\ job[p].done \in 0..Len(job[p].records)
       /\ DOMAIN job[p].view = Columns /\ IsFiniteSet(job[p].view.units) /\ tables # NoTables
       /\ tidy /\ IsPrefix(seen, job[p].records) => Reflects(job[p].view, job[p].records, blobs, Len(seen), job[p].done)
       /\ \A q \in Processes : job[q].pc = "insert" => q = p

TextsAreFinite == \A c \in blobs : IsFiniteSet(DOMAIN Text[c])
MemoryIsStored(p) == mem[p] # None => AllStored(mem[p], blobs)

ProjectionInv ==
  /\ RegistryInv /\ DOMAIN job = Processes /\ TextsAreFinite /\ TablesAreSound
  /\ \A p \in Processes : MemoryIsStored(p) /\ JobIsSound(p)

LEMMA NothingStored == ASSUME NEW b PROVE AllStored(<<>>, b) /\ Len(<<>>) = 0
BY DEF AllStored, IsSequence

LEMMA NothingReflected ==
  ASSUME NEW b PROVE DOMAIN EmptyTables = Columns /\ IsFiniteSet(EmptyTables.units) /\ Reflects(EmptyTables, <<>>, b, 0, 0)
<1>1. EmptyTables.units = {} /\ EmptyTables.sources = {} /\ DOMAIN EmptyTables = Columns
  BY DEF EmptyTables, Columns
<1>2. \A A : Overlaid({}, A, 0, 0)
  BY DEF Overlaid, RowsAreWritten, WrittenAreRows, Reached
<1> QED BY <1>1, <1>2, FS_EmptySet DEF Reflects

LEMMA ProjectionInit == CorpusInit => ProjectionInv
<1> SUFFICES ASSUME CorpusInit PROVE ProjectionInv
  OBVIOUS
<1>1. RegistryInv
  BY RegistryInit
<1>2. TablesAreSound
  <2>1. seen = <<>> /\ tables = EmptyTables /\ Len(seen) = 0
    BY DEF CorpusInit
  <2> QED BY <2>1, NothingStored, NothingReflected DEF TablesAreSound
<1>3. \A p \in Processes : MemoryIsStored(p) /\ JobIsSound(p)
  BY DEF CorpusInit, MemoryIsStored, JobIsSound, NoJob
<1> QED BY <1>1, <1>2, <1>3 DEF ProjectionInv, CorpusInit, TextsAreFinite

(* Registrations, failures and deaths leave the tables alone.              *)
LEMMA TablesKeep ==
  ASSUME ProjectionInv, blobs \subseteq blobs', UNCHANGED <<tables, seen, tidy>>,
         \A q \in Processes : job'[q] = NoJob \/ (job'[q] = job[q] /\ (AllStored(mem[q], blobs) => AllStored(mem'[q], blobs')))
  PROVE  TablesAreSound' /\ \A p \in Processes : JobIsSound(p)'
<1>1. \A records : AllStored(records, blobs) =>
        AllStored(records, blobs') /\ UnitRows(records, blobs') = UnitRows(records, blobs)
  BY RowsStay
<1>2. TablesAreSound'
  <2>1. TablesAreSound
    BY DEF ProjectionInv
  <2> QED BY <1>1, <2>1 DEF TablesAreSound, Reflects
<1>3. ASSUME NEW p \in Processes PROVE JobIsSound(p)'
  <2>1. JobIsSound(p)
    BY DEF ProjectionInv
  <2>2. CASE job'[p] = NoJob
    BY <2>2 DEF JobIsSound, NoJob
  <2>3. CASE job'[p] = job[p]
    <3>1. \A q \in Processes : job'[q].pc = "insert" => job[q].pc = "insert"
      BY DEF NoJob
    <3>2. job'[p].pc = "recreate" => AllStored(mem'[p], blobs')
      BY <2>1, <2>3 DEF JobIsSound, NoJob
    <3>3. job[p].pc \in {"project", "insert"} =>
            AllStored(job[p].records, blobs') /\ UnitRows(job[p].records, blobs') = UnitRows(job[p].records, blobs)
      BY <1>1, <2>1 DEF JobIsSound
    <3> QED BY <2>1, <2>3, <3>1, <3>2, <3>3 DEF JobIsSound, Reflects
  <2> QED BY <2>2, <2>3
<1> QED BY <1>2, <1>3

LEMMA MemoriesKeep ==
  ASSUME ProjectionInv, blobs \subseteq blobs', NEW p \in Processes, mem'[p] \in {mem[p], None}
  PROVE  MemoryIsStored(p)'
<1>1. MemoryIsStored(p)
  BY DEF ProjectionInv
<1> QED BY <1>1, RowsStay DEF MemoryIsStored

LEMMA RegistryProjects ==
  ASSUME ProjectionInv, Registry PROVE ProjectionInv'
<1>1. RegistryInv' /\ RegistryInv
  BY RegistryNext DEF ProjectionInv, CorpusNext
<1>2. PICK p \in Processes :
        \/ Open(p) \/ ReturnExisting(p) \/ AppendRecord(p) \/ AppendFails(p) \/ Die(p)
        \/ \E r \in Catalogue : StartRegister(p, r)
  BY DEF Registry
<1>3. blobs' = blobs \/ \E r \in Catalogue : blobs' = Stored(r)
  BY <1>2 DEF Open, ReturnExisting, AppendRecord, AppendFails, Die, StartRegister
<1>4. blobs \subseteq blobs' /\ TextsAreFinite'
  BY <1>3, CorpusInputs DEF Stored, ProjectionInv, TextsAreFinite
<1>5. UNCHANGED <<tables, seen, tidy>> /\ DOMAIN job' = Processes
  BY <1>2 DEF Open, ReturnExisting, AppendRecord, AppendFails, Die, StartRegister, derived, ProjectionInv
<1>8. ASSUME NEW q \in Processes, (Open(p) \/ AppendRecord(p)) /\ q = p PROVE AllStored(mem'[q], blobs')
  <2>1. CASE Open(p) /\ q = p
    <3>1. mem'[q] = file /\ Malformed \notin ToSet(file) /\ blobs' = blobs /\ IsSequence(file)
      BY <1>1, <2>1 DEF Open, Loads, RegistryInv
    <3>2. DOMAIN file = 1..Len(file)
      BY <3>1 DEF IsSequence
    <3>3. \A i \in 1..Len(file) : file[i].blob \in blobs \cup {None}
      BY <1>1, <3>1, <3>2 DEF RegistryInv, RegistryIsWhole, BlobsNeverDangle, ToSet
    <3> QED BY <3>1, <3>3 DEF AllStored
  <2>2. CASE AppendRecord(p) /\ q = p
    <3>1. Appending(p) /\ mem'[q] = Append(mem[p], Record(p)) /\ blobs' = blobs /\ mem[p] # None
      BY <1>1, <2>2 DEF AppendRecord, RegistryInv, InstanceIsSound, Appending
    <3>2. AllStored(mem[p], blobs)
      BY <3>1 DEF ProjectionInv, MemoryIsStored
    <3>3. Record(p).blob \in blobs \cup {None}
      BY <1>1, <3>1, RecordFits
    <3> DEFINE s == mem[p]  e == Record(p)
    <3> HIDE DEF s, e
    <3>4. /\ IsSequence(Append(s, e)) /\ Len(s) \in Nat /\ Len(Append(s, e)) = Len(s) + 1
          /\ \A i \in 1..Len(s) : Append(s, e)[i] = s[i]
          /\ Append(s, e)[Len(s) + 1] = e
      BY <3>2, OneLineMore DEF AllStored, s
    <3>5. \A i \in 1..(Len(s) + 1) : i \in 1..Len(s) \/ i = Len(s) + 1
      BY <3>4
    <3>6. \A i \in 1..(Len(s) + 1) : Append(s, e)[i].blob \in blobs \cup {None}
      BY <3>2, <3>3, <3>4, <3>5 DEF AllStored, s, e
    <3>7. AllStored(Append(s, e), blobs)
      BY <3>4, <3>6 DEF AllStored
    <3> QED BY <3>1, <3>7 DEF s, e
  <2> QED BY <1>8, <2>1, <2>2
<1>6. ASSUME NEW q \in Processes PROVE MemoryIsStored(q)'
  <2>1. CASE mem'[q] \in {mem[q], None}
    BY <1>4, <2>1, MemoriesKeep
  <2>2. CASE (Open(p) \/ AppendRecord(p)) /\ q = p
    BY <1>8, <2>2 DEF MemoryIsStored
  <2> QED BY <1>2, <2>1, <2>2
          DEF Open, ReturnExisting, AppendRecord, AppendFails, Die, StartRegister, IndexNothing, ProjectionInv, RegistryInv
<1>7. ASSUME NEW q \in Processes
      PROVE  job'[q] = NoJob \/ (job'[q] = job[q] /\ (AllStored(mem[q], blobs) => AllStored(mem'[q], blobs')))
  <2>1. CASE Die(p) /\ q = p
    BY <2>1 DEF Die, ProjectionInv
  <2>2. CASE mem'[q] = mem[q] /\ job'[q] = job[q]
    BY <1>4, <2>2, RowsStay
  <2>3. CASE (Open(p) \/ AppendRecord(p)) /\ q = p
    <3>1. job'[q] = job[q] /\ AllStored(mem'[q], blobs')
      BY <1>8, <2>3 DEF Open, AppendRecord, derived
    <3> QED BY <3>1
  <2> QED BY <1>1, <1>2, <2>1, <2>2, <2>3
          DEF Open, ReturnExisting, AppendRecord, AppendFails, Die, StartRegister, IndexNothing, ProjectionInv, RegistryInv, derived
<1> QED BY <1>1, <1>4, <1>5, <1>6, <1>7, TablesKeep DEF ProjectionInv

(* Nothing is inserted while a projection is being prepared. *)
LEMMA JobsStand ==
  ASSUME ProjectionInv, NEW p \in Processes, ~Locked, UNCHANGED <<mem, blobs>>,
         \A q \in Processes : q # p => job'[q] = job[q], JobIsSound(p)'
  PROVE  \A q \in Processes : JobIsSound(q)'
<1>1. \A q \in Processes : job[q].pc # "insert" /\ JobIsSound(q)
  BY DEF Locked, ProjectionInv
<1>2. ASSUME NEW q \in Processes, q # p PROVE JobIsSound(q)'
  BY <1>1, <1>2 DEF JobIsSound
<1> QED BY <1>2

LEMMA PreparationProjects ==
  ASSUME ProjectionInv, NEW p \in Processes, StartProjection(p) \/ DropTables(p) \/ RecreateTables(p) \/ BuildGraph(p)
  PROVE  TablesAreSound' /\ \A q \in Processes : JobIsSound(q)'
<1>1. ~Locked /\ UNCHANGED <<mem, blobs>> /\ DOMAIN job = Processes /\ TablesAreSound /\ MemoryIsStored(p) /\ JobIsSound(p)
  BY DEF StartProjection, DropTables, RecreateTables, BuildGraph, StartJob, canonical, ProjectionInv
<1>2. TablesAreSound'
  <2>1. CASE StartProjection(p)
    BY <1>1, <2>1 DEF StartProjection, TablesAreSound
  <2>2. CASE DropTables(p)
    <3>1. tables' = NoTables /\ seen' = <<>>
      BY <2>2 DEF DropTables
    <3> QED BY <3>1, NothingStored DEF TablesAreSound
  <2>3. CASE RecreateTables(p)
    <3>1. UNCHANGED <<seen, tidy>> /\ tables' = IF tables = NoTables THEN EmptyTables ELSE tables
      BY <2>3 DEF RecreateTables
    <3>2. CASE tables = NoTables
      <4>1. seen' = <<>> /\ tables' = EmptyTables
        BY <1>1, <3>1, <3>2 DEF TablesAreSound
      <4> QED BY <4>1, NothingStored, NothingReflected DEF TablesAreSound
    <3>3. CASE tables # NoTables
      BY <1>1, <3>1, <3>3 DEF TablesAreSound
    <3> QED BY <3>2, <3>3
  <2>4. CASE BuildGraph(p)
    <3>1. UNCHANGED <<seen, tidy>> /\ tables # NoTables /\ tables' = [tables EXCEPT !.edges = Edges(tables.units)]
      BY <2>4 DEF BuildGraph
    <3>2. DOMAIN tables = Columns /\ tables'.units = tables.units /\ tables'.sources = tables.sources /\ DOMAIN tables' = Columns
      BY <1>1, <3>1 DEF TablesAreSound, Columns
    <3>3. tidy => Reflects(tables, seen, blobs, Len(seen), Len(seen))
      BY <1>1, <3>1 DEF TablesAreSound
    <3>4. tidy' => Reflects(tables', seen', blobs', Len(seen'), Len(seen'))
      BY <1>1, <3>1, <3>2, <3>3 DEF Reflects
    <3>5. AllStored(seen', blobs') /\ IsFiniteSet(tables'.units) /\ DOMAIN tables' = Columns /\ tables' # NoTables
      BY <1>1, <3>1, <3>2 DEF TablesAreSound, NoTables, Columns
    <3> QED BY <3>4, <3>5 DEF TablesAreSound
  <2> QED BY <2>1, <2>2, <2>3, <2>4
<1>3. \A q \in Processes : q # p => job'[q] = job[q]
  BY <1>1 DEF StartProjection, DropTables, RecreateTables, BuildGraph
<1>4. JobIsSound(p)'
  <2>1. CASE StartProjection(p) \/ RecreateTables(p)
    <3>1. job'[p] = [pc |-> "project", records |-> mem[p]]
      BY <1>1, <2>1 DEF StartProjection, RecreateTables
    <3>2. AllStored(mem[p], blobs)
      BY <1>1, <2>1 DEF StartProjection, RecreateTables, StartJob, MemoryIsStored, JobIsSound
    <3> QED BY <1>1, <3>1, <3>2 DEF JobIsSound
  <2>2. CASE DropTables(p)
    <3>1. job'[p] = [pc |-> "recreate"] /\ mem[p] # None
      BY <1>1, <2>2 DEF DropTables, StartJob
    <3> QED BY <1>1, <3>1 DEF JobIsSound, MemoryIsStored
  <2>3. CASE BuildGraph(p)
    <3>1. job'[p] = job[p] /\ job[p].pc # "insert"
      BY <1>1, <2>3 DEF BuildGraph, Locked
    <3> QED BY <1>1, <3>1 DEF JobIsSound
  <2> QED BY <2>1, <2>2, <2>3
<1> QED BY <1>1, <1>2, <1>3, <1>4, JobsStand

LEMMA InsertionProjects ==
  ASSUME ProjectionInv, NEW p \in Processes, ProjectCorpus(p) \/ ProjectRecord(p) \/ RollBack(p)
  PROVE  TablesAreSound' /\ \A q \in Processes : JobIsSound(q)'
<1>1. /\ UNCHANGED <<mem, blobs, tables, seen, tidy>> /\ DOMAIN job = Processes /\ TablesAreSound
      /\ \A q \in Processes : JobIsSound(q) /\ (q # p => job'[q] = job[q])
  BY DEF ProjectCorpus, ProjectRecord, RollBack, canonical, ProjectionInv
<1>2. TablesAreSound'
  BY <1>1 DEF TablesAreSound
<1>3. CASE RollBack(p)
  <2>1. \A q \in Processes : job'[q] = NoJob \/ (job'[q] = job[q] /\ (AllStored(mem[q], blobs) => AllStored(mem'[q], blobs')))
    BY <1>1, <1>3 DEF RollBack
  <2> QED BY <1>1, <2>1, TablesKeep
<1>4. CASE ProjectCorpus(p)
  <2>1. CASE tables = NoTables
    <3>1. \A q \in Processes : job'[q] = NoJob \/ (job'[q] = job[q] /\ (AllStored(mem[q], blobs) => AllStored(mem'[q], blobs')))
      BY <1>1, <1>4, <2>1 DEF ProjectCorpus
    <3> QED BY <1>1, <3>1, TablesKeep
  <2>2. CASE tables # NoTables
    <3> DEFINE R == job[p].records
    <3>1. job'[p] = [pc |-> "insert", records |-> R, done |-> 0, view |-> tables] /\ ~Locked /\ AllStored(R, blobs)
      BY <1>1, <1>4, <2>2 DEF ProjectCorpus, JobIsSound
    <3>2. Len(R) \in Nat /\ IsSequence(R) /\ IsSequence(seen) /\ Len(seen) \in Nat
      BY <1>1, <3>1 DEF AllStored, IsSequence, TablesAreSound
    <3>3. tidy /\ IsPrefix(seen, R) => Reflects(tables, R, blobs, Len(seen), 0)
      BY <1>1, <2>2, <3>2, ProjectionStarts DEF TablesAreSound
    <3>4. DOMAIN tables = Columns /\ IsFiniteSet(tables.units)
      BY <1>1, <2>2 DEF TablesAreSound
    <3>5. \A q \in Processes : job'[q].pc = "insert" => q = p
      BY <1>1, <3>1 DEF Locked
    <3> HIDE DEF R
    <3>6. DOMAIN job'[p] = {"pc", "records", "done", "view"} /\ job'[p].done \in 0..Len(R)
      BY <3>1, <3>2
    <3>7. JobIsSound(p)'
      BY <1>1, <2>2, <3>1, <3>3, <3>4, <3>5, <3>6 DEF JobIsSound
    <3> QED BY <1>1, <1>2, <3>1, <3>7, JobsStand
  <2> QED BY <2>1, <2>2
<1>5. CASE ProjectRecord(p)
  <2> DEFINE R == job[p].records
             d == job[p].done
             v == job[p].view
             w == InsertRecord(v, R[d + 1], blobs)
  <2>1. /\ job[p].pc = "insert" /\ d < Len(R) /\ JobIsSound(p)
        /\ job' = [job EXCEPT ![p].done = @ + 1, ![p].view = InsertRecord(@, job[p].records[job[p].done + 1], blobs)]
    BY <1>1, <1>5 DEF ProjectRecord
  <2>2. /\ DOMAIN job[p] = {"pc", "records", "done", "view"} /\ d \in 0..Len(R) /\ DOMAIN v = Columns /\ IsFiniteSet(v.units)
        /\ tables # NoTables /\ AllStored(R, blobs)
        /\ tidy /\ IsPrefix(seen, R) => Reflects(v, R, blobs, Len(seen), d)
        /\ \A q \in Processes : job[q].pc = "insert" => q = p
    BY <2>1 DEF JobIsSound
  <2>3. job'[p] = [job[p] EXCEPT !.done = d + 1, !.view = w]
    BY <1>1, <2>1
  <2> HIDE DEF w
  <2>4. job'[p].pc = "insert" /\ job'[p].records = R /\ job'[p].done = d + 1 /\ job'[p].view = w /\ DOMAIN job'[p] = DOMAIN job[p]
    BY <2>1, <2>2, <2>3
  <2>5. Len(R) \in Nat /\ Len(seen) \in Nat /\ d \in Nat /\ d + 1 \in 0..Len(R)
    BY <1>1, <2>1, <2>2 DEF AllStored, IsSequence, TablesAreSound
  <2>6. DOMAIN w = Columns /\ IsFiniteSet(w.units)
    BY <2>2, FiniteRows DEF w, ProjectionInv, TextsAreFinite
  <2>7. ASSUME tidy, IsPrefix(seen, R) PROVE Reflects(w, R, blobs, Len(seen), d + 1)
    <3>1. Len(seen) <= Len(R)
      BY <2>7 DEF IsPrefix
    <3> QED BY <2>1, <2>2, <2>5, <2>7, <3>1, ProjectionGoesOn DEF w
  <2> HIDE DEF R, d, v
  <2>8. JobIsSound(p)'
    BY <1>1, <2>2, <2>4, <2>5, <2>6, <2>7 DEF JobIsSound
  <2>9. ASSUME NEW q \in Processes, q # p PROVE JobIsSound(q)'
    <3>1. job'[q] = job[q] /\ JobIsSound(q) /\ job[q].pc # "insert"
      BY <1>1, <2>2, <2>9
    <3> QED BY <1>1, <3>1 DEF JobIsSound
  <2> QED BY <1>2, <2>8, <2>9
<1> QED BY <1>3, <1>4, <1>5

LEMMA CommitProjects ==
  ASSUME ProjectionInv, NEW p \in Processes, Commit(p)
  PROVE  TablesAreSound' /\ \A q \in Processes : JobIsSound(q)'
<1> DEFINE R == job[p].records
           v == job[p].view
<1>1. /\ UNCHANGED <<mem, blobs>> /\ DOMAIN job = Processes /\ TablesAreSound
      /\ \A q \in Processes : JobIsSound(q)
      /\ job' = [job EXCEPT ![p] = NoJob] /\ job[p].pc = "insert" /\ job[p].done = Len(R)
      /\ tables' = v /\ seen' = R /\ tidy' = (tidy /\ IsPrefix(seen, R))
  BY DEF Commit, canonical, ProjectionInv
<1>2. /\ DOMAIN v = Columns /\ IsFiniteSet(v.units) /\ AllStored(R, blobs)
      /\ tidy /\ IsPrefix(seen, R) => Reflects(v, R, blobs, Len(seen), Len(R))
      /\ \A q \in Processes : job[q].pc = "insert" => q = p
  BY <1>1 DEF JobIsSound
<1> HIDE DEF R, v
<1>3. Len(R) \in Nat /\ Len(seen) \in Nat
  BY <1>1, <1>2 DEF AllStored, IsSequence, TablesAreSound
<1>4. ASSUME tidy, IsPrefix(seen, R) PROVE Reflects(v, R, blobs, Len(R), Len(R))
  <2>1. Len(seen) <= Len(R)
    BY <1>4 DEF IsPrefix
  <2> QED BY <1>2, <1>3, <1>4, <2>1, ProjectionEnds
<1>5. v # NoTables
  BY <1>2 DEF NoTables, Columns
<1>6. TablesAreSound'
  BY <1>1, <1>2, <1>4, <1>5 DEF TablesAreSound
<1>7. ASSUME NEW q \in Processes PROVE JobIsSound(q)'
  <2>1. CASE q = p
    <3>1. job'[q].pc = "idle"
      BY <1>1, <2>1 DEF NoJob
    <3> QED BY <3>1 DEF JobIsSound
  <2>2. CASE q # p
    <3>1. job'[q] = job[q] /\ JobIsSound(q) /\ job[q].pc # "insert"
      BY <1>1, <1>2, <2>2
    <3> QED BY <1>1, <3>1 DEF JobIsSound
  <2> QED BY <2>1, <2>2
<1> QED BY <1>6, <1>7

LEMMA ProjectionNext == ASSUME ProjectionInv, [CorpusNext]_corpusVars PROVE ProjectionInv'
<1>1. RegistryInv'
  BY RegistryNext DEF ProjectionInv
<1>2. CASE Registry
  BY <1>2, RegistryProjects
<1>3. CASE Projector
  <2>1. PICK p \in Processes : \/ StartProjection(p) \/ DropTables(p) \/ RecreateTables(p) \/ ProjectCorpus(p)
                               \/ ProjectRecord(p) \/ Commit(p) \/ RollBack(p) \/ BuildGraph(p)
    BY <1>3 DEF Projector
  <2>2. UNCHANGED <<mem, blobs>> /\ DOMAIN job' = Processes
    BY <2>1 DEF StartJob, StartProjection, DropTables, RecreateTables, ProjectCorpus, ProjectRecord, Commit, RollBack, BuildGraph, canonical, ProjectionInv
  <2>3. TablesAreSound' /\ \A q \in Processes : JobIsSound(q)'
    BY <2>1, PreparationProjects, InsertionProjects, CommitProjects
  <2> QED BY <1>1, <2>2, <2>3 DEF ProjectionInv, TextsAreFinite, MemoryIsStored
<1>4. CASE Reader \/ UNCHANGED corpusVars
  <2>1. UNCHANGED <<canonical, derived>>
    BY <1>4 DEF Reader, StartSearch, StartNeighbourhood, Search, Widen, EndRead, ReadNodes, NextLevel, Visit, corpusVars, canonical, derived
  <2> QED BY <1>1, <2>1 DEF canonical, derived, ProjectionInv, TextsAreFinite, TablesAreSound, MemoryIsStored, JobIsSound
<1> QED BY <1>2, <1>3, <1>4 DEF CorpusNext

(* For any number of instances, any records and any texts: whatever        *)
(* projections, rebuilds, failures and deaths there were, the tables are   *)
(* those of a rebuild from the records last projected, unless a projection *)
(* missed records an earlier one had seen.                                 *)
THEOREM ProjectionsAreRebuilds == CorpusSpec => []ProjectionIsRebuild
<1>1. ASSUME ProjectionInv PROVE ProjectionIsRebuild
  <2> SUFFICES ASSUME tables # NoTables, tidy
               PROVE  tables.units = ExpectedUnits(seen) /\ tables.sources = ExpectedSources(seen)
    BY DEF ProjectionIsRebuild
  <2>1. Reflects(tables, seen, blobs, Len(seen), Len(seen)) /\ IsSequence(seen)
    BY <1>1 DEF ProjectionInv, TablesAreSound, AllStored
  <2> QED BY <2>1, ExpectedUnitsAreRows, ExpectedSourcesAreRows
<1> QED BY <1>1, ProjectionInit, ProjectionNext, PTL DEF CorpusSpec
-----------------------------------------------------------------------------
(***************************************************************************)
(* The reads of the corpus.                                                *)
(***************************************************************************)
Unflagged == rd.quiet /\ rd.flags = {} /\ rd.count < MaxEdges

(* Each node of a quiet graph read is still to be visited, or all its edges *)
(* are there, or a bound was reached that is told or spends the budget.    *)
WalkIsSound ==
  rd.pc \in {"visiting", "read"} =>
    /\ DOMAIN rd = {"pc", "q", "quiet", "allowed", "nodes", "edges", "count", "depth", "todo", "next", "flags"}
    /\ rd.count \in Nat
    /\ Unflagged => \A node \in rd.nodes : node \in rd.todo \cup rd.next \/ Touching(node) \subseteq rd.edges
    /\ Unflagged /\ rd.pc = "read" => rd.todo = {} /\ rd.next = {}

(* A quiet search found some of the rows the words ask for.                *)
Pooled == IF FallsBack(Candidates(tables.units, rd.q.words), rd.q.words)
          THEN AnyWord(tables.units, rd.q.words) ELSE Candidates(tables.units, rd.q.words)
SearchIsSound ==
  /\ rd.pc \in {"searching", "widening", "found"} => rd.q \in Searches
  /\ rd.pc = "widening" /\ rd.quiet => FallsBack(Candidates(tables.units, rd.q.words), rd.q.words)
  /\ rd.pc = "found" /\ rd.quiet => \E found \in Discovered(Pooled, rd.q.limit) : rd.hits = AnswerOf(found)

ReadInv ==
  /\ rd.pc # "idle" => {"pc", "q", "quiet"} \subseteq DOMAIN rd
  /\ WalkIsSound /\ SearchIsSound

LEMMA ReadInit == CorpusInit => ReadInv
BY DEF CorpusInit, NoRead, ReadInv, WalkIsSound, SearchIsSound

(* What others do is not seen, or ends the quiet.                          *)
LEMMA OthersRead ==
  ASSUME ReadInv, Registry \/ Projector \/ UNCHANGED corpusVars PROVE ReadInv'
<1>1. UNCHANGED <<rd, tables>> \/ Disturbed
  BY DEF Registry, Open, ReturnExisting, AppendRecord, AppendFails, Die, StartRegister, derived,
         Projector, StartProjection, DropTables, RecreateTables, ProjectCorpus, ProjectRecord, Commit, RollBack, BuildGraph, corpusVars
<1>2. CASE UNCHANGED <<rd, tables>>
  BY <1>2 DEF ReadInv, WalkIsSound, Unflagged, Touching, SearchIsSound, Pooled, AnswerOf
<1>3. CASE rd.pc = "idle" /\ rd' = rd
  BY <1>3 DEF ReadInv, WalkIsSound, SearchIsSound
<1>4. CASE rd.pc # "idle" /\ rd' = [rd EXCEPT !.quiet = FALSE]
  <2>1. DOMAIN rd' = DOMAIN rd /\ rd'.quiet = FALSE /\ rd'.pc = rd.pc /\ rd'.q = rd.q /\ rd'.count = rd.count
    BY <1>4 DEF ReadInv
  <2> QED BY <1>4, <2>1 DEF ReadInv, WalkIsSound, Unflagged, SearchIsSound
<1> QED BY <1>1, <1>2, <1>3, <1>4 DEF Disturbed

(* As many as there is room for are all of them, when there is room.       *)
LEMMA AllOrFull ==
  ASSUME NEW room \in Nat, NEW set, NEW taken \in AsManyAs(room, set)
  PROVE  /\ taken \subseteq set /\ Cardinality(taken) \in 0..room
         /\ taken = set \/ Cardinality(taken) = room
BY DEF AsManyAs

LEMMA TheLesser ==
  ASSUME NEW m \in Int, NEW n \in Int
  PROVE  Min({m, n}) = IF m <= n THEN m ELSE n
<1>1. \E k \in {m, n} : \A j \in {m, n} : k <= j
  OBVIOUS
<1>2. Min({m, n}) \in {m, n} /\ \A j \in {m, n} : Min({m, n}) <= j
  BY <1>1 DEF Min
<1> QED BY <1>2

LEMMA VisitReads ==
  ASSUME ReadInv, NEW node \in rd.todo, Visit(node) PROVE ReadInv'
<1> USE CorpusBounds DEF ValidBounds
<1> DEFINE room == Min({MaxFanOut, MaxEdges - rd.count})
<1>1. /\ DOMAIN rd = {"pc", "q", "quiet", "allowed", "nodes", "edges", "count", "depth", "todo", "next", "flags"}
      /\ rd.count \in Nat /\ rd.pc = "visiting" /\ rd.count < MaxEdges /\ UNCHANGED tables
      /\ Unflagged => \A n \in rd.nodes : n \in rd.todo \cup rd.next \/ Touching(n) \subseteq rd.edges
  BY DEF ReadInv, WalkIsSound, Visit, derived
<1>2. room \in Nat /\ (room = MaxFanOut \/ room = MaxEdges - rd.count)
  <2>1. MaxFanOut \in Int /\ MaxEdges - rd.count \in Int /\ MaxEdges - rd.count >= 0 /\ MaxFanOut >= 0
    BY <1>1
  <2> QED BY <2>1, TheLesser
<1>3. PICK taken \in AsManyAs(room, Touching(node)) :
        rd' = [rd EXCEPT !.edges = @ \cup taken, !.count = @ + Cardinality(taken), !.todo = @ \ {node},
                         !.nodes = @ \cup Ends(taken), !.next = @ \cup (Ends(taken) \ rd.nodes),
                         !.flags = @ \cup (IF FanOutReached(taken) THEN {"bound_max_fan_out"} ELSE {})]
  BY DEF Visit
<1> HIDE DEF room
<1>4. taken \subseteq Touching(node) /\ Cardinality(taken) \in 0..room /\ (taken = Touching(node) \/ Cardinality(taken) = room)
  BY <1>2, AllOrFull
<1>5. /\ DOMAIN rd' = DOMAIN rd /\ rd'.pc = "visiting" /\ rd'.quiet = rd.quiet /\ rd'.allowed = rd.allowed
      /\ rd'.edges = rd.edges \cup taken /\ rd'.count = rd.count + Cardinality(taken) /\ rd'.todo = rd.todo \ {node}
      /\ rd'.nodes = rd.nodes \cup Ends(taken) /\ rd'.next = rd.next \cup (Ends(taken) \ rd.nodes)
      /\ rd'.flags = rd.flags \cup (IF FanOutReached(taken) THEN {"bound_max_fan_out"} ELSE {})
  BY <1>1, <1>3
<1>6. rd'.count \in Nat /\ \A n : Touching(n)' = Touching(n)
  BY <1>1, <1>2, <1>4, <1>5 DEF Touching
<1>7. ASSUME Unflagged' PROVE Unflagged /\ taken = Touching(node)
  <2>1. ~FanOutReached(taken) /\ rd.flags = {} /\ rd.quiet
    BY <1>5, <1>7 DEF Unflagged
  <2>2. Cardinality(taken) \in Nat /\ Cardinality(taken) < MaxFanOut /\ rd.count + Cardinality(taken) < MaxEdges
    BY <1>1, <1>2, <1>4, <1>5, <1>7, <2>1 DEF FanOutReached, Unflagged
  <2>3. Cardinality(taken) # room
    BY <1>1, <1>2, <2>2
  <2> QED BY <1>1, <1>4, <2>1, <2>3 DEF Unflagged
<1>8. ASSUME Unflagged', NEW n \in rd'.nodes
      PROVE  n \in rd'.todo \cup rd'.next \/ Touching(n)' \subseteq rd'.edges
  <2>1. CASE n \in rd.nodes
    BY <1>1, <1>5, <1>6, <1>7, <1>8, <2>1
  <2>2. CASE n \notin rd.nodes
    BY <1>5, <1>8, <2>2
  <2> QED BY <2>1, <2>2
<1>9. WalkIsSound'
  BY <1>1, <1>5, <1>6, <1>8 DEF WalkIsSound
<1> QED BY <1>1, <1>5, <1>9 DEF ReadInv, SearchIsSound

LEMMA LevelReads ==
  ASSUME ReadInv, NextLevel PROVE ReadInv'
<1> DEFINE cut == IF rd.todo # {} THEN rd.flags \cup {"bound_max_edges"} ELSE rd.flags
           full == Cardinality(rd.nodes) >= MaxNodes
           last == rd.depth + 1 >= MaxDepth \/ rd.next = {}
<1>1. /\ DOMAIN rd = {"pc", "q", "quiet", "allowed", "nodes", "edges", "count", "depth", "todo", "next", "flags"}
      /\ rd.count \in Nat /\ rd.pc = "visiting" /\ UNCHANGED tables
      /\ Unflagged => \A n \in rd.nodes : n \in rd.todo \cup rd.next \/ Touching(n) \subseteq rd.edges
  BY DEF ReadInv, WalkIsSound, NextLevel, derived
<1>2. rd' = IF full THEN [rd EXCEPT !.pc = "read", !.flags = cut \cup {"bound_max_nodes"}]
            ELSE [rd EXCEPT !.pc = IF last THEN "read" ELSE @, !.depth = @ + 1, !.todo = rd.next, !.next = {},
                            !.flags = IF last /\ rd.next # {} THEN cut \cup {"bound_max_depth"} ELSE cut]
  BY DEF NextLevel
<1> HIDE DEF full, last
<1>3. /\ DOMAIN rd' = DOMAIN rd /\ rd'.pc \in {"visiting", "read"} /\ rd'.quiet = rd.quiet /\ rd'.allowed = rd.allowed
      /\ rd'.edges = rd.edges /\ rd'.count = rd.count /\ rd'.nodes = rd.nodes
  BY <1>1, <1>2
<1>4. \A n : Touching(n)' = Touching(n)
  BY <1>1, <1>3 DEF Touching
<1>5. ASSUME Unflagged' PROVE Unflagged /\ rd.todo = {} /\ rd'.todo = rd.next /\ rd'.next = {} /\ (rd'.pc = "read" => rd.next = {})
  <2>1. ~full
    BY <1>1, <1>2, <1>5 DEF Unflagged
  <2>2. /\ rd'.pc = (IF last THEN "read" ELSE "visiting") /\ rd'.todo = rd.next /\ rd'.next = {}
        /\ rd'.flags = (IF last /\ rd.next # {} THEN cut \cup {"bound_max_depth"} ELSE cut)
    BY <1>1, <1>2, <2>1
  <2> QED BY <1>3, <1>5, <2>2 DEF Unflagged
<1>6. WalkIsSound'
  BY <1>1, <1>3, <1>4, <1>5 DEF WalkIsSound
<1> QED BY <1>1, <1>3, <1>6 DEF ReadInv, SearchIsSound

LEMMA SearchReads ==
  ASSUME ReadInv, Search \/ Widen PROVE ReadInv'
<1> DEFINE candidates == Candidates(tables.units, rd.q.words)
<1>1. /\ {"pc", "q", "quiet"} \subseteq DOMAIN rd /\ rd.q \in Searches /\ UNCHANGED tables /\ SearchIsSound
  BY DEF ReadInv, SearchIsSound, Search, Widen, derived
<1>2. CASE rd' = [rd EXCEPT !.pc = "widening"] /\ FallsBack(candidates, rd.q.words)
  <2>1. DOMAIN rd' = DOMAIN rd /\ rd'.pc = "widening" /\ rd'.q = rd.q /\ rd'.quiet = rd.quiet
    BY <1>1, <1>2
  <2> QED BY <1>1, <1>2, <2>1 DEF ReadInv, WalkIsSound, SearchIsSound
<1>3. ASSUME NEW rows, rd.quiet => rows = Pooled, NEW found \in Discovered(rows, rd.q.limit),
             rd' = [pc |-> "found", q |-> rd.q, quiet |-> rd.quiet, hits |-> AnswerOf(found)]
      PROVE  ReadInv'
  <2>1. DOMAIN rd' = {"pc", "q", "quiet", "hits"} /\ rd'.pc = "found" /\ rd'.q = rd.q /\ rd'.quiet = rd.quiet /\ rd'.hits = AnswerOf(found)
    BY <1>3
  <2>2. Pooled' = Pooled /\ AnswerOf(found)' = AnswerOf(found)
    BY <1>1, <2>1 DEF Pooled, AnswerOf
  <2>3. rd'.quiet => \E taken \in Discovered(Pooled', rd'.q.limit) : rd'.hits = AnswerOf(taken)'
    <3> SUFFICES ASSUME rd'.quiet PROVE found \in Discovered(Pooled', rd'.q.limit) /\ rd'.hits = AnswerOf(found)'
      OBVIOUS
    <3> QED BY <1>3, <2>1, <2>2
  <2> QED BY <1>1, <2>1, <2>3 DEF ReadInv, WalkIsSound, SearchIsSound
<1>4. CASE Search
  <2>1. CASE FallsBack(candidates, rd.q.words)
    BY <1>2, <1>4, <2>1 DEF Search
  <2>2. CASE ~FallsBack(candidates, rd.q.words)
    <3>1. PICK found \in Discovered(candidates, rd.q.limit) :
            rd' = [pc |-> "found", q |-> rd.q, quiet |-> rd.quiet, hits |-> AnswerOf(found)]
      BY <1>4, <2>2 DEF Search
    <3>2. candidates = Pooled
      BY <2>2 DEF Pooled
    <3> HIDE DEF candidates
    <3> QED BY <1>3, <3>1, <3>2
  <2> QED BY <2>1, <2>2
<1>5. CASE Widen
  <2> DEFINE any == AnyWord(tables.units, rd.q.words)
  <2>1. PICK found \in Discovered(any, rd.q.limit) :
          rd' = [pc |-> "found", q |-> rd.q, quiet |-> rd.quiet, hits |-> AnswerOf(found)]
    BY <1>5 DEF Widen
  <2>2. rd.quiet => any = Pooled
    BY <1>1, <1>5 DEF Widen, SearchIsSound, Pooled
  <2> HIDE DEF any
  <2> QED BY <1>3, <2>1, <2>2
<1> QED BY <1>4, <1>5

LEMMA OtherReads ==
  ASSUME ReadInv, NEW q, (q \in Searches /\ StartSearch(q)) \/ StartNeighbourhood(q) \/ EndRead \/ ReadNodes PROVE ReadInv'
<1>1. CASE q \in Searches /\ StartSearch(q)
  BY <1>1 DEF StartSearch, ReadInv, WalkIsSound, SearchIsSound
<1>2. CASE StartNeighbourhood(q)
  BY <1>2 DEF StartNeighbourhood, ReadInv, WalkIsSound, SearchIsSound
<1>3. CASE EndRead
  BY <1>3 DEF EndRead, NoRead, ReadInv, WalkIsSound, SearchIsSound
<1>4. CASE ReadNodes
  <2>1. /\ rd'.pc = "visiting" /\ rd'.count = 0 /\ rd'.nodes = rd'.todo
        /\ DOMAIN rd' = {"pc", "q", "quiet", "allowed", "nodes", "edges", "count", "depth", "todo", "next", "flags"}
    BY <1>4 DEF ReadNodes
  <2> QED BY <2>1 DEF ReadInv, WalkIsSound, SearchIsSound
<1> QED BY <1>1, <1>2, <1>3, <1>4

LEMMA ReadNext == ASSUME ReadInv, [CorpusNext]_corpusVars PROVE ReadInv'
<1>1. CASE Registry \/ Projector \/ UNCHANGED corpusVars
  BY <1>1, OthersRead
<1>2. CASE Reader
  BY <1>2, VisitReads, LevelReads, SearchReads, OtherReads DEF Reader
<1> QED BY <1>1, <1>2 DEF CorpusNext

(* A neighbourhood that reports no bound, and has not used its edge budget *)
(* up, is whole, for any bounds.                                           *)
THEOREM UnflaggedReadsAreWhole == CorpusSpec => []UnflaggedReadIsWhole
<1>1. ReadInv => UnflaggedReadIsWhole
  BY DEF ReadInv, WalkIsSound, Unflagged, UnflaggedReadIsWhole
<1> QED BY <1>1, ReadInit, ReadNext, PTL DEF CorpusSpec

(* When there is room for all the rows, all are discovered.                *)
LEMMA AllDiscovered ==
  ASSUME NEW rows, IsFiniteSet(rows), NEW limit \in Nat, NEW found \in Discovered(rows, limit),
         Cardinality(rows) <= limit * DiscoveryFactor
  PROVE  found = rows
<1>1. limit * DiscoveryFactor \in Nat
  BY CorpusInputs
<1>2. found \subseteq rows /\ (found = rows \/ Cardinality(found) = limit * DiscoveryFactor)
  BY <1>1, AllOrFull DEF Discovered
<1>3. Cardinality(rows) \in Nat /\ Cardinality(found) \in Nat /\ Cardinality(found) <= Cardinality(rows)
      /\ (Cardinality(found) = Cardinality(rows) => found = rows)
  BY <1>2, FS_Subset, FS_CardinalityType
<1> QED BY <1>1, <1>2, <1>3

(* A row that may not be seen is never among the hits. *)
LEMMA HitsAreEligible ==
  ASSUME NEW found, NEW triples, NEW words, NEW source, NEW limit
  PROVE  Hits(found, triples, words, source, limit) \subseteq Eligible(found, triples, None)
BY DEF Hits, Ranked, Eligible

(* For any texts, scopes, limits and other processes: rows the reader may  *)
(* not see change no answer of a search that nothing disturbed, when the   *)
(* candidates fit the discovery limit and no such row decides the switch   *)
(* to "any word".                                                          *)
THEOREM HiddenRowsHaveNoInfluence == CorpusSpec => []HiddenHasNoInfluence
<1>1. ASSUME ReadInv, ProjectionInv PROVE HiddenHasNoInfluence
  <2> DEFINE q == rd.q
             units == tables.units
             Pool(rows) == IF FallsBack(Candidates(rows, q.words), q.words) THEN AnyWord(rows, q.words) ELSE Candidates(rows, q.words)
             triples == SearchTriples(q.scopes)
             visible == Eligible(units, triples, None)
  <2> SUFFICES ASSUME rd.pc = "found", rd.quiet, tables # NoTables
               PROVE  /\ rd.hits \subseteq visible
                      /\ /\ Cardinality(Pool(units)) <= q.limit * DiscoveryFactor
                         /\ FallsBack(Candidates(units, q.words), q.words) = FallsBack(Candidates(visible, q.words), q.words)
                         => rd.hits = Hits(Pool(visible), triples, q.words, q.source, q.limit)
    BY DEF HiddenHasNoInfluence
  <2>1. PICK found \in Discovered(Pool(units), q.limit) : rd.hits = Hits(found, triples, q.words, q.source, q.limit)
    BY <1>1 DEF ReadInv, SearchIsSound, Pooled, AnswerOf
  <2>2. IsFiniteSet(units) /\ q.limit \in Nat
    BY <1>1, CorpusInputs DEF ProjectionInv, TablesAreSound, ReadInv, SearchIsSound
  <2>3. Pool(units) \subseteq units /\ found \subseteq Pool(units)
    <3>1. Pool(units) \subseteq units
      BY DEF Candidates, AllWords, AnyWord
    <3>2. found \subseteq Pool(units)
      BY DEF Discovered, AsManyAs
    <3> QED BY <3>1, <3>2
  <2>4. rd.hits \subseteq visible
    <3>1. Eligible(found, triples, None) \subseteq visible
      BY <2>3 DEF Eligible
    <3> HIDE DEF Pool, visible
    <3> QED BY <2>1, <3>1, HitsAreEligible
  <2>5. ASSUME Cardinality(Pool(units)) <= q.limit * DiscoveryFactor,
               FallsBack(Candidates(units, q.words), q.words) = FallsBack(Candidates(visible, q.words), q.words)
        PROVE  rd.hits = Hits(Pool(visible), triples, q.words, q.source, q.limit)
    <3>1. found = Pool(units)
      <4>1. IsFiniteSet(Pool(units))
        BY <2>2, <2>3, FS_Subset
      <4> HIDE DEF Pool
      <4> QED BY <2>1, <2>2, <2>5, <4>1, AllDiscovered
    <3>2. Eligible(Pool(units), triples, q.source) = Eligible(Pool(visible), triples, q.source)
      <4>1. CASE FallsBack(Candidates(units, q.words), q.words)
        <5>1. Pool(units) = AnyWord(units, q.words) /\ Pool(visible) = AnyWord(visible, q.words)
          BY <2>5, <4>1
        <5>2. Eligible(AnyWord(units, q.words), triples, q.source) = Eligible(AnyWord(visible, q.words), triples, q.source)
          BY DEF Eligible, AnyWord
        <5> QED BY <5>1, <5>2
      <4>2. CASE ~FallsBack(Candidates(units, q.words), q.words)
        <5>1. Pool(units) = Candidates(units, q.words) /\ Pool(visible) = Candidates(visible, q.words)
          BY <2>5, <4>2
        <5>2. Eligible(Candidates(units, q.words), triples, q.source) = Eligible(Candidates(visible, q.words), triples, q.source)
          BY DEF Eligible, Candidates, AllWords
        <5> QED BY <5>1, <5>2
      <4> QED BY <4>1, <4>2
    <3> HIDE DEF Pool, visible, triples
    <3> QED BY <2>1, <3>1, <3>2 DEF Hits
  <2> QED BY <2>4, <2>5
<1> QED BY <1>1, ReadInit, ReadNext, ProjectionInit, ProjectionNext, PTL DEF CorpusSpec
=============================================================================
