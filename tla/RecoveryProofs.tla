--------------------------- MODULE RecoveryProofs ---------------------------
(***************************************************************************)
(* Proofs about Recovery for any number of processes, attempts, records    *)
(* and crashes: what is promoted is whole, a -wal stands next to its own   *)
(* database, and the outcome of a call is true. The second half is about   *)
(* Restore: a failed restore gives back what was there, a successful one   *)
(* has activated the whole backup.                                         *)
(***************************************************************************)
EXTENDS Recovery, Restore, TLAPS

Before == {"scan", "diagnose", "snapshot", "reserve", "mark", "start"}
Committed == {"unlink", "unmark", "verify"}

\* What is known of the attempt of the process that holds the locks.
AttemptIsKnown ==
    \A p \in Procs : pc[p] # "idle" =>
        /\ token[p] \in Tokens /\ by[token[p]] = p /\ outcome[token[p]] = "none"
        /\ token[p] \in promoted <=> pc[p] \in Committed
        /\ pc[p] \in Before => worker[token[p]] = "none"
        /\ pc[p] \in {"quarantine", "replace"} \cup Committed => worker[token[p]] = "ended"
        /\ pc[p] = "replace" => build[token[p]] = "whole" /\ old[token[p]] \in {NoFile, derived.file}
        /\ pc[p] \in {"replace"} \cup Committed => sidecar = NoFile

\* A token that was not drawn has no worker and no result.
UndrawnIsFresh ==
    \A t \in Tokens : by[t] = NoProc => worker[t] = "none" /\ outcome[t] = "none" /\ t \notin promoted

\* A worker that is through leaves no half of a build.
FinishedIsWhole == \A t \in Tokens : worker[t] \in {"built", "unlink", "ended"} => build[t] # "partial"

\* The canonical file only grows, and the store is a build that was promoted.
SourcesAreKnown ==
    /\ \A t \in Tokens : taken[t] <= canonical
    /\ derived.file \in Tokens => derived.file \in promoted

IInv ==
    /\ TypeOK /\ AttemptIsKnown /\ UndrawnIsFresh /\ FinishedIsWhole /\ SourcesAreKnown
    /\ SidecarFitsDerived /\ WholeBuildOnly /\ OutcomeTellsWhatHappened

-----------------------------------------------------------------------------
(***************************************************************************)
(* The helpers of the actions.                                             *)
(***************************************************************************)

Places == {"idle"} \cup Before \cup {"join", "quarantine", "replace"} \cup Committed
BuildStates == {"none", "partial", "whole", "foreign"}
Outcomes == {"none", "current", "rebuilt", "interrupted", "unavailable"}

\* _remove_owned takes away one build, or nothing.
LEMMA RemoveEffect ==
    ASSUME TypeOK, NEW t \in Tokens, Remove(t)
    PROVE  /\ build' \in [Tokens -> BuildStates] /\ wal' \subseteq Tokens /\ marker' \subseteq Tokens
           /\ \A u \in Tokens : build'[u] = build[u] \/ (u = t /\ build'[u] = "none")
BY DEF TypeOK, Remove, builds, BuildStates

\* The locks have one holder.
LEMMA OneCall ==
    ASSUME TypeOK, NEW p \in Procs, pc[p] # "idle"
    PROVE  lock = p /\ lock # NoProc /\ \A q \in Procs : q # p => pc[q] = "idle"
BY NamesAssumption DEF TypeOK

\* A return frees the locks and settles the attempt.
LEMMA ReturnEffect ==
    ASSUME IInv, NEW p \in Procs, pc[p] # "idle", NEW what \in Outcomes, Return(p, what),
           UNCHANGED <<by, promoted>>,
           what \in {"interrupted", "current"} => token[p] \notin promoted,
           what = "rebuilt" => token[p] \in promoted,
           \A t \in Tokens : by[t] = NoProc => worker'[t] = worker[t]
    PROVE  /\ pc' \in [Procs -> Places] /\ lock' = NoProc
           /\ \A q \in Procs : pc'[q] # "idle" <=> lock' = q
           /\ outcome' \in [Tokens -> Outcomes]
           /\ AttemptIsKnown' /\ UndrawnIsFresh' /\ OutcomeTellsWhatHappened'
<1>1. token[p] \in Tokens /\ by[token[p]] = p /\ p # NoProc
    BY NamesAssumption DEF IInv, AttemptIsKnown
<1>2. /\ pc' = [pc EXCEPT ![p] = "idle"] /\ lock' = NoProc
      /\ outcome' = [outcome EXCEPT ![token[p]] = what]
    BY DEF Return, Goto
<1>3. pc' \in [Procs -> Places] /\ outcome' \in [Tokens -> Outcomes]
    BY <1>1, <1>2 DEF IInv, TypeOK, Places, Before, Committed, Outcomes
<1>4. \A q \in Procs : pc'[q] = "idle"
    BY <1>2, OneCall DEF IInv, TypeOK
<1>5. \A q \in Procs : pc'[q] # "idle" <=> lock' = q
    BY <1>2, <1>4, NamesAssumption
<1>6. AttemptIsKnown'
    BY <1>4 DEF AttemptIsKnown
<1>7. outcome'[token[p]] = what /\ \A t \in Tokens : t # token[p] => outcome'[t] = outcome[t]
    BY <1>1, <1>2 DEF IInv, TypeOK
<1>8. UndrawnIsFresh'
    BY <1>1, <1>7 DEF IInv, UndrawnIsFresh
<1>9. OutcomeTellsWhatHappened'
    BY <1>7 DEF IInv, OutcomeTellsWhatHappened
<1> QED BY <1>2, <1>3, <1>5, <1>6, <1>8, <1>9

\* A step on keeps the locks.
LEMMA GotoEffect ==
    ASSUME TypeOK, NEW p \in Procs, pc[p] # "idle", NEW where \in Places \ {"idle"}, Goto(p, where),
           UNCHANGED lock
    PROVE  /\ pc' \in [Procs -> Places] /\ pc'[p] = where
           /\ \A q \in Procs : q # p => pc'[q] = "idle"
           /\ \A q \in Procs : pc'[q] # "idle" <=> lock' = q
<1>1. pc' = [pc EXCEPT ![p] = where]
    BY DEF Goto
<1>2. pc' \in [Procs -> Places] /\ pc'[p] = where /\ \A q \in Procs : q # p => pc'[q] = pc[q]
    BY <1>1 DEF TypeOK, Places, Before, Committed
<1>3. lock = p /\ \A q \in Procs : q # p => pc[q] = "idle"
    BY OneCall
<1> QED BY <1>2, <1>3

-----------------------------------------------------------------------------
(***************************************************************************)
(* Each step keeps the invariant.                                          *)
(***************************************************************************)

LEMMA TypeInit == Init => IInv
<1> SUFFICES ASSUME Init PROVE IInv
    OBVIOUS
<1>1. derived \in [file : Files \cup {NoFile}, upto : -1 .. MaxRecords] /\ derived.file \notin Tokens
    BY NamesAssumption DEF Init, Missing, Damaged, Files
<1>2. sidecar \in Files \cup {NoFile}
    BY <1>1 DEF Init
<1>3. TypeOK
    BY <1>1, <1>2, NamesAssumption DEF Init, TypeOK
<1>4. AttemptIsKnown /\ UndrawnIsFresh /\ FinishedIsWhole
    BY DEF Init, AttemptIsKnown, UndrawnIsFresh, FinishedIsWhole
<1>5. SourcesAreKnown
    BY <1>1, NamesAssumption DEF Init, SourcesAreKnown
<1>6. SidecarFitsDerived /\ WholeBuildOnly /\ OutcomeTellsWhatHappened
    BY <1>1 DEF Init, SidecarFitsDerived, WholeBuildOnly, OutcomeTellsWhatHappened
<1> QED BY <1>3, <1>4, <1>5, <1>6 DEF IInv

\* Writers and the projection.
LEMMA OthersStep ==
    ASSUME IInv, Append1 \/ Project PROVE IInv'
<1>1. CASE Append1
    <2>1. canonical' = canonical + 1 /\ canonical' \in 0 .. MaxRecords
        BY <1>1, NamesAssumption DEF Append1, IInv, TypeOK
    <2>2. TypeOK'
        BY <1>1, <2>1 DEF Append1, IInv, TypeOK, store, builds, calls, workers, results
    <2>3. SourcesAreKnown'
        <3>1. \A t \in Tokens : taken[t] <= canonical + 1
            BY NamesAssumption DEF IInv, TypeOK, SourcesAreKnown
        <3> QED BY <1>1, <2>1, <3>1 DEF Append1, IInv, SourcesAreKnown, store, results
    <2>4. /\ AttemptIsKnown' /\ UndrawnIsFresh' /\ FinishedIsWhole'
          /\ SidecarFitsDerived' /\ WholeBuildOnly' /\ OutcomeTellsWhatHappened'
        BY <1>1 DEF Append1, IInv, AttemptIsKnown, UndrawnIsFresh, FinishedIsWhole, SidecarFitsDerived,
                    WholeBuildOnly, OutcomeTellsWhatHappened, store, builds, calls, workers, results
    <2> QED BY <2>2, <2>3, <2>4 DEF IInv
<1>2. CASE Project
    <2>1. derived' = [derived EXCEPT !.upto = canonical] /\ sidecar' \in {NoFile, derived.file}
        BY <1>2 DEF Project
    <2>2. derived'.file = derived.file /\ derived'.upto = canonical
          /\ derived' \in [file : Files \cup {NoFile}, upto : -1 .. MaxRecords]
        BY <2>1 DEF IInv, TypeOK
    <2>3. TypeOK'
        BY <1>2, <2>1, <2>2 DEF Project, IInv, TypeOK, builds, inputs, calls, workers, results
    <2>4. AttemptIsKnown'
        BY <1>2, NamesAssumption DEF Project, IInv, TypeOK, AttemptIsKnown, calls
    <2>5. UndrawnIsFresh' /\ FinishedIsWhole' /\ OutcomeTellsWhatHappened'
        BY <1>2 DEF Project, IInv, UndrawnIsFresh, FinishedIsWhole, OutcomeTellsWhatHappened,
                    builds, workers, results
    <2>6. SourcesAreKnown' /\ WholeBuildOnly'
        BY <1>2, <2>2 DEF Project, IInv, TypeOK, SourcesAreKnown, WholeBuildOnly, inputs, results
    <2>7. SidecarFitsDerived'
        BY <2>1, <2>2 DEF SidecarFitsDerived
    <2> QED BY <2>3, <2>4, <2>5, <2>6, <2>7 DEF IInv
<1> QED BY <1>1, <1>2

LEMMA AcquireStep ==
    ASSUME IInv, NEW p \in Procs, NEW t \in Tokens, Acquire(p, t) PROVE IInv'
<1>1. /\ pc[p] = "idle" /\ lock = NoProc /\ by[t] = NoProc /\ lock' = p
      /\ by' = [by EXCEPT ![t] = p] /\ token' = [token EXCEPT ![p] = t] /\ pc' = [pc EXCEPT ![p] = "scan"]
    BY DEF Acquire, Goto
<1>2. \A q \in Procs : pc[q] = "idle"
    BY <1>1, NamesAssumption DEF IInv, TypeOK
<1>3. pc' \in [Procs -> Places] /\ \A q \in Procs : pc'[q] # "idle" <=> lock' = q
    BY <1>1, <1>2 DEF IInv, TypeOK, Places, Before, Committed
<1>4. by' \in [Tokens -> Procs \cup {NoProc}] /\ token' \in [Procs -> Tokens \cup {NoFile}]
    BY <1>1 DEF IInv, TypeOK
<1>5. reclaim' \in [Procs -> SUBSET Tokens]
    <2>1. PICK R \in SUBSET {u \in Tokens : Owned(u)} : reclaim' = [reclaim EXCEPT ![p] = R]
        BY DEF Acquire
    <2>2. R \in SUBSET Tokens
        OBVIOUS
    <2> QED BY <2>1, <2>2 DEF IInv, TypeOK
<1>6. refuse' \in [Procs -> BOOLEAN]
    <2>1. refuse' = [refuse EXCEPT ![p] = Unacceptable] /\ Unacceptable \in BOOLEAN
        BY DEF Acquire, Unacceptable
    <2> QED BY <2>1 DEF IInv, TypeOK
<1>7. TypeOK'
    BY <1>1, <1>3, <1>4, <1>5, <1>6 DEF Acquire, IInv, TypeOK, store, builds, inputs, results,
       Places, Before, Committed
<1>8. AttemptIsKnown'
    <2>1. outcome[t] = "none" /\ worker[t] = "none" /\ t \notin promoted
        BY <1>1 DEF IInv, UndrawnIsFresh
    <2>2. token'[p] = t /\ by'[t] = p /\ pc'[p] = "scan" /\ \A q \in Procs : q # p => pc'[q] = "idle"
        BY <1>1, <1>2 DEF IInv, TypeOK
    <2> QED BY <2>1, <2>2 DEF Acquire, results, AttemptIsKnown, Committed, Before
<1>9. UndrawnIsFresh'
    BY <1>1, NamesAssumption DEF Acquire, IInv, TypeOK, UndrawnIsFresh, results
<1>10. /\ FinishedIsWhole' /\ SourcesAreKnown' /\ SidecarFitsDerived' /\ WholeBuildOnly'
       /\ OutcomeTellsWhatHappened'
    BY DEF Acquire, IInv, FinishedIsWhole, SourcesAreKnown, SidecarFitsDerived, WholeBuildOnly,
           OutcomeTellsWhatHappened, store, builds, inputs, results
<1> QED BY <1>7, <1>8, <1>9, <1>10 DEF IInv

\* A step in which builds only go away leaves the other parts alone.
LEMMA BuildsGoAway ==
    ASSUME IInv, UNCHANGED <<worker, derived, canonical, taken, promoted, sidecar>>,
           \A u \in Tokens : build'[u] \in {build[u], "none"}
    PROVE  FinishedIsWhole' /\ SourcesAreKnown' /\ SidecarFitsDerived' /\ WholeBuildOnly'
BY DEF IInv, FinishedIsWhole, SourcesAreKnown, SidecarFitsDerived, WholeBuildOnly

\* The types of all but what a return or a step on changes.
RestIsTyped ==
    /\ canonical \in 0 .. MaxRecords
    /\ derived \in [file : Files \cup {NoFile}, upto : -1 .. MaxRecords]
    /\ sidecar \in Files \cup {NoFile} /\ old \in [Tokens -> Files \cup {NoFile}]
    /\ build \in [Tokens -> BuildStates]
    /\ wal \subseteq Tokens /\ marker \subseteq Tokens /\ snapshot \subseteq Tokens
    /\ taken \in [Tokens -> 0 .. MaxRecords]
    /\ reclaim \in [Procs -> SUBSET Tokens] /\ terminal \in [Procs -> BOOLEAN]
    /\ worker \in [Tokens -> {"none", "start", "building", "built", "failed", "unlink", "unlinkFailed",
                               "ended", "broken", "dead"}]
    /\ cancelled \subseteq Tokens /\ promoted \subseteq Tokens

LEMMA ReturnKeeps ==
    ASSUME IInv, NEW p \in Procs, pc[p] # "idle", NEW what \in Outcomes, Return(p, what),
           UNCHANGED <<by, promoted, token, refuse, crashes>>,
           what \in {"interrupted", "current"} => token[p] \notin promoted,
           what = "rebuilt" => token[p] \in promoted,
           \A t \in Tokens : by[t] = NoProc => worker'[t] = worker[t],
           RestIsTyped', FinishedIsWhole', SourcesAreKnown', SidecarFitsDerived', WholeBuildOnly'
    PROVE  IInv'
<1>1. /\ pc' \in [Procs -> Places] /\ lock' = NoProc
      /\ \A q \in Procs : pc'[q] # "idle" <=> lock' = q
      /\ outcome' \in [Tokens -> Outcomes]
      /\ AttemptIsKnown' /\ UndrawnIsFresh' /\ OutcomeTellsWhatHappened'
    BY ReturnEffect
<1>2. /\ token' \in [Procs -> Tokens \cup {NoFile}] /\ refuse' \in [Procs -> BOOLEAN]
      /\ by' \in [Tokens -> Procs \cup {NoProc}] /\ crashes' \in 0 .. MaxCrashes
    BY DEF IInv, TypeOK
<1>3. TypeOK'
    BY <1>1, <1>2 DEF TypeOK, RestIsTyped, Outcomes, Places, Before, Committed, BuildStates
<1> QED BY <1>1, <1>3 DEF IInv

LEMMA GotoKeeps ==
    ASSUME IInv, NEW p \in Procs, pc[p] # "idle", NEW where \in Places \ {"idle"}, Goto(p, where),
           UNCHANGED <<lock, outcome, by, token, refuse, crashes>>,
           \A t \in Tokens \ {token[p]} : worker'[t] = worker[t] /\ (t \in promoted' <=> t \in promoted),
           token[p] \in promoted' <=> where \in Committed,
           where \in Before => worker'[token[p]] = "none",
           where \in {"quarantine", "replace"} \cup Committed => worker'[token[p]] = "ended",
           where = "replace" => build'[token[p]] = "whole" /\ old'[token[p]] \in {NoFile, derived'.file},
           where \in {"replace"} \cup Committed => sidecar' = NoFile,
           RestIsTyped', FinishedIsWhole', SourcesAreKnown', SidecarFitsDerived', WholeBuildOnly'
    PROVE  IInv'
<1>1. /\ pc' \in [Procs -> Places] /\ pc'[p] = where
      /\ \A q \in Procs : q # p => pc'[q] = "idle"
      /\ \A q \in Procs : pc'[q] # "idle" <=> lock' = q
    BY GotoEffect DEF IInv
<1>2. token[p] \in Tokens /\ by[token[p]] = p /\ outcome[token[p]] = "none" /\ p # NoProc
    BY NamesAssumption DEF IInv, AttemptIsKnown
<1>3. /\ token' \in [Procs -> Tokens \cup {NoFile}] /\ refuse' \in [Procs -> BOOLEAN]
      /\ by' \in [Tokens -> Procs \cup {NoProc}] /\ crashes' \in 0 .. MaxCrashes
      /\ lock' \in Procs \cup {NoProc} /\ outcome' \in [Tokens -> Outcomes]
    BY DEF IInv, TypeOK, Outcomes
<1>4. TypeOK'
    BY <1>1, <1>3 DEF TypeOK, RestIsTyped, Outcomes, Places, Before, Committed, BuildStates
<1>5. AttemptIsKnown'
    BY <1>1, <1>2 DEF AttemptIsKnown
<1>6. UndrawnIsFresh'
    BY <1>2 DEF IInv, UndrawnIsFresh
<1>7. OutcomeTellsWhatHappened'
    BY <1>2 DEF IInv, OutcomeTellsWhatHappened
<1> QED BY <1>4, <1>5, <1>6, <1>7 DEF IInv

\* What the type invariant and a running call tell.
LEMMA Known ==
    ASSUME IInv, NEW p \in Procs, pc[p] # "idle"
    PROVE  /\ RestIsTyped /\ token[p] \in Tokens /\ by[token[p]] = p
           /\ FinishedIsWhole /\ SourcesAreKnown /\ SidecarFitsDerived /\ WholeBuildOnly
           /\ token[p] \in promoted <=> pc[p] \in Committed
           /\ pc[p] \in Before => worker[token[p]] = "none"
           /\ pc[p] \in {"quarantine", "replace"} \cup Committed => worker[token[p]] = "ended"
           /\ pc[p] = "replace" => build[token[p]] = "whole" /\ old[token[p]] \in {NoFile, derived.file}
           /\ pc[p] \in {"replace"} \cup Committed => sidecar = NoFile
BY DEF IInv, TypeOK, AttemptIsKnown, RestIsTyped, BuildStates

LEMMA ScanStep ==
    ASSUME IInv, NEW p \in Procs, Scan(p) PROVE IInv'
<1>1. /\ pc[p] = "scan" /\ UNCHANGED <<store, inputs, token, refuse, workers, terminal, promoted, crashes>>
    BY DEF Scan
<1>2. UNCHANGED <<derived, sidecar, old, canonical, snapshot, taken, worker, by, cancelled>>
    BY <1>1 DEF store, inputs, workers
<1>3. token[p] \notin promoted /\ worker[token[p]] = "none" /\ RestIsTyped
    BY <1>1, Known DEF Before, Committed
<1>4. CASE \E t \in reclaim[p] : /\ Remove(t) /\ reclaim' = [reclaim EXCEPT ![p] = @ \ {t}]
                                 /\ UNCHANGED <<pc, lock, outcome>>
    <2>1. PICK t \in reclaim[p] : /\ Remove(t) /\ reclaim' = [reclaim EXCEPT ![p] = @ \ {t}]
                                  /\ UNCHANGED <<pc, lock, outcome>>
        BY <1>4
    <2>2. t \in Tokens /\ reclaim' \in [Procs -> SUBSET Tokens]
        BY <2>1 DEF IInv, TypeOK
    <2>3. /\ build' \in [Tokens -> BuildStates] /\ wal' \subseteq Tokens /\ marker' \subseteq Tokens
          /\ \A u \in Tokens : build'[u] \in {build[u], "none"}
        BY <2>1, <2>2, RemoveEffect DEF IInv
    <2>4. TypeOK'
        BY <1>1, <1>2, <2>1, <2>2, <2>3 DEF IInv, TypeOK, BuildStates
    <2>5. AttemptIsKnown'
        <3>1. \A q \in Procs : pc[q] # "idle" => pc[q] = "scan"
            BY <1>1, OneCall DEF IInv
        <3> QED BY <1>1, <1>2, <2>1, <3>1 DEF IInv, AttemptIsKnown, Before, Committed
    <2>6. UndrawnIsFresh' /\ OutcomeTellsWhatHappened'
        BY <1>1, <1>2, <2>1 DEF IInv, UndrawnIsFresh, OutcomeTellsWhatHappened
    <2> QED BY <1>1, <1>2, <2>3, <2>4, <2>5, <2>6, BuildsGoAway DEF IInv
<1>5. CASE UNCHANGED <<builds, reclaim>>
    <2>1. RestIsTyped' /\ FinishedIsWhole' /\ SourcesAreKnown' /\ SidecarFitsDerived' /\ WholeBuildOnly'
        BY <1>1, <1>2, <1>3, <1>5, BuildsGoAway DEF RestIsTyped, builds
    <2>2. CASE Return(p, "unavailable")
        BY <1>1, <1>2, <2>1, <2>2, ReturnKeeps DEF Outcomes
    <2>3. CASE Goto(p, "diagnose") /\ UNCHANGED <<lock, outcome>>
        BY <1>1, <1>2, <1>3, <2>1, <2>3, GotoKeeps DEF Places, Before, Committed
    <2> QED BY <1>5, <2>2, <2>3, <1>1, <1>4 DEF Scan, builds
<1> QED BY <1>4, <1>5 DEF Scan

\* Reading the store leaves a -wal of its own.
LEMMA DiagnosedEffect ==
    ASSUME TypeOK, SidecarFitsDerived, Diagnosed, UNCHANGED derived
    PROVE  sidecar' \in Files \cup {NoFile} /\ SidecarFitsDerived'
BY DEF TypeOK, SidecarFitsDerived, Diagnosed, Readable

LEMMA DiagnoseStep ==
    ASSUME IInv, NEW p \in Procs, Diagnose(p) \/ Verify(p) PROVE IInv'
<1>1. /\ pc[p] \in {"diagnose", "verify"} /\ Diagnosed
      /\ UNCHANGED <<derived, old, builds, inputs, token, reclaim, refuse, workers, promoted, crashes>>
    BY DEF Diagnose, Verify
<1>2. UNCHANGED <<build, wal, marker, canonical, snapshot, taken, worker, by, cancelled>>
    BY <1>1 DEF builds, inputs, workers
<1>3. terminal' \in [Procs -> BOOLEAN]
    BY DEF Diagnose, Verify, GiveUp, IInv, TypeOK
<1>4. sidecar' \in Files \cup {NoFile} /\ SidecarFitsDerived'
    BY <1>1, DiagnosedEffect DEF IInv
<1>5. RestIsTyped'
    BY <1>1, <1>2, <1>3, <1>4, Known DEF RestIsTyped
<1>6. FinishedIsWhole' /\ SourcesAreKnown' /\ WholeBuildOnly'
    BY <1>1, <1>2 DEF IInv, FinishedIsWhole, SourcesAreKnown, WholeBuildOnly
<1>7. CASE Diagnose(p)
    <2>1. pc[p] = "diagnose" /\ token[p] \notin promoted /\ worker[token[p]] = "none"
        BY <1>7, Known DEF Diagnose, Before, Committed
    <2>2. CASE \E what \in {"current", "unavailable", "interrupted"} : Return(p, what)
        BY <1>1, <1>2, <1>4, <1>5, <1>6, <2>1, <2>2, ReturnKeeps DEF Outcomes
    <2>3. CASE Goto(p, "snapshot") /\ UNCHANGED <<lock, outcome>>
        BY <1>1, <1>2, <1>4, <1>5, <1>6, <2>1, <2>3, GotoKeeps DEF Places, Before, Committed
    <2> QED BY <1>7, <2>2, <2>3 DEF Diagnose
<1>8. CASE Verify(p)
    <2>1. pc[p] = "verify" /\ token[p] \in promoted
        BY <1>8, Known DEF Verify, Committed
    <2>2. \E what \in {"rebuilt", "unavailable"} : Return(p, what)
        BY <1>8 DEF Verify
    <2> QED BY <1>1, <1>2, <1>4, <1>5, <1>6, <2>1, <2>2, ReturnKeeps DEF Outcomes
<1> QED BY <1>7, <1>8

LEMMA SnapshotStep ==
    ASSUME IInv, NEW p \in Procs, Snapshot(p) PROVE IInv'
<1>1. /\ pc[p] = "snapshot"
      /\ UNCHANGED <<canonical, store, builds, token, reclaim, refuse, workers, terminal, promoted, crashes>>
    BY DEF Snapshot
<1>2. UNCHANGED <<derived, sidecar, old, build, wal, marker, worker, by, cancelled>>
    BY <1>1 DEF store, builds, workers
<1>3. /\ token[p] \in Tokens /\ token[p] \notin promoted /\ worker[token[p]] = "none" /\ RestIsTyped
      /\ FinishedIsWhole /\ SourcesAreKnown /\ SidecarFitsDerived /\ WholeBuildOnly
    BY <1>1, Known DEF Before, Committed
<1>4. FinishedIsWhole' /\ SidecarFitsDerived'
    BY <1>2, <1>3 DEF FinishedIsWhole, SidecarFitsDerived
<1>5. CASE /\ snapshot' = snapshot \cup {token[p]} /\ taken' = [taken EXCEPT ![token[p]] = canonical]
           /\ Goto(p, "reserve") /\ UNCHANGED <<lock, outcome>>
    <2>1. taken' \in [Tokens -> 0 .. MaxRecords] /\ snapshot' \subseteq Tokens
        BY <1>3, <1>5 DEF RestIsTyped
    <2>2. /\ \A t \in Tokens \ {token[p]} : taken'[t] = taken[t]
          /\ taken'[token[p]] = canonical
        BY <1>3, <1>5 DEF RestIsTyped
    <2>3. RestIsTyped'
        BY <1>1, <1>2, <1>3, <2>1 DEF RestIsTyped
    <2>4. canonical <= canonical
        BY <1>3 DEF RestIsTyped
    <2>5. SourcesAreKnown'
        BY <1>1, <1>2, <1>3, <2>2, <2>4 DEF SourcesAreKnown
    <2>6. WholeBuildOnly'
        BY <1>2, <1>3, <2>2 DEF SourcesAreKnown, WholeBuildOnly
    <2> QED BY <1>1, <1>2, <1>3, <1>4, <1>5, <2>3, <2>5, <2>6, GotoKeeps DEF Places, Before, Committed
<1>6. CASE (\E what \in {"unavailable", "interrupted"} : Return(p, what)) /\ UNCHANGED <<snapshot, taken>>
    <2>1. RestIsTyped'
        BY <1>1, <1>2, <1>3, <1>6 DEF RestIsTyped
    <2>2. SourcesAreKnown' /\ WholeBuildOnly'
        BY <1>1, <1>2, <1>3, <1>6 DEF SourcesAreKnown, WholeBuildOnly
    <2> QED BY <1>1, <1>2, <1>3, <1>4, <1>6, <2>1, <2>2, ReturnKeeps DEF Outcomes
<1> QED BY <1>5, <1>6 DEF Snapshot

LEMMA ReserveStep ==
    ASSUME IInv, NEW p \in Procs, Reserve(p) \/ Mark(p) PROVE IInv'
<1>1. /\ pc[p] \in {"reserve", "mark"}
      /\ UNCHANGED <<store, wal, inputs, lock, token, reclaim, refuse, workers, results, crashes>>
      /\ \E where \in {"mark", "start"} : Goto(p, where)
    BY DEF Reserve, Mark
<1>2. UNCHANGED <<derived, sidecar, old, canonical, snapshot, taken, worker, by, cancelled, terminal, outcome, promoted>>
    BY <1>1 DEF store, inputs, workers, results
<1>3. /\ token[p] \in Tokens /\ token[p] \notin promoted /\ worker[token[p]] = "none" /\ RestIsTyped
      /\ FinishedIsWhole /\ SourcesAreKnown /\ SidecarFitsDerived /\ WholeBuildOnly
    BY <1>1, Known DEF Before, Committed
<1>4. /\ build' \in [Tokens -> BuildStates] /\ marker' \subseteq Tokens
      /\ \A t \in Tokens \ {token[p]} : build'[t] = build[t]
    BY <1>3 DEF RestIsTyped, Reserve, Mark, BuildStates
<1>5. RestIsTyped'
    BY <1>1, <1>2, <1>3, <1>4 DEF RestIsTyped
<1>6. FinishedIsWhole' /\ SourcesAreKnown' /\ SidecarFitsDerived' /\ WholeBuildOnly'
    BY <1>2, <1>3, <1>4 DEF FinishedIsWhole, SourcesAreKnown, SidecarFitsDerived, WholeBuildOnly
<1> QED BY <1>1, <1>2, <1>3, <1>5, <1>6, GotoKeeps DEF Places, Before, Committed

LEMMA StartStep ==
    ASSUME IInv, NEW p \in Procs, Start(p) PROVE IInv'
<1>1. /\ pc[p] = "start"
      /\ UNCHANGED <<canonical, taken, store, token, reclaim, refuse, by, cancelled, terminal, promoted, crashes>>
    BY DEF Start
<1>2. UNCHANGED <<derived, sidecar, old>>
    BY <1>1 DEF store
<1>3. /\ token[p] \in Tokens /\ by[token[p]] = p /\ token[p] \notin promoted /\ RestIsTyped
      /\ FinishedIsWhole /\ SourcesAreKnown /\ SidecarFitsDerived /\ WholeBuildOnly
    BY <1>1, Known DEF Before, Committed
<1>4. SourcesAreKnown' /\ SidecarFitsDerived' /\ WholeBuildOnly'
    BY <1>1, <1>2, <1>3 DEF SourcesAreKnown, SidecarFitsDerived, WholeBuildOnly
<1>5. CASE /\ worker' = [worker EXCEPT ![token[p]] = "start"] /\ Goto(p, "join")
           /\ UNCHANGED <<builds, snapshot, lock, outcome>>
    <2>1. RestIsTyped' /\ FinishedIsWhole'
        BY <1>1, <1>2, <1>3, <1>5 DEF RestIsTyped, FinishedIsWhole, builds
    <2>2. \A t \in Tokens \ {token[p]} : worker'[t] = worker[t]
        BY <1>3, <1>5 DEF RestIsTyped
    <2> QED BY <1>1, <1>2, <1>3, <1>4, <1>5, <2>1, <2>2, GotoKeeps DEF Places, Before, Committed
<1>6. CASE /\ Remove(token[p]) /\ snapshot' = snapshot \ {token[p]} /\ Return(p, "interrupted")
           /\ UNCHANGED worker
    <2>1. /\ build' \in [Tokens -> BuildStates] /\ wal' \subseteq Tokens /\ marker' \subseteq Tokens
          /\ \A u \in Tokens : build'[u] \in {build[u], "none"}
        BY <1>3, <1>6, RemoveEffect DEF IInv
    <2>2. RestIsTyped' /\ FinishedIsWhole'
        BY <1>1, <1>2, <1>3, <1>6, <2>1 DEF RestIsTyped, FinishedIsWhole
    <2> QED BY <1>1, <1>2, <1>3, <1>4, <1>6, <2>2, ReturnKeeps DEF Outcomes
<1> QED BY <1>5, <1>6 DEF Start

LEMMA JoinStep ==
    ASSUME IInv, NEW p \in Procs, Join(p) PROVE IInv'
<1>1. /\ pc[p] = "join"
      /\ UNCHANGED <<store, inputs, token, reclaim, refuse, worker, by, promoted, crashes>>
    BY DEF Join
<1>2. UNCHANGED <<derived, sidecar, old, canonical, snapshot, taken>>
    BY <1>1 DEF store, inputs
<1>3. /\ token[p] \in Tokens /\ by[token[p]] = p /\ token[p] \notin promoted /\ RestIsTyped
      /\ FinishedIsWhole /\ SourcesAreKnown /\ SidecarFitsDerived /\ WholeBuildOnly
    BY <1>1, Known DEF Before, Committed
<1>4. /\ \/ Remove(token[p]) \/ UNCHANGED builds
      /\ terminal' \in [Procs -> BOOLEAN] /\ cancelled' \subseteq Tokens
    BY <1>3 DEF Join, GiveUp, Cancel, RestIsTyped
<1>5. /\ build' \in [Tokens -> BuildStates] /\ wal' \subseteq Tokens /\ marker' \subseteq Tokens
      /\ \A u \in Tokens : build'[u] \in {build[u], "none"}
    BY <1>3, <1>4, RemoveEffect DEF IInv, builds, RestIsTyped
<1>6. RestIsTyped'
    BY <1>1, <1>2, <1>3, <1>4, <1>5 DEF RestIsTyped
<1>7. FinishedIsWhole' /\ SourcesAreKnown' /\ SidecarFitsDerived' /\ WholeBuildOnly'
    BY <1>1, <1>2, <1>5, BuildsGoAway
<1>8. CASE \E what \in {"interrupted", "unavailable"} : Return(p, what)
    BY <1>1, <1>2, <1>3, <1>6, <1>7, <1>8, ReturnKeeps DEF Outcomes
<1>9. CASE worker[token[p]] = "ended" /\ Goto(p, "quarantine") /\ UNCHANGED <<lock, outcome>>
    BY <1>1, <1>2, <1>3, <1>6, <1>7, <1>9, GotoKeeps DEF Places, Before, Committed
<1> QED BY <1>8, <1>9 DEF Join

LEMMA QuarantineStep ==
    ASSUME IInv, NEW p \in Procs, Quarantine(p) PROVE IInv'
<1>1. /\ pc[p] = "quarantine"
      /\ UNCHANGED <<derived, inputs, token, reclaim, refuse, workers, promoted, crashes>>
    BY DEF Quarantine
<1>2. UNCHANGED <<canonical, snapshot, taken, worker, by, cancelled>>
    BY <1>1 DEF inputs, workers
<1>3. /\ token[p] \in Tokens /\ token[p] \notin promoted /\ worker[token[p]] = "ended" /\ RestIsTyped
      /\ FinishedIsWhole /\ SourcesAreKnown /\ SidecarFitsDerived /\ WholeBuildOnly
    BY <1>1, Known DEF Before, Committed
<1>4. CASE /\ Owned(token[p]) /\ old' = [old EXCEPT ![token[p]] = sidecar] /\ sidecar' = NoFile
           /\ Goto(p, "replace") /\ UNCHANGED <<builds, lock, outcome, terminal>>
    <2>1. build[token[p]] = "whole"
        BY <1>3, <1>4 DEF FinishedIsWhole, Owned
    <2>2. /\ old' \in [Tokens -> Files \cup {NoFile}] /\ sidecar' \in Files \cup {NoFile}
          /\ old'[token[p]] \in {NoFile, derived'.file}
        BY <1>1, <1>3, <1>4 DEF RestIsTyped, SidecarFitsDerived
    <2>3. RestIsTyped'
        BY <1>1, <1>2, <1>3, <1>4, <2>2 DEF RestIsTyped, builds
    <2>4. FinishedIsWhole' /\ SourcesAreKnown' /\ SidecarFitsDerived' /\ WholeBuildOnly'
        BY <1>1, <1>2, <1>3, <1>4 DEF FinishedIsWhole, SourcesAreKnown, SidecarFitsDerived, WholeBuildOnly, builds
    <2> QED BY <1>1, <1>2, <1>3, <1>4, <2>1, <2>2, <2>3, <2>4, GotoKeeps DEF Places, Before, Committed, builds
<1>5. CASE /\ Remove(token[p]) \/ UNCHANGED builds
           /\ \E what \in {"interrupted", "unavailable"} : Return(p, what)
           /\ terminal' = terminal \/ GiveUp(p)
           /\ UNCHANGED <<sidecar, old>>
    <2>1. /\ build' \in [Tokens -> BuildStates] /\ wal' \subseteq Tokens /\ marker' \subseteq Tokens
          /\ \A u \in Tokens : build'[u] \in {build[u], "none"}
        BY <1>3, <1>5, RemoveEffect DEF IInv, builds, RestIsTyped
    <2>2. RestIsTyped'
        BY <1>1, <1>2, <1>3, <1>5, <2>1 DEF RestIsTyped, GiveUp
    <2>3. FinishedIsWhole' /\ SourcesAreKnown' /\ SidecarFitsDerived' /\ WholeBuildOnly'
        BY <1>1, <1>2, <1>5, <2>1, BuildsGoAway
    <2> QED BY <1>1, <1>2, <1>3, <1>5, <2>2, <2>3, ReturnKeeps DEF Outcomes
<1> QED BY <1>4, <1>5 DEF Quarantine

LEMMA ReplaceStep ==
    ASSUME IInv, NEW p \in Procs, Replace(p) PROVE IInv'
<1>1. /\ pc[p] = "replace" /\ Goto(p, "unlink") /\ promoted' = promoted \cup {token[p]}
      /\ UNCHANGED <<sidecar, old, builds, inputs, lock, token, reclaim, refuse, workers, terminal, outcome, crashes>>
    BY DEF Replace
<1>2. UNCHANGED <<build, wal, marker, canonical, snapshot, taken, worker, by, cancelled>>
    BY <1>1 DEF builds, inputs, workers
<1>3. /\ token[p] \in Tokens /\ worker[token[p]] = "ended" /\ build[token[p]] = "whole" /\ sidecar = NoFile
      /\ RestIsTyped /\ FinishedIsWhole /\ SourcesAreKnown
    BY <1>1, Known DEF Before, Committed
<1>4. derived' = [file |-> token[p], upto |-> taken[token[p]]]
    BY <1>3 DEF Replace
<1>5. derived' \in [file : Files \cup {NoFile}, upto : -1 .. MaxRecords]
    BY <1>3, <1>4 DEF RestIsTyped, Files
<1>6. RestIsTyped'
    BY <1>1, <1>2, <1>3, <1>5 DEF RestIsTyped
<1>7. FinishedIsWhole' /\ SidecarFitsDerived'
    BY <1>1, <1>2, <1>3 DEF FinishedIsWhole, SidecarFitsDerived
<1>8. derived'.file = token[p] /\ derived'.upto = taken[token[p]] /\ taken[token[p]] \in Int
    BY <1>3, <1>4 DEF RestIsTyped
<1>9. SourcesAreKnown' /\ WholeBuildOnly'
    BY <1>1, <1>2, <1>3, <1>8 DEF SourcesAreKnown, WholeBuildOnly
<1> QED BY <1>1, <1>2, <1>3, <1>6, <1>7, <1>9, GotoKeeps DEF Places, Before, Committed

LEMMA PromotionFailsStep ==
    ASSUME IInv, "unlink" \notin FailAt, NEW p \in Procs, PromotionFails(p) PROVE IInv'
<1>1. /\ pc[p] = "replace" /\ Remove(token[p]) /\ GiveUp(p) /\ Return(p, "unavailable")
      /\ sidecar' = IF old[token[p]] # NoFile THEN old[token[p]] ELSE sidecar
      /\ old' = [old EXCEPT ![token[p]] = NoFile]
      /\ UNCHANGED <<derived, inputs, token, reclaim, refuse, workers, promoted, crashes>>
    BY DEF PromotionFails
<1>2. UNCHANGED <<canonical, snapshot, taken, worker, by, cancelled>>
    BY <1>1 DEF inputs, workers
<1>3. /\ token[p] \in Tokens /\ old[token[p]] \in {NoFile, derived.file}
      /\ RestIsTyped /\ FinishedIsWhole /\ SourcesAreKnown /\ SidecarFitsDerived /\ WholeBuildOnly
    BY <1>1, Known
<1>4. /\ build' \in [Tokens -> BuildStates] /\ wal' \subseteq Tokens /\ marker' \subseteq Tokens
      /\ \A u \in Tokens : build'[u] \in {build[u], "none"}
    BY <1>1, <1>3, RemoveEffect DEF IInv
<1>5. sidecar' \in Files \cup {NoFile} /\ old' \in [Tokens -> Files \cup {NoFile}] /\ terminal' \in [Procs -> BOOLEAN]
    BY <1>1, <1>3 DEF RestIsTyped, GiveUp
<1>6. RestIsTyped'
    BY <1>1, <1>2, <1>3, <1>4, <1>5 DEF RestIsTyped
<1>7. FinishedIsWhole' /\ SourcesAreKnown' /\ WholeBuildOnly'
    BY <1>1, <1>2, <1>3, <1>4 DEF FinishedIsWhole, SourcesAreKnown, WholeBuildOnly
<1>8. SidecarFitsDerived'
    BY <1>1, <1>3 DEF SidecarFitsDerived
<1> QED BY <1>1, <1>2, <1>6, <1>7, <1>8, ReturnKeeps DEF Outcomes

LEMMA UnlinkStep ==
    ASSUME IInv, NEW p \in Procs, Unlink(p) \/ Unmark(p) PROVE IInv'
<1>1. /\ pc[p] \in {"unlink", "unmark"}
      /\ UNCHANGED <<store, wal, inputs, token, reclaim, refuse, workers, terminal, promoted, crashes>>
    BY DEF Unlink, Unmark, results
<1>2. UNCHANGED <<derived, sidecar, old, canonical, snapshot, taken, worker, by, cancelled>>
    BY <1>1 DEF store, inputs, workers
<1>3. /\ token[p] \in Tokens /\ token[p] \in promoted /\ worker[token[p]] = "ended" /\ sidecar = NoFile
      /\ RestIsTyped
    BY <1>1, Known DEF Committed
<1>4. /\ build' \in [Tokens -> BuildStates] /\ marker' \subseteq Tokens
      /\ \A u \in Tokens : build'[u] \in {build[u], "none"}
    BY <1>3 DEF RestIsTyped, Unlink, Unmark, BuildStates
<1>5. RestIsTyped'
    BY <1>1, <1>2, <1>3, <1>4 DEF RestIsTyped
<1>6. FinishedIsWhole' /\ SourcesAreKnown' /\ SidecarFitsDerived' /\ WholeBuildOnly'
    BY <1>1, <1>2, <1>4, BuildsGoAway
<1>7. CASE (\E where \in {"unmark", "verify"} : Goto(p, where)) /\ UNCHANGED <<lock, outcome>>
    BY <1>1, <1>2, <1>3, <1>5, <1>6, <1>7, GotoKeeps DEF Places, Before, Committed
<1>8. CASE Return(p, "unavailable")
    BY <1>1, <1>2, <1>5, <1>6, <1>8, ReturnKeeps DEF Outcomes
<1> QED BY <1>7, <1>8 DEF Unlink, Unmark, results

\* The worker of an attempt, which may have been left behind.
LEMMA WorkerStep ==
    ASSUME IInv, NEW t \in Tokens, WorkerSteps(t) PROVE IInv'
<1>1. PICK from \in {"start", "building", "built", "failed", "unlink", "unlinkFailed"} : Worker(t, from)
    BY DEF WorkerSteps, WorkerOpens, WorkerBuilds, WorkerFails, WorkerCleans, WorkerEnds
<1>2. worker[t] = from /\ UNCHANGED <<store, canonical, taken, lock, calls, by, cancelled, results, crashes>>
    BY <1>1 DEF Worker
<1>3. UNCHANGED <<derived, sidecar, old, pc, token, reclaim, refuse, terminal, outcome, promoted>>
    BY <1>2 DEF store, calls, results
<1>4. PICK to \in {"building", "built", "failed", "unlink", "unlinkFailed", "ended", "broken"} :
          worker' = [worker EXCEPT ![t] = to]
    BY DEF WorkerSteps, WorkerOpens, WorkerBuilds, WorkerFails, WorkerCleans, WorkerEnds, WorkerGoto
<1>5. /\ build' \in [Tokens -> BuildStates] /\ wal' \subseteq Tokens /\ marker' \subseteq Tokens
      /\ snapshot' \subseteq Tokens /\ \A u \in Tokens \ {t} : build'[u] = build[u]
    <2>1. CASE Remove(t) /\ UNCHANGED snapshot
        BY <2>1, RemoveEffect DEF IInv, TypeOK
    <2>2. CASE ~(Remove(t) /\ UNCHANGED snapshot)
        BY <2>2 DEF WorkerSteps, WorkerOpens, WorkerBuilds, WorkerFails, WorkerCleans, WorkerEnds, builds,
                    IInv, TypeOK, BuildStates
    <2> QED BY <2>1, <2>2
<1>6. worker' \in [Tokens -> {"none", "start", "building", "built", "failed", "unlink", "unlinkFailed",
                               "ended", "broken", "dead"}]
    BY <1>4 DEF IInv, TypeOK
<1>7. TypeOK'
    BY <1>2, <1>3, <1>5, <1>6 DEF IInv, TypeOK, BuildStates
<1>8. \A p \in Procs : pc[p] \in Before \cup {"quarantine", "replace"} \cup Committed => token[p] # t
    BY <1>2 DEF IInv, AttemptIsKnown, Before, Committed
<1>9. \A u \in Tokens \ {t} : worker'[u] = worker[u]
    BY <1>4 DEF IInv, TypeOK
<1>10. AttemptIsKnown'
    BY <1>2, <1>3, <1>5, <1>8, <1>9 DEF IInv, AttemptIsKnown, Before, Committed
<1>11. UndrawnIsFresh'
    BY <1>2, <1>3, <1>9 DEF IInv, UndrawnIsFresh
<1>12. FinishedIsWhole'
    <2>1. worker'[t] \in {"built", "unlink", "ended"} => build'[t] # "partial"
        <3>1. CASE WorkerBuilds(t)
            BY <3>1 DEF WorkerBuilds, IInv, TypeOK
        <3>2. CASE WorkerCleans(t)
            <4>1. worker[t] = "built" => build[t] # "partial"
                BY DEF IInv, FinishedIsWhole
            <4>2. worker[t] = "failed" => worker'[t] = "unlinkFailed"
                BY <3>2 DEF WorkerCleans, Worker, WorkerGoto, IInv, TypeOK
            <4>3. worker[t] = "built" => build'[t] \in {build[t], "none"}
                BY <3>2, RemoveEffect DEF WorkerCleans, Worker, builds, IInv, TypeOK
            <4> QED BY <3>2, <4>1, <4>2, <4>3 DEF WorkerCleans, Worker
        <3>3. CASE WorkerEnds(t)
            BY <3>3 DEF WorkerEnds, WorkerGoto, builds, IInv, TypeOK, FinishedIsWhole
        <3>4. CASE WorkerOpens(t) \/ WorkerFails(t)
            BY <3>4 DEF WorkerOpens, WorkerFails, WorkerGoto, IInv, TypeOK
        <3> QED BY <3>1, <3>2, <3>3, <3>4 DEF WorkerSteps
    <2> QED BY <1>5, <1>9, <2>1 DEF IInv, FinishedIsWhole
<1>13. SourcesAreKnown' /\ SidecarFitsDerived' /\ WholeBuildOnly' /\ OutcomeTellsWhatHappened'
    BY <1>2, <1>3 DEF IInv, SourcesAreKnown, SidecarFitsDerived, WholeBuildOnly, OutcomeTellsWhatHappened
<1> QED BY <1>7, <1>10, <1>11, <1>12, <1>13 DEF IInv

LEMMA CrashStep ==
    ASSUME IInv, NEW p \in Procs, Crash(p) PROVE IInv'
<1>1. /\ crashes < MaxCrashes /\ crashes' = crashes + 1 /\ pc' = [pc EXCEPT ![p] = "idle"]
      /\ lock' = IF lock = p THEN NoProc ELSE lock
      /\ terminal' = [terminal EXCEPT ![p] = FALSE]
      /\ worker' = [u \in Tokens |-> IF by[u] = p /\ Alive(u) THEN "dead" ELSE worker[u]]
      /\ UNCHANGED <<store, marker, inputs, token, reclaim, refuse, by, cancelled, outcome, promoted>>
    BY DEF Crash, Goto
<1>2. UNCHANGED <<derived, sidecar, old, canonical, snapshot, taken>>
    BY <1>1 DEF store, inputs
<1>3. /\ build' \in [Tokens -> BuildStates] /\ wal' \subseteq Tokens
      /\ \A u \in Tokens : build'[u] \in {build[u], "none"}
    <2>1. CASE UNCHANGED <<build, wal>>
        BY <2>1 DEF IInv, TypeOK, BuildStates
    <2>2. CASE \E u \in Removing(p) : build' = [build EXCEPT ![u] = "none"] /\ wal' = wal \ {u}
        BY <2>2 DEF IInv, TypeOK, BuildStates
    <2> QED BY <2>1, <2>2 DEF Crash
<1>4. crashes' \in 0 .. MaxCrashes
    BY <1>1, NamesAssumption DEF IInv, TypeOK
<1>5. pc' \in [Procs -> Places] /\ \A q \in Procs : pc'[q] # "idle" <=> lock' = q
    BY <1>1, NamesAssumption DEF IInv, TypeOK, Places, Before, Committed
<1>6. worker' \in [Tokens -> {"none", "start", "building", "built", "failed", "unlink", "unlinkFailed",
                               "ended", "broken", "dead"}]
    BY <1>1 DEF IInv, TypeOK
<1>7. TypeOK'
    BY <1>1, <1>2, <1>3, <1>4, <1>5, <1>6 DEF IInv, TypeOK, BuildStates, Places, Before, Committed
<1>8. \A q \in Procs : pc'[q] # "idle" => q # p /\ pc[q] = pc'[q]
    BY <1>1 DEF IInv, TypeOK
<1>9. \A t \in Tokens : by[t] # p => worker'[t] = worker[t]
    BY <1>1
<1>10. \A q \in Procs : pc'[q] = "replace" => build'[token[q]] = build[token[q]]
    <2> SUFFICES ASSUME NEW q \in Procs, pc'[q] = "replace" PROVE build'[token[q]] = build[token[q]]
        OBVIOUS
    <2>1. q # p /\ pc[q] = "replace" /\ pc[p] = "idle"
        BY <1>8, OneCall DEF IInv
    <2>2. token[q] \in Tokens /\ by[token[q]] = q
        BY <2>1, Known
    <2>3. token[q] \notin Removing(p)
        BY <2>1, <2>2 DEF Removing
    <2> QED BY <2>2, <2>3 DEF Crash, IInv, TypeOK
<1>11. AttemptIsKnown'
    BY <1>1, <1>2, <1>8, <1>9, <1>10 DEF IInv, AttemptIsKnown
<1>12. UndrawnIsFresh'
    BY <1>1, <1>9, NamesAssumption DEF IInv, UndrawnIsFresh
<1>13. FinishedIsWhole'
    <2>1. \A t \in Tokens : worker'[t] \in {worker[t], "dead"}
        BY <1>1
    <2> QED BY <1>3, <2>1 DEF IInv, FinishedIsWhole
<1>14. SourcesAreKnown' /\ SidecarFitsDerived' /\ WholeBuildOnly' /\ OutcomeTellsWhatHappened'
    BY <1>1, <1>2 DEF IInv, SourcesAreKnown, SidecarFitsDerived, WholeBuildOnly, OutcomeTellsWhatHappened
<1> QED BY <1>7, <1>11, <1>12, <1>13, <1>14 DEF IInv

LEMMA Step ==
    ASSUME "unlink" \notin FailAt PROVE IInv /\ [Next]_vars => IInv'
<1> SUFFICES ASSUME IInv, [Next]_vars PROVE IInv'
    OBVIOUS
<1>1. CASE UNCHANGED vars
    <2>1. /\ UNCHANGED <<canonical, derived, sidecar, old, build, wal, marker, snapshot, taken, lock, pc, token>>
          /\ UNCHANGED <<reclaim, refuse, terminal, worker, by, cancelled, outcome, promoted, crashes>>
        BY <1>1 DEF vars, store, builds, inputs, calls, workers, results
    <2>2. TypeOK'
        BY <2>1 DEF IInv, TypeOK
    <2>3. AttemptIsKnown' /\ UndrawnIsFresh'
        BY <2>1 DEF IInv, AttemptIsKnown, UndrawnIsFresh
    <2>4. FinishedIsWhole' /\ SourcesAreKnown' /\ SidecarFitsDerived' /\ WholeBuildOnly' /\ OutcomeTellsWhatHappened'
        BY <2>1 DEF IInv, FinishedIsWhole, SourcesAreKnown, SidecarFitsDerived, WholeBuildOnly, OutcomeTellsWhatHappened
    <2> QED BY <2>2, <2>3, <2>4 DEF IInv
<1>2. ASSUME NEW p \in Procs, CallSteps(p) PROVE IInv'
    BY <1>2, ScanStep, DiagnoseStep, SnapshotStep, ReserveStep, StartStep, JoinStep, QuarantineStep,
       ReplaceStep, PromotionFailsStep, UnlinkStep DEF CallSteps
<1> QED BY <1>1, <1>2, OthersStep, AcquireStep, WorkerStep, CrashStep DEF Next

-----------------------------------------------------------------------------
\* The main results hold if the build's own name can be removed once it has
\* become the store (recovery.py:557): when that fails, the rollback gives
\* the old -wal back to the new database.

LEMMA Invariance ==
    ASSUME "unlink" \notin FailAt PROVE Spec => []IInv
<1>1. Init => IInv
    BY TypeInit
<1>2. IInv /\ [Next]_vars => IInv'
    BY Step
<1> QED BY <1>1, <1>2, PTL DEF Spec

\* Types hold, and one call at a time has the locks.
THEOREM TypeCorrect ==
    ASSUME "unlink" \notin FailAt PROVE Spec => []TypeOK
<1>1. IInv => TypeOK
    BY DEF IInv
<1>2. Spec => []IInv
    BY Invariance
<1> QED BY <1>1, <1>2, PTL

\* No -wal stands next to a foreign database, whatever fails and dies.
THEOREM SidecarAlwaysFits ==
    ASSUME "unlink" \notin FailAt PROVE Spec => []SidecarFitsDerived
<1>1. IInv => SidecarFitsDerived
    BY DEF IInv
<1>2. Spec => []IInv
    BY Invariance
<1> QED BY <1>1, <1>2, PTL

\* Only whole builds become the store.
THEOREM PromotedIsWhole ==
    ASSUME "unlink" \notin FailAt PROVE Spec => []WholeBuildOnly
<1>1. IInv => WholeBuildOnly
    BY DEF IInv
<1>2. Spec => []IInv
    BY Invariance
<1> QED BY <1>1, <1>2, PTL

\* The store is a whole build with its own -wal.
THEOREM StoreStaysWhole ==
    ASSUME "unlink" \notin FailAt PROVE Spec => []StoreIsWhole
<1>1. IInv => StoreIsWhole
    BY DEF IInv, StoreIsWhole
<1>2. Spec => []IInv
    BY Invariance
<1> QED BY <1>1, <1>2, PTL

\* An interrupted recovery has not touched the store and never will.
THEOREM OutcomeIsTrue ==
    ASSUME "unlink" \notin FailAt PROVE Spec => []OutcomeTellsWhatHappened
<1>1. IInv => OutcomeTellsWhatHappened
    BY DEF IInv
<1>2. Spec => []IInv
    BY Invariance
<1> QED BY <1>1, <1>2, PTL

-----------------------------------------------------------------------------
(***************************************************************************)
(* The other replacement of the store: Restore keeps its promises in every *)
(* environment, short of the outcomes Careless.  Its invariant says, step  *)
(* by step, where the old content of each root is.                         *)
(***************************************************************************)

\* Nothing has been done to the root.
Pristine(p) ==
    /\ aside[p] = "none"
    /\ active[p] \in {"none", "old", "other"}
    /\ before[p] = "old" => active[p] = "old"

\* What the root held is in its rollback directory.
Spared(p) ==
    /\ aside[p] \in {"none", "old", "other"}
    /\ before[p] = "old" => aside[p] = "old"

\* What the root held is in place again.
Home(p) ==
    /\ active[p] \notin {"new", "partial"}
    /\ before[p] = "old" => active[p] = "old"

Kept(p) == before[p] = "old" => active[p] = "old" \/ aside[p] = "old"
Quiet == runtime = "old" /\ integration = before["integration"]
Vacated(p) == active[p] \in {"none", "other"}

Staging ==
    place[1] \in {"stage", "verify"} \/ At("set_aside", "data") =>
        ~activated /\ Pristine("data") /\ Pristine("corpus") /\ Quiet

Complete ==
    /\ At("set_aside", "data") \/ At("activate", "data") => \A p \in restored : staged[p] = "new"
    /\ At("set_aside", "corpus") \/ At("activate", "corpus") => staged["corpus"] = "new"

ActivatingData ==
    At("activate", "data") =>
        ~activated /\ Spared("data") /\ Vacated("data") /\ Pristine("corpus") /\ Quiet

ActivatingCorpus ==
    At("set_aside", "corpus") \/ At("activate", "corpus") =>
        /\ activated /\ Spared("data") /\ active["data"] = "new" /\ Quiet
        /\ At("set_aside", "corpus") => Pristine("corpus")
        /\ At("activate", "corpus") => Spared("corpus") /\ Vacated("corpus")

Configuring ==
    place[1] \in {"configure", "integrate"} =>
        /\ activated /\ Spared("data") /\ (Pristine("corpus") \/ Spared("corpus"))
        /\ \A p \in restored : active[p] = "new"
        /\ At("integrate", "data") => runtime = "new"

Finishing ==
    /\ At("discard", "data") \/ result = "success" => AllNew
    /\ result = "success" => place[1] \in {"clean", "done", "dead"}

UndoingData ==
    At("undo_remove", "data") \/ At("undo", "data") =>
        /\ Spared("data") /\ (Pristine("corpus") \/ Spared("corpus"))
        /\ At("undo", "data") => Vacated("data")

UndoingCorpus ==
    At("undo_remove", "corpus") \/ At("undo", "corpus") =>
        Home("data") /\ (Pristine("corpus") \/ Spared("corpus"))

UndoingConfig == At("undo_config", "data") => Home("data") /\ (before["corpus"] = "old" => active["corpus"] = "old")

Undoing == place[1] \in {"undo_remove", "undo", "undo_config"} => result = "failed"

Cleaning ==
    /\ place[1] \in {"clean", "done"} =>
           /\ result # "none"
           /\ result = "failed" =>
                  Quiet /\ Home("data") /\ (before["corpus"] = "old" => active["corpus"] = "old")
    /\ place[1] \in {"clean", "dead"} => AllNew \/ \A p \in Parts : Kept(p)

RestoreInv ==
    /\ RestoreTypeOK /\ Staging /\ Complete /\ ActivatingData /\ ActivatingCorpus /\ Configuring
    /\ Finishing /\ UndoingData /\ UndoingCorpus /\ UndoingConfig /\ Undoing /\ Cleaning

USE DEF Parts, Present, Contents, At, Pristine, Spared, Home, Kept, Quiet, Vacated, AllNew,
        given, trees, config

-----------------------------------------------------------------------------
LEMMA RestoreInitially == RestoreInit => RestoreInv
<1> SUFFICES ASSUME RestoreInit PROVE RestoreInv
  OBVIOUS
<1>1. RestoreTypeOK
  BY DEF RestoreInit, RestoreTypeOK
<1>2. Pristine("data") /\ Pristine("corpus") /\ Quiet /\ ~activated
  BY DEF RestoreInit
<1> QED BY <1>1, <1>2 DEF RestoreInit, RestoreInv, RestoreTypeOK, Staging, Complete, ActivatingData,
    ActivatingCorpus, Configuring, Finishing, UndoingData, UndoingCorpus, UndoingConfig,
    Undoing, Cleaning

LEMMA StageStep == ASSUME RestoreInv, Stage PROVE RestoreInv'
  BY DEF Stage, Raise, RestoreInv, RestoreTypeOK, Staging, Complete, ActivatingData, ActivatingCorpus,
      Configuring, Finishing, UndoingData, UndoingCorpus, UndoingConfig, Undoing, Cleaning

LEMMA VerifyStep == ASSUME RestoreInv, VerifyStaged PROVE RestoreInv'
  BY DEF VerifyStaged, Raise, RestoreInv, RestoreTypeOK, Staging, Complete, ActivatingData, ActivatingCorpus,
      Configuring, Finishing, UndoingData, UndoingCorpus, UndoingConfig, Undoing, Cleaning

LEMMA SetAsideStep == ASSUME RestoreInv, NEW p \in Parts, SetAside(p) PROVE RestoreInv'
  <1>1. CASE p = "data"
    BY <1>1 DEF SetAside, Raise, Free, RestoreInv, RestoreTypeOK, Staging, Complete, ActivatingData,
        ActivatingCorpus, Configuring, Finishing, UndoingData, UndoingCorpus,
        UndoingConfig, Undoing, Cleaning
  <1>2. CASE p = "corpus"
    BY <1>2 DEF SetAside, Raise, Free, RestoreInv, RestoreTypeOK, Staging, Complete, ActivatingData,
        ActivatingCorpus, Configuring, Finishing, UndoingData, UndoingCorpus,
        UndoingConfig, Undoing, Cleaning
  <1> QED BY <1>1, <1>2

LEMMA ActivateStep == ASSUME RestoreInv, NEW p \in Parts, Activate(p) PROVE RestoreInv'
<1>1. CASE Raise /\ UNCHANGED <<active, staged, activated>>
  <2>1. CASE p = "data"
    BY <1>1, <2>1 DEF Activate, Raise, Free, RestoreInv, RestoreTypeOK, Staging, Complete,
        ActivatingData, ActivatingCorpus, Configuring, Finishing, UndoingData,
        UndoingCorpus, UndoingConfig, Undoing, Cleaning
  <2>2. CASE p = "corpus"
    BY <1>1, <2>2 DEF Activate, Raise, Free, RestoreInv, RestoreTypeOK, Staging, Complete,
        ActivatingData, ActivatingCorpus, Configuring, Finishing, UndoingData,
        UndoingCorpus, UndoingConfig, Undoing, Cleaning
  <2> QED BY <2>1, <2>2
<1>2. CASE /\ Free(p) /\ active' = [active EXCEPT ![p] = staged[p]]
           /\ staged' = [staged EXCEPT ![p] = "none"] /\ activated' = TRUE
           /\ place' = AfterActivation(p) /\ UNCHANGED result
  <2>1. CASE p = "data"
    BY <1>2, <2>1 DEF Activate, AfterActivation, Free, RestoreInv, RestoreTypeOK, Staging, Complete,
        ActivatingData, ActivatingCorpus, Configuring, Finishing, UndoingData,
        UndoingCorpus, UndoingConfig, Undoing, Cleaning
  <2>2. CASE p = "corpus"
    BY <1>2, <2>2 DEF Activate, AfterActivation, Free, RestoreInv, RestoreTypeOK, Staging, Complete,
        ActivatingData, ActivatingCorpus, Configuring, Finishing, UndoingData,
        UndoingCorpus, UndoingConfig, Undoing, Cleaning
  <2> QED BY <2>1, <2>2
<1> QED BY <1>1, <1>2 DEF Activate

LEMMA ConfigureStep == ASSUME RestoreInv, Configure PROVE RestoreInv'
  BY DEF Configure, Raise, RestoreInv, RestoreTypeOK, Staging, Complete, ActivatingData,
      ActivatingCorpus, Configuring, Finishing, UndoingData, UndoingCorpus, UndoingConfig,
      Undoing, Cleaning

LEMMA IntegrateStep == ASSUME RestoreInv, Integrate PROVE RestoreInv'
  BY DEF Integrate, Raise, RestoreInv, RestoreTypeOK, Staging, Complete, ActivatingData,
      ActivatingCorpus, Configuring, Finishing, UndoingData, UndoingCorpus, UndoingConfig,
      Undoing, Cleaning

LEMMA DiscardStep == ASSUME RestoreInv, Discard PROVE RestoreInv'
  BY DEF Discard, Removed, RestoreInv, RestoreTypeOK, Staging, Complete, ActivatingData,
      ActivatingCorpus, Configuring, Finishing, UndoingData, UndoingCorpus, UndoingConfig,
      Undoing, Cleaning

LEMMA UndoRemoveStep == ASSUME RestoreInv, NEW p \in Parts, UndoRemove(p) PROVE RestoreInv'
<1>1. CASE p = "data"
  BY <1>1 DEF UndoRemove, Undoes, RaiseAgain, Free, RestoreInv, RestoreTypeOK, Staging, Complete,
      ActivatingData, ActivatingCorpus, Configuring, Finishing, UndoingData,
      UndoingCorpus, UndoingConfig, Undoing, Cleaning
<1>2. CASE p = "corpus"
  BY <1>2 DEF UndoRemove, Undoes, RaiseAgain, Free, RestoreInv, RestoreTypeOK, Staging, Complete,
      ActivatingData, ActivatingCorpus, Configuring, Finishing, UndoingData,
      UndoingCorpus, UndoingConfig, Undoing, Cleaning
<1> QED BY <1>1, <1>2

LEMMA UndoStep == ASSUME RestoreInv, NEW p \in Parts, Undo(p) PROVE RestoreInv'
<1>1. CASE p = "data"
  BY <1>1 DEF Undo, RaiseAgain, Free, RestoreInv, RestoreTypeOK, Staging, Complete, ActivatingData,
      ActivatingCorpus, Configuring, Finishing, UndoingData, UndoingCorpus, UndoingConfig,
      Undoing, Cleaning
<1>2. CASE p = "corpus"
  BY <1>2 DEF Undo, RaiseAgain, Free, RestoreInv, RestoreTypeOK, Staging, Complete, ActivatingData,
      ActivatingCorpus, Configuring, Finishing, UndoingData, UndoingCorpus, UndoingConfig,
      Undoing, Cleaning
<1> QED BY <1>1, <1>2

LEMMA UndoConfigStep == ASSUME RestoreInv, UndoConfig PROVE RestoreInv'
<1>1. CASE runtime' = "old" /\ integration' = before["integration"] /\ place' = <<"clean", "data">> /\ UNCHANGED result
  BY <1>1 DEF UndoConfig, RestoreInv, RestoreTypeOK, Staging, Complete, ActivatingData,
      ActivatingCorpus, Configuring, Finishing, UndoingData, UndoingCorpus, UndoingConfig,
      Undoing, Cleaning
<1>2. CASE runtime' \in {runtime, "old"} /\ UNCHANGED integration /\ RaiseAgain
  BY <1>2 DEF UndoConfig, RaiseAgain, RestoreInv, RestoreTypeOK, Staging, Complete, ActivatingData,
      ActivatingCorpus, Configuring, Finishing, UndoingData, UndoingCorpus, UndoingConfig,
      Undoing, Cleaning
<1> QED BY <1>1, <1>2 DEF UndoConfig

LEMMA CleanStep == ASSUME RestoreInv, Clean PROVE RestoreInv'
  BY DEF Clean, Removed, RestoreInv, RestoreTypeOK, Staging, Complete, ActivatingData,
      ActivatingCorpus, Configuring, Finishing, UndoingData, UndoingCorpus, UndoingConfig,
      Undoing, Cleaning

LEMMA InterruptStep == ASSUME RestoreInv, Interrupt PROVE RestoreInv'
  BY DEF Interrupt, Ended, RestoreInv, RestoreTypeOK, Staging, Complete, ActivatingData,
      ActivatingCorpus, Configuring, Finishing, UndoingData, UndoingCorpus, UndoingConfig,
      Undoing, Cleaning

LEMMA RestoreCrashStep == ASSUME RestoreInv, RestoreCrash PROVE RestoreInv'
  BY DEF RestoreCrash, Ended, RestoreInv, RestoreTypeOK, Staging, Complete, ActivatingData, ActivatingCorpus,
      Configuring, Finishing, UndoingData, UndoingCorpus, UndoingConfig, Undoing, Cleaning

LEMMA CreateStep == ASSUME RestoreInv, NEW p \in Parts, Create(p) PROVE RestoreInv'
<1>1. CASE p = "data"
  BY <1>1 DEF Create, Free, Ended, RestoreInv, RestoreTypeOK, Staging, Complete, ActivatingData,
      ActivatingCorpus, Configuring, Finishing, UndoingData, UndoingCorpus, UndoingConfig,
      Undoing, Cleaning
<1>2. CASE p = "corpus"
  BY <1>2 DEF Create, Free, Ended, RestoreInv, RestoreTypeOK, Staging, Complete, ActivatingData,
      ActivatingCorpus, Configuring, Finishing, UndoingData, UndoingCorpus, UndoingConfig,
      Undoing, Cleaning
<1> QED BY <1>1, <1>2

LEMMA RestoreStutter == ASSUME RestoreInv, UNCHANGED restoreVars PROVE RestoreInv'
  BY DEF restoreVars, RestoreInv, RestoreTypeOK, Staging, Complete, ActivatingData, ActivatingCorpus,
      Configuring, Finishing, UndoingData, UndoingCorpus, UndoingConfig, Undoing, Cleaning

THEOREM RestoreInvariance == RestoreSpec => []RestoreInv
<1>1. RestoreInv /\ [RestoreNext]_(restoreVars) => RestoreInv'
  BY StageStep, VerifyStep, SetAsideStep, ActivateStep, ConfigureStep, IntegrateStep,
     DiscardStep, UndoRemoveStep, UndoStep, UndoConfigStep, CleanStep, InterruptStep,
     RestoreCrashStep, CreateStep, RestoreStutter DEF RestoreNext
<1> QED BY RestoreInitially, <1>1, PTL DEF RestoreSpec

-----------------------------------------------------------------------------
\* Types hold, and the corpus is worked on only if the backup has one.
THEOREM RestoreTypesHold == RestoreSpec => []RestoreTypeOK
<1>1. RestoreInv => RestoreTypeOK
  BY DEF RestoreInv
<1> QED BY RestoreInvariance, <1>1, PTL

\* Whatever fails, interrupts or dies, the old content of a root is somewhere
\* until all of the backup is active, or the call has ended carelessly.
THEOREM OldOrAllNewAlways == RestoreSpec => []OldOrAllNew
<1>1. RestoreInv => OldOrAllNew
  BY DEF OldOrAllNew, Careless, RestoreInv, RestoreTypeOK, Staging, Complete, ActivatingData,
      ActivatingCorpus, Configuring, Finishing, UndoingData, UndoingCorpus, UndoingConfig,
      Undoing, Cleaning
<1> QED BY RestoreInvariance, <1>1, PTL

\* A failed restore has changed nothing, a successful one everything.
THEOREM AllOrNothingAlways == RestoreSpec => []AllOrNothing
<1>1. RestoreInv => AllOrNothing
  BY DEF AllOrNothing, RestoreInv, RestoreTypeOK, Staging, Complete, ActivatingData, ActivatingCorpus,
      Configuring, Finishing, UndoingData, UndoingCorpus, UndoingConfig, Undoing, Cleaning
<1> QED BY RestoreInvariance, <1>1, PTL
=============================================================================
