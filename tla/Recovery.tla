------------------------------ MODULE Recovery ------------------------------
(***************************************************************************)
(* RecoveryCoordinator of src/src/storage/recovery.py: a process that      *)
(* holds both file locks diagnoses the derived store, rebuilds it from a   *)
(* snapshot of the canonical file on a worker thread, and moves the build  *)
(* into place.  A call that reaches its deadline returns and leaves the    *)
(* worker behind, without the locks.  Processes die between any two steps. *)
(*                                                                         *)
(* The canonical file is its number of records, the derived store the      *)
(* number it holds.  One attempt has one token; its files are the          *)
(* snapshot, the build, the build's -wal, the owner marker and, after a    *)
(* promotion, the quarantined -wal of the store it replaced (-wal stands   *)
(* for -wal and -shm).  Calls that return before they touch a file, and    *)
(* the checks against symbolic links and aliases, are left out.            *)
(***************************************************************************)
EXTENDS Integers, FiniteSets

CONSTANTS
    Procs,      \* processes, one coordinator each
    Tokens,     \* bound: attempts
    NoProc, NoFile,
    First,      \* the derived store before the first recovery
    MaxRecords, \* bound: records of the canonical file
    MaxCrashes, \* bound: processes that die
    FailAt      \* the steps of a promotion that may fail

ASSUME NamesAssumption ==
    /\ NoProc \notin Procs /\ NoFile # First /\ {NoFile, First} \cap Tokens = {}
    /\ MaxRecords \in Nat /\ MaxCrashes \in Nat /\ FailAt \subseteq {"replace", "unlink", "unmark"}

VARIABLES
    canonical,  \* records in the canonical file
    derived,    \* the derived store
    sidecar,    \* the database that <derived>-wal belongs to
    old,        \* the database of each token's quarantined -wal
    build,      \* each token's build file
    wal,        \* tokens with a -wal next to their build
    marker,     \* tokens with an owner marker
    snapshot,   \* tokens with a snapshot file
    taken,      \* records in each token's snapshot
    lock,       \* holder of the canonical and the derived lock
    pc, token,  \* where each process is, and its attempt
    reclaim,    \* builds its directory scan will remove
    refuse,     \* its directory scan will end in an error
    terminal,   \* _terminal_failure
    worker,     \* each token's worker thread
    by,         \* the process of each token
    cancelled,  \* tokens whose _cancel_event is set
    outcome,    \* each attempt's result
    promoted,   \* history: tokens whose build was moved into place
    crashes

store == <<derived, sidecar, old>>
builds == <<build, wal, marker>>
inputs == <<canonical, snapshot, taken>>
calls == <<pc, token, reclaim, refuse>>
workers == <<worker, by, cancelled>>
results == <<terminal, outcome, promoted>>
vars == <<store, builds, inputs, lock, calls, workers, results, crashes>>

Missing == [file |-> NoFile, upto |-> 0]
Damaged == [file |-> First, upto |-> -1]

Readable == derived.file # NoFile /\ derived.upto >= 0
UpToDate == Readable /\ derived.upto = canonical

Alive(t) == worker[t] \in {"start", "building", "built", "failed", "unlink", "unlinkFailed"}

\* The marker names this very build file.
Owned(t) == t \in marker /\ build[t] \in {"partial", "whole"}

Init ==
    /\ canonical \in 0 .. MaxRecords
    /\ derived \in {Missing, Damaged} \cup [file : {First}, upto : 0 .. canonical]
    /\ sidecar \in {NoFile, derived.file}
    /\ old = [t \in Tokens |-> NoFile]
    /\ wal = {} /\ marker = {} /\ snapshot = {}
    /\ build = [t \in Tokens |-> "none"]
    /\ taken = [t \in Tokens |-> 0]
    /\ lock = NoProc
    /\ pc = [p \in Procs |-> "idle"]
    /\ token = [p \in Procs |-> NoFile]
    /\ reclaim = [p \in Procs |-> {}]
    /\ refuse = [p \in Procs |-> FALSE]
    /\ terminal = [p \in Procs |-> FALSE]
    /\ worker = [t \in Tokens |-> "none"]
    /\ by = [t \in Tokens |-> NoProc]
    /\ cancelled = {} /\ promoted = {}
    /\ outcome = [t \in Tokens |-> "none"]
    /\ crashes = 0

-----------------------------------------------------------------------------
(***************************************************************************)
(* Everyone else: writers of the canonical file, some of whom ignore its   *)
(* lock, and the projection, which brings the store up to date.            *)
(***************************************************************************)

Append1 ==
    /\ canonical < MaxRecords
    /\ canonical' = canonical + 1
    /\ UNCHANGED <<store, builds, snapshot, taken, lock, calls, workers, results, crashes>>

Project ==
    /\ lock = NoProc /\ Readable
    /\ derived' = [derived EXCEPT !.upto = canonical]
    /\ sidecar' \in {NoFile, derived.file}
    /\ UNCHANGED <<old, builds, inputs, lock, calls, workers, results, crashes>>

-----------------------------------------------------------------------------
(***************************************************************************)
(* recover, from the locks to the worker's start.                          *)
(***************************************************************************)

Goto(p, where) == pc' = [pc EXCEPT ![p] = where]

\* recover returns, and both locks with it.
Return(p, what) ==
    /\ Goto(p, "idle")
    /\ lock' = NoProc
    /\ outcome' = [outcome EXCEPT ![token[p]] = what]

\* _remove_owned.
Remove(t) ==
    IF Owned(t)
    THEN /\ build' = [build EXCEPT ![t] = "none"]
         /\ wal' = wal \ {t}
         /\ marker' = marker \ {t}
    ELSE UNCHANGED builds

\* Names the directory scan does not accept: quarantined files, a marker
\* without its build, and what starts like a build and has no marker, which a
\* build's -wal does too.
Unacceptable ==
    \/ wal # {}
    \/ \E t \in Tokens : old[t] # NoFile \/ (t \in marker) # (build[t] # "none")

\* Mutant: the locks are taken in shared mode.
AcquireShared(p, t) ==
    /\ pc[p] = "idle" /\ by[t] = NoProc
    /\ ~terminal[p] /\ \A u \in Tokens : by[u] = p => ~Alive(u)
    /\ lock' = p
    /\ by' = [by EXCEPT ![t] = p]
    /\ token' = [token EXCEPT ![p] = t]
    /\ reclaim' = [reclaim EXCEPT ![p] = {u \in Tokens : Owned(u)}]
    /\ refuse' = [refuse EXCEPT ![p] = Unacceptable]
    /\ Goto(p, "scan")
    /\ UNCHANGED <<store, builds, inputs, worker, cancelled, results, crashes>>

\* Both locks, and the listing of the directory.  If it holds an unacceptable
\* name, the scan comes to it after some of the builds.
Acquire(p, t) ==
    /\ pc[p] = "idle" /\ lock = NoProc
    /\ by[t] = NoProc
    /\ ~terminal[p] /\ \A u \in Tokens : by[u] = p => ~Alive(u)
    /\ lock' = p
    /\ by' = [by EXCEPT ![t] = p]
    /\ token' = [token EXCEPT ![p] = t]
    /\ \E R \in SUBSET {u \in Tokens : Owned(u)} :
           /\ ~Unacceptable => R = {u \in Tokens : Owned(u)}
           /\ reclaim' = [reclaim EXCEPT ![p] = R]
    /\ refuse' = [refuse EXCEPT ![p] = Unacceptable]
    /\ Goto(p, "scan")
    /\ UNCHANGED <<store, builds, inputs, worker, cancelled, results, crashes>>

\* One name of _reject_unsafe_derived_artifacts: an owned build is removed; one
\* that has gone since the listing is an error.
Scan(p) ==
    /\ pc[p] = "scan"
    /\ \/ \E t \in reclaim[p] :
             /\ Owned(t) /\ Remove(t)
             /\ reclaim' = [reclaim EXCEPT ![p] = @ \ {t}]
             /\ UNCHANGED <<pc, lock, outcome>>
       \/ /\ \E t \in reclaim[p] : ~Owned(t)
          /\ Return(p, "unavailable")
          /\ UNCHANGED <<builds, reclaim>>
       \/ /\ reclaim[p] = {} /\ refuse[p]
          /\ Return(p, "unavailable")
          /\ UNCHANGED <<builds, reclaim>>
       \/ /\ reclaim[p] = {} /\ ~refuse[p]
          /\ Goto(p, "diagnose")
          /\ UNCHANGED <<builds, reclaim, lock, outcome>>
    /\ UNCHANGED <<store, inputs, token, refuse, workers, terminal, promoted, crashes>>

\* Reading a database in WAL mode leaves its -wal behind.  A diagnosis may
\* also fail, on a store that is busy or was replaced under it.
Diagnosed == sidecar' = IF Readable THEN derived.file ELSE sidecar

Diagnose(p) ==
    /\ pc[p] = "diagnose"
    /\ Diagnosed
    /\ \/ UpToDate /\ Return(p, "current")
       \/ Return(p, "unavailable")
       \/ ~UpToDate /\ Return(p, "interrupted")
       \/ ~UpToDate /\ Goto(p, "snapshot") /\ UNCHANGED <<lock, outcome>>
    /\ UNCHANGED <<derived, old, builds, inputs, token, reclaim, refuse, workers, terminal, promoted, crashes>>

\* _create_snapshot, which may find that the file has changed meanwhile.
Snapshot(p) ==
    /\ pc[p] = "snapshot"
    /\ \/ /\ snapshot' = snapshot \cup {token[p]}
          /\ taken' = [taken EXCEPT ![token[p]] = canonical]
          /\ Goto(p, "reserve")
          /\ UNCHANGED <<lock, outcome>>
       \/ /\ \E what \in {"unavailable", "interrupted"} : Return(p, what)
          /\ UNCHANGED <<snapshot, taken>>
    /\ UNCHANGED <<canonical, store, builds, token, reclaim, refuse, workers, terminal, promoted, crashes>>

\* _reserve_owned_build, first the build file, then its marker.
Reserve(p) ==
    /\ pc[p] = "reserve"
    /\ build' = [build EXCEPT ![token[p]] = "partial"]
    /\ Goto(p, "mark")
    /\ UNCHANGED <<store, wal, marker, inputs, lock, token, reclaim, refuse, workers, results, crashes>>

Mark(p) ==
    /\ pc[p] = "mark"
    /\ marker' = marker \cup {token[p]}
    /\ Goto(p, "start")
    /\ UNCHANGED <<store, build, wal, inputs, lock, token, reclaim, refuse, workers, results, crashes>>

\* The worker starts, or the deadline has passed.
Start(p) ==
    /\ pc[p] = "start"
    /\ \/ /\ worker' = [worker EXCEPT ![token[p]] = "start"]
          /\ Goto(p, "join")
          /\ UNCHANGED <<builds, snapshot, lock, outcome>>
       \/ /\ Remove(token[p])
          /\ snapshot' = snapshot \ {token[p]}
          /\ Return(p, "interrupted")
          /\ UNCHANGED worker
    /\ UNCHANGED <<canonical, taken, store, token, reclaim, refuse, by, cancelled, terminal, promoted, crashes>>

-----------------------------------------------------------------------------
(***************************************************************************)
(* run_rebuild, the worker thread, which holds no lock.                    *)
(***************************************************************************)

WorkerGoto(t, where) == worker' = [worker EXCEPT ![t] = where]

Worker(t, from) ==
    /\ worker[t] = from
    /\ UNCHANGED <<store, canonical, taken, lock, calls, by, cancelled, results, crashes>>

\* SQLite opens the build by its name, and creates it if it has gone.
WorkerOpens(t) ==
    /\ Worker(t, "start")
    /\ build' = [build EXCEPT ![t] = IF @ = "none" THEN "foreign" ELSE @]
    /\ wal' = wal \cup {t}
    /\ WorkerGoto(t, "building")
    /\ UNCHANGED <<marker, snapshot>>

\* The last commit and the close, which takes the -wal along.
WorkerBuilds(t) ==
    /\ Worker(t, "building")
    /\ build' = [build EXCEPT ![t] = IF @ = "partial" THEN "whole" ELSE @]
    /\ wal' = wal \ {t}
    /\ WorkerGoto(t, "built")
    /\ UNCHANGED <<marker, snapshot>>

WorkerFails(t) ==
    /\ worker[t] \in {"start", "building"} /\ Worker(t, worker[t])
    /\ wal' = wal \ {t}
    /\ WorkerGoto(t, "failed")
    /\ UNCHANGED <<build, marker, snapshot>>

\* A failed build is removed, and a good one nobody waits for any more.
WorkerCleans(t) ==
    \/ /\ Worker(t, "built")
       /\ IF t \in cancelled THEN Remove(t) ELSE UNCHANGED builds
       /\ WorkerGoto(t, "unlink")
       /\ UNCHANGED snapshot
    \/ /\ Worker(t, "failed")
       /\ Remove(t)
       /\ WorkerGoto(t, "unlinkFailed")
       /\ UNCHANGED snapshot

WorkerEnds(t) ==
    /\ worker[t] \in {"unlink", "unlinkFailed"} /\ Worker(t, worker[t])
    /\ snapshot' = snapshot \ {t}
    /\ WorkerGoto(t, IF worker[t] = "unlink" THEN "ended" ELSE "broken")
    /\ UNCHANGED builds

-----------------------------------------------------------------------------
(***************************************************************************)
(* recover, from the join to its end.                                      *)
(***************************************************************************)

GiveUp(p) == terminal' = [terminal EXCEPT ![p] = TRUE]

Cancel(t) == cancelled' = cancelled \cup {t}

\* Mutant: the deadline ends the wait and not the call.
JoinAtDeadline(p) ==
    /\ pc[p] = "join"
    /\ Goto(p, "quarantine")
    /\ UNCHANGED <<store, inputs, builds, lock, token, reclaim, refuse, worker, by, cancelled, terminal, outcome, promoted, crashes>>

\* Mutant: join(timeout) is written join().
JoinForever(p) ==
    /\ pc[p] = "join" /\ ~Alive(token[p])
    /\ IF worker[token[p]] = "broken"
       THEN GiveUp(p) /\ Return(p, "unavailable")
       ELSE Goto(p, "quarantine") /\ UNCHANGED <<terminal, lock, outcome>>
    /\ UNCHANGED <<store, inputs, builds, token, reclaim, refuse, worker, by, cancelled, promoted, crashes>>

\* worker.join(timeout) and what is checked after it.
Join(p) ==
    LET t == token[p] IN
    /\ pc[p] = "join"
    /\ \/ /\ Alive(t)                    \* the deadline
          /\ Cancel(t)
          /\ Return(p, "interrupted")
          /\ UNCHANGED <<builds, terminal>>
       \/ /\ worker[t] = "broken"
          /\ GiveUp(p)
          /\ Return(p, "unavailable")
          /\ UNCHANGED <<builds, cancelled>>
       \/ /\ worker[t] = "ended"         \* the deadline
          /\ Cancel(t)
          /\ Remove(t)
          /\ Return(p, "interrupted")
          /\ UNCHANGED terminal
       \/ /\ worker[t] = "ended" /\ canonical # taken[t]
          /\ Remove(t)
          /\ GiveUp(p)
          /\ Return(p, "interrupted")
          /\ UNCHANGED cancelled
       \/ /\ worker[t] = "ended" /\ canonical = taken[t]
          /\ Goto(p, "quarantine")
          /\ UNCHANGED <<builds, lock, outcome, terminal, cancelled>>
    /\ UNCHANGED <<store, inputs, token, reclaim, refuse, worker, by, promoted, crashes>>

\* Mutant: the -wal of the old database stays.
QuarantineNothing(p) ==
    /\ pc[p] = "quarantine" /\ Owned(token[p])
    /\ Goto(p, "replace")
    /\ UNCHANGED <<store, builds, inputs, lock, token, reclaim, refuse, workers, results, crashes>>

\* The checks of _promote_owned, then the -wal of the old database is set
\* aside: from here on the deadline counts no more.
Quarantine(p) ==
    LET t == token[p] IN
    /\ pc[p] = "quarantine"
    /\ \/ /\ Owned(t)
          /\ old' = [old EXCEPT ![t] = sidecar]
          /\ sidecar' = NoFile
          /\ Goto(p, "replace")
          /\ UNCHANGED <<builds, lock, outcome, terminal>>
       \/ /\ Owned(t)                    \* the deadline
          /\ Remove(t)
          /\ Return(p, "interrupted")
          /\ UNCHANGED <<sidecar, old, terminal>>
       \/ /\ ~Owned(t)
          /\ GiveUp(p)
          /\ Return(p, "unavailable")
          /\ UNCHANGED <<sidecar, old, builds>>
    /\ UNCHANGED <<derived, inputs, token, reclaim, refuse, workers, promoted, crashes>>

\* atomic_promote: the build gets the store's name and keeps its own.
Replace(p) ==
    LET t == token[p] IN
    /\ pc[p] = "replace"
    /\ derived' = [file |-> t, upto |-> IF build[t] = "whole" THEN taken[t] ELSE -1]
    /\ promoted' = promoted \cup {t}
    /\ Goto(p, "unlink")
    /\ UNCHANGED <<sidecar, old, builds, inputs, lock, token, reclaim, refuse, workers, terminal, outcome, crashes>>

\* The replacement or the removal of the build's name fails: the quarantined
\* -wal gets its name back.
PromotionFails(p) ==
    LET t == token[p] IN
    /\ pc[p] \in {"replace", "unlink"} \cap FailAt
    /\ sidecar' = IF old[t] # NoFile THEN old[t] ELSE sidecar
    /\ old' = [old EXCEPT ![t] = NoFile]
    /\ Remove(t)
    /\ GiveUp(p)
    /\ Return(p, "unavailable")
    /\ UNCHANGED <<derived, inputs, token, reclaim, refuse, workers, promoted, crashes>>

Unlink(p) ==
    /\ pc[p] = "unlink"
    /\ build' = [build EXCEPT ![token[p]] = "none"]
    /\ Goto(p, "unmark")
    /\ UNCHANGED <<store, wal, marker, inputs, lock, token, reclaim, refuse, workers, results, crashes>>

\* A marker that cannot be removed stays: _remove_owned misses its build.
Unmark(p) ==
    /\ pc[p] = "unmark"
    /\ \/ /\ marker' = marker \ {token[p]}
          /\ Goto(p, "verify")
          /\ UNCHANGED <<lock, outcome>>
       \/ /\ "unmark" \in FailAt
          /\ Return(p, "unavailable")
          /\ UNCHANGED marker
    /\ UNCHANGED <<store, build, wal, inputs, token, reclaim, refuse, workers, terminal, promoted, crashes>>

\* Mutant: the deadline is looked at after the commit too.
VerifyInTime(p) ==
    /\ pc[p] = "verify"
    /\ Diagnosed
    /\ Return(p, IF UpToDate THEN "rebuilt" ELSE "interrupted")
    /\ UNCHANGED <<derived, old, builds, inputs, token, reclaim, refuse, workers, terminal, promoted, crashes>>

\* The last diagnosis.
Verify(p) ==
    /\ pc[p] = "verify"
    /\ Diagnosed
    /\ \/ UpToDate /\ Return(p, "rebuilt") /\ UNCHANGED terminal
       \/ GiveUp(p) /\ Return(p, "unavailable")
    /\ UNCHANGED <<derived, old, builds, inputs, token, reclaim, refuse, workers, promoted, crashes>>

-----------------------------------------------------------------------------
\* Builds that process p may have removed a part of when it dies.
Removing(p) ==
    LET t == token[p] IN
    {u \in reclaim[p] : pc[p] = "scan" /\ Owned(u)}
        \cup {u \in {t} : pc[p] \in {"start", "join", "quarantine", "replace"} /\ Owned(u) /\ ~Alive(u)}
        \cup {u \in Tokens : by[u] = p /\ Owned(u) /\
                 (worker[u] = "failed" \/ (worker[u] = "built" /\ u \in cancelled))}

\* Process p is killed, perhaps in the middle of one _remove_owned, and
\* another one with a new coordinator takes its place.
Crash(p) ==
    /\ crashes < MaxCrashes
    /\ crashes' = crashes + 1
    /\ Goto(p, "idle")
    /\ lock' = IF lock = p THEN NoProc ELSE lock
    /\ terminal' = [terminal EXCEPT ![p] = FALSE]
    /\ worker' = [u \in Tokens |-> IF by[u] = p /\ Alive(u) THEN "dead" ELSE worker[u]]
    /\ \/ UNCHANGED <<build, wal>>
       \/ \E u \in Removing(p) :
             /\ build' = [build EXCEPT ![u] = "none"]
             /\ wal' = wal \ {u}
    /\ UNCHANGED <<store, marker, inputs, token, reclaim, refuse, by, cancelled, outcome, promoted>>

CallSteps(p) ==
    \/ Scan(p) \/ Diagnose(p) \/ Snapshot(p) \/ Reserve(p) \/ Mark(p) \/ Start(p) \/ Join(p)
    \/ Quarantine(p) \/ Replace(p) \/ PromotionFails(p) \/ Unlink(p) \/ Unmark(p) \/ Verify(p)

WorkerSteps(t) ==
    WorkerOpens(t) \/ WorkerBuilds(t) \/ WorkerFails(t) \/ WorkerCleans(t) \/ WorkerEnds(t)

Next ==
    \/ Append1 \/ Project
    \/ \E p \in Procs : CallSteps(p) \/ Crash(p) \/ \E t \in Tokens : Acquire(p, t)
    \/ \E t \in Tokens : WorkerSteps(t)

Spec == Init /\ [][Next]_vars

\* The thread of a call is scheduled; a worker may hang for ever.
CallSpec == Spec /\ \A p \in Procs : WF_vars(CallSteps(p))

-----------------------------------------------------------------------------
Files == Tokens \cup {First}

\* Every variable keeps its type; the lock's holder is the one call between
\* its acquisition and its return (recovery.py:267-269).
TypeOK ==
    /\ canonical \in 0 .. MaxRecords
    /\ derived \in [file : Files \cup {NoFile}, upto : -1 .. MaxRecords]
    /\ sidecar \in Files \cup {NoFile}
    /\ old \in [Tokens -> Files \cup {NoFile}]
    /\ build \in [Tokens -> {"none", "partial", "whole", "foreign"}]
    /\ wal \subseteq Tokens /\ marker \subseteq Tokens /\ snapshot \subseteq Tokens
    /\ taken \in [Tokens -> 0 .. MaxRecords]
    /\ lock \in Procs \cup {NoProc}
    /\ pc \in [Procs -> {"idle", "scan", "diagnose", "snapshot", "reserve", "mark", "start", "join",
                          "quarantine", "replace", "unlink", "unmark", "verify"}]
    /\ \A p \in Procs : pc[p] # "idle" <=> lock = p
    /\ token \in [Procs -> Tokens \cup {NoFile}]
    /\ reclaim \in [Procs -> SUBSET Tokens]
    /\ refuse \in [Procs -> BOOLEAN] /\ terminal \in [Procs -> BOOLEAN]
    /\ worker \in [Tokens -> {"none", "start", "building", "built", "failed", "unlink", "unlinkFailed",
                               "ended", "broken", "dead"}]
    /\ by \in [Tokens -> Procs \cup {NoProc}]
    /\ cancelled \subseteq Tokens /\ promoted \subseteq Tokens
    /\ outcome \in [Tokens -> {"none", "current", "rebuilt", "interrupted", "unavailable"}]
    /\ crashes \in 0 .. MaxCrashes

\* A -wal never stands next to a database it was not written for, whose pages
\* SQLite would then mix into it: not when promotions fail, and not when a
\* process dies in the middle of one (recovery.py:539-564).
SidecarFitsDerived == sidecar # NoFile => sidecar = derived.file

\* What was moved into place is a whole rebuild of its snapshot, though the
\* worker may be behind its deadline and other processes reclaim builds
\* (recovery.py:333-355, 437-452).
WholeBuildOnly == derived.file \in Tokens => derived.upto >= taken[derived.file]

\* The store in use is one thing: a whole build, with its own -wal or none.
StoreIsWhole == SidecarFitsDerived /\ WholeBuildOnly

\* A call that reports an interruption has left the derived store alone, and
\* its worker does so ever after; one that reports a rebuild has moved its
\* build into place (recovery.py:335-337, 346-361, 367-373).
OutcomeTellsWhatHappened ==
    \A t \in Tokens : /\ outcome[t] \in {"interrupted", "current"} => t \notin promoted
                      /\ outcome[t] = "rebuilt" => t \in promoted

\* Every call returns, and gives the locks back, though its worker may hang
\* (recovery.py:267-269, 333-337).
CallsReturn == \A p \in Procs : pc[p] # "idle" ~> pc[p] = "idle"

\* As long as every recovery has succeeded, the next one is not refused for
\* the files they left (recovery.py:423-424, 539-571).  The code does not keep
\* it: the quarantined -wal of the first promotion refuses all later calls.
RecoveryIsRepeatable ==
    (\A t \in Tokens : outcome[t] \in {"none", "current", "rebuilt"})
        => \A p \in Procs : pc[p] = "scan" => ~refuse[p]

=============================================================================
