--------------------------- MODULE ProjectMemory ----------------------------
(***************************************************************************)
(* Project memory beside the canonical stream: events are projected as     *)
(* they arrive, or replayed from the file over the tables there are        *)
(* (rebuild_project_memory) or over new ones (rebuild_all_project_memory), *)
(* each event in a transaction of its own, so that a death or a refused    *)
(* event may fall between any two.  src/project_memory/rebuild.py,         *)
(* src/storage/canonical_replay.py.                                        *)
(***************************************************************************)
EXTENDS MemoryTables

CONSTANTS
    Events,        \* what other processes append to the stream
    Artifacts,     \* ids that may be in zm_artifacts
    Filters,       \* projects a replay may be restricted to, None for all
    MaxLog,        \* bound: length of the stream
    MaxJobs        \* bound: replays started

\* What event_to_op reads of an event, absent fields as None.
EventFields == {"domain", "op", "id", "project", "scope", "key", "text", "lifecycle", "supersedes", "claim"}

ASSUME EventsAreRecords == \A ev \in Events : DOMAIN ev = EventFields

VARIABLES
    log,        \* the canonical stream, in order
    artifacts,  \* ids in zm_artifacts
    db,         \* the six tables
    job,        \* the replay under way
    next,       \* position the streaming projection has reached
    pure,       \* history: the tables come from log[1..next-1] alone
    jobs        \* replays started

vars == <<log, artifacts, db, job, next, pure, jobs>>

NoJob == [kind |-> "idle"]
Idle == job = NoJob

\* _validate_m4_record: a known domain without identity or operation, or an
\* operation that does not validate, blocks the whole replay.
ValidRecord(ev) ==
    ev.domain \in Domains => Classify(ev) # "skip" /\ ValidOp(EventToOp(ev)) /\ SafeReference(ev)

\* load_strict_jsonl: one line that is no valid record, and nothing is replayed.
Loadable == \A i \in DOMAIN log : ValidRecord(log[i])

Concerns(ev, filter) == Classify(ev) # "skip" /\ (filter = None \/ ev.project = filter)

Passable == {"ok", "noop", "conflict", "transition", "skip"}

\* One event of a replay, which stops at the first that raises.
Replayed(acc, ev, arts) ==
    LET step == Project(acc.db, ev, arts) IN
    IF acc.ok /\ step.result \in Passable THEN [ok |-> TRUE, db |-> step.db] ELSE [ok |-> FALSE, db |-> acc.db]

\* _replay_m4_events from some tables on.
ReplayFrom(start, events, arts) ==
    LET after[n \in 0..Len(events)] ==
            IF n = 0 THEN [ok |-> TRUE, db |-> start] ELSE Replayed(after[n - 1], events[n], arts)
    IN  after[Len(events)]

Init ==
    /\ log = <<>> /\ artifacts \in SUBSET Artifacts
    /\ db = EmptyTables
    /\ job = NoJob /\ next = 1 /\ pure = TRUE /\ jobs = 0

-----------------------------------------------------------------------------
(* Other processes *)

AppendEvent(ev) ==
    /\ Len(log) < MaxLog
    /\ log' = Append(log, ev)
    /\ UNCHANGED <<artifacts, db, job, next, pure, jobs>>

IngestArtifact(a) ==
    /\ a \notin artifacts
    /\ artifacts' = artifacts \cup {a}
    /\ UNCHANGED <<log, db, job, next, pure, jobs>>

-----------------------------------------------------------------------------
(* Projection of the stream as it comes *)

\* _project_event: conflicts and refused transitions are rolled back and
\* passed over, any other error is the caller's, who goes on with the next.
ProjectNext ==
    /\ Idle /\ next <= Len(log)
    /\ LET step == Project(db, log[next], artifacts) IN
       /\ db' = step.db
       /\ pure' = (pure /\ step.result \in Passable)
    /\ next' = next + 1
    /\ UNCHANGED <<log, artifacts, job, jobs>>

-----------------------------------------------------------------------------
(* Replays *)

\* Mutant: the tables of the state domain are left out of the drop.
StartAllKeepingState(filter) ==
    /\ Idle /\ jobs < MaxJobs
    /\ jobs' = jobs + 1
    /\ Loadable
    /\ job' = [kind |-> "all", filter |-> filter, events |-> log, at |-> 0, snapshot |-> db, from |-> db]
    /\ db' = [EmptyTables EXCEPT !.there = FALSE, !.state = db.state]
    /\ UNCHANGED <<log, artifacts, next, pure>>

\* rebuild_all_project_memory: everything is read and validated, the database
\* copied aside, the six tables dropped and the drop committed.
StartAll(filter) ==
    /\ Idle /\ jobs < MaxJobs
    /\ jobs' = jobs + 1
    /\ Loadable
    /\ job' = [kind |-> "all", filter |-> filter, events |-> log, at |-> 0, snapshot |-> db, from |-> db]
    /\ db' = [EmptyTables EXCEPT !.there = FALSE]
    /\ UNCHANGED <<log, artifacts, next, pure>>

\* _recreate_m4_tables, a transaction of its own.
Recreate ==
    /\ job.kind = "all" /\ job.at = 0
    /\ job' = [job EXCEPT !.at = 1]
    /\ db' = [db EXCEPT !.there = TRUE]
    /\ UNCHANGED <<log, artifacts, next, pure, jobs>>

\* rebuild_project_memory: the same loop over the tables there are.
StartOver(filter) ==
    /\ Idle /\ jobs < MaxJobs
    /\ jobs' = jobs + 1
    /\ Loadable
    /\ job' = [kind |-> "over", filter |-> filter, events |-> log, at |-> 1, snapshot |-> db, from |-> db]
    /\ UNCHANGED <<log, artifacts, db, next, pure>>

\* CanonicalReplayError before anything is touched.
Blocked ==
    /\ Idle /\ jobs < MaxJobs /\ ~Loadable
    /\ jobs' = jobs + 1
    /\ UNCHANGED <<log, artifacts, db, job, next, pure>>

Replaying == job.kind \in {"all", "over"} /\ job.at \in 1..Len(job.events)

\* Mutant: a failed rebuild leaves the tables as far as it came.
FailLeavingTables ==
    /\ Replaying /\ Concerns(job.events[job.at], job.filter)
    /\ Project(db, job.events[job.at], artifacts).result \notin Passable
    /\ pure' = (pure /\ job.kind = "all")
    /\ job' = NoJob
    /\ UNCHANGED <<log, artifacts, db, next, jobs>>

\* An event that raises: a full rebuild copies the snapshot back and raises.
Fail ==
    /\ Replaying /\ Concerns(job.events[job.at], job.filter)
    /\ Project(db, job.events[job.at], artifacts).result \notin Passable
    /\ db' = IF job.kind = "all" THEN job.snapshot ELSE db
    /\ pure' = (pure /\ job.kind = "all")
    /\ job' = NoJob
    /\ UNCHANGED <<log, artifacts, next, jobs>>

ReplayOne ==
    /\ Replaying
    /\ LET ev == job.events[job.at]
           step == Project(db, ev, artifacts)
       IN  /\ Concerns(ev, job.filter) => step.result \in Passable
           /\ db' = IF Concerns(ev, job.filter) THEN step.db ELSE db
    /\ job' = [job EXCEPT !.at = @ + 1]
    /\ UNCHANGED <<log, artifacts, next, pure, jobs>>

\* The replay is the whole truth when it was of all projects and into empty
\* tables; then streaming goes on behind it.
Finish ==
    /\ job.kind \in {"all", "over"} /\ job.at = Len(job.events) + 1
    /\ LET whole == job.filter = None /\ (job.kind = "all" \/ job.from = EmptyTables) IN
       /\ pure' = whole
       /\ next' = IF whole THEN Len(job.events) + 1 ELSE next
    /\ job' = NoJob
    /\ UNCHANGED <<log, artifacts, db, jobs>>

\* The process dies: what was committed stays, the snapshot was in memory.
Die ==
    /\ ~Idle
    /\ pure' = FALSE
    /\ job' = NoJob
    /\ UNCHANGED <<log, artifacts, db, next, jobs>>

Next ==
    \/ \E ev \in Events : AppendEvent(ev)
    \/ \E a \in Artifacts : IngestArtifact(a)
    \/ ProjectNext
    \/ \E f \in Filters : StartAll(f) \/ StartOver(f)
    \/ Recreate \/ Blocked \/ Fail \/ ReplayOne \/ Finish \/ Die

Spec == Init /\ [][Next]_vars

-----------------------------------------------------------------------------
(* Properties *)

\* A replay of the stream into empty tables succeeds and gives the tables, after
\* streaming, a full rebuild, a failed one, or both in any order, unless a
\* process died in a replay or a replay ran over tables that were not empty
\* (rebuild.py: incremental and full rebuild are the same loop).
RebuildMatchesStream ==
    (pure /\ Idle) =>
        ReplayFrom(EmptyTables, SubSeq(log, 1, next - 1), artifacts) = [ok |-> TRUE, db |-> db]

\* A full rebuild that an event stops gives back the tables it had dropped.
FailedRebuildLosesNothing ==
    [][ (job.kind = "all" /\ Replaying /\ job' = NoJob /\ pure') => db' = job.from ]_vars

\* A supersession of the active decision of a slot by a new active one is never
\* refused as a second active decision (projector.py: insert as a candidate,
\* retire the old one, then promote).
SupersessionGoesThrough ==
    [][ (Idle /\ next' = next + 1 /\ db.there) =>
          LET op == EventToOp(log[next]) IN
          (/\ Classify(log[next]) # "skip" /\ op.domain = "decision" /\ op.op = "supersede" /\ ValidOp(op)
           /\ op.id \notin DOMAIN db.decision /\ op.supersedes \in DOMAIN db.decision
           /\ op.supersedes \in ActiveDecisions(db, op.project, op.scope, op.key))
          => /\ db'.decision[op.supersedes].lifecycle = "superseded"
             /\ db'.decision[op.id].lifecycle = op.lifecycle ]_vars

\* The queries that fetch one row find at most one: the active charter of a
\* project, the active decision of a scope and key, the value of a state key;
\* and what they find is in the listings (reader.py fetchone without ORDER BY).
CurrentIsUnambiguous ==
    \A ev \in Events :
        /\ Cardinality(ActiveCharters(db, ev.project)) <= 1
        /\ ActiveCharters(db, ev.project) \subseteq ListCharters(db, ev.project)
        /\ ev.key # None =>
              /\ \A scope \in {ev.scope, "of project"} : Cardinality(StateValues(db, ev.project, scope, ev.key)) <= 1
              /\ ev.scope # None => Cardinality(ActiveDecisions(db, ev.project, ev.scope, ev.key)) <= 1
              /\ ActiveDecisions(db, ev.project, ev.scope, ev.key) \subseteq ListDecisions(db, ev.project)

\* The same without the exception for decisions that have no scope
\* (projector.py:519: we must NOT have two active rows with the same
\* project_id, scope and decision_key at any committed point).
ActiveDecisionIsUnique ==
    \A ev \in Events : ev.key # None => Cardinality(ActiveDecisions(db, ev.project, ev.scope, ev.key)) <= 1

TypeOK ==
    /\ job.kind \in {"idle", "all", "over"}
    /\ next \in 1..(Len(log) + 1) /\ jobs \in 0..MaxJobs
    /\ DOMAIN db.artifact \subseteq artifacts \X {ev.project : ev \in Events}
    /\ ~db.there => \A domain \in {"charter", "requirement", "decision", "verification", "artifact"} : db[domain] = <<>>
=============================================================================
