------------------------------- MODULE Ingest -------------------------------
(***************************************************************************)
(* The derived SQLite layer as src/src/storage/ingest.py fills it from     *)
(* canonical JSONL streams: ingest_file with its resume check, one         *)
(* transaction per line, duplicates, supersession, tombstones and the      *)
(* full-text index, and rebuild_from_jsonl.                                *)
(*                                                                         *)
(* One ingest runs at a time: ProjectionCoordinator.from_ingest holds the  *)
(* exclusive lock of the derived store around it.  Streams may grow, tear  *)
(* or be rewritten at any moment by whoever does not take that lock.       *)
(*                                                                         *)
(* A line stands for its envelope's event_id, content hash, trace,         *)
(* lifecycle status and deletion target.  The prefix hash is the sequence  *)
(* of lines hashed.  Rows that ingest writes and never reads back          *)
(* (provenance, relations, scopes, spaces, artifacts, deletion audit) are  *)
(* left out.                                                               *)
(***************************************************************************)
EXTENDS Naturals, Sequences

CONSTANTS
    Sources,     \* canonical streams
    Events,      \* event ids
    Hashes, Traces,
    NoEvent,     \* no deletion block, no successor
    Garbage,     \* a line that does not parse or validate
    Vocabulary,  \* the lines that may be written
    Failing,     \* the lines whose transaction may fail
    MaxLines,    \* bound on the lines of each stream
    MaxFaults,   \* bound on failed transactions and crashes
    MaxRewrites, \* bound on rewrites of a stream
    MaxRebuilds, \* bound on calls of rebuild_from_jsonl
    MaxUpheavals \* bound on rewrites and rebuilds together

Statuses == {"observed", "active", "superseded", "deleted"}

Envelope == [event_id : Events, content_hash : Hashes, trace_id : Traces,
             lifecycle_status : Statuses, target_event_id : Events \cup {NoEvent}]

ASSUME VocabularyAssumption ==
    /\ NoEvent \notin Events /\ Garbage \notin Envelope
    /\ Vocabulary \subseteq Envelope \cup {Garbage}
    /\ Failing \subseteq Envelope \cup {Garbage}

ASSUME BoundsAssumption ==
    /\ MaxLines \in [Sources -> Nat] /\ MaxFaults \in Nat
    /\ MaxRewrites \in Nat /\ MaxRebuilds \in Nat
    /\ MaxUpheavals \in Nat

VARIABLES
    stream,     \* the complete lines of each file; a torn one is not yet a line
    rewritten,  \* the files someone has rewritten
    meta,       \* zm_meta: the line each event was inserted from
    life,       \* zm_lifecycle.current_state
    successor,  \* zm_lifecycle.superseded_by
    fts,        \* event ids with a row in zm_fts
    tombs,      \* zm_tombstones, by tombstone_id
    log,        \* zm_ingest_log, by jsonl_path
    checkpoint, \* zm_ingest_checkpoint, by jsonl_path
    fts5,       \* migrate_5.FTS5_AVAILABLE of this process
    job,        \* the ingest under way
    todo,       \* the files a rebuild has still to ingest
    refused,    \* the files whose last ingest reported source_changed
    spent       \* faults, rewrites and rebuilds so far

files == <<stream, rewritten>>
derived == <<meta, life, successor, fts, tombs, log, checkpoint>>
vars == <<files, derived, fts5, job, todo, refused, spent>>

Outcomes == {"new_event", "duplicate_event_id", "duplicate_content_hash",
             "event_id_content_conflict", "invalid_record"}
NoRow == [event_id |-> NoEvent]
NoTomb == [target_event_id |-> NoEvent, status |-> "none"]
NoCheckpoint == [last_line |-> 0, prefix |-> <<>>]
Idle == [pc |-> "idle"]

\* The tables after their migrations; zm_fts is not among DERIVED_TABLES.
AllEvents(row) == [e \in Events |-> row]
AllSources(row) == [s \in Sources |-> row]

Init ==
    /\ stream = AllSources(<<>>)
    /\ rewritten = {}
    /\ meta = AllEvents(NoRow)
    /\ life = AllEvents("none")
    /\ successor = AllEvents(NoEvent)
    /\ tombs = AllEvents(NoTomb)
    /\ log = AllSources(<<>>)
    /\ checkpoint = AllSources(NoCheckpoint)
    /\ fts = {}
    /\ fts5 = TRUE
    /\ job = Idle
    /\ todo = {}
    /\ refused = {}
    /\ spent = [faults |-> 0, rewrites |-> 0, rebuilds |-> 0]

-----------------------------------------------------------------------------
(***************************************************************************)
(* The canonical files.                                                    *)
(***************************************************************************)

Write(s) ==
    /\ Len(stream[s]) < MaxLines[s]
    /\ \E l \in Vocabulary : stream' = [stream EXCEPT ![s] = Append(@, l)]
    /\ UNCHANGED <<rewritten, derived, fts5, job, todo, refused, spent>>

\* Someone edits or truncates the file.
Rewrite(s) ==
    /\ spent.rewrites < MaxRewrites /\ spent.rewrites + spent.rebuilds < MaxUpheavals
    /\ \E i \in DOMAIN stream[s] :
           \/ \E l \in Vocabulary : stream' = [stream EXCEPT ![s][i] = l]
           \/ stream' = [stream EXCEPT ![s] = SubSeq(@, 1, i - 1)]
    /\ rewritten' = rewritten \cup {s}
    /\ spent' = [spent EXCEPT !.rewrites = @ + 1]
    /\ UNCHANGED <<derived, fts5, job, todo, refused>>

-----------------------------------------------------------------------------
(***************************************************************************)
(* ingest_file: resume check, then the lines, each in a transaction.       *)
(***************************************************************************)

\* Mutant: the file must be what was consumed.
SourceGrew(s) == stream[s] # checkpoint[s].prefix

\* The hash is only compared when the file is long enough.
SourceChanged(s) ==
    LET last == checkpoint[s].last_line
    IN  last <= Len(stream[s]) => SubSeq(stream[s], 1, last) # checkpoint[s].prefix

\* First read of the file.
Begin(s) ==
    /\ job = Idle
    /\ todo = {} \/ s \in todo
    /\ todo' = todo \ {s}
    /\ \/ /\ SourceChanged(s)
          /\ refused' = refused \cup {s}
          /\ UNCHANGED job
       \/ /\ ~SourceChanged(s)
          /\ refused' = refused \ {s}
          /\ job' = [pc |-> "read", source |-> s,
                     hashed |-> SubSeq(stream[s], 1, checkpoint[s].last_line)]
    /\ UNCHANGED <<files, derived, fts5, spent>>

\* Mutant: the start line is the last consumed one.
ReadLastAgain ==
    /\ job.pc = "read"
    /\ job' = [pc |-> "lines", source |-> job.source, hashed |-> job.hashed,
               next |-> IF checkpoint[job.source].last_line = 0 THEN 1
                        ELSE checkpoint[job.source].last_line,
               lines |-> stream[job.source]]
    /\ UNCHANGED <<files, derived, fts5, todo, refused, spent>>

\* Mutant: the last line always counts as torn.
ReadAllButLast ==
    /\ job.pc = "read"
    /\ job' = [pc |-> "lines", source |-> job.source, hashed |-> job.hashed,
               next |-> checkpoint[job.source].last_line + 1,
               lines |-> SubSeq(stream[job.source], 1, Len(stream[job.source]) - 1)]
    /\ UNCHANGED <<files, derived, fts5, todo, refused, spent>>

\* Second read, by _iter_jsonl_lines; lines before the start line are skipped.
Read ==
    /\ job.pc = "read"
    /\ job' = [pc |-> "lines", source |-> job.source, hashed |-> job.hashed,
               next |-> checkpoint[job.source].last_line + 1,
               lines |-> stream[job.source]]
    /\ UNCHANGED <<files, derived, fts5, todo, refused, spent>>

Known == {e \in Events : meta[e] # NoRow}

Classify(l) ==
    IF l = Garbage THEN "invalid_record"
    ELSE IF l.event_id \in Known
         THEN IF meta[l.event_id].content_hash = l.content_hash
              THEN "duplicate_event_id" ELSE "event_id_content_conflict"
         ELSE IF \E e \in Known : meta[e].content_hash = l.content_hash
              THEN "duplicate_content_hash" ELSE "new_event"

IsDeletion(l) == l # Garbage /\ l.lifecycle_status = "deleted" /\ l.target_event_id # NoEvent

IsPending(t, e) == tombs[t] = [target_event_id |-> e, status |-> "pending"]

\* Mutant: tombstones do not wait.
DeletedTarget(l, present) ==
    {e \in present : IsDeletion(l) /\ e = l.target_event_id}

\* The events whose lifecycle the line's transaction sets to deleted: its own
\* when a tombstone waited for it, and its target when that is present.
Deleted(l, present) ==
    {e \in present : \/ e \notin Known /\ \E t \in Events : IsPending(t, e)
                     \/ IsDeletion(l) /\ e = l.target_event_id}

\* The active event of the trace that a new active event supersedes.
Prior(l) ==
    IF l.lifecycle_status = "active"
    THEN {e \in Known : /\ meta[e].lifecycle_status = "active"
                        /\ meta[e].trace_id = l.trace_id /\ life[e] = "active"}
    ELSE {}

\* Mutant: the index row is written after the pending tombstones.
InsertEventLast(l, dead) ==
    /\ meta' = [meta EXCEPT ![l.event_id] = l]
    /\ \E prior \in IF Prior(l) = {} THEN {NoEvent} ELSE Prior(l) :
           /\ life' = [e \in Events |->
                         IF e \in dead THEN "deleted"
                         ELSE IF e = l.event_id THEN l.lifecycle_status
                         ELSE IF e = prior THEN "superseded" ELSE life[e]]
           /\ successor' = [e \in Events |-> IF e = prior THEN l.event_id ELSE successor[e]]
    /\ fts' = IF fts5 THEN (fts \ dead) \cup {l.event_id} ELSE fts

\* Mutant: the superseded event keeps its state.
InsertEventLinkOnly(l, dead) ==
    /\ meta' = [meta EXCEPT ![l.event_id] = l]
    /\ \E prior \in IF Prior(l) = {} THEN {NoEvent} ELSE Prior(l) :
           /\ life' = [e \in Events |->
                         IF e \in dead THEN "deleted"
                         ELSE IF e = l.event_id THEN l.lifecycle_status ELSE life[e]]
           /\ successor' = [e \in Events |-> IF e = prior THEN l.event_id ELSE successor[e]]
    /\ fts' = IF fts5 THEN (fts \cup {l.event_id}) \ dead ELSE fts

\* zm_meta, zm_lifecycle and zm_fts for a new event.
InsertEvent(l, dead) ==
    /\ meta' = [meta EXCEPT ![l.event_id] = l]
    /\ \E prior \in IF Prior(l) = {} THEN {NoEvent} ELSE Prior(l) :
           /\ life' = [e \in Events |->
                         IF e \in dead THEN "deleted"
                         ELSE IF e = l.event_id THEN l.lifecycle_status
                         ELSE IF e = prior THEN "superseded" ELSE life[e]]
           /\ successor' = [e \in Events |-> IF e = prior THEN l.event_id ELSE successor[e]]
    /\ fts' = IF fts5 THEN (fts \cup {l.event_id}) \ dead ELSE fts

\* Any other outcome only runs the deletion, if the line is one.
OnlyDelete(dead) ==
    /\ life' = [e \in Events |-> IF e \in dead THEN "deleted" ELSE life[e]]
    /\ fts' = IF fts5 THEN fts \ dead ELSE fts
    /\ UNCHANGED <<meta, successor>>

\* _apply_pending_tombstones for a new event, then _apply_tombstone; a
\* tombstone_id that exists keeps its target.
Entomb(l, new, present) ==
    LET Settled(t) == IF new # {} /\ IsPending(t, l.event_id)
                      THEN [tombs[t] EXCEPT !.status = "applied"] ELSE tombs[t]
        Status == IF l.target_event_id \in present THEN "applied" ELSE "pending"
        Target(t) == IF tombs[t] = NoTomb THEN l.target_event_id ELSE tombs[t].target_event_id
    IN  tombs' = [t \in Events |->
                    IF IsDeletion(l) /\ t = l.event_id
                    THEN [target_event_id |-> Target(t), status |-> Status]
                    ELSE Settled(t)]

\* Mutant: only a new deletion event deletes.
ProjectNew(l) ==
    LET new == IF Classify(l) = "new_event" THEN {l.event_id} ELSE {}
        present == Known \cup new
        dead == Deleted(l, present)
    IN  IF new # {} THEN InsertEvent(l, dead) /\ Entomb(l, new, present)
        ELSE UNCHANGED <<meta, life, successor, fts, tombs>>

\* What the transaction changes beside log and checkpoint.
Project(l) ==
    LET new == IF Classify(l) = "new_event" THEN {l.event_id} ELSE {}
        present == Known \cup new
        dead == Deleted(l, present)
    IN  /\ IF new # {} THEN InsertEvent(l, dead) ELSE OnlyDelete(dead)
        /\ Entomb(l, new, present)

CurrentLine == job.lines[job.next]
AtLine == job.pc = "lines" /\ job.next <= Len(job.lines)

\* _commit_outcome: one transaction.
CommitLine ==
    LET s == job.source
        l == CurrentLine
        hashed == Append(job.hashed, l)
    IN  /\ AtLine
        /\ IF l = Garbage THEN UNCHANGED <<meta, life, successor, fts, tombs>> ELSE Project(l)
        /\ log' = [log EXCEPT ![s] = Append(@, [line |-> l, outcome |-> Classify(l)])]
        /\ checkpoint' = [checkpoint EXCEPT ![s] = [last_line |-> job.next, prefix |-> hashed]]
        /\ job' = [job EXCEPT !.next = @ + 1, !.hashed = hashed]
        /\ UNCHANGED <<files, fts5, todo, refused, spent>>

\* The transaction fails before or after the hasher has taken the line, and
\* rolls back.  ingest_file stops, unless the line was invalid: there it does
\* not look at the result and goes on.
FailLine ==
    /\ AtLine /\ CurrentLine \in Failing
    /\ spent.faults < MaxFaults
    /\ spent' = [spent EXCEPT !.faults = @ + 1]
    /\ IF CurrentLine = Garbage
       THEN \E hashed \in {job.hashed, Append(job.hashed, CurrentLine)} :
                job' = [job EXCEPT !.next = @ + 1, !.hashed = hashed]
       ELSE job' = Idle
    /\ UNCHANGED <<files, derived, fts5, todo, refused>>

\* No complete line is left; a torn one is reported and not committed.
EndOfFile ==
    /\ job.pc = "lines" /\ job.next > Len(job.lines)
    /\ job' = Idle
    /\ UNCHANGED <<files, derived, fts5, todo, refused, spent>>

-----------------------------------------------------------------------------
\* rebuild_from_jsonl drops the derived tables, all but zm_fts; migration 5
\* then fails to create the table that exists and turns FTS5 off.
DropDerived ==
    /\ job = Idle /\ todo = {}
    /\ spent.rebuilds < MaxRebuilds /\ spent.rewrites + spent.rebuilds < MaxUpheavals
    /\ spent' = [spent EXCEPT !.rebuilds = @ + 1]
    /\ meta' = AllEvents(NoRow)
    /\ life' = AllEvents("none")
    /\ successor' = AllEvents(NoEvent)
    /\ tombs' = AllEvents(NoTomb)
    /\ log' = AllSources(<<>>)
    /\ checkpoint' = AllSources(NoCheckpoint)
    /\ fts5' = FALSE
    /\ todo' = Sources
    /\ UNCHANGED <<files, fts, job, refused>>

\* The process dies and another opens the store, whose schema is current.
Crash ==
    /\ job # Idle \/ todo # {} \/ ~fts5
    /\ spent.faults < MaxFaults
    /\ spent' = [spent EXCEPT !.faults = @ + 1]
    /\ job' = Idle
    /\ todo' = {}
    /\ fts5' = TRUE
    /\ UNCHANGED <<files, derived, refused>>

IngestStep == Read \/ CommitLine \/ EndOfFile

Next ==
    \/ \E s \in Sources : Write(s) \/ Rewrite(s) \/ Begin(s)
    \/ IngestStep \/ FailLine \/ DropDerived \/ Crash

Spec == Init /\ [][Next]_vars

\* Ingest is called again and again for each stream, and a call that nothing
\* cuts off ends.
FairSpec == Spec /\ WF_vars(IngestStep) /\ \A s \in Sources : SF_vars(Begin(s))

-----------------------------------------------------------------------------
(***************************************************************************)
(* Properties.                                                             *)
(***************************************************************************)

Lines == Envelope \cup {Garbage}

\* The log rows of a stream are one per committed line.
Entry == [line : Lines, outcome : Outcomes]

Tombstone == [target_event_id : Events, status : {"pending", "applied"}]

Jobs ==
    {Idle}
    \cup [pc : {"read"}, source : Sources, hashed : Seq(Lines)]
    \cup [pc : {"lines"}, source : Sources, hashed : Seq(Lines),
          next : Nat \ {0}, lines : Seq(Lines)]

\* Every variable has its type.
TypeOK ==
    /\ stream \in [Sources -> Seq(Lines)]
    /\ rewritten \subseteq Sources
    /\ meta \in [Events -> Envelope \cup {NoRow}]
    /\ life \in [Events -> Statuses \cup {"none"}]
    /\ successor \in [Events -> Events \cup {NoEvent}]
    /\ fts \subseteq Events
    /\ tombs \in [Events -> Tombstone \cup {NoTomb}]
    /\ log \in [Sources -> Seq(Entry)]
    /\ checkpoint \in [Sources -> [last_line : Nat, prefix : Seq(Lines)]]
    /\ fts5 \in BOOLEAN
    /\ job \in Jobs
    /\ todo \subseteq Sources
    /\ refused \subseteq Sources
    /\ spent \in [faults : 0 .. MaxFaults, rewrites : 0 .. MaxRewrites,
                  rebuilds : 0 .. MaxRebuilds]

\* zm_ingest_checkpoint: a stream's consumed prefix is line for line what its
\* committed transactions logged, whatever failed, died or was rewritten
\* between them; no line is passed over and none is committed twice.
CheckpointIsTheLog ==
    \A s \in Sources :
        /\ Len(log[s]) = checkpoint[s].last_line
        /\ Len(checkpoint[s].prefix) = checkpoint[s].last_line
        /\ \A i \in 1 .. Len(log[s]) : log[s][i].line = checkpoint[s].prefix[i]

\* source_changed is an answer to a change: a stream that only ever grew is
\* never refused.
GrowingStreamIsNotRefused == refused \subseteq rewritten

\* An ingest resumes exactly where the last one ended: it refuses no stream that
\* only grew, and what it takes as consumed is what was committed.
ResumeIsExact == GrowingStreamIsNotRefused /\ CheckpointIsTheLog

Committed == UNION {{log[s][i].line : i \in DOMAIN log[s]} : s \in Sources}

\* A committed deletion line takes effect whether its target came before or
\* comes after it and whatever its outcome was; nothing else deletes.
DeletionTakesEffect ==
    \A e \in Known :
        (life[e] = "deleted") =
            \/ meta[e].lifecycle_status = "deleted"
            \/ \E l \in Committed : IsDeletion(l) /\ l.target_event_id = e

\* Active-key enforcement: a trace has one active event at most, and the
\* superseded_by links of a trace form chains that end.
SupersessionIsAChain ==
    /\ \A d, e \in Known :
           life[d] = "active" /\ life[e] = "active" /\ meta[d].trace_id = meta[e].trace_id => d = e
    /\ \A e \in Known :
           /\ life[e] = "superseded" /\ meta[e].lifecycle_status # "superseded" => successor[e] \in Known
           /\ successor[e] \in Known => meta[successor[e]].trace_id = meta[e].trace_id
    /\ \A S \in SUBSET Events : S # {} => \E e \in S : successor[e] \notin S

\* The full-text index holds the events no applied tombstone names: a deletion
\* removes its target's row, and a target that comes late gets none.
IndexHoldsTheLiving ==
    fts = {e \in Known : ~ \E t \in Events :
                             tombs[t] = [target_event_id |-> e, status |-> "applied"]}

\* A deletion line, whenever and on whichever stream it comes, takes its target
\* out of the derived rows and of the full-text index and nothing else does;
\* the index is complete in a store that was not rebuilt in place, which turns
\* FTS off (migrate_5.py).
DeletionHolds == DeletionTakesEffect /\ (spent.rebuilds = 0 => IndexHoldsTheLiving)

\* Ingestion reaches the end of a stream that nobody rewrites, resuming after
\* each failed transaction or crash.
EveryLineIsConsumed ==
    \A s \in Sources : \A n \in 1 .. MaxLines[s] :
        Len(stream[s]) >= n ~> checkpoint[s].last_line >= n \/ s \in rewritten
=============================================================================
