# Formal model of Zero-Mem

Zero-Mem is a local-first memory sidecar for agents. Events are captured into append-only,
redacted JSONL files, one per stream: the *canonical* state. Everything else (a SQLite
database with full-text rows, project memory, access grants, a corpus of documents, graph and
temporal indexes, notes in a vault) is *derived* and can be thrown away and rebuilt.
`zero_mem/` is the public API and command line, `src/` the implementation; paths below are
relative to the repository.

This directory holds TLA+ modules of the parts whose correctness depends on order, failure
and concurrency, TLC configurations that model-check them, and TLAPS proofs of most of their
safety properties for every value of the constants. Sections 1-2 survey the
system, 3 says how each module corresponds to the code, 4 what the runs check, 5 what is proved
and how, 6 the places where code and documentation disagree, 7 what is not modelled, 8 the plan.

## 1. Inventory

| Component | State it keeps | Operations | Interacts with | What makes it hard | Module |
|---|---|---|---|---|---|
| Canonical capture `src/storage/jsonl_capture.py` | the JSONL file; per process an index (`_by_id`, `_by_hash`), an offset, the next sequence | open, append, inspect, close | the file lock that readers and rebuilds also take | other processes make the index stale; torn writes, failed fsync, kill, power loss | `Capture`, `CanonicalLog` |
| Projection coordinator `src/storage/projection.py` | bounded queue, deferred list, watermarks, failed and closed flags, worker thread | start, submit, flush, snapshot, close | called after each append; calls ingest | the unlocked gap in submit, worker failure, a full queue, close against submit | `ProjectionCoordinator` |
| Derived ingest `src/storage/ingest.py` | SQLite tables, checkpoint with prefix hash, tombstones, full-text rows | ingest, rebuild, parity check | reads canonical files; called by coordinator, recovery, upgrade, restore | crash between lines, changed source, deletion before its target, replays | `Ingest` |
| Local sidecar `src/integration/sidecar.py` | admission counter, executor, closed flag, metrics | handle, close | one dispatcher, many threads | cancellation racing the start of work, close racing admission, a hanging dispatcher | `Sidecar` |
| Derived recovery `src/storage/recovery.py`, `zero_mem/recovery.py` | build and owner files, quarantined side files, worker thread, terminal flag | diagnose, recover | both file locks, ingest into the build file, renames | deadline passing while the worker runs, crash between the steps of a promotion | `Recovery` |
| Backup and restore `zero_mem/backup.py` | staging and rollback directories, configuration files | create, verify, restore | ingest into staging, renames of roots | failure, Ctrl-C or crash between two renames | `Restore` (restore only) |
| Vault projection `src/projection/` | notes, manifest, ownership markers | project, reconcile, retire | authorized reads of project memory; the user edits notes | crash between files, user edits, stale links | `VaultRender`, `Vault` |
| Access control `src/access/`, `src/retrieval/` | grant rows, canonical grant events, policy audit; cursors of callers | create, revoke, supersede, rebuild; list, search, related; authorized writes | derived database, every reader | commit before append, grants revoked between pages, replay order | `Policy`, `Access` |
| Project memory `src/project_memory/` | six tables | project an event, replay over, rebuild all, read current rows | canonical stream, artifacts of ingest | drop and replay in several transactions, uniqueness of what is current | `MemoryTables`, `ProjectMemory` |
| Graph and temporal indexes `src/m8/` | edges, facts, temporal rows, a registry row | project, rebuild, bounded graph read, temporal read | source tables, grants | reads of many statements, a transaction left open, freshness against the sources | `GraphSources`, `GraphIndex` |
| Corpus `src/corpus/` | registry file and its instances, blobs, derived tables, corpus graph | register, store blob, project, rebuild, search, neighbourhood | redaction, authorized scopes | several instances of one file, torn lines, rebuild in two transactions | `CorpusUnits`, `Corpus` |
| Hermes boundary, m6, m7 `zero_mem/hermes_integration.py`, `src/integration/` | per boundary three adapters, mode, context; process-wide gate and m6 runtime | register, shutdown; hooks, tools, injection | the host's callbacks, runtime, sidecar, authorized reads | callbacks that outlive their composition, a gate shared by the process, restarts | `Calibration`, `Evidence`, `Hermes` |
| Derived upgrade `zero_mem/upgrade.py` | staging and rollback files | check, upgrade | ingest into staging, two renames | as restore; a -wal beside the replaced store | planned |
| Runtime `src/integration/zero_mem_runtime.py` | open flag, coordinator, capability health | open, notify_append, sync, flush, health, close | capture, coordinator, read service | lag between append and projection, restart | as used by `Hermes` |
| Clients `zero_mem/api.py`, `zero_mem/core.py` | lifecycle flag, capacity semaphore | calls, close | runtime | a call outliving its deadline | planned |
| Correction `zero_mem/correction.py` | a proposal digest | propose, confirm | capture, runtime | the target changes between the two | planned |
| SQLite store, migrations `src/storage/sqlite_store.py` | schema version ledger | up, down | ingest and readers | failure inside a migration | keys and indexes only |
| Redaction, document parsers, command line | none that outlives a call | text and format conversion | the above | pure data handling | not planned |

How they interact: a client's capture call runs *Capture*.append under the canonical file's
lock; the runtime then submits the sequence number to the *coordinator*, whose worker thread
takes the derived store's exclusive lock and runs *ingest* up to the end of the stream. A
reader calls sync or flush first and learns from the two watermarks whether derived data is
current. *Project memory*, *grants* and *corpus* tables are further projections of canonical
files, the *graph and temporal indexes* are projections of those tables. Every read goes through the
*access* layer: policy and grants become a scope, the scope becomes SQL. *Vault* and *Hermes* are
the consumers: one writes notes that people edit, the other gives a host hooks, tools and
injected context. *Recovery*, *upgrade* and *restore* are calls of an operator, in a process of
their own; they hold both file locks, or work on directories they have just created, build a new
derived store with the same ingest and move it into place by renames. The *sidecar* stands in
front of all this and bounds the number of requests inside.

## 2. What should be true of each component

- *Capture*: the file is a gapless numbered log without duplicates, whatever fails; a receipt
  names a line with the identity it is about; an acknowledged record survives; the lock comes
  back on every way out of append.
- *Coordinator*: what was submitted is ingested or still on its way; the task count of the
  queue is exact although a failed worker drains while threads put; a watermark above zero
  is true; no sleeping thread is forgotten; calls with a deadline return.
- *Ingest*: the consumed prefix is what was committed, line for line; a stream that only grew
  is accepted and one that was edited is refused before anything is skipped; a deletion takes
  effect before or after its target and stays; supersession never forks or cycles; ingestion
  reaches the end of the stream.
- *Sidecar*: each slot taken is given back once; abandoned work that has not started never
  starts; nothing starts and nothing is delivered after close; callers return.
- *Recovery*: only whole builds become the derived store; no database stands beside another
  one's -wal; the outcome a call reports is what happened; calls return both locks.
- *Restore*: all of the backup is activated, or everything is as before; until the first is
  true the old content is somewhere on the disk.
- *Vault*: a finished run leaves its notes and a manifest that describes them; no link leads
  nowhere; what may not be shown is not shown, by title or by path either; what a person wrote is not
  overwritten.
- *Access*: the grant table is the replay of the log; a walk through pages gives each event
  once and misses none it was owed; a read or write that is allowed is allowed by the log.
- *Project memory*: streaming and rebuilding agree; what a one-row query asks for exists at most
  once; a failed rebuild gives the tables back; superseding an active decision goes through.
- *Graph and temporal indexes*: the published index is exactly what its sources asserted; a
  failed rebuild keeps it; a read that reports no cut is complete; the two kinds of time are
  not mixed.
- *Corpus*: no acknowledged registration is lost and none refers to a missing version or blob;
  the tables are what a rebuild would make; documents outside the caller's scope influence
  nothing; a read without a bound flag is whole.
- *Hermes*: the host's callbacks reach only current adapters, within the mode; after a
  revocation all are silent; injected evidence accounts for every item, and what is dropped
  was worth least.

## 3. Modules and the code

Each component module has its state as VARIABLES, one action per operation or per step
between which something else may happen, `Next`, `Spec`, a fair specification where the
component makes a liveness promise, and its properties last. A call that only reads or only
raises is not an action. `MC*` modules instantiate for TLC. The plausible bugs used to test
the properties (operators such as `JoinForever` or `FailLeavingTables`) stand directly before the
action they change, and are not reached from `Next`. The larger components are split in two:
a module of pure operators (rendering, policy, table operations, edge sources, calibration and
evidence, units and hits) and the state machine that uses it.

### `CanonicalLog`, `Capture` (`MCCapture`, `CaptureProofs`)

`CanonicalLog` is what users of the store rely on: a sequence to which one record with the
next number and a new identity is added, and of which an unsynced tail may be lost when the
power goes.

`Capture` is `JsonlCaptureStore.append` by several processes on one file. A process here is
a store object: threads of one process share an RLock that is held through append.
`Call`, `Acquire`/`LockTimeout`, `Refresh` (lines after the offset are parsed into the
index), `RejectByPolicy`/`DuplicateEvent`/`DuplicateContent`/`Admit`, `Write`/`WriteFails`,
`Fsync`/`FsyncFails` follow `_append_locked` from line to line. `Exit` is a close or a kill at
any step, `PowerLoss` cuts the file back to any length that still has its synced part.
`file` holds complete lines, `torn` says that the file ends in the middle of one, `synced` how
many lines an fsync covered; `loaded`, `known`, `nextSeq` are the index of each process.
`answer` and `acked` are history for the properties.

### `ProjectionCoordinator` (`MCProjection`, `ProjectionProofs`)

One action is one critical section of `_condition` or one operation of `queue.Queue`. submit
is therefore three (`Submit`, `Put` or, when the queue is full, `Defer`, then `Settle`), which is
where its races are. `Flush`, `FlushCheck`, `DeadlinePasses`, `FlushReturn` are
flush; `Close`, the flush inside it, `Stop` (the loop that puts the sentinel) and `Join` are close. The
worker is `Get`, `Ingest` and `Publish` (the projector of `from_ingest`, then the watermark) or
`ProjectFails`, `ItemDone`, `Drain`, `Notify`. `Append1` is another component's append to
the stream. The projector brings the store to the end of the stream, raises, or hangs (a
step that is never taken).

### `Ingest` (`MCIngest`, `IngestProofs`)

`ingest_file` under the exclusive lock: `Begin` (checkpoint and source check), `Read`,
`CommitLine` (one transaction per line: classification, tombstones, supersession, row, index,
log and checkpoint), `FailLine`, `EndOfFile`; `DropDerived` starts `rebuild_from_jsonl` in
place, and `Crash` may come between any two. Streams grow (`Write`) and are
edited by somebody outside the protocol (`Rewrite`, which marks the stream `rewritten`). A line is
its envelope's event id, content hash, trace, lifecycle status and deletion target, or
`Garbage` for one that does not validate, half a line included; the prefix hash is the sequence of lines
hashed, which is what equality of hashes stands for. `meta`, `life`, `successor`, `tombs`, `fts`, `log`
and `checkpoint` are the tables of those names. Rows that are written once and read by no
decision are left out.

### `Sidecar` (`MCSidecar`, `SidecarProofs`)

One request is one call of handle: `Acquire` (with the condition's wait), `Submit`/
`SubmitFails`, `Result` or `DeadlinePasses` and `TimeOut`, `Answer`. The pool is Python's
ThreadPoolExecutor as used here, external code: a FIFO, `Take`, `Dispatch`,
`DispatchEnds` and `FutureDone`, the done callback that releases the slot, which may run
after the waiter has seen the result. `Close`, `Shutdown`, `Await` are close.

### `Recovery` (`MCRecovery`, `RecoveryProofs`)

`recover` in several processes: `Acquire` of both locks, `Scan` for unowned artifacts,
`Diagnose`, `Snapshot`, `Reserve`, `Mark`, `Start` of the worker, `Join` with its deadline,
`Quarantine`, `Replace`, `PromotionFails` (the roll-back), `Unlink`, `Unmark`, `Verify`. A worker
outlives its call: `WorkerOpens`, `WorkerBuilds`, `WorkerFails`, `WorkerCleans`, `WorkerEnds` need
no lock. `Crash` leaves the files and takes the process with its worker. The canonical
file is its number of records; a database is the attempt it was built in and the number of
records it holds; a -wal is the name of the database it was written for (it stands for -wal and
-shm, which share every line). The structural checks of `diagnose` are one verdict.

### `Restore` (`MCRestore`; proofs in `RecoveryProofs`)

`restore_backup`, one action per operation that can fail by itself: `Stage`, `VerifyStaged`,
`SetAside` and `Activate` for each root, `Configure`, `Integrate`, `Discard`, the except
clause (`UndoRemove`, `Undo`, `UndoConfig`) and the finally clause (`Clean`). `Interrupt` is a Ctrl-C,
which only the finally clause sees, `RestoreCrash` the death of the process, `Create` another process
making a root that is missing for a moment. A directory is what it holds: `old`, `new`,
`other`, `partial` or `none`. Names that `Recovery` has too begin with `Restore` here (`RestoreNext`,
`RestoreSpec`), so that one module can prove about both.

### `VaultRender`, `Vault` (`MCVault`, `VaultProofs`)

`VaultRender` is one pass of rendering: eligibility, the links between notes, groups of
conflicting decisions, home, state, source and conflict notes, and the backstop that withholds a note that
shows a secret. A record is the columns that decide something; a note is its id, path, texts and
links, and its content stands for its bytes and for their fingerprint.

`Vault` is `project_to_vault`. The nine authorized reads are nine steps (`Read`), between which
records change; `Plan` renders and loads the last manifest, `Decide` classifies one file
(`Classify`: missing, ours and unchanged, edited, foreign, conflicting) and decides
one write, `Replace`/`ReplaceRefused` do it; `StartRetiring`, `Retire`, `Unlink` deal with
entries that are not wanted any more; `StoreManifest` ends the run. Deciding and writing are two steps,
because a person may edit in between (`HumanEdit`, `HumanDelete`, `HumanDropsManifest`).
`OperationFails`, `StoreFails` and `Crash` are the soft failures and death. A file is the note id in its
frontmatter and its bytes. `reads`, `done` and `calm` are history.

### `Policy`, `Access` (`MCAccess`, `ProjectionProofs`)

`Policy` is the decision: base policy, composition with grants into an effective scope, the SQL
predicate of a scope, and the second look at each row in Python.

`Access` runs it. An administrator's call is `Commit` (checks, table row, audit) and then
`AppendEvent` to the canonical stream, or `LoseEvent` when the process dies or the writer fails in between;
`Rebuild` replays the stream into an empty table, and `RebuildFails` when an event cannot be
projected. A reader's `StartWalk` and `NextPage` are the listing, the search (full-text AND with
its OR fallback) and the related reads, with a keyset cursor that is bound to the
query and to the grants it was issued under; every page resolves the grants of its own
moment. A page is the first rows of what there is beyond the cursor, put in order (`FirstBy`, `InOrder`). `DecideWrite` and `PerformWrite` are `authorize_write` and the write that follows it.
Events arrive and are deleted, verifications are lost. `astray` is history: a committed event was lost or two
administrators appended in another order than they committed.

### `MemoryTables`, `ProjectMemory` (`MCProjectMemory`, `MemoryProofs`)

`MemoryTables` is what one operation of each of the six domains does to its table, with the
lifecycle transitions, the unique indexes and the errors that stop a replay or are stepped
over, and the queries of the reader. `ProjectMemory` is the stream beside them: `ProjectNext`
(streaming), `StartOver` (`rebuild_project_memory`) and `StartAll`, `Recreate` (`rebuild_all_project_memory`: validated
read, drop committed, tables recreated), `ReplayOne` with a transaction each, `Fail` (the snapshot is
copied back), `Blocked`, `Finish`, `Die`. `pure` is history: the tables come from the stream alone.

### `GraphSources`, `GraphIndex` (`MCGraphIndex`, `GraphProofs`)

`GraphSources` is the pure half: which typed edges and temporal rows the source tables assert,
and what a temporal read answers. `GraphIndex` has the committed tables (`idx`) and the
projector's open transaction (`txn`): `StartRebuild`, `BuildRefused`, `Build`, `BuildInside` (a
caller's transaction), `Fail` (which records the failure in a transaction of its own), `ProjectIncrement`, `ProjectTemporal`,
`TemporalBreaks`, `Commit`, `Die`. `WriteSource` and `Revoke` are everybody else. The bounded
walk is `Seed`, `Visit`, `ReadEdges` (one direction of one node), `Weigh` (one candidate, with its
authorization) and `Answer`.

### `CorpusUnits`, `Corpus` (`MCCorpus`, `SidecarProofs`)

`CorpusUnits` has identities, versions, extraction into units, the rows of a projection, hits
and their ranking, and the edges of the graph. `Corpus` has one registry file and several instances
with their own memory (`Open`, `StartRegister` with its blob, `ReturnExisting`, `AppendRecord`,
`AppendFails`, `Die`), projections (`StartProjection`, `ProjectCorpus`, `ProjectRecord` for each record of the
open transaction, `Commit`, `RollBack`) and rebuilds (`DropTables`, `RecreateTables` first), `BuildGraph`, a search (`Search`, `Widen`, `EndRead`) and
a neighbourhood read (`ReadNodes`, `Visit`, `NextLevel`), one statement a step. A text is a
sequence of lines and a line a set of words; one extraction adapter stands for all.

### `Calibration`, `Evidence`, `Hermes` (`MCHermes`, `CaptureProofs`)

`Calibration` is the eight-factor score in exact integers, with its exclusions. `Evidence` is the
pipeline from the router to the rendered context: routes, eligibility, precedence, the two
budgets, and rendering. `Hermes` is the boundary: `Register` and `Shutdown` are programs of steps
(`Step`: gate, reader, capture, injector, hooks, forget) under the boundary's lock, which the host's
callbacks do not take. Every composition stays in `gens`, because the host keeps its callbacks.
`HookCalled`/`Observe` capture an event, `ToolCalled`/`ToolAnswered` are an m6 tool call,
`InjectionCalled`/`RetrieveNext`/`Inject`/`Taken` the m7 pipeline; `SetGate` and `SetEnv` are other code
of the process. A sort of the code is `SortedBy`, by keys that no two rows share: what Python's stable sort or SQL leave to the
order of arrival is the last place of the key (`Arrival`, the order of the reads). The names `HermesInit`, `HermesNext`, `HermesSpec`, `HermesTypeOK` and `hermesVars` let one module of proofs
extend it beside `Capture`.

## 4. Runs

Times are for two workers on a small machine. Several properties are conjunctions of named
parts, given in brackets; section 5 says which parts are proved one by one.

| Run | Instance | Checks | States, time |
|---|---|---|---|
| `capture` | 2 processes, 2 identities, 2 contents | `LogIsSound` (`LogWellFormed`, `IndexIsPrefix`, `AcknowledgedIsDurable`), `ImplementsCanonicalLog`, `LockIsReleased` | 92 704, 33 s |
| `projection` | 2 threads, 1 stream, queue of 1, 2 records | `FlushIsServed` (`UnfinishedIsExact`, `SleeperWillBeWoken`), `SubmittedIsNotForgotten`, `TimedCallsReturn`, `EnqueuedIsProjected` | 248 359, 72 s |
| `ingest` | 2 streams of 2 lines and 1, 4 kinds of line, 1 fault, 1 edit or rebuild in place | `ResumeIsExact` (`GrowingStreamIsNotRefused`, `CheckpointIsTheLog`), `DeletionHolds` (`DeletionTakesEffect`, `IndexHoldsTheLiving`), `SupersessionIsAChain`, `EveryLineIsConsumed` | 207 080, 2 min |
| `sidecar` | 2 calls, 1 close, 1 thread, no queue | `SlotsAreSound` (`AdmissionIsExact`, `PoolIsBounded`, `SleeperWillBeWoken`), `WorkEndsWithItsOwner` (`AbandonedWorkIsCancelled`, `CloseReportsTermination`), `ClosedForGood`, `NothingStaysTaken` (`CallsReturn`, `SlotsComeBack`) | 53 858, 13 s |
| `recovery` | 2 processes, 2 attempts, 1 appended record, 1 crash | `StoreIsWhole` (`SidecarFitsDerived`, `WholeBuildOnly`), `OutcomeTellsWhatHappened`, `CallsReturn` | 196 204, 25 s |
| `restore` | every operation may fail, Ctrl-C, crash, another process | `OldOrAllNew`, `AllOrNothing` | 11 410, 2 s |
| `vault` | 2 projects, 4 records of 3 types, 2 runs, 1 change, 1 human act, 1 fault | `SettledVault`, `NotesAreSound` (`LinksResolve`, `IneligibleIsNotShown`), `HumanBytesSurvive` | 713 197, 50 s |
| `access` | 2 administrators, 6 grant requests, 4 events, 6 reads, 2 writes | `TableFollowsLog`, `WalkIsExact` (`WalkMissesNothing`, `PagesAscend`, `ListingIsNeverTornDown`), `AccessFollowsTheLog` (`ReadsFollowTheLog`, `WritesFollowTheLog`) | 635 549, 65 s |
| `memory` | 12 events in streams of up to 3, 2 replays | `RebuildMatchesStream`, `CurrentIsUnambiguous`, `FailedRebuildLosesNothing`, `SupersessionGoesThrough` | 1 852 490, 1.8 min |
| `graph` | 8 rows and 8 later ones, 4 actions, walks of depth 2 | `IndexIsItsSources` (`GraphIsItsSources`, `TemporalIsItsSources`, `TimesAreNotConflated`), `QuietReadIsComplete`, `FailureKeepsTheIndex` | 247 936, 88 s |
| `hermes` | 1 boundary, 3 registrations, 9 items, 5 actions, 1 fault | `AuthorityIsCurrent` (`LiveIsCurrent`, `ModeBoundsAuthority`), `RevokedMeansSilent`, `EvidenceIsAccounted` (`NothingIsSilentlyLost`, `DropsTheWeakest`) | 395 561, 1.7 min |
| `corpus` | 2 processes, 2 documents, 3 contents, 3 lines, 5 actions, 1 fault, 1 death | `RegistryIsWhole` (`NothingGivenIsLost`, `HistoryHasNoHoles`, `BlobsNeverDangle`), `ProjectionIsRebuild`, `HiddenHasNoInfluence`, `UnflaggedReadIsWhole` | 1 200 799, 1.7 min |

The type invariants of the first six components are proved, not run. Those of `Vault`,
`Access`, `ProjectMemory`, `GraphIndex` and `Hermes` are the definition `TypeOK` (`AccessTypeOK`, `HermesTypeOK`) of each
module; adding it to the INVARIANTS of the run's .cfg checks it, and TLC finds it to hold. The proofs about
them carry the types their steps need in their invariants.

### Bounds, and why they are enough

- *Capture* has no counter bound of its own: the duplicate tests bound the file by the number of
  identities. Two stores are the least that make an index stale, two identities and two contents the
  least that tell a duplicate id from a duplicate content and both from a new event, and
  a file of two lines lets a stale index miss a line that somebody else wrote.
- *Projection*: the code's queue has 256 places and its deferred list as many; with a queue of one and two
  threads every submission can find the queue full, with two records a newer submission can
  overtake an older one. One stream is what the runtime uses; more streams than queue places
  are outside `SubmittedIsNotForgotten`, whose premise says so (such a submit is told
  DERIVED_UNAVAILABLE).
- *Ingest*: `MaxLines` (per stream), `MaxFaults`, `MaxRewrites`, `MaxRebuilds` and `MaxUpheavals` (edits and
  rebuilds together) bound the environment. Two streams are needed for a deletion on another stream
  than its target, and two active events of one trace for supersession; the deletion carries the
  content hash of an event, so that it may be a duplicate. One fault at any place, of any kind, is
  what recovery from a fault needs; a second one meets the state the first call started from. An edit
  and a rebuild in one behaviour are left out: `IndexHoldsTheLiving` is about stores that
  were never rebuilt in place (a rebuild in place loses the full-text table, section 6).
- *Sidecar*: one place and two calls leave one asleep or turned away while the other runs, is
  abandoned or is refused by the pool. The state of the admission capacity is only its count, so
  larger pools repeat the same cases (the counting invariants are proved for all sizes).
- *Recovery*: two attempts let a late worker of the first meet the second; one record makes the
  store stale after its snapshot was taken. `FailAt` names the operations of the promotion that may
  fail: `replace` (the rename, with its roll-back) and `unmark`. `unlink`, the removal
  of the build's old name, is left out of run and proof because the property does not hold with
  it: if it fails (`src/storage/recovery.py:557`), the except clause takes the promotion for
  undone and gives the old -wal its name back, beside the new database. Adding `"unlink"` to
  `FailAt` shows it.
- *Restore* is finite without bounds: the two roots are those of the code.
- *Vault*: two runs are the least in which a manifest is used, one change between or inside runs makes a
  note new, renamed, stale, conflicting, ineligible or secret; with two projects the second
  run can meet the other one's notes. One act of a person and one fault each meet every step.
- *Access*: three administrative operations are a grant, what replaces or revokes it, and one more or a rebuild;
  requests cover every kind of grant, pages of one row make every row a page boundary, and one arrival,
  deletion or lost verification falls between any two pages. Profile, project, space and ownerless events
  each occur.
- *Project memory*: the shortest interesting histories have three events (two and a supersession, or
  a supersession met by a stray event); two replays allow a rebuild after a failed one. Events that no
  domain validates, and one of another project on the same id, are among the twelve.
- *Graph*: the walk's depth is the code's ceiling of two; the other bounds are small enough that each cuts
  some walk. Four actions are, for example, a rebuild, a write, a projection and a read.
- *Hermes*: three registrations allow every sequence of two mode changes; budgets are smaller
  than the nine items so that both cut. `MaxActions` bounds registrations, shutdowns, turns of
  the gate or environment, host calls and writes together.
- *Corpus*: two instances are the least that fork; three lines a version, its successor and
  one behind a torn line; one failure and one death at any step; discovery of two candidates a
  hit lets hidden documents compete for the places.

Runs in which a system may stop say so in the .cfg: a finite number of calls or attempts, or
threads that all wait in flush without a deadline for work nobody will do.

### Fairness, and why the code justifies it

- `Capture!FairSpec`: weak fairness of each process's steps inside append. The calls inside return
  or raise and the lock's poll loop has a deadline, so a process in append goes on unless it
  is closed or dies, which `Exit` models and fairness does not force. Starting a call is never fair.
- `ProjectionCoordinator!TimedSpec`: threads inside a call take their next step, and deadlines
  pass. The worker has no fairness: it may hang in the projector. `EnqueuedIsProjected` is the only
  property that needs a worker that runs, and has that as its premise.
- `Ingest!FairSpec`: a call that is running goes on (weak fairness of `IngestStep`), and ingest of each
  stream is called again and again (strong fairness of `Begin(s)`, since another stream's
  call may have the lock when it is tried). This is what append's notifications and the
  operator's resume after a failure come to; faults are bounded, as they must be for any
  progress.
- `Sidecar!CallSpec`: the thread of each call runs and its deadline passes. The dispatcher may
  hang; the part `SlotsComeBack` has as its premise that it returns and that the pool's threads run.
- `Recovery!CallSpec`: the process of a call runs until it ends or dies; the worker may hang.
- `Restore` and the six components above it make no promise that needs fairness: their
  operations are calls that return or raise and are never started again by themselves.

## 5. Proofs

All theorems are for arbitrary constants under the named assumptions of the component
(`CaptureAssumption`, `CoordinatorAssumption`, `VocabularyAssumption` and `BoundsAssumption`, ...),
which only say that capacities and bounds are natural numbers (capacities positive), special values
are not ordinary ones and sets that are counted are finite.

`CaptureProofs`: `TypeOK`, `LogWellFormed`, `IndexIsPrefix`, `AcknowledgedIsDurable` and together
`LogIsSound`, `ReceiptNamesItsRecord` (proved only), and the refinement of `CanonicalLog`. The log invariants are not
inductive: an append reasons about the file through its index. The invariant adds
`StepEstablished`: exactly the steps past the lock hold it, past the refresh the index
covers the whole file and the file ends in a complete line, past admission the event is
new, and after the write the file is one line ahead of the index. The refinement then maps
`Write` to the abstract append, `PowerLoss` to a lost tail and everything else to a stutter.

`CaptureProofs` also proves `AuthorityIsCurrent` and `RevokedMeansSilent` of `Hermes`, for any number of boundaries,
contexts, registrations and faults, from `ContextAssumption` (a registration brings a context). What is live is what
the boundary refers to (`Tracked`) is not inductive: recomposition and `forget` overwrite the references.
The invariant `BoundaryInv` therefore speaks of the steps a boundary call has still to do. A call is in one of
five phases (`Dropping`, `Restarting`, `Gating`, `Clearing`, `Opening`); in each, whatever is open is closed
by a step that comes before the one that loses it (`ClosedBefore`), and the steps come in an order in which nothing is
opened twice (`InOrder`). A call that ends is dropping, which is what the mode bounds; a call that revokes closes
everything it has not (`WillClose`), so afterwards all is silent. `CallsAreKnown` carries that to the callbacks
already under way, which look at the adapter again before they act.

The last part of `CaptureProofs` is `EvidenceIsAccounted`, for every store content, ceiling, page, budget and
ranking. Counting what is shown against what was read is only right if nothing comes twice, so the invariant `EvidenceInv`
says that a store holds one row of an identity, whoever writes it (`StoresHoldRows`), and that
what an injection has read is of the types it has already asked for, each asked once (`PipelineHoldsRows`). It rests on
`MemoryAssumption` (the derived tables have a key, and the columns that order them hold numbers) and `IdentityAssumption` (every
identity of a delivery has its place in the order of text). The pipeline is then a chain of lemmas: `Sorting` (the place of an
element is the number of smaller keys, so keys that differ give all of the set, once, in order), `FittedIsPrefix` and `Selected` (the
budgets keep a prefix of each role and count the rest), `ScoreIsNumber` and `Reordered` (calibration permutes a role by score),
`Rendered` (the rendering drops from the end, the supporting role first), `DroppedAreWeaker` and `InjectionAccounts`.

`ProjectionProofs`: `TypeOK`, `UnfinishedIsExact`, `SleeperWillBeWoken` and together `FlushIsServed`,
`SubmittedIsNotForgotten`, and, proved only, `DeferredIsBounded` and `WatermarkIsIngested`.
The strengthening is `Established` (which call a thread is in, what the
worker holds, ingestion never ahead of the stream) and `SettledIsHanded`: what a thread in
the last part of submit has queued is ingested, in the queue or in the worker's hand, which is why
dropping deferred work it covers is safe. `DeferredIsBounded` uses that the deferred list
holds one entry per stream.

`ProjectionProofs` also proves `TableFollowsLog` of `Access`, from `GrantEventAssumption` (administrators ask for
creations, revocations and supersessions over whole rows; a new grant is active, has a subject and does not
supersede itself, which is what `admin.py` validates). `GrantsInv` says what a state between a commit and its append may be: one administrator
has an event that is not in the log, and it is the one step from the replay to the table (`OneStepAhead`). The
replay is a recursive function of the log. That a line more is a step more (`ReplayedLine`) is proved from the
least line at which two replays differ, since induction itself takes an operator.

`WalkIsExact` and `AccessFollowsTheLog` are proved as well, under `ReadAssumption` too (finitely many events and
relations, and pages of at least one row, which `_validate_limit` enforces). Both need the
invariants to be said of more than grants:
- `RowsInv`: the live rows of a table that the log replays into are the rows of the lines that gave a grant
  no later line is about (`RowsAreLines`). This is where a new grant has to be active and may not supersede itself.
- `WalkInv`: what an open walk still owes lies beyond its cursor or has been given, and what was given
  does not lie beyond (`OpenWalk`). A change between pages only makes the walk owe less (`WalkWatched`), so what
  is left to show is of one page (`GoodPage`).

A page is the first rows of a set in order. `InOrder` puts a finite set in a strict order by the number of
members before each, `InOrderSound` shows it does by counting, and `FirstBySound` says that what is not among the first rows
comes after all of them. Three lemmas carry the rest. `LookAhead`: with one row more than the page from every scope, what
a scope has and the merged page has not comes after the page, by a pigeonhole on the rows of that scope.
`AdmittedIsAllowed`: what the SQL predicate of a scope admits the second look in Python allows, so no listing is torn down
and a search drops no hit. `ReadableIsCovered`: what a gate lets through is the
requester's own, open to all, or under a grant the gate resolved (`GateSound` says what a gate may contain).

`IngestProofs`: `TypeOK`, `SupersessionIsAChain`, and under `Garbage \notin Failing` (the
transactions of invalid lines do not fail; section 6 says why it is needed) `CheckpointIsTheLog`,
`GrowingStreamIsNotRefused` and together `ResumeIsExact`. That supersession ends is stated as: no
non-empty set of events holds the successor of each of its members. A line links the prior
active event to the event it inserts, which has no successor yet, so a set with both still
has a member that leaves it; `RowsAgree` (rows and lifecycles agree) completes the invariant. The checkpoint theorem
rests on what the running job has hashed being what the log holds, and the third on the
checkpoint being a prefix of every stream that was never edited.

`IngestProofs` also proves `DeletionHolds` under `TargetsAgree`: the deletion lines of one event
name one target. The code keeps the target of the first line it sees of a tombstone, while a
reader of the log may take the last; streams whose deletions contradict each other are outside
the theorem and inside the run. The invariant is about the tables alone: every line was written, the
tombstones are those of the log with their status, a deleted event has an applied tombstone, and until the first
rebuild the full-text index holds the living.

`SidecarProofs`: `TypeOK`, `AdmissionIsExact`, `PoolIsBounded`, `SleeperWillBeWoken` and together
`SlotsAreSound`; `AbandonedWorkIsCancelled` and, under `OneCloser`, `WorkEndsWithItsOwner`;
`ClosedForGood`. Slots are counted as the calls between admission and submission together with the
futures whose callback has not run; the invariant adds that a call has a future only from its submission on.
For the end of a call it adds `AnswersAreFinal` (an answered call's work is not queued), and
for the end of the sidecar `CloseOwnsTheRest` (what a close that is past the lock has to wait for).
`OneCloser` is needed: `close` sets its flag first, so a second
caller of `close` gets `True` at once, whatever the first is still waiting for.

`SidecarProofs` also proves `RegistryIsWhole` of `Corpus`, from no assumption on the constants. It is not inductive: the
next record is made from an instance's memory, not from the file. `RegistryInv` adds that as long as the file loads, what
any instance has in memory is in the file (`InstanceIsSound`), and that the bytes of a registration under way are stored. A
half line makes the file unloadable for good, because the next append completes it to a line that no parser takes.

The rest of `Corpus` is there too. `ProjectionIsRebuild` (`ProjectionInv`): a projection over rows that are there already
goes over the older records again, so half way through the tables are of no version of the registry. What they are is
`Overlaid`: of every id the row of the last record written so far, or, when the projection has not come to one yet, of the last
one an earlier projection wrote, as of the first. It holds of a prefix of the records at the start (`ProjectionStarts`), of one
record more after each step (`ProjectionGoesOn`), and at the end the old rows have left no trace (`ProjectionEnds`); only one projection at a
time inserts, and stored bytes stay, so what a record extracts to does not change meanwhile. `UnflaggedReadIsWhole`
and `HiddenHasNoInfluence` (`ReadInv`, and from `ProjectionInv` that the tables are finite): each node of a quiet walk is still to be visited, or has
all its edges in the answer, or a bound was reached that is told or spends the budget; and a quiet search
has discovered rows out of what the words ask for, all of them when they fit. They rest on `CorpusBounds` and `CorpusInputs` (the bounds the code accepts; a text has finitely many
lines, a limit is a number).

`RecoveryProofs`: `TypeOK`, `SidecarFitsDerived`, `WholeBuildOnly` and together `StoreIsWhole`,
`OutcomeTellsWhatHappened`,
under `"unlink" \notin FailAt`. The invariant says what is known of the attempt that has the locks
at each step (`AttemptIsKnown`: at `replace` the build is whole, the worker has ended and no -wal stands
beside the store), that an attempt that was not drawn has no worker, that a worker that is through
leaves no half build, and where the current store came from. Its second half is about `Restore`:
`RestoreTypeOK`, `OldOrAllNew` and `AllOrNothing`, for every set of failing
operations. `RestoreInv` names for each step where the old content of each root is
(`Pristine`: untouched, `Spared`: set aside, `Home`: back).

`VaultProofs`: `HumanBytesSurvive`, `SettledVault`, and `NotesAreSound` under `TitlesTell`: no
text of a record that may be shown is the title of another that is refused. (Two records
with the same words cannot be told apart on a page, so without it the property is about words and not
about records; one record may keep its title while it becomes eligible between two reads.) The first half of the module is lemmas about `VaultRender`: which read each kind
of note is made of, what a note shows and where its links lead, and that
two notes of a run have different identities and paths. The invariant of a run (`Rendering`, `Entries`, `Intended`)
then says that everything it intends to write is a rendered note and that a fingerprint
in a manifest is of generated bytes only, so a file whose bytes it matches is nobody's writing.
`SettledVault` has an invariant of its own, `Undisturbed`: as long as nobody interfered it says per phase
(`BetweenRuns`, `WhileReconciling`, `WhileRetiring`) what each path of the vault holds.

`MemoryProofs`: `RebuildMatchesStream`, `CurrentIsUnambiguous`, `FailedRebuildLosesNothing` and `SupersessionGoesThrough`,
from `EventsAreRecords`. The invariant is that the tables are sound (`TablesSound`: one active charter per
project, one active decision per slot, one state per key) in the committed database, and in each of the tables a
running job holds (`JobSound`), among them the snapshot that it gives back. The lemmas say for each operation that a merge of sound
tables is sound or is refused. `RebuildMatchesStream` has an invariant of its own, `StreamInv`: what a replay of the projected
part of the stream gives (`Gives`) is the tables, or the snapshot of a full rebuild under way, and a rebuild into new tables has
given what is before its position (`JobFollows`). A replay that gives something is extended event by
event (`GivesNext`), does not see what is appended later (`GivesByPrefix`), and gives the same when more artifacts are there
(`GivesMore`), because an event whose artifact is missing stops it.

`GraphProofs`: `IndexIsItsSources`, `FailureKeepsTheIndex` and `QuietReadIsComplete`, from
`SourcesAssumption` (rows have one of the shapes of the tables) and `BoundsAssumption`. The first rests on
`ViewIsItsSources`: the published view and the one a writer has not committed are the edges and the times of the rows they were read from. The third is
the correctness of a breadth-first search that authorizes every edge it follows: `FrontierIsALevel` (the queue is
ordered and its depths differ by at most one), `SeenIsExpanded` (an object that left the queue has
all its authorized neighbours seen) and `HeadIsInHand` (of the one being expanded, what is not done is
still to do). What lies within a depth is a recursive function of the depth; the proof exhibits a solution of its
equation for the depths there are (at most 2, the code's bound), so no induction is needed.

Only model-checked:

- the liveness properties (`LockIsReleased`, `TimedCallsReturn`, `EnqueuedIsProjected`, `EveryLineIsConsumed`,
  `NothingStaysTaken` and `CallsReturn`): they need fairness and ENABLED, which the prover does not handle.

Every invariant that a run checks, and every action property, is proved.

## 6. Where code and documentation disagree

Each of the following contradicts a sentence of the repository. The definition named stands in
its module, is checked by no run because it does not hold, and TLC shows the behaviour
when it is added to the .cfg of the component's run.

- `Capture!EveryReceiptIsDurable`: an append whose fsync failed leaves its line; the retry is told
  `duplicate` without an fsync (`src/storage/jsonl_capture.py:175`), although every AppendResult is said to
  reference durable state (`src/storage/capture_boundary.py:33`).
- `Ingest!GrowingStreamIsNotRefused` with `Failing` containing `Garbage`: the loop ignores that the
  transaction of an invalid line failed (`src/storage/ingest.py:615-620`, `625-630`) and goes on with a hash
  that lacks the line; every later ingest of the unchanged stream ends in `source_changed`.
- `Recovery!RecoveryIsRepeatable`: a promotion leaves `.recovery-old` files
  (`src/storage/recovery.py:550`), and the next scan (`:423`) refuses the
  directory for them, although recovery is documented as repeatable.
- `Restore!RollbackIsAvailable`: if the second rename fails, or Ctrl-C falls between the two, the finally
  clause of `restore_backup` removes the only copy of the old root
  (`zero_mem/backup.py:661`, `709-710`). `OldOrAllNew` and `AllOrNothing` name the three
  outcomes (`Careless`) after which this can be.
- `ProjectMemory!ActiveDecisionIsUnique`: two active decisions that name no scope may share a project and key,
  since NULLs are distinct in a unique index (`migrate_7.py:184`) and the reader finds neither as current
  (`reader.py:558`), against `projector.py:519`. The cfg then needs `Events <- MCUnscoped`.
- `Hermes!VetoIsKept`: a registration with the mode off lets the boundary take the closed gate for its
  own, and the next one opens what other code had closed (`hermes_integration.py:491-493`, `505-511`),
  against the comment at line 496.

Two are excluded by what the model's own properties say:

- Corpus discovery takes its LIMIT, and decides to fall back from AND to OR, before authorization
  (`src/corpus/retrieval.py:400-440`), against the docstring of the module. `HiddenHasNoInfluence` is
  therefore about reads in which discovery was not cut.
- The graph walk cuts fan-out before authorization, so hidden neighbours can use up the budget
  (`src/m8/graph_access.py`), against `graph_bounds.py:30-33`; `QuietReadIsComplete` is about walks that
  report no cut.

### Observations

Met while modelling. Where one of these is within a model's abstraction the model does what the code
does, and the properties are stated so that they hold with it (a premise or an exception names the case).

Storage. A new coordinator answers CURRENT over a derived store that is behind
(`projection.py:79`); record 0 and the initial watermark 0 are the same number (`:187`); the capture index
trusts a file at least as long as it was (`jsonl_capture.py:108`). A duplicate's checkpoint has no
`last_sequence`, so the coordinator's projector fails on a stream that ends in one (`ingest.py:603`,
not modelled). A second close of the sidecar reports termination while work runs (`sidecar.py:266`); a
conflicting deletion line rewrites a tombstone (`ingest.py:423`); a rebuild in place turns the full-text
index off (`migrate_5.py:58`); the restored integration file is always deleted (`backup.py:522`); an upgrade leaves the
old -wal beside the new store (`upgrade.py:237`, not modelled).

Vault. A run that dies before its manifest makes later updates permanent edit conflicts
(`manifest.py:836`); a failed write is recorded as current (`writer.py:194-207`); after a change
of title the retired entry answers for the note (`manifest.py:534-562`) and an ordinary update is reported as a human edit
(`reconcile.py:244-276`); edited stale notes drop out of the manifest; the charter does not pass the
eligibility filter (`engine.py:284-299`); the home note links to a note the secret backstop withholds
(`engine.py:485-489`). Nothing locks two runs against each other (two concurrent runs are not modelled).

Access. Death between commit and append loses the event (`admin.py:156-158`), and if a logged supersede then names it,
every rebuild fails (`rebuild.py:94-116`); two administrators may commit in one order and append in the other. With
two grants on one target the last row's resource types count (`grants.py:274-275`); a request that
names two projects is filtered to the first (`authorized_read.py:526`); a cursor is bound to grant ids, not to what they
grant (`authorized_read.py:537-546`). A hit for all words that arrives in an OR walk makes it skip rows
(`search.py:207-216`), and the related reads lose a second edge to the same event at a page boundary (`relations.py:66-100`).

Project memory. Replay over existing tables is not idempotent (`rebuild.py:247`); a rebuild filtered by project drops the
others' rows (`rebuild.py:281-288`); superseding a deleted record, or updating a deleted charter, revives it; a supersession
whose new id exists does nothing; one invalid record blocks every replay; a link that arrives before its
artifact is lost (`projector.py:921`). A failed rebuild copies the whole database back, with whatever others
wrote meanwhile undone (`rebuild.py:291-295`).

Graph. A malformed time raises after BEGIN and leaves the transaction open, so that a later rebuild reports published
without committing (`projection_store.py:359-384`); the fingerprint is read before BEGIN and counts only
(`graph_sources.py:499`); one artifact in two projects collides (`temporal_projection.py:309-334`); rebuilding the graph
empties the temporal index; incremental projection removes no edge; a candidate is authorized in the
project of the edge, not its own (`graph_access.py:257-289`).

Corpus. Units of older versions survive every rebuild (`derived_store.py:207-297`); registering `deleted`
with unchanged content does nothing (`registry.py:160-166`), and so does attaching a blob, against
`scripts/corpus_md_extract_apply.py:91-92`; two instances fork versions; after a torn append the next record lands on a
malformed line and the registry refuses to load for ever (`registry.py:193-199`); an older projection may overwrite a newer
one (`derived_store.py:229`); death in a rebuild leaves empty tables (`derived_store.py:327`); an edge met from both ends
uses the edge budget twice, and an answer cut by that budget at the last node of a level reports no bound
(`graph.py:467-485`), which `UnflaggedReadIsWhole` excepts.

Hermes. Falling from assist to observe leaves the read adapter to the next registration, which starts it again in observe
mode; restart of a registration drops its mode (`hermes_registration.py:131-134`); an event in the
middle of a restart is lost; `health` reads fields the runtime's health lacks; the m6 runtime is one for all boundaries; repeated
session and kanban events are dropped as duplicates, and kanban events without a lifecycle status are always
rejected (`payload_mapping.py:209-211`); only the oldest page of events is considered; supporting evidence
that is too big gives READY with an empty context; an excluded item of score one half outranks included
ones below it.

## 7. What is not modelled, and why

- `zero_mem/upgrade.py`, `zero_mem/correction.py`, `zero_mem/api.py`, `zero_mem/core.py`: planned. Their protocols repeat
  those of restore, of capture and of the sidecar on less state.
- The ledger of migrations: each is one SQLite transaction; keys and indexes are modelled where decisions rest on them.
- `create_backup` and the checks of `verify_backup` change nothing that is in use; verification succeeds or fails.
- Path safety, permissions and the Windows branches of `src/storage/platform.py` are I/O without protocol
  state. Redaction, ranking inside full-text search, the parsers of documents and the command line are data
  conversion within one call: their outcome is a choice or a set in the models.
- Of what is modelled: metrics, logs and messages of errors; relations, scopes and provenance rows of ingest; the
  structural checks of the diagnosis; markup and formatting of notes and contexts; entities and mentions of the graph
  beyond their presence (`facts`).
- SQLite transactions are taken as atomic and durable, `os.replace` and renames as atomic, and the file lock as
  exclusive and released on death.

## 8. Plan

Done: capture, coordinator, ingest, sidecar, recovery, restore, vault, access, project memory, graph, Hermes and corpus, each
with its proofs. Next, in this order:

1. `Runtime`: capture, coordinator and ingest composed. Abstract specification: CURRENT means
   that a read sees every acknowledged record. Covers restart, the duplicate at the end of a
   stream that stops the projector, and record 0.
2. `Upgrade` (staging, the two renames, -wal and -shm) and `create_backup`; `Correction` over capture; the
   asynchronous client's slots against the sidecar's.
3. The diagnosis over the tables of `Ingest`: an ingested store is READY, and when it is not.
4. The ledger of migrations.
