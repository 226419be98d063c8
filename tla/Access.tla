------------------------------- MODULE Access -------------------------------
(***************************************************************************)
(* Grants and the reads and writes they allow.  Administrators change the  *)
(* derived table zm_access_grants, commit, and only then append the event  *)
(* to the canonical log; a rebuild replays the log into an empty table.    *)
(* Meanwhile a reader follows cursors through pages of events, of search   *)
(* hits or of related events, each page gated anew by the grants of its    *)
(* moment, while events arrive and are deleted, and a writer asks before   *)
(* it writes.  src/access/{admin,grant_events,rebuild,authorized_read,     *)
(* authorized_write,linked,audit}.py and src/retrieval/*.py.               *)
(***************************************************************************)
EXTENDS Policy

CONSTANTS
    Admins,         \* processes that administer grants
    AdminRequests,  \* the grant events they may ask for, [op, row]
    EventTable,     \* event id, its rank in (created_at, event_id) order -> its row
    Arriving,       \* ids of the events that are ingested later
    Edges,          \* stored relations, [from, to, relation]; a relation is its place in their order
    ReadRequests,   \* the reads a caller may start, [kind, access, words, source, limit]
    WriteRequests,  \* the writes a caller may ask for
    Verifications,  \* verification records of project memory
    MaxAdmin,       \* bound: admin operations and rebuilds
    MaxChanges,     \* bound: arrivals, deletions, verification changes and writes
    MaxWalks        \* bound: reads

\* The admin boundary builds events of three kinds over whole rows, whose new
\* grants are active, have a subject (a column that is NOT NULL) and never
\* supersede themselves (admin.py: validate and to_event).
ASSUME GrantEventAssumption ==
    \A ev \in AdminRequests :
        /\ ev.op \in {"create", "revoke", "supersede"}
        /\ {"id", "state", "lifecycle", "replacedBy"} \subseteq DOMAIN ev.row
        /\ ev.op # "revoke" => Live(ev.row) /\ ev.row.subject # None /\ ev.row.id # None
        /\ ev.op = "supersede" => ev.row.supersedes # ev.row.id

\* Events have ranks, and relations places; a page has at least one row
\* (query.py: _validate_limit).
ASSUME ReadAssumption ==
    /\ IsFiniteSet(DOMAIN EventTable) /\ DOMAIN EventTable \subseteq Nat
    /\ IsFiniteSet(Edges) /\ \A d \in Edges : d.relation \in Nat
    /\ \A q \in ReadRequests : q.kind \in {"list", "search", "related"} /\ q.limit \in Nat \ {0}

VARIABLES
    grants,    \* zm_access_grants: rows in the order of their rowids
    audit,     \* zm_policy_audit: decisions
    log,       \* canonical stream: grant events and policy decisions
    pending,   \* admin -> the committed event it has yet to append
    verified,  \* verifications that are in the verified state
    present,   \* ids of the events in zm_meta
    deleted,   \* ids of the events whose current state is deleted
    walk,      \* the reader: its request, its cursor, what it was given
    writing,   \* the writer: the decision it acts on next
    astray,    \* history: the log and the commits may have parted
    spent      \* uses of the bounds

accessVars == <<grants, audit, log, pending, verified, present, deleted, walk, writing, astray, spent>>

NoEvent == [op |-> "none"]
NoCursor == [at |-> 0]
NoWalk == [state |-> "idle"]
WalkAt(state, query, cursor, seen, steady) ==
    [state |-> state, query |-> query, cursor |-> cursor, seen |-> seen, steady |-> steady]
NoWrite == [grant |-> None, allow |-> FALSE]

-----------------------------------------------------------------------------
(* Grant events and their projection *)

HasRow(table, id) == \E i \in DOMAIN table : table[i].id = id

Upsert(table, row) ==
    IF HasRow(table, row.id) THEN [i \in DOMAIN table |-> IF table[i].id = row.id THEN row ELSE table[i]]
    ELSE Append(table, row)

\* The foreign key of supersedes: the superseded grant must have a row.
Projectable(table, ev) == ev.op = "supersede" => HasRow(table, ev.row.supersedes)

\* The SET of an UPDATE, and the UPDATE of the row of a grant.
Written(columns, row) == [c \in DOMAIN row |-> IF c \in DOMAIN columns THEN columns[c] ELSE row[c]]

Marked(table, id, columns) ==
    [i \in DOMAIN table |-> IF table[i].id = id THEN Written(columns, table[i]) ELSE table[i]]

ProjectGrantEvent(table, ev) ==
    CASE ev.op = "create" -> Upsert(table, ev.row)
      [] ev.op = "revoke" -> Marked(table, ev.row.id, [state |-> "revoked"])
      [] ev.op = "supersede" ->
            Marked(Upsert(table, ev.row), ev.row.supersedes, [lifecycle |-> "superseded", replacedBy |-> ev.row.id])

\* Mutant: the replay knows no revocations.
ReplayedUnrevoked(acc, ev) ==
    IF ev.op \in {"decision", "revoke"} THEN acc
    ELSE IF acc.ok /\ Projectable(acc.table, ev) THEN [ok |-> TRUE, table |-> ProjectGrantEvent(acc.table, ev)]
    ELSE [ok |-> FALSE, table |-> acc.table]

\* One line of the log; an event that cannot be projected fails it all.
Replayed(acc, ev) ==
    IF ev.op = "decision" THEN acc
    ELSE IF acc.ok /\ Projectable(acc.table, ev) THEN [ok |-> TRUE, table |-> ProjectGrantEvent(acc.table, ev)]
    ELSE [ok |-> FALSE, table |-> acc.table]

\* Replay into an empty table.
ReplayOf(lines) ==
    LET after[n \in 0..Len(lines)] ==
            IF n = 0 THEN [ok |-> TRUE, table |-> <<>>] ELSE Replayed(after[n - 1], lines[n])
    IN  after[Len(lines)]

Replay == ReplayOf(log)

Decisions == {ev \in ToSet(log) : ev.op = "decision"}

\* What the admin boundary accepts: a WRITE grant rests on a verified record.
Accepted(ev) ==
    (ev.row.operation = "WRITE" /\ ev.op # "revoke") => ev.row.verification \in verified

-----------------------------------------------------------------------------
(* Pages *)

Alive == present \ deleted

Rank(id) == id

AtMost(n, list) == [k \in 1..(IF n < Len(list) THEN n ELSE Len(list)) |-> list[k]]

FirstBy(S, n) == AtMost(n, Ascending(S))

\* The first project a request names also filters the rows.
PassesFilter(r, e) == r.projects = <<>> \/ e.project = r.projects[1]

\* Mutant: the page starts at the row the last one ended with.
RowsFromKeyset(q, scope, after, live) ==
    {id \in live : /\ Rank(id) >= after /\ PassesFilter(q.access, EventTable[id])
                    /\ SqlAdmits(scope, q.access.requester, EventTable[id])}

\* The rows one scope's SELECT may return after the keyset.
Rows(q, scope, after, live) ==
    {id \in live : /\ Rank(id) > after /\ PassesFilter(q.access, EventTable[id])
                                /\ SqlAdmits(scope, q.access.requester, EventTable[id])}

Matches(id, words, mode) ==
    IF mode = "and" THEN words \subseteq EventTable[id].words ELSE words \cap EventTable[id].words # {}

Hits(q, eff, after, mode, live) ==
    {id \in live : /\ Rank(id) > after /\ PassesFilter(q.access, EventTable[id])
                                /\ Listed(eff, q.access.requester, EventTable[id]) /\ Matches(id, q.words, mode)}

\* Edges of the source in both directions, as <<other end, relation>>.
Related(source) ==
    {<<d.to, d.relation>> : d \in {d \in Edges : d.from = source}}
        \cup {<<d.from, d.relation>> : d \in {d \in Edges : d.to = source}}

RelatedAfter(source, after, live) == {t \in Related(source) : t[1] \in live /\ Rank(t[1]) > after}

\* A linked view carries no spaces when it is looked at.
LinkedView(id) == [profile |-> EventTable[id].profile, project |-> EventTable[id].project, spaces |-> {}]

LinkReadable(eff, q, id) == Readable(eff, q.access.requester, LinkedView(id))

Fingerprint(q, eff) ==
    CASE q.kind = "list" -> [base |-> eff.base, refs |-> eff.refs]
      [] q.kind = "search" -> [base |-> eff.base, refs |-> eff.refs, scopes |-> eff.scopes]
      [] q.kind = "related" -> [base |-> EmptyScope, refs |-> {}]

Page(state, items, cursor) == [state |-> state, items |-> items, cursor |-> cursor]

\* Mutant: no row is fetched beyond the page.
ListPageWithoutLookAhead(q, eff, after) ==
    LET scopes == OrderedScopes(eff)
        merged == UNION {ToSet(FirstBy(Rows(q, scopes[i], after, Alive), q.limit)) : i \in DOMAIN scopes}
        items == FirstBy(merged, q.limit)
    IN  IF Cardinality(merged) > q.limit
        THEN Page("open", items, [at |-> Rank(Last(items)), fp |-> Fingerprint(q, eff), mode |-> "and"])
        ELSE Page("done", items, NoCursor)

\* query_events: limit + 1 rows of every scope, each row looked at again
\* under the first scope that returned it.
ListPage(q, eff, after) ==
    LET scopes == OrderedScopes(eff)
        fetched == [i \in DOMAIN scopes |-> ToSet(FirstBy(Rows(q, scopes[i], after, Alive), q.limit + 1))]
        merged == UNION {fetched[i] : i \in DOMAIN scopes}
        items == FirstBy(merged, q.limit)
    IN  IF \E i \in DOMAIN scopes : \E id \in fetched[i] :
               /\ \A j \in 1..(i - 1) : id \notin fetched[j]
               /\ ~ScopeAllows(scopes[i], q.access.requester, EventTable[id])
        THEN Page("boundary", <<>>, NoCursor)
        ELSE IF Cardinality(merged) > q.limit
             THEN Page("open", items, [at |-> Rank(Last(items)), fp |-> Fingerprint(q, eff), mode |-> "and"])
             ELSE Page("done", items, NoCursor)

\* search_text: all the words; none found and two words or more, any of them.
SearchPage(q, eff, after) ==
    LET mode == IF Hits(q, eff, after, "and", Alive) = {} /\ Cardinality(q.words) > 1 THEN "or" ELSE "and"
        hits == Hits(q, eff, after, mode, Alive)
        page == FirstBy(hits, q.limit)
        items == At(page, {k \in DOMAIN page : Readable(eff, q.access.requester, EventTable[page[k]])})
    IN  IF Cardinality(hits) >= q.limit
        THEN Page("open", items, [at |-> Rank(Last(page)), fp |-> Fingerprint(q, eff), mode |-> mode])
        ELSE Page("done", items, NoCursor)

ComesBefore(s, t) == Rank(s[1]) < Rank(t[1]) \/ (s[1] = t[1] /\ s[2] < t[2])

\* get_related behind authorize_relation: one target out of scope and nothing
\* is returned.  Rows of one target come in the order of their relations.
RelatedPage(q, eff, after) ==
    LET rest == RelatedAfter(q.source, after, Alive)
        rows == AtMost(q.limit, InOrder(rest, {p \in rest \X rest : ComesBefore(p[1], p[2])}))
        items == [i \in DOMAIN rows |-> rows[i][1]]
    IN  IF \/ q.source \in Alive /\ ~LinkReadable(eff, q, q.source)
           \/ \E id \in ToSet(items) : ~LinkReadable(eff, q, id)
        THEN Page("boundary", <<>>, NoCursor)
        ELSE IF Len(items) >= q.limit
             THEN Page("open", items, [at |-> Rank(Last(items)), fp |-> Fingerprint(q, eff), mode |-> "and"])
             ELSE Page("done", items, NoCursor)

\* One call: gated by the grants of now, its cursor bound to what it was made for.
PageOf(q, cursor) ==
    LET eff == Gate(q.access, grants) IN
    IF ~eff.allow THEN Page("denied", <<>>, NoCursor)
    ELSE IF cursor # NoCursor /\ cursor.fp # Fingerprint(q, eff) THEN Page("mismatch", <<>>, NoCursor)
    ELSE CASE q.kind = "list" -> ListPage(q, eff, cursor.at)
           [] q.kind = "search" -> SearchPage(q, eff, cursor.at)
           [] q.kind = "related" -> RelatedPage(q, eff, cursor.at)

\* All a caller would be given now by a walk that nothing disturbs.
Wanted(q, table, live) ==
    LET eff == Gate(q.access, table) IN
    IF ~eff.allow THEN {}
    ELSE CASE q.kind = "list" -> UNION {Rows(q, scope, 0, live) : scope \in ToSet(OrderedScopes(eff))}
           [] q.kind = "search" -> Hits(q, eff, 0, "and", live)
           [] q.kind = "related" -> {t[1] : t \in RelatedAfter(q.source, 0, live)}

-----------------------------------------------------------------------------
(* Initial state and the history of the walk *)

AccessInit ==
    /\ grants = <<>> /\ audit = {} /\ log = <<>>
    /\ pending = [a \in Admins |-> NoEvent]
    /\ verified = Verifications
    /\ present = DOMAIN EventTable \ Arriving
    /\ deleted = {}
    /\ walk = NoWalk /\ writing = NoWrite
    /\ astray = FALSE
    /\ spent = [admin |-> 0, changes |-> 0, walks |-> 0]

Spend(what, limit) == spent[what] < limit /\ spent' = [spent EXCEPT ![what] = @ + 1]

\* What the open walk has owed its caller throughout.
Watched ==
    walk' = IF walk.state # "open" THEN walk
            ELSE WalkAt("open", walk.query, walk.cursor, walk.seen,
                        walk.steady \cap Wanted(walk.query, grants', present' \ deleted'))

-----------------------------------------------------------------------------
(* GrantAdminService *)

\* create, revoke, supersede: project the event and commit.  An event whose
\* projection the foreign key refuses raises, and nothing is committed.
Commit(a, ev) ==
    /\ pending[a] = NoEvent
    /\ Accepted(ev) /\ Projectable(grants, ev)
    /\ Spend("admin", MaxAdmin)
    /\ grants' = ProjectGrantEvent(grants, ev)
    /\ pending' = [pending EXCEPT ![a] = ev]
    /\ astray' = (astray \/ \E b \in Admins : pending[b] # NoEvent)
    /\ UNCHANGED <<audit, log, verified, present, deleted, writing>>
    /\ Watched

\* The canonical writer appends the event after the commit.
AppendEvent(a) ==
    /\ pending[a] # NoEvent
    /\ log' = Append(log, pending[a])
    /\ pending' = [pending EXCEPT ![a] = NoEvent]
    /\ UNCHANGED <<grants, audit, verified, present, deleted, walk, writing, astray, spent>>

\* The writer raises, or the process dies, between the commit and the append.
LoseEvent(a) ==
    /\ pending[a] # NoEvent
    /\ pending' = [pending EXCEPT ![a] = NoEvent]
    /\ astray' = TRUE
    /\ UNCHANGED <<grants, audit, log, verified, present, deleted, walk, writing, spent>>

\* rebuild_policy_state: both tables are replaced inside a savepoint.
Rebuild ==
    /\ Spend("admin", MaxAdmin)
    /\ Replay.ok
    /\ grants' = Replay.table
    /\ audit' = Decisions
    /\ astray' = \E a \in Admins : pending[a] # NoEvent
    /\ UNCHANGED <<log, pending, verified, present, deleted, writing>>
    /\ Watched

\* An event the foreign key refuses rolls the savepoint back.
RebuildFails ==
    /\ ~Replay.ok
    /\ Spend("admin", MaxAdmin)
    /\ UNCHANGED <<grants, audit, log, pending, verified, present, deleted, walk, writing, astray>>

-----------------------------------------------------------------------------
(* Other processes: ingest and project memory *)

Arrive(id) ==
    /\ id \in Arriving \ present
    /\ Spend("changes", MaxChanges)
    /\ present' = present \cup {id}
    /\ UNCHANGED <<grants, audit, log, pending, verified, deleted, writing, astray>>
    /\ Watched

Delete(id) ==
    /\ id \in Alive
    /\ Spend("changes", MaxChanges)
    /\ deleted' = deleted \cup {id}
    /\ UNCHANGED <<grants, audit, log, pending, verified, present, writing, astray>>
    /\ Watched

LoseVerification(v) ==
    /\ v \in verified
    /\ Spend("changes", MaxChanges)
    /\ verified' = verified \ {v}
    /\ UNCHANGED <<grants, audit, log, pending, present, deleted, walk, writing, astray>>

-----------------------------------------------------------------------------
(* Reads *)

StartWalk(q) ==
    /\ walk.state # "open"
    /\ Spend("walks", MaxWalks)
    /\ walk' = WalkAt("open", q, NoCursor, <<>>, Wanted(q, grants, Alive))
    /\ UNCHANGED <<grants, audit, log, pending, verified, present, deleted, writing, astray>>

NextPage ==
    /\ walk.state = "open"
    /\ LET page == PageOf(walk.query, walk.cursor) IN
       walk' = WalkAt(page.state, walk.query, page.cursor, walk.seen \o page.items, walk.steady)
    /\ UNCHANGED <<grants, audit, log, pending, verified, present, deleted, writing, astray, spent>>

-----------------------------------------------------------------------------
(* Writes *)

\* authorize_write: the only explicit target the request has, if it has one.
PrimaryTarget(r) ==
    LET targets == {<<"profile", p>> : p \in r.profiles} \cup {<<"project", p>> : p \in ToSet(r.projects)}
                       \cup {<<"knowledge_space", s>> : s \in r.spaces}
    IN  IF Cardinality(targets) = 1 THEN CHOOSE t \in targets : TRUE ELSE <<None, None>>

RequiresGrant(r) == CrossesProfile(r) \/ r.projects # <<>> \/ r.spaces # {}

AuthorizeWrite(r) ==
    LET base == Evaluate(r)
        target == PrimaryTarget(r)
        held == ResolveWriteGrant(r.requester, target[1], target[2], r.resource, grants, verified)
    IN  IF base.allow /\ ~RequiresGrant(r) THEN [allow |-> TRUE, grant |-> None]
        ELSE IF target[1] = None THEN [allow |-> base.allow, grant |-> None]
        ELSE IF held.outcome = "granted" THEN [allow |-> TRUE, grant |-> held.grant.id]
        ELSE [allow |-> FALSE, grant |-> None]

\* A denial, or an allowance by a grant, is worth an audit event.
Auditable(decision) == ~decision.allow \/ decision.grant # None

\* The decision, and its record in the canonical stream, which may fail.
DecideWrite(r) ==
    /\ writing = NoWrite
    /\ Spend("changes", MaxChanges)
    /\ LET decision == AuthorizeWrite(r) IN
       writing' = [grant |-> decision.grant, allow |-> decision.allow, request |-> r]
    /\ \/ Auditable(writing') /\ log' = Append(log, [op |-> "decision", id |-> spent.changes, grant |-> writing'.grant])
       \/ log' = log
    /\ UNCHANGED <<grants, audit, pending, verified, present, deleted, walk, astray>>

\* authorize_then_write: the writer runs only when the decision allowed it.
PerformWrite ==
    /\ writing # NoWrite
    /\ writing' = NoWrite
    /\ UNCHANGED <<grants, audit, log, pending, verified, present, deleted, walk, astray, spent>>

AccessNext ==
    \/ \E a \in Admins : \/ \E ev \in AdminRequests : Commit(a, ev)
                         \/ AppendEvent(a) \/ LoseEvent(a)
    \/ Rebuild \/ RebuildFails
    \/ \E id \in DOMAIN EventTable : Arrive(id) \/ Delete(id)
    \/ \E v \in Verifications : LoseVerification(v)
    \/ \E q \in ReadRequests : StartWalk(q)
    \/ NextPage
    \/ \E r \in WriteRequests : DecideWrite(r)
    \/ PerformWrite

AccessSpec == AccessInit /\ [][AccessNext]_accessVars

-----------------------------------------------------------------------------
(* Properties *)

\* While every committed grant event has been appended in the order of the
\* commits, the log replays into exactly the table the reads are gated by, and
\* the audit table holds nothing the log lacks (rebuild.py: parity of the
\* incremental projection and the rebuild).
TableFollowsLog ==
    /\ (~astray /\ \A a \in Admins : pending[a] = NoEvent) => Replay = [ok |-> TRUE, table |-> grants]
    /\ audit \subseteq Decisions

\* A walk that has run out of pages has given its caller every event that it
\* was owed from the first page to the last, whatever arrived, was deleted or
\* was granted between the pages (query.py and authorized_read.py: keyset
\* pagination over a stable order).
WalkMissesNothing ==
    walk.state = "done" => walk.steady \subseteq ToSet(walk.seen)

\* Pages never go back: no event of a listing or a search is given twice.
PagesAscend ==
    walk.state # "idle" =>
        \A i, j \in DOMAIN walk.seen : i < j =>
            IF walk.query.kind = "related" THEN Rank(walk.seen[i]) <= Rank(walk.seen[j])
            ELSE Rank(walk.seen[i]) < Rank(walk.seen[j])

\* The SQL predicate of a scope admits no row that the second look in Python
\* then takes for a breach: no listing is torn down (authorized_read.py).
ListingIsNeverTornDown ==
    ~(walk.state = "boundary" /\ walk.query.kind = "list")

\* A grant event that decides about a grant.
Governs(ev, id) == ev.op # "decision" /\ (ev.row.id = id \/ (ev.op = "supersede" /\ ev.row.supersedes = id))

\* A line that gave a grant which no later line is about.
Stands(lines, k) ==
    /\ lines[k].op \in {"create", "supersede"}
    /\ \A m \in DOMAIN lines : m > k => ~Governs(lines[m], lines[k].row.id)

\* The log's grants to a subject.
LogGrants(subject, operation) ==
    {log[k].row : k \in {k \in DOMAIN log :
        Stands(log, k) /\ log[k].row.subject = subject /\ log[k].row.operation = operation}}

\* What a grant opens: a profile, a project or a space, or what is nobody's.
Opens(g, e) ==
    \/ g.type = "profile" /\ (g.target = e.profile \/ (g.target = Everyone /\ e.profile = None))
    \/ g.type = "project" /\ g.target = e.project
    \/ g.type = "knowledge_space" /\ g.target \in e.spaces

\* An event handed out is the requester's own, nobody's while global reading
\* was asked for or granted, or under a grant to the requester that the log has not taken
\* back, unless the log and the table have parted (the canonical stream is the
\* authority; grant_events.py, resolver.py).
ReadsFollowTheLog ==
    [][ (walk.state = "open" /\ walk'.seen # walk.seen /\ ~astray /\ \A a \in Admins : pending[a] = NoEvent) =>
          LET r == walk.query.access IN
          \A i \in DOMAIN walk'.seen : i > Len(walk.seen) =>
              LET e == EventTable[walk'.seen[i]] IN
              \/ e.profile = r.requester
              \/ e.profile = None /\ r.includeGlobal /\ ~r.isolated
              \/ \E g \in LogGrants(r.requester, "READ") : Opens(g, e) ]_accessVars

\* A write allowed by a grant rests on the only grant of the log that covers
\* it, and on a verification that holds at that moment, unless the log and the
\* table have parted.
WritesFollowTheLog ==
    [][ (writing = NoWrite /\ writing'.grant # None /\ ~astray /\ \A a \in Admins : pending[a] = NoEvent) =>
          LET r == writing'.request
              target == PrimaryTarget(r)
              covering == {g \in LogGrants(r.requester, "WRITE") :
                               g.type = target[1] /\ g.target = target[2] /\ r.resource \in g.resources \cup {None}}
          IN  /\ {g.id : g \in covering} = {writing'.grant}
              /\ \A g \in covering : g.verification \in verified ]_accessVars

AccessTypeOK ==
    /\ \A i, j \in DOMAIN grants : grants[i].id = grants[j].id => i = j
    /\ walk.state \in {"idle", "open", "done", "denied", "mismatch", "boundary"}
    /\ walk.state # "idle" => walk.query \in ReadRequests /\ walk.steady \subseteq DOMAIN EventTable
    /\ deleted \subseteq present /\ present \subseteq DOMAIN EventTable
    /\ writing = NoWrite \/ writing.grant \in {None} \cup {ev.row.id : ev \in AdminRequests}

\* A finished walk is the listing: each event once and in order, none that was
\* owed missing, and never torn down as a breach of its own scope.
WalkIsExact == WalkMissesNothing /\ PagesAscend /\ ListingIsNeverTornDown

\* Every read and every write that is allowed is allowed by the log.
AccessFollowsTheLog == ReadsFollowTheLog /\ WritesFollowTheLog
=============================================================================
