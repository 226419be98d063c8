----------------------------- MODULE GraphIndex -----------------------------
(***************************************************************************)
(* The derived graph and temporal indexes (src/m8): one projector that     *)
(* rebuilds or extends them on a connection of its own, writers that       *)
(* change the source tables, grants that come and go, and a bounded graph  *)
(* read that asks for authorization at every neighbour.                    *)
(*                                                                         *)
(* The five tables live in idx (what other connections see) and, while the *)
(* projector's connection has a transaction open, in txn (what it sees).   *)
(***************************************************************************)
EXTENDS GraphSources, Sequences, FiniteSetsExt

CONSTANTS
  InitialRows,   \* the source tables at the start
  Catalogue,     \* the rows a writer may write
  Facts,         \* entity and mention records a caller may supply to a rebuild
  Seeds,         \* the references a graph read may start from
  Projects, Types,
  MaxDepth, MaxFanOut, MaxNodes, MaxEdges,   \* GraphReadBounds
  MaxWrites, MaxCalls, MaxRevokes, MaxReads,  \* bounds of the model: of each kind,
  MaxActions     \* and of all kinds together

(* What GraphReadBounds accepts. *)
ValidBounds ==
  MaxDepth \in 0..2 /\ MaxFanOut \in 1..20 /\ MaxNodes \in 1..40 /\ MaxEdges \in 0..80

ASSUME BoundsAssumption == ValidBounds

(* The source tables have primary keys; a time is a number, absent, or     *)
(* one that parse_timestamp refuses.                                       *)
ASSUME SourcesAssumption ==
  /\ \A r, s \in InitialRows : KeyOf(r) = KeyOf(s) => r = s
  /\ \A r \in InitialRows \cup Catalogue : r.at \in Nat \cup {None, Malformed}
  /\ {None, Malformed} \cap Nat = {}

VARIABLES
  src,      \* the committed source tables
  idx,      \* the committed index tables
  txn,      \* the projector's open transaction, or None
  call,     \* the projector's call under way, or None
  scanned,  \* history: the sources the committed graph was rebuilt from
  added,    \* history: the edges committed by incremental projection since
  dated,    \* history: the sources of the committed temporal rows
  granted,  \* the <<project, type>> pairs the requester may read
  rd,       \* the graph read under way
  used      \* how often each bounded action was taken
vars == <<src, idx, txn, call, scanned, added, dated, granted, rd, used>>
projector == <<idx, txn, call, scanned, added, dated>>

EmptyIndex == [edges |-> {}, facts |-> {}, temporal |-> {}, status |-> "absent", fingerprint |-> None]
NoRead == [pc |-> "idle", seed |-> None, nodes |-> {}, seen |-> {}, edges |-> {}, frontier |-> <<>>,
           todo |-> {}, pend |-> {}, codes |-> {}, quiet |-> TRUE]

Init ==
  /\ src = InitialRows /\ idx = EmptyIndex /\ txn = None /\ call = None
  /\ scanned = {} /\ added = {} /\ dated = {}
  /\ granted = Projects \X Types
  /\ rd = NoRead
  /\ used = [writes |-> 0, calls |-> 0, revokes |-> 0, reads |-> 0]

Spent == used.writes + used.calls + used.revokes + used.reads
Spend(what) == Spent < MaxActions /\ used' = [used EXCEPT ![what] = @ + 1]
Disturbed == rd' = [rd EXCEPT !.quiet = FALSE]
View == IF txn = None THEN idx ELSE txn.view
Locked == txn # None /\ txn.dirty

-----------------------------------------------------------------------------
(* Writers of the source tables, and the grants *)

WriteSource(r) ==
  /\ used.writes < MaxWrites /\ ~Locked /\ r \notin src
  /\ src' = Upsert(src, r)
  /\ Disturbed /\ Spend("writes")
  /\ UNCHANGED <<idx, txn, call, scanned, added, dated, granted>>

Revoke(p) ==
  /\ used.revokes < MaxRevokes /\ p \in granted
  /\ granted' = granted \ {p}
  /\ Disturbed /\ Spend("revokes")
  /\ UNCHANGED <<src, projector>>

-----------------------------------------------------------------------------
(* rebuild_graph *)

ClearedOfFacts(view) == [view EXCEPT !.facts = {}, !.temporal = {}]
Cleared(view) == [view EXCEPT !.edges = {}, !.facts = {}, !.temporal = {}]

(* fail_index_build, in a transaction after the one that was rolled back. *)
FailedAndCleared(view, fingerprint) == [Cleared(view) EXCEPT !.status = "failed", !.fingerprint = fingerprint]
Failed(view, fingerprint) == [view EXCEPT !.status = "failed", !.fingerprint = fingerprint]

SupplyFacts(view, supplied) ==
  [view EXCEPT !.facts = @ \cup supplied \cup {[kind |-> "entity", entity |-> f.entity] : f \in supplied}]

(* begin_index_build, clear, scan and insert, publish: one transaction's work. *)
Built(view, fingerprint, supplied) ==
  LET begun == Cleared([view EXCEPT !.status = "building", !.fingerprint = fingerprint])
  IN IF ScanFails(src) THEN begun
     ELSE [SupplyFacts([begun EXCEPT !.edges = InsertEdges(@, Edges(src))], supplied) EXCEPT !.status = "published"]

StartRebuild(supplied) ==
  /\ call = None /\ used.calls < MaxCalls
  /\ Timestamps(src) # {}
  /\ call' = [op |-> "build", fingerprint |-> Fingerprint(src), supplied |-> supplied]
  /\ Spend("calls")
  /\ UNCHANGED <<src, idx, txn, scanned, added, dated, granted, rd>>

(* A timestamp begin_index_build refuses raises an error nothing catches:  *)
(* the transaction rebuild_graph opened stays open.                        *)
BuildRefused ==
  /\ call # None /\ call.op = "build"
  /\ txn' = IF txn = None THEN [view |-> idx, dirty |-> FALSE, scanned |-> scanned, added |-> added, dated |-> dated] ELSE txn
  /\ call' = None
  /\ UNCHANGED <<src, idx, scanned, added, dated, granted, rd, used>>

Build ==
  /\ call # None /\ call.op = "build" /\ txn = None
  /\ IF ScanFails(src)
     THEN /\ call' = [call EXCEPT !.op = "fail"]
          /\ UNCHANGED <<idx, scanned, added, dated, rd>>
     ELSE /\ idx' = Built(idx, call.fingerprint, call.supplied)
          /\ scanned' = src /\ added' = {} /\ dated' = {}
          /\ call' = None /\ Disturbed
  /\ UNCHANGED <<src, txn, granted, used>>

(* The same call inside a transaction the caller left open: nothing is     *)
(* committed, and nothing is rolled back when the scan fails.              *)
BuildInside ==
  /\ call # None /\ call.op = "build" /\ txn # None
  /\ txn' = [view |-> Built(txn.view, call.fingerprint, call.supplied), dirty |-> TRUE,
             scanned |-> src, added |-> {}, dated |-> {}]
  /\ call' = None
  /\ UNCHANGED <<src, idx, scanned, added, dated, granted, rd, used>>

Fail ==
  /\ call # None /\ call.op = "fail"
  /\ idx' = Failed(idx, call.fingerprint)
  /\ call' = None
  /\ UNCHANGED <<src, txn, scanned, added, dated, granted, rd, used>>

-----------------------------------------------------------------------------
(* project_graph_from_sources and project_temporal_index *)

(* The first INSERT opens a transaction; the caller commits it. *)
ProjectIncrement ==
  /\ call = None /\ used.calls < MaxCalls /\ ~ScanFails(src)
  /\ LET edges == InsertEdges(View.edges, Edges(src))
     IN txn' = [view |-> [View EXCEPT !.edges = edges], dirty |-> TRUE,
                scanned |-> IF txn = None THEN scanned ELSE txn.scanned,
                added |-> (IF txn = None THEN added ELSE txn.added) \cup (edges \ View.edges),
                dated |-> IF txn = None THEN dated ELSE txn.dated]
  /\ Spend("calls")
  /\ UNCHANGED <<src, idx, call, scanned, added, dated, granted, rd>>

(* Every source row, and no row of an earlier projection. *)
RefilledOver(view) == [view EXCEPT !.temporal = @ \cup TemporalRows(src)]
Refilled(view) == [view EXCEPT !.temporal = TemporalRows(src)]

(* Rows are read, the table is emptied and filled, and the connection is   *)
(* committed with whatever else it holds.                                  *)
ProjectTemporal ==
  /\ call = None /\ used.calls < MaxCalls /\ ~TemporalFails(src) /\ ~KeysCollide(src)
  /\ idx' = Refilled(View)
  /\ scanned' = (IF txn = None THEN scanned ELSE txn.scanned)
  /\ added' = (IF txn = None THEN added ELSE txn.added)
  /\ dated' = src
  /\ txn' = None
  /\ Disturbed /\ Spend("calls")
  /\ UNCHANGED <<src, call, granted>>

(* Two rows with one temporal key: the second INSERT fails, and the        *)
(* emptied, half filled table stays in an open transaction.                *)
TemporalBreaks ==
  /\ call = None /\ used.calls < MaxCalls /\ ~TemporalFails(src) /\ KeysCollide(src)
  /\ LET clash == {f \in TemporalRows(src) : \E g \in TemporalRows(src) \ {f} : f.key = g.key}
         linked == {TemporalRow(r) : r \in Rows(src, "project_artifact")}
         before == {TemporalRow(r) : r \in {s \in src : s.table \in {"artifact", "decision", "event"}}}
     IN \E first \in {TemporalRow(r) : r \in {s \in src : \E z \in src : KeyOf(z) # KeyOf(s) /\ TemporalRow(z).key = TemporalRow(s).key}},
           some \in SUBSET (linked \ clash) :
          txn' = [view |-> [View EXCEPT !.temporal = before \cup some \cup {first}], dirty |-> TRUE,
                  scanned |-> IF txn = None THEN scanned ELSE txn.scanned,
                  added |-> IF txn = None THEN added ELSE txn.added, dated |-> src]
  /\ Spend("calls")
  /\ UNCHANGED <<src, idx, call, scanned, added, dated, granted, rd>>

Commit ==
  /\ call = None /\ txn # None
  /\ idx' = txn.view /\ scanned' = txn.scanned /\ added' = txn.added /\ dated' = txn.dated
  /\ txn' = None /\ Disturbed
  /\ UNCHANGED <<src, call, granted, used>>

(* The projector's process ends: its transaction is rolled back. *)
Die ==
  /\ call # None \/ txn # None
  /\ txn' = None /\ call' = None
  /\ UNCHANGED <<src, idx, scanned, added, dated, granted, rd, used>>

-----------------------------------------------------------------------------
(* GraphAccessService.read_subgraph *)

(* What the authorized listing of a project, or the exact event, returns.  *)
Listed(type, project) ==
  LET table == IF type = "artifact" THEN "project_artifact" ELSE type
  IN {r \in Rows(src, table) : r.project = project /\ (table \in {"decision", "requirement"} => r.life # "deleted")}
Grant(type) == IF type = "project_artifact" THEN "artifact" ELSE type
Readable(type, project) == <<project, Grant(type)>> \in granted
ExactEvent(id) == {e \in EventScope(src, id) : e.life # "deleted"}

AuthorizedSeed(ref, project) ==
  IF ref[1] = "event" THEN \E e \in ExactEvent(ref[2]) : e.project = project /\ Readable("event", project)
  ELSE Readable(ref[1], project) /\ \E r \in Listed(ref[1], project) : r.id = ref[2]

(* A neighbour is authorized in the project of the edge that names it: an  *)
(* event by its own row, any other type by a listing that is not empty.    *)
AuthorizedCandidate(ref, project) ==
  IF ref[1] = "event" THEN \E e \in ExactEvent(ref[2]) : e.project = project /\ Readable("event", project)
  ELSE Readable(ref[1], project) /\ Listed(ref[1], project) # {}

Row(ref) ==
  LET table == IF ref[1] = "artifact" THEN "project_artifact" ELSE ref[1]
  IN {r \in Rows(src, table) : r.id = ref[2] /\ (table \in {"event", "decision", "requirement"} => r.life # "deleted")}

AddNode(r, ref) ==
  IF ref \in r.seen THEN r
  ELSE IF Cardinality(r.seen) >= MaxNodes THEN [r EXCEPT !.codes = @ \cup {"bound_max_nodes"}]
  ELSE [r EXCEPT !.seen = @ \cup {ref}, !.nodes = IF Row(ref) # {} THEN @ \cup {ref} ELSE @]
AddEdge(r, e) ==
  IF e \in r.edges THEN r
  ELSE IF Cardinality(r.edges) >= MaxEdges THEN [r EXCEPT !.codes = @ \cup {"bound_max_edges"}]
  ELSE [r EXCEPT !.edges = @ \cup {e}]

(* Edges are looked up by the bare resource id, in either direction. *)
EdgesAt(id, direction) == {e \in idx.edges : (IF direction = "outgoing" THEN e.from ELSE e.to)[2] = id}
Candidate(e, direction) == IF direction = "outgoing" THEN e.to ELSE e.from

Seed(ref, project) ==
  /\ rd.pc # "walk" /\ used.reads < MaxReads
  /\ rd' = IF AuthorizedSeed(ref, project)
           THEN [AddNode(NoRead, ref) EXCEPT !.pc = "walk", !.seed = ref, !.frontier = <<<<ref, 0>>>>]
           ELSE [NoRead EXCEPT !.pc = "denied", !.seed = ref]
  /\ Spend("reads")
  /\ UNCHANGED <<src, projector, granted>>

Expanding == rd.pc = "walk" /\ rd.todo = {} /\ rd.pend = {} /\ rd.frontier # <<>>

(* The next reference of the frontier: its two directions are still to do. *)
Visit ==
  /\ Expanding
  /\ rd' = IF Head(rd.frontier)[2] >= MaxDepth
           THEN [rd EXCEPT !.frontier = Tail(@), !.codes = @ \cup {"bound_max_depth"}]
           ELSE [rd EXCEPT !.todo = {"outgoing", "incoming"}]
  /\ UNCHANGED <<src, projector, granted, used>>

(* One direction's edges, cut to the fan-out bound before any is authorized. *)
ReadEdges ==
  /\ rd.pc = "walk" /\ rd.pend = {} /\ rd.todo # {}
  /\ LET direction == IF "outgoing" \in rd.todo THEN "outgoing" ELSE "incoming"
         found == EdgesAt(Head(rd.frontier)[1][2], direction)
     IN \E cut \in SUBSET found :
          /\ Cardinality(cut) = IF Cardinality(found) > MaxFanOut THEN MaxFanOut ELSE Cardinality(found)
          /\ rd' = [rd EXCEPT
               !.todo = @ \ {direction},
               !.pend = {<<e, direction>> : e \in cut},
               !.codes = IF cut # found THEN @ \cup {"bound_max_fan_out"} ELSE @,
               !.frontier = IF direction = "incoming" /\ cut = {} THEN Tail(@) ELSE @]
  /\ UNCHANGED <<src, projector, granted, used>>

Admit(r, e, ref) == AddEdge([AddNode(r, ref) EXCEPT !.frontier = Append(@, <<ref, Head(@)[2] + 1>>)], e)
MetOnce(r, e, ref) == IF ref \in r.seen \/ ~AuthorizedCandidate(ref, e.project) THEN r ELSE Admit(r, e, ref)
Met(r, e, ref) ==
  IF ref \in r.seen THEN AddEdge(r, e)
  ELSE IF AuthorizedCandidate(ref, e.project) THEN Admit(r, e, ref) ELSE r

(* One neighbour: withheld with its edge when it is not authorized. *)
Weigh ==
  /\ rd.pc = "walk" /\ rd.pend # {}
  /\ \E p \in rd.pend :
       LET last == rd.todo = {} /\ rd.pend = {p}
           met == Met([rd EXCEPT !.pend = @ \ {p}], p[1], Candidate(p[1], p[2]))
       IN rd' = [met EXCEPT !.frontier = IF last THEN Tail(@) ELSE @]
  /\ UNCHANGED <<src, projector, granted, used>>

Answer ==
  /\ rd.pc = "walk" /\ rd.todo = {} /\ rd.pend = {} /\ rd.frontier = <<>>
  /\ rd' = [rd EXCEPT !.pc = "done"]
  /\ UNCHANGED <<src, projector, granted, used>>

-----------------------------------------------------------------------------
Next ==
  \/ \E r \in Catalogue : WriteSource(r)
  \/ \E p \in granted : Revoke(p)
  \/ \E supplied \in SUBSET Facts : StartRebuild(supplied)
  \/ BuildRefused \/ Build \/ BuildInside \/ Fail
  \/ ProjectIncrement \/ ProjectTemporal \/ TemporalBreaks \/ Commit \/ Die
  \/ \E ref \in Seeds, p \in Projects : Seed(ref, p)
  \/ Visit \/ ReadEdges \/ Weigh \/ Answer

Spec == Init /\ [][Next]_vars

-----------------------------------------------------------------------------
(* Properties *)

(* The tables, the open transaction and the walk keep their shape. *)
TypeOK ==
  /\ idx.status \in {"absent", "building", "published", "failed"}
  /\ txn # None => txn.view.status \in {"absent", "building", "published", "failed"}
  /\ call # None => call.op \in {"build", "fail"}
  /\ granted \subseteq Projects \X Types
  /\ rd.pc \in {"idle", "walk", "denied", "done"} /\ rd.nodes \subseteq rd.seen
  /\ rd.todo \subseteq {"outgoing", "incoming"}

(* An index whose registry row says published holds every edge the sources *)
(* asserted at the scan it was built from, and beyond those only edges     *)
(* incremental projections added later: no edge of an older state of the   *)
(* sources survives a rebuild.                                             *)
GraphIsItsSources == idx.status = "published" => idx.edges = InsertEdges(Edges(scanned), added)

(* Every temporal row other connections see is one the sources asserted at *)
(* the last projection: no row outlives its source and no time is          *)
(* invented, also when projections break and their transactions are        *)
(* committed by a later call.                                              *)
TemporalIsItsSources ==
  /\ idx.temporal \subseteq TemporalRows(dated)
  /\ \A f, g \in idx.temporal : f.key = g.key => f = g

(* A row answers "known at t" exactly when it answers the window that ends *)
(* after t, "valid at t" only inside it, and a table that records one kind *)
(* of time never answers for the other.                                    *)
TimesAreNotConflated ==
  \A f \in idx.temporal, t \in 0..2 :
    LET Ask(dimension, when, end) ==
          ReadTemporal(idx.temporal, [dimension |-> dimension, as_of |-> when, start |-> None, end |-> end], f.key)
    IN /\ Ask("transaction", t, None) = Ask("transaction", None, t + 1)
       /\ Ask("valid", t, None) \subseteq Ask("valid", None, t + 1)
       /\ f.key[1] \in Transactional => Ask("valid", t, None) = {}
       /\ f.key[1] \notin Transactional => Ask("transaction", t, None) = {}

(* A rebuild that fails in its own transaction changes the registry and    *)
(* nothing else: the rows of the last good build stay readable, and a      *)
(* build that was begun is never seen half done.                           *)
FailureKeepsTheIndex ==
  [][idx'.status # idx.status /\ idx'.status = "failed" =>
       /\ idx'.edges = idx.edges /\ idx'.facts = idx.facts /\ idx'.temporal = idx.temporal]_vars

(* A walk that no write, revocation or rebuild disturbed and that reports  *)
(* no bound but the depth has found everything: each reference within      *)
(* MaxDepth authorized hops of the seed, each edge it was admitted by, and *)
(* no edge to a reference outside.                                         *)
Hops(seed) ==
  LET h[k \in 0..MaxDepth] ==
        IF k = 0 THEN {seed}
        ELSE h[k - 1] \cup {c \in {Candidate(e, d) : e \in idx.edges, d \in {"outgoing", "incoming"}} :
               \E r \in h[k - 1], d \in {"outgoing", "incoming"} :
                 \E e \in EdgesAt(r[2], d) : Candidate(e, d) = c /\ AuthorizedCandidate(c, e.project)}
  IN h
QuietReadIsComplete ==
  rd.pc = "done" /\ rd.quiet /\ rd.codes \subseteq {"bound_max_depth"} =>
    LET hops == Hops(rd.seed)
        expanded == IF MaxDepth = 0 THEN {} ELSE hops[MaxDepth - 1]
        reached == UNION {{<<Candidate(e, d), e>> : e \in EdgesAt(r[2], d)} : r \in expanded, d \in {"outgoing", "incoming"}}
    IN /\ rd.seen = hops[MaxDepth]
       /\ rd.nodes = {r \in rd.seen : Row(r) # {}}
       /\ rd.edges \subseteq {p[2] : p \in {q \in reached : q[1] \in rd.seen}}
       /\ {p[2] : p \in {q \in reached : AuthorizedCandidate(q[1], q[2].project)}} \subseteq rd.edges

(* The published index is what its sources said, edge for edge and time    *)
(* for time, and answers for neither kind of time with the other.          *)
IndexIsItsSources == GraphIsItsSources /\ TemporalIsItsSources /\ TimesAreNotConflated
=============================================================================
