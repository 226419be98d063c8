------------------------------- MODULE Corpus -------------------------------
(***************************************************************************)
(* The document corpus at work: registries, each an open instance with its *)
(* own memory of one append-only file, the blobs beside it, projections    *)
(* and rebuilds of the derived tables, the corpus graph, and reads of both *)
(* that take several statements.                                           *)
(*                                                                         *)
(* The registries, the callers of the projections and the readers are      *)
(* processes that know nothing of one another.                             *)
(***************************************************************************)
EXTENDS CorpusUnits, TLC

CONSTANTS
  Malformed,   \* a line no parser takes
  Processes,
  Catalogue,   \* what a caller may register
  Searches, Neighbourhoods,   \* what a reader may ask for
  MaxDepth, MaxFanOut, MaxNodes, MaxEdges,   \* GraphReadBounds
  MaxLines,    \* bounds of the model: lines the file may hold,
  MaxJobs, MaxReads, MaxFaults, MaxDeaths, MaxActions

(* What GraphReadBounds accepts, but for depth zero, a read of the seed.    *)
ValidBounds ==
  MaxDepth \in 1..2 /\ MaxFanOut \in 0..20 /\ MaxNodes \in 0..40 /\ MaxEdges \in 0..80

ASSUME CorpusBounds == ValidBounds

(* A text has finitely many lines, a search a limit. *)
ASSUME CorpusInputs ==
  /\ \A r \in Catalogue : r.blob => IsFiniteSet(DOMAIN Text[r.content])
  /\ DiscoveryFactor \in Nat /\ \A q \in Searches : q.limit \in Nat

VARIABLES
  file,    \* the lines of corpus_sources.jsonl
  torn,    \* whether half a line follows them
  blobs,   \* the contents of the blob store
  mem,     \* each instance's records, or None when it is closed
  reg,     \* the registration each instance has under way, or None
  acked,   \* history: the records callers were given
  tables,  \* the committed derived tables, or NoTables when they are dropped
  job,     \* each instance's projection: where it is and its open transaction
  seen,    \* history: the records the tables were last projected from
  tidy,    \* history: no projection since the tables are new missed what an earlier one saw
  rd,      \* the read under way
  used     \* how often each bounded action was taken
corpusVars == <<file, torn, blobs, mem, reg, acked, tables, job, seen, tidy, rd, used>>
canonical == <<file, torn, blobs, mem, reg, acked>>
derived == <<tables, job, seen, tidy>>

NoTables == [dropped |-> TRUE]
EmptyTables == [sources |-> {}, units |-> {}, edges |-> {}]
NoJob == [pc |-> "idle"]
NoRead == [pc |-> "idle"]

CorpusInit ==
  /\ file = <<>> /\ torn = FALSE /\ blobs = {} /\ acked = {}
  /\ mem = [p \in Processes |-> None] /\ reg = [p \in Processes |-> None]
  /\ tables = EmptyTables /\ job = [p \in Processes |-> NoJob] /\ seen = <<>> /\ tidy = TRUE
  /\ rd = NoRead
  /\ used = [jobs |-> 0, reads |-> 0, faults |-> 0, deaths |-> 0, registrations |-> 0]

Spent == used.jobs + used.reads + used.faults + used.deaths + used.registrations
Spend(what) == Spent < MaxActions /\ used' = [used EXCEPT ![what] = @ + 1]

-----------------------------------------------------------------------------
(* The registry *)

LoadsLeniently(lines, partial) == TRUE

Loads(lines, partial) == ~partial /\ Malformed \notin ToSet(lines)

(* A file that does not load refuses every later open; of one that does,   *)
(* every line is a record.                                                 *)
Open(p) ==
  /\ mem[p] = None /\ Loads(file, torn)
  /\ mem' = [mem EXCEPT ![p] = file]
  /\ UNCHANGED <<file, torn, blobs, reg, acked, derived, rd, used>>

Unstored(r) == blobs

Stored(r) == IF r.blob THEN blobs \cup {r.content} ELSE blobs

(* register_source_with_blob puts the bytes first. *)
StartRegister(p, r) ==
  /\ mem[p] # None /\ reg[p] = None
  /\ blobs' = Stored(r)
  /\ reg' = [reg EXCEPT ![p] = r]
  /\ Spend("registrations")
  /\ UNCHANGED <<file, torn, mem, acked, derived, rd>>

Unchanged(p) ==
  LET source == SourceId(reg[p])
  IN Known(mem[p], source) /\ Latest(mem[p], source).content = reg[p].content

(* The record known for these bytes is the answer, whatever else the       *)
(* caller asked to be registered with them.                                *)
ReturnExisting(p) ==
  /\ reg[p] # None /\ Unchanged(p)
  /\ acked' = acked \cup {Latest(mem[p], SourceId(reg[p]))}
  /\ reg' = [reg EXCEPT ![p] = None]
  /\ UNCHANGED <<file, torn, blobs, mem, derived, rd, used>>

Record(p) == NewRecord(mem[p], SourceId(reg[p]), reg[p], Len(file) + 1)

(* What lands behind half a line becomes part of it. *)
Written(rec) ==
  /\ Len(file) < MaxLines
  /\ file' = Append(file, IF torn THEN Malformed ELSE rec)
  /\ torn' = FALSE

Appending(p) == reg[p] # None /\ ~Unchanged(p) /\ reg' = [reg EXCEPT ![p] = None]

AppendRecord(p) ==
  /\ Appending(p)
  /\ Written(Record(p))
  /\ mem' = [mem EXCEPT ![p] = Append(@, Record(p))]
  /\ acked' = acked \cup {Record(p)}
  /\ UNCHANGED <<blobs, derived, rd, used>>

IndexAnyway(p) == mem' = [mem EXCEPT ![p] = Append(@, Record(p))]

IndexNothing(p) == UNCHANGED mem

(* What an append that did not return may have left: nothing, half a line, *)
(* the whole line.                                                         *)
Interrupted(p) ==
  \/ UNCHANGED <<file, torn>>
  \/ torn' = TRUE /\ UNCHANGED file
  \/ Written(Record(p))

AppendFails(p) ==
  /\ Appending(p) /\ used.faults < MaxFaults
  /\ Interrupted(p)
  /\ IndexNothing(p)
  /\ Spend("faults")
  /\ UNCHANGED <<blobs, acked, derived, rd>>

Die(p) ==
  /\ mem[p] # None /\ used.deaths < MaxDeaths
  /\ mem' = [mem EXCEPT ![p] = None] /\ reg' = [reg EXCEPT ![p] = None]
  /\ job' = [job EXCEPT ![p] = NoJob]
  /\ IF reg[p] = None \/ Unchanged(p) THEN UNCHANGED <<file, torn>> ELSE Interrupted(p)
  /\ Spend("deaths")
  /\ UNCHANGED <<blobs, acked, tables, seen, tidy, rd>>

-----------------------------------------------------------------------------
(* Projection and rebuild *)

Locked == \E p \in Processes : job[p].pc = "insert"
Disturbed == rd' = IF rd.pc = "idle" THEN rd ELSE [rd EXCEPT !.quiet = FALSE]

StartJob(p) ==
  /\ mem[p] # None /\ job[p] = NoJob /\ used.jobs < MaxJobs /\ ~Locked
  /\ Spend("jobs")
  /\ UNCHANGED canonical

StartProjection(p) ==
  /\ StartJob(p) /\ tables # NoTables
  /\ job' = [job EXCEPT ![p] = [pc |-> "project", records |-> mem[p]]]
  /\ UNCHANGED <<tables, seen, tidy, rd>>

DropTables(p) ==
  /\ StartJob(p)
  /\ tables' = NoTables /\ seen' = <<>> /\ tidy' = TRUE
  /\ job' = [job EXCEPT ![p] = [pc |-> "recreate"]]
  /\ Disturbed

RecreateTables(p) ==
  /\ job[p].pc = "recreate" /\ ~Locked
  /\ tables' = IF tables = NoTables THEN EmptyTables ELSE tables
  /\ job' = [job EXCEPT ![p] = [pc |-> "project", records |-> mem[p]]]
  /\ Disturbed
  /\ UNCHANGED <<canonical, seen, tidy, used>>

(* One transaction; a table another rebuild dropped fails it. *)
ProjectCorpus(p) ==
  /\ job[p].pc = "project" /\ ~Locked
  /\ job' = [job EXCEPT ![p] =
       IF tables = NoTables THEN NoJob ELSE [pc |-> "insert", records |-> @.records, done |-> 0, view |-> tables]]
  /\ UNCHANGED <<canonical, tables, seen, tidy, rd, used>>

(* The records are sorted by source, and rows of two sources never meet:   *)
(* what counts is the registry's order of one source's versions, which the *)
(* sort keeps.  The bytes are read when their record's turn comes.         *)
ProjectRecord(p) ==
  /\ job[p].pc = "insert" /\ job[p].done < Len(job[p].records)
  /\ job' = [job EXCEPT ![p].done = @ + 1, ![p].view = InsertRecord(@, job[p].records[job[p].done + 1], blobs)]
  /\ UNCHANGED <<canonical, tables, seen, tidy, rd, used>>

Commit(p) ==
  /\ job[p].pc = "insert" /\ job[p].done = Len(job[p].records)
  /\ tables' = job[p].view
  /\ seen' = job[p].records
  /\ tidy' = (tidy /\ IsPrefix(seen, job[p].records))
  /\ job' = [job EXCEPT ![p] = NoJob]
  /\ Disturbed
  /\ UNCHANGED <<canonical, used>>

RollBack(p) ==
  /\ job[p].pc = "insert" /\ used.faults < MaxFaults
  /\ job' = [job EXCEPT ![p] = NoJob]
  /\ Spend("faults")
  /\ UNCHANGED <<canonical, tables, seen, tidy, rd>>

BuildGraph(p) ==
  /\ StartJob(p) /\ tables # NoTables
  /\ tables' = [tables EXCEPT !.edges = Edges(tables.units)]
  /\ Disturbed
  /\ UNCHANGED <<job, seen, tidy>>

-----------------------------------------------------------------------------
(* Search: one statement, and a second when the first found nothing *)

AnswerOf(found) == Hits(found, SearchTriples(rd.q.scopes), rd.q.words, rd.q.source, rd.q.limit)

StartSearch(q) ==
  /\ rd.pc = "idle" /\ used.reads < MaxReads /\ tables # NoTables
  /\ rd' = [pc |-> "searching", q |-> q, quiet |-> TRUE]
  /\ Spend("reads")
  /\ UNCHANGED <<canonical, derived>>

Search ==
  /\ rd.pc = "searching" /\ tables # NoTables
  /\ LET candidates == Candidates(tables.units, rd.q.words)
     IN IF FallsBack(candidates, rd.q.words)
        THEN rd' = [rd EXCEPT !.pc = "widening"]
        ELSE \E found \in Discovered(candidates, rd.q.limit) :
               rd' = [pc |-> "found", q |-> rd.q, quiet |-> rd.quiet, hits |-> AnswerOf(found)]
  /\ UNCHANGED <<canonical, derived, used>>

Widen ==
  /\ rd.pc = "widening" /\ tables # NoTables
  /\ \E found \in Discovered(AnyWord(tables.units, rd.q.words), rd.q.limit) :
       rd' = [pc |-> "found", q |-> rd.q, quiet |-> rd.quiet, hits |-> AnswerOf(found)]
  /\ UNCHANGED <<canonical, derived, used>>

(* A table that is missing is an error, and any answer can be given up. *)
EndRead ==
  /\ rd.pc \in {"found", "read"} \/ (rd.pc # "idle" /\ tables = NoTables)
  /\ rd' = NoRead
  /\ UNCHANGED <<canonical, derived, used>>

-----------------------------------------------------------------------------
(* Graph read: the seed, the authorized nodes, then one statement a node *)

StartNeighbourhood(q) ==
  /\ rd.pc = "idle" /\ used.reads < MaxReads /\ tables # NoTables
  /\ q.seed \in Nodes(tables, GraphTriples(q.scopes))
  /\ rd' = [pc |-> "seeded", q |-> q, quiet |-> TRUE]
  /\ Spend("reads")
  /\ UNCHANGED <<canonical, derived>>

ReadNodes ==
  /\ rd.pc = "seeded" /\ tables # NoTables
  /\ rd' = [pc |-> "visiting", q |-> rd.q, quiet |-> rd.quiet, allowed |-> Nodes(tables, GraphTriples(rd.q.scopes)),
            nodes |-> {rd.q.seed}, edges |-> {}, count |-> 0, depth |-> 0, todo |-> {rd.q.seed}, next |-> {}, flags |-> {}]
  /\ UNCHANGED <<canonical, derived, used>>

Touching(node) == {e \in tables.edges : node \in {e.from, e.to} /\ {e.from, e.to} \subseteq rd.allowed}
Ends(edges) == {e.from : e \in edges} \cup {e.to : e \in edges}

FanOutPassed(taken) == Cardinality(taken) > MaxFanOut

FanOutReached(taken) == Cardinality(taken) >= MaxFanOut

(* Any order of the edges: as many as the two budgets leave room for.  An  *)
(* edge met from its other end counts, and takes room, a second time.      *)
Visit(node) ==
  /\ rd.pc = "visiting" /\ tables # NoTables /\ node \in rd.todo /\ rd.count < MaxEdges
  /\ \E taken \in AsManyAs(Min({MaxFanOut, MaxEdges - rd.count}), Touching(node)) :
       rd' = [rd EXCEPT !.edges = @ \cup taken, !.count = @ + Cardinality(taken), !.todo = @ \ {node},
                        !.nodes = @ \cup Ends(taken), !.next = @ \cup (Ends(taken) \ rd.nodes),
                        !.flags = @ \cup (IF FanOutReached(taken) THEN {"bound_max_fan_out"} ELSE {})]
  /\ UNCHANGED <<canonical, derived, used>>

NextLevel ==
  /\ rd.pc = "visiting" /\ (rd.todo = {} \/ rd.count >= MaxEdges)
  /\ LET cut == IF rd.todo # {} THEN rd.flags \cup {"bound_max_edges"} ELSE rd.flags
         full == Cardinality(rd.nodes) >= MaxNodes
         last == rd.depth + 1 >= MaxDepth \/ rd.next = {}
     IN rd' = IF full THEN [rd EXCEPT !.pc = "read", !.flags = cut \cup {"bound_max_nodes"}]
              ELSE [rd EXCEPT !.pc = IF last THEN "read" ELSE @, !.depth = @ + 1, !.todo = rd.next, !.next = {},
                              !.flags = IF last /\ rd.next # {} THEN cut \cup {"bound_max_depth"} ELSE cut]
  /\ UNCHANGED <<canonical, derived, used>>

-----------------------------------------------------------------------------
Registry == \E p \in Processes :
  \/ Open(p) \/ ReturnExisting(p) \/ AppendRecord(p) \/ AppendFails(p) \/ Die(p)
  \/ \E r \in Catalogue : StartRegister(p, r)
Projector == \E p \in Processes :
  \/ StartProjection(p) \/ DropTables(p) \/ RecreateTables(p) \/ ProjectCorpus(p)
  \/ ProjectRecord(p) \/ Commit(p) \/ RollBack(p) \/ BuildGraph(p)
Reader ==
  \/ \E q \in Searches : StartSearch(q)
  \/ \E q \in Neighbourhoods : StartNeighbourhood(q)
  \/ Search \/ Widen \/ EndRead \/ ReadNodes \/ NextLevel
  \/ rd.pc = "visiting" /\ \E node \in rd.todo : Visit(node)
CorpusNext == Registry \/ Projector \/ Reader
CorpusSpec == CorpusInit /\ [][CorpusNext]_corpusVars

-----------------------------------------------------------------------------
(* A record a caller was given is a line of the file, or the whole file is *)
(* refused (registry._load, register_source): half a line and a retry      *)
(* behind it can make the file unreadable, but a file that loads has lost  *)
(* no answer, whichever instance wrote it and whatever failed or died.     *)
NothingGivenIsLost == Loads(file, torn) => acked \subseteq ToSet(file)

(* In a file that loads, the version a record says it replaces is an       *)
(* earlier line of the same source (register_source, _next_version_fields):*)
(* an append that failed leaves no version for the next one to replace,    *)
(* though the failed line itself may be there.                             *)
HistoryHasNoHoles ==
  Loads(file, torn) =>
    \A i \in DOMAIN file : file[i].supersedes # None =>
      \E j \in 1..(i - 1) : file[i].supersedes = VersionOf(file[j].source, file[j].content)

(* A record that names a blob finds it (register_source_with_blob): the    *)
(* bytes are stored before the line, through failures and deaths.          *)
BlobsNeverDangle == \A i \in DOMAIN file : file[i] # Malformed => file[i].blob \in blobs \cup {None}

(* What a register call acknowledged is in the file, its history is whole   *)
(* and its text is there: none of the three holds without the others' order *)
(* of writes (blob, line, acknowledgement).                                *)
RegistryIsWhole == NothingGivenIsLost /\ HistoryHasNoHoles /\ BlobsNeverDangle

(* The rows of a list of records said without the upserts: each unit is    *)
(* what the last version that has a readable line there says, since the    *)
(* first one that had.                                                     *)
Versions(records, s, n) == {i \in IsOf(records, s) : n \in Extracted(records[i], blobs)}
ExpectedUnits(records) ==
  LET Row(s, n) == LET is == Versions(records, s, n)
                   IN [UnitRow(records[Max(is)], n) EXCEPT !.at = records[Min(is)].at]
  IN UNION {{Row(records[i].source, n) : n \in Extracted(records[i], blobs)} : i \in DOMAIN records}
ExpectedSources(records) ==
  {[SourceRow(Latest(records, s)) EXCEPT !.at = records[Min(IsOf(records, s))].at] :
     s \in {records[i].source : i \in DOMAIN records}}

(* The tables are those of a rebuild from the records last projected,      *)
(* whatever projections, rebuilds, failures and deaths came before them,   *)
(* unless a projection missed records an earlier one had seen, as an       *)
(* instance's that was opened before them does (project_corpus,            *)
(* rebuild_from_corpus).                                                   *)
ProjectionIsRebuild ==
  tables # NoTables /\ tidy =>
    tables.units = ExpectedUnits(seen) /\ tables.sources = ExpectedSources(seen)

(* Rows the reader may not see change no answer (retrieve_corpus), as long *)
(* as no commit came between the statements, the candidates fit the        *)
(* discovery limit, and the first statement's misses do not depend on such *)
(* rows: the limit and the switch to "any word" are decided before         *)
(* authorization.                                                          *)
HiddenHasNoInfluence ==
  rd.pc = "found" /\ rd.quiet /\ tables # NoTables =>
    LET q == rd.q
        Pool(rows) == IF FallsBack(Candidates(rows, q.words), q.words) THEN AnyWord(rows, q.words) ELSE Candidates(rows, q.words)
        visible == Eligible(tables.units, SearchTriples(q.scopes), None)
    IN /\ rd.hits \subseteq visible
       /\ /\ Cardinality(Pool(tables.units)) <= q.limit * DiscoveryFactor
          /\ FallsBack(Candidates(tables.units, q.words), q.words) = FallsBack(Candidates(visible, q.words), q.words)
          => rd.hits = Hits(Pool(visible), SearchTriples(q.scopes), q.words, q.source, q.limit)

(* A neighbourhood that reports no bound is whole (read_neighbourhood):    *)
(* with nothing committed meanwhile, every edge between nodes the reader   *)
(* may see that touches a node of the answer is in it, though a level may  *)
(* end half way.  An answer that uses the edge budget up is excepted: when *)
(* that happens at the last node of a level, nothing reports it.           *)
UnflaggedReadIsWhole ==
  rd.pc = "read" /\ rd.quiet /\ rd.flags = {} /\ rd.count < MaxEdges =>
    \A node \in rd.nodes : Touching(node) \subseteq rd.edges
=============================================================================
