---------------------------- MODULE CorpusUnits ----------------------------
(***************************************************************************)
(* The document corpus without its state (src/corpus): what the identities *)
(* of a source, a version and a unit are made of, the units extraction     *)
(* makes of a record's bytes, the rows a projection writes for a record,   *)
(* the rows a search finds, ranks and shows, and the edges of the corpus   *)
(* graph.                                                                  *)
(*                                                                         *)
(* A source is its descriptor: where it is, what kind of file, and in      *)
(* which scope.  A text is a sequence of lines, a line a set of words.     *)
(***************************************************************************)
EXTENDS Naturals, SequencesExt, FiniteSetsExt

CONSTANTS
  None,
  Secret,         \* a word the redactor refuses
  Formats,        \* the kinds some adapter extracts
  Text,           \* the lines of each content
  Completions,    \* the words a query word is a prefix of
  FtsAvailable,   \* whether this SQLite has FTS5
  Requester,      \* the profile that reads
  Rank,           \* the order of the sources' ids
  DiscoveryFactor \* how many candidates are discovered for one hit

-----------------------------------------------------------------------------
(* Identity *)

SourceId(r) == [ref |-> r.ref, kind |-> r.kind, scope |-> r.scope]
VersionOf(source, content) == <<source, content>>
UnitId(source, location) == <<source, location>>
SourceNode(source) == <<source, None>>

IsOf(records, source) == {i \in DOMAIN records : records[i].source = source}
Latest(records, source) == records[Max(IsOf(records, source))]
Known(records, source) == IsOf(records, source) # {}

(* The record register_source appends: the version it replaces is the      *)
(* latest one this registry has in memory.                                 *)
NewRecord(records, source, r, at) ==
  [source |-> source, content |-> r.content, life |-> r.life,
   blob |-> IF r.blob THEN r.content ELSE None, at |-> at,
   supersedes |-> IF Known(records, source) THEN VersionOf(source, Latest(records, source).content) ELSE None]

-----------------------------------------------------------------------------
(* Extraction, normalization, deduplication, redaction *)

Normalized(content) == {n \in DOMAIN Text[content] : Text[content][n] # {}}

(* The first line of the same text, when it is another one. *)
DuplicateOf(content, n) ==
  LET first == Min({m \in Normalized(content) : Text[content][m] = Text[content][n]})
  IN IF first = n THEN None ELSE first

Safe(line) == Secret \notin line

Readable(rec, blobs) == rec.blob # None /\ rec.blob \in blobs
HasAdapter(rec) == rec.source.kind \in Formats

Extracted(rec, blobs) ==
  IF Readable(rec, blobs) /\ HasAdapter(rec) THEN {n \in Normalized(rec.blob) : Safe(Text[rec.blob][n])} ELSE {}

UnitRow(rec, n) ==
  [id |-> UnitId(rec.source, n), text |-> Text[rec.blob][n], life |-> rec.life, at |-> rec.at,
   duplicate |-> IF DuplicateOf(rec.blob, n) = None THEN None ELSE UnitId(rec.source, DuplicateOf(rec.blob, n))]

SourceRow(rec) ==
  [id |-> rec.source, content |-> rec.content, life |-> rec.life, blob |-> rec.blob, at |-> rec.at]

-----------------------------------------------------------------------------
(* Projection, a record at a time.  An upsert keeps the time of the row it *)
(* meets; the rows of one record are all different ones.                   *)

InsertOrIgnore(rows, new) == rows \cup {row \in new : \A old \in rows : old.id # row.id}

Upsert(rows, new) ==
  {old \in rows : \A row \in new : row.id # old.id} \cup
  {[row EXCEPT !.at = IF \E old \in rows : old.id = row.id THEN (CHOOSE old \in rows : old.id = row.id).at ELSE @] : row \in new}

InsertRecord(view, rec, blobs) ==
  [view EXCEPT !.sources = Upsert(@, {SourceRow(rec)}),
               !.units = Upsert(@, {UnitRow(rec, n) : n \in Extracted(rec, blobs)})]

-----------------------------------------------------------------------------
(* The scope of a read, as (profile, project, space) triples *)

Combined(profiles, projects, spaces) ==
  LET Or(set) == IF set = {} THEN {None} ELSE set
  IN Or(profiles) \X Or(projects) \X Or(spaces)

Unowned == <<None, None, None>>

ScopeTriples(s, profiles) ==
  (IF s.global THEN {Unowned} ELSE {}) \cup
  (IF profiles \cup s.projects \cup s.spaces = {} THEN {<<Requester, None, None>>}
   ELSE Combined(profiles, s.projects, s.spaces))

(* A search scope that is not a grant is always the requester's own. *)
SearchTriples(scopes) ==
  UNION {ScopeTriples(s, s.profiles \cup (IF s.global \/ ~s.grant THEN {Requester} ELSE {})) : s \in scopes}
GraphTriples(scopes) ==
  UNION {ScopeTriples(s, s.profiles \cup (IF s.global THEN {Requester} ELSE {})) : s \in scopes}

(* For a search None is "any", but for the triple of the unowned rows; for *)
(* the graph it is NULL.                                                   *)
Allows(triples, scope) ==
  \E t \in triples : IF t = Unowned THEN scope = Unowned ELSE \A d \in 1..3 : t[d] \in {None, scope[d]}
GraphAllows(triples, scope) == scope \in triples

-----------------------------------------------------------------------------
(* Search *)

Matches(row, word) == Completions[word] \cap row.text # {}
AllWords(rows, words) == {row \in rows : \A w \in words : Matches(row, w)}
AnyWord(rows, words) == {row \in rows : \E w \in words : Matches(row, w)}

(* Without words, or without FTS5, every unit is a candidate. *)
Candidates(rows, words) == IF words = {} \/ ~FtsAvailable THEN rows ELSE AllWords(rows, words)
FallsBack(found, words) == found = {} /\ FtsAvailable /\ Cardinality(words) >= 2

(* LIMIT without ORDER BY: as many as there is room for, whichever. *)
AsManyAs(room, set) ==
  {taken \in SUBSET set : Cardinality(taken) \in 0..room /\ (taken # set => Cardinality(taken) = room)}

Discovered(rows, limit) == AsManyAs(limit * DiscoveryFactor, rows)

Eligible(rows, triples, source) ==
  {row \in rows : /\ Allows(triples, row.id[1].scope)
                  /\ source \in {None, row.id[1]}
                  /\ row.life # "deleted"}

Score(row, words) == Cardinality(row.text \cap words)
Before(words, a, b) ==
  \/ Score(a, words) > Score(b, words)
  \/ /\ Score(a, words) = Score(b, words)
     /\ \/ Rank[a.id[1]] < Rank[b.id[1]]
        \/ a.id[1] = b.id[1] /\ a.id[2] < b.id[2]

Ranked(hits, words, limit) ==
  {row \in hits : Cardinality({better \in hits : Before(words, better, row)}) < limit}

CutThenAuthorized(found, triples, words, source, limit) ==
  Eligible(Ranked(found, words, limit), triples, source)

Hits(found, triples, words, source, limit) ==
  Ranked(Eligible(found, triples, source), words, limit)

-----------------------------------------------------------------------------
(* The graph *)

Edge(kind, from, to) == [kind |-> kind, from |-> from, to |-> to]
Edges(units) ==
  {Edge("source_of", SourceNode(row.id[1]), row.id) : row \in units} \cup
  {Edge("derived_from", row.id, row.duplicate) : row \in {u \in units : u.duplicate # None}}

Nodes(view, triples) ==
  {row.id : row \in {u \in view.units : GraphAllows(triples, u.id[1].scope)}} \cup
  {SourceNode(row.id) : row \in {s \in view.sources : GraphAllows(triples, s.id.scope)}}
=============================================================================
