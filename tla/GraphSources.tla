---------------------------- MODULE GraphSources ----------------------------
(***************************************************************************)
(* The pure half of the derived graph and temporal projections (src/m8):   *)
(* which typed edges and which temporal rows the approved source tables    *)
(* assert, and what a temporal read answers from a row.                    *)
(*                                                                         *)
(* A source row is a record with a table, an id and the columns the        *)
(* projectors read; a set of rows is the content of the source tables.     *)
(*   event             project, life, at                                   *)
(*   relation          from, relation, to, at                              *)
(*   artifact          origin, at                                          *)
(*   decision          project, life, supersedes, links, at                *)
(*   requirement       project, life, supersedes, at                       *)
(*   verification      project, subject, at                                *)
(*   project_artifact  project, links, at                                  *)
(* links is a set of typed references, or Malformed for a link list that   *)
(* parse_link_list refuses; at is a time, None, or Malformed.              *)
(***************************************************************************)
EXTENDS Naturals, FiniteSets

CONSTANTS None, Malformed

Rows(src, table) == {r \in src : r.table = table}
KeyOf(r) == IF r.table = "project_artifact" THEN <<r.table, r.id, r.project>> ELSE <<r.table, r.id>>
Upsert(src, r) == {s \in src : KeyOf(s) # KeyOf(r)} \cup {r}

Ref(type, id) == <<type, id>>
Edge(from, rel, to, source, scope) ==
  [from |-> from, rel |-> rel, to |-> to, source |-> source, project |-> scope.project, life |-> scope.life]
Identity(e) == <<e.from, e.rel, e.to, e.source, e.project>>

-----------------------------------------------------------------------------
(* The readers of the approved sources and the edges they project *)

RelationTypeMap == [derived_from |-> "derived_from", supersedes |-> "supersedes"]
SubjectTypes == {"requirement", "decision", "artifact", "project_artifact"}

EventScope(src, id) == {e \in Rows(src, "event") : e.id = id}

RelationEdges(src) ==
  UNION {{Edge(Ref("event", r.from), RelationTypeMap[r.relation], Ref("event", r.to), KeyOf(r), e) : e \in EventScope(src, r.from)} :
           r \in {m \in Rows(src, "relation") : m.relation \in DOMAIN RelationTypeMap /\ m.from # m.to}}

ArtifactEdges(src) ==
  UNION {{Edge(Ref("event", r.origin), "source_of", Ref("artifact", r.id), KeyOf(r), e) : e \in EventScope(src, r.origin)} :
           r \in Rows(src, "artifact")}

SupersessionEdges(src) ==
  {Edge(Ref(r.table, r.id), "supersedes", Ref(r.table, r.supersedes), KeyOf(r), r) :
     r \in {s \in Rows(src, "decision") \cup Rows(src, "requirement") : s.supersedes \notin {None, s.id}}}

Unscoped(r) == [project |-> r.project, life |-> "candidate"]
LinkEdges(src) ==
  UNION {{Edge(Ref("decision", r.id), "decision_for", to, <<KeyOf(r), to>>, r) : to \in r.links} : r \in Rows(src, "decision")}
  \cup
  UNION {{Edge(Ref("project_artifact", r.id), "artifact_of", to, <<"project_artifact", r.id, to>>, Unscoped(r)) : to \in r.links} :
           r \in Rows(src, "project_artifact")}

VerificationEdges(src) ==
  {Edge(Ref("verification", r.id), "verifies", r.subject, KeyOf(r), Unscoped(r)) :
     r \in {v \in Rows(src, "verification") : v.subject # None /\ v.subject[1] \in SubjectTypes}}

(* A malformed link list aborts the scan before any edge is written. *)
ScanFails(src) == \E r \in Rows(src, "decision") \cup Rows(src, "project_artifact") : r.links = Malformed
Edges(src) == RelationEdges(src) \cup ArtifactEdges(src) \cup SupersessionEdges(src) \cup LinkEdges(src) \cup VerificationEdges(src)

(* ON CONFLICT(edge_id) DO NOTHING: an edge whose identity is in the table keeps its row. *)
InsertEdges(table, new) == table \cup {e \in new : \A t \in table : Identity(t) # Identity(e)}

(* The fingerprint of a source state is the number of rows of each table. *)
SourceTables == {"event", "relation", "artifact", "decision", "requirement", "verification", "project_artifact"}
Fingerprint(src) == [t \in SourceTables |-> Cardinality(Rows(src, t))]
Timestamps(src) == {e.at : e \in Rows(src, "event")} \ {None}

-----------------------------------------------------------------------------
(* The temporal index and the answers read from it *)

Transactional == {"event", "relation", "artifact", "requirement", "project_artifact"}
TemporalRow(r) ==
  [key |-> Ref(r.table, r.id),
   created |-> IF r.table \in Transactional THEN r.at ELSE None,
   effective |-> IF r.table = "decision" THEN r.at ELSE None,
   life |-> IF r.table \in {"event", "decision", "requirement"} THEN r.life ELSE "candidate"]
TemporalRows(src) == {TemporalRow(r) : r \in src}
TemporalFails(src) == \E r \in src : TemporalRow(r).created = Malformed \/ TemporalRow(r).effective = Malformed

(* The key of zm_temporal_index has no project, the key of zm_project_artifacts has. *)
KeysCollide(src) == \E r, s \in src : KeyOf(r) # KeyOf(s) /\ TemporalRow(r).key = TemporalRow(s).key

DimensionValue(fact, dimension) == IF dimension = "transaction" THEN fact.created ELSE fact.effective

AsOfEither(fact, dimension, when) ==
  LET value == IF fact.created = None THEN fact.effective ELSE fact.created
  IN value # None /\ value =< when
AsOfMatch(fact, dimension, when) ==
  IF dimension = "transaction" THEN fact.created # None /\ fact.created =< when
  ELSE fact.effective # None /\ fact.effective = when

WithinWindow(fact, dimension, start, end) ==
  LET value == DimensionValue(fact, dimension)
  IN value # None /\ (start # None => value >= start) /\ (end # None => value < end)
Selects(query, fact) ==
  CASE query.as_of # None -> AsOfMatch(fact, query.dimension, query.as_of)
    [] query.as_of = None /\ (query.start # None \/ query.end # None) -> WithinWindow(fact, query.dimension, query.start, query.end)
    [] OTHER -> TRUE
ReadTemporal(table, query, ref) == {f \in table : f.key = ref /\ Selects(query, f)}
=============================================================================
