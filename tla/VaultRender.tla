---------------------------- MODULE VaultRender ----------------------------
(***************************************************************************)
(* What one pass of src/src/projection renders: the authorized reads of    *)
(* one project are filtered by eligibility, linked to one another, grouped *)
(* into conflicts and turned into notes, and a note that shows a secret is *)
(* withheld.  Pure operators; Vault takes the result to the disk.          *)
(*                                                                         *)
(* A record is [lifecycle, sensitivity, title, body, key, links]: title is *)
(* the statement (a row's value, a verification's status), body all other text, key the        *)
(* conflict key and links the linked identifiers.  A note's content is     *)
(* the structure it is formatted from, so equal contents are equal bytes   *)
(* and the content stands for its own fingerprint.                         *)
(***************************************************************************)
EXTENDS Naturals, FiniteSets

CONSTANTS
    Records,        \* identifiers of the records of project memory
    TypeOf,         \* [Records -> ResourceTypes]
    ProjectOf,      \* the project of each record
    Ceiling,        \* ProjectionConfig.sensitivity_ceiling
    SecretTexts     \* texts that match a secret pattern

ResourceTypes == {"charter", "state", "decision", "requirement", "verification"}
Absent == "absent"      \* the record does not carry the field

SensitivityOrder == <<"public", "internal", "private", "secret">>
Rank(s) == IF \E i \in 1..4 : SensitivityOrder[i] = s
           THEN CHOOSE i \in 1..4 : SensitivityOrder[i] = s
           ELSE 99
SecretRank == Rank("secret")
CeilingIsKnown == Rank(Ceiling) < SecretRank

ProjectableSensitivity(s) ==
    /\ Rank(s) < SecretRank
    /\ CeilingIsKnown
    /\ Rank(s) <= Rank(Ceiling)

ProjectedLifecycle == {"confirmed", "active", "superseded", "conflicted", "archived"}

\* Mutant: the ceiling alone decides.
EligibleByCeiling(rec) == rec.sensitivity = Absent \/ Rank(rec.sensitivity) <= Rank(Ceiling)

Eligible(rec) ==
    /\ CeilingIsKnown
    /\ rec.sensitivity = Absent \/ ProjectableSensitivity(rec.sensitivity)
    /\ rec.lifecycle = Absent \/ rec.lifecycle \in ProjectedLifecycle

(***************************************************************************)
(* Authorized reads.  A read gives [allowed, items], items the records the *)
(* service returned, each with the fields it had then.                     *)
(***************************************************************************)
Nothing == [allowed |-> FALSE, items |-> <<>>]

EligibleRecords(items) ==
    [r \in {r \in DOMAIN items : Eligible(items[r])} |-> items[r]]

(***************************************************************************)
(* Identities, paths and links.  An identity holds all that derive_note_id *)
(* hashes; a path is the category, the slug of the title and the suffix    *)
(* taken from the identity.                                                *)
(***************************************************************************)
NoteId(type, resource, id, project) == <<type, resource, id, project>>
NotePath(noteId, title) == <<noteId[1], title, noteId>>

NoteTypeOf(type) == IF type \in {"charter", "state"} THEN "project" ELSE type
TitleOf(r, rec) == IF TypeOf[r] = "verification" THEN r ELSE rec.title

Target(r, rec) ==
    LET type == TypeOf[r]
    IN [key |-> <<type, r>>,
        path |-> NotePath(NoteId(NoteTypeOf(type), type, r, ProjectOf[r]), TitleOf(r, rec))]

LinkRegistry(items) == {Target(r, items[r]) : r \in DOMAIN items}

\* A reference that is not in the registry shows the neutral marker: no path.
Resolve(registry, r) == {t \in registry : t.key = <<TypeOf[r], r>>}
LinkOrMarker(registry, r) == {t.path : t \in Resolve(registry, r)}
LinkList(registry, references) == [r \in references |-> LinkOrMarker(registry, r)]

(***************************************************************************)
(* Rendering.                                                              *)
(***************************************************************************)
BuildNote(id, title, body, links, texts) ==
    [id |-> id, path |-> NotePath(id, title),
     content |-> [note |-> id, title |-> title, body |-> body, links |-> links],
     texts |-> texts]

Callouts(rec) == {rec.lifecycle} \cap {"conflicted", "superseded", "archived"}
ConflictStatus(rec) == IF rec.lifecycle = "conflicted" THEN "conflicted" ELSE "none"

\* The same block closes every note: what the record carries, nothing computed.
Provenance(rec) == [lifecycle |-> rec.lifecycle, conflict |-> ConflictStatus(rec)]

RenderDecision(r, rec, registry) ==
    BuildNote(NoteId("decision", "decision", r, ProjectOf[r]), rec.title,
              [record |-> rec, callouts |-> Callouts(rec), provenance |-> Provenance(rec)],
              LinkList(registry, rec.links), {rec.title, rec.body})

RenderRequirement(r, rec, registry) ==
    BuildNote(NoteId("requirement", "requirement", r, ProjectOf[r]), rec.title,
              [record |-> rec, callouts |-> Callouts(rec), provenance |-> Provenance(rec)],
              LinkList(registry, rec.links), {rec.title, rec.body})

RenderVerification(r, rec) ==
    BuildNote(NoteId("verification", "verification", r, ProjectOf[r]), r,
              [record |-> rec], <<>>, {rec.title, rec.body})

RenderState(project, rows) ==
    BuildNote(NoteId("project", "state", project, project), project,
              [rows |-> rows], <<>>, UNION {{rows[r].title, rows[r].body} : r \in DOMAIN rows})

\* A section is left out unless the read was allowed and returned something.
Section(read, rows) ==
    IF read.allowed /\ read.items # <<>> THEN [shown |-> TRUE, rows |-> rows]
    ELSE [shown |-> FALSE, rows |-> <<>>]

Statements(items) == [r \in DOMAIN items |-> <<items[r].title, items[r].lifecycle>>]
StatusCounts(items) ==
    [s \in {items[r].title : r \in DOMAIN items} |->
        Cardinality({r \in DOMAIN items : items[r].title = s})]

RenderHome(project, charter, decision, requirement, verification, state) ==
    LET d == EligibleRecords(decision.items)
        q == EligibleRecords(requirement.items)
        v == EligibleRecords(verification.items)
        s == EligibleRecords(state.items)
        registry == LinkRegistry(d) \cup LinkRegistry(q) \cup LinkRegistry(v)
        linked(read, items) == Section(read, LinkList(registry, DOMAIN items))
        titles(items) == {items[r].title : r \in DOMAIN items}
    IN BuildNote(NoteId("project", "charter", project, project), "home",
        [charter |-> charter, callouts |-> Callouts(charter), provenance |-> Provenance(charter),
         state |-> Section(state, s), decisions |-> Section(decision, Statements(d)),
         requirements |-> Section(requirement, Statements(q)),
         verifications |-> Section(verification, StatusCounts(v))],
        [decisions |-> linked(decision, d), requirements |-> linked(requirement, q),
         verifications |-> linked(verification, v)],
        {charter.title, charter.body} \cup titles(d) \cup titles(q) \cup titles(v)
            \cup UNION {{s[r].title} : r \in DOMAIN s})

(***************************************************************************)
(* Conflicts: records marked conflicted, grouped by their recorded key.    *)
(***************************************************************************)
Conflicted(items) == {r \in DOMAIN items : items[r].lifecycle = "conflicted"}
ConflictKey(r, rec) == IF rec.key = Absent THEN <<ProjectOf[r], "unkeyed", r>>
                       ELSE <<ProjectOf[r], "key", rec.key>>
GroupConflicts(items) ==
    LET keys == {ConflictKey(r, items[r]) : r \in Conflicted(items)}
    IN {[key |-> k, positions |-> {r \in Conflicted(items) : ConflictKey(r, items[r]) = k}] : k \in keys}

RenderConflict(group, items) ==
    BuildNote(NoteId("conflict", "decision", group.key, group.key[1]), group.key,
              [positions |-> [r \in group.positions |-> items[r]]], <<>>,
              UNION {{items[r].title, items[r].body} : r \in group.positions})

Index == <<Absent, "index", Absent>>

\* One index for all projects; its links are looked up in no registry.
RenderConflictIndex(groups) ==
    BuildNote(NoteId("conflict", "decision", Index, Absent), Index,
              [groups |-> {<<g.key, Cardinality(g.positions)>> : g \in groups}], <<>>, {})

(***************************************************************************)
(* The pass.  got holds the nine reads by the part that made them.  The    *)
(* home note is that of the first charter.                                 *)
(***************************************************************************)
ProjectHome(project, got) ==
    LET charters == got[<<"home", "charter">>].items
        c == CHOOSE c \in DOMAIN charters : TRUE
    IN IF DOMAIN charters = {} THEN {}
       ELSE {RenderHome(project, charters[c], got[<<"home", "decision">>], got[<<"home", "requirement">>],
                        got[<<"home", "verification">>], got[<<"home", "state">>])}

ProjectState(project, got) ==
    LET rows == EligibleRecords(got[<<"state", "state">>].items)
    IN IF rows = <<>> THEN {} ELSE {RenderState(project, rows)}

\* Mutant: the registry also takes the records the eligibility filter refused.
SourceRecordsLinkAll(got) ==
    LET d == EligibleRecords(got[<<"source", "decision">>].items)
        q == EligibleRecords(got[<<"source", "requirement">>].items)
        v == EligibleRecords(got[<<"source", "verification">>].items)
        registry == LinkRegistry(got[<<"source", "decision">>].items) \cup LinkRegistry(got[<<"source", "verification">>].items)
    IN {RenderDecision(r, d[r], registry) : r \in DOMAIN d}
       \cup {RenderRequirement(r, q[r], registry) : r \in DOMAIN q}
       \cup {RenderVerification(r, v[r]) : r \in DOMAIN v}

SourceRecords(got) ==
    LET d == EligibleRecords(got[<<"source", "decision">>].items)
        q == EligibleRecords(got[<<"source", "requirement">>].items)
        v == EligibleRecords(got[<<"source", "verification">>].items)
        registry == LinkRegistry(d) \cup LinkRegistry(q) \cup LinkRegistry(v)
        groups == GroupConflicts(d)
    IN {RenderDecision(r, d[r], registry) : r \in DOMAIN d}
       \cup {RenderRequirement(r, q[r], registry) : r \in DOMAIN q}
       \cup {RenderVerification(r, v[r]) : r \in DOMAIN v}
       \cup (IF groups = {} THEN {} ELSE {RenderConflictIndex(groups)})
       \cup {RenderConflict(g, d) : g \in groups}

Rendered(project, got) == ProjectHome(project, got) \cup ProjectState(project, got) \cup SourceRecords(got)

\* _commit: a note that shows a secret is withheld, whatever links to it.
ShowsSecret(note) == note.texts \cap SecretTexts # {}
Kept(notes) == {n \in notes : ~ShowsSecret(n)}
=============================================================================
