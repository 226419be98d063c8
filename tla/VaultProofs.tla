---------------------------- MODULE VaultProofs ----------------------------
(***************************************************************************)
(* The projector keeps off what people wrote, its notes lead only to what  *)
(* they show, and an undisturbed run leaves exactly its notes.             *)
(***************************************************************************)
EXTENDS Vault, TLAPS

-----------------------------------------------------------------------------
(***************************************************************************)
(* Rendering.                                                              *)
(***************************************************************************)
ItemsOf(g, part, type) == EligibleRecords(g[<<part, type>>].items)

\* The registry of one part of a rendering.
RegistryOf(g, part) ==
    LinkRegistry(ItemsOf(g, part, "decision")) \cup LinkRegistry(ItemsOf(g, part, "requirement"))
        \cup LinkRegistry(ItemsOf(g, part, "verification"))

\* The notes of one pass by kind.
IsHome(n, p, g) ==
    LET charters == g[<<"home", "charter">>].items
        c == CHOOSE c \in DOMAIN charters : TRUE
    IN /\ DOMAIN charters # {}
       /\ n = RenderHome(p, charters[c], g[<<"home", "decision">>], g[<<"home", "requirement">>],
                         g[<<"home", "verification">>], g[<<"home", "state">>])
IsState(n, p, g) == n = RenderState(p, ItemsOf(g, "state", "state"))
IsDecision(n, g) ==
    \E r \in DOMAIN ItemsOf(g, "source", "decision") :
        n = RenderDecision(r, ItemsOf(g, "source", "decision")[r], RegistryOf(g, "source"))
IsRequirement(n, g) ==
    \E r \in DOMAIN ItemsOf(g, "source", "requirement") :
        n = RenderRequirement(r, ItemsOf(g, "source", "requirement")[r], RegistryOf(g, "source"))
IsVerification(n, g) ==
    \E r \in DOMAIN ItemsOf(g, "source", "verification") :
        n = RenderVerification(r, ItemsOf(g, "source", "verification")[r])
IsIndex(n, g) == n = RenderConflictIndex(GroupConflicts(ItemsOf(g, "source", "decision")))
IsConflict(n, g) ==
    \E c \in GroupConflicts(ItemsOf(g, "source", "decision")) :
        n = RenderConflict(c, ItemsOf(g, "source", "decision"))

LEMMA Kinds ==
    ASSUME NEW p, NEW g, NEW n \in Rendered(p, g)
    PROVE  \/ IsHome(n, p, g) \/ IsState(n, p, g)
           \/ IsDecision(n, g) \/ IsRequirement(n, g) \/ IsVerification(n, g)
           \/ IsIndex(n, g) \/ IsConflict(n, g)
<1>1. CASE n \in ProjectHome(p, g)
    BY <1>1 DEF ProjectHome, IsHome
<1>2. CASE n \in ProjectState(p, g)
    BY <1>2 DEF ProjectState, IsState, ItemsOf
<1>3. CASE n \in SourceRecords(g)
    BY <1>3 DEF SourceRecords, IsDecision, IsRequirement, IsVerification, IsIndex, IsConflict, ItemsOf, RegistryOf
<1> QED BY <1>1, <1>2, <1>3 DEF Rendered

\* The source notes of a rendering, from the records that it read.
LEMMA SourceNotes ==
    ASSUME NEW p, NEW g
    PROVE  /\ \A r \in DOMAIN ItemsOf(g, "source", "decision") :
                RenderDecision(r, ItemsOf(g, "source", "decision")[r], RegistryOf(g, "source")) \in Rendered(p, g)
           /\ \A r \in DOMAIN ItemsOf(g, "source", "requirement") :
                RenderRequirement(r, ItemsOf(g, "source", "requirement")[r], RegistryOf(g, "source")) \in Rendered(p, g)
           /\ \A r \in DOMAIN ItemsOf(g, "source", "verification") :
                RenderVerification(r, ItemsOf(g, "source", "verification")[r]) \in Rendered(p, g)
BY DEF Rendered, SourceRecords, ItemsOf, RegistryOf

\* What every note is.
LEMMA NoteShape ==
    ASSUME NEW id, NEW title, NEW body, NEW links, NEW texts
    PROVE  LET n == BuildNote(id, title, body, links, texts)
           IN /\ n.id = id /\ n.path = NotePath(id, title) /\ n.texts = texts
              /\ n.content.links = links /\ DOMAIN n.content = {"note", "title", "body", "links"}
BY DEF BuildNote

IsNote(n) ==
    /\ n.path = <<n.id[1], n.path[2], n.id>>
    /\ DOMAIN n.content = {"note", "title", "body", "links"}

LEMMA RenderedAreNotes == ASSUME NEW p, NEW g, NEW n \in Rendered(p, g) PROVE IsNote(n)
<1>1. \A id, title, body, links, texts : IsNote(BuildNote(id, title, body, links, texts))
    BY NoteShape DEF IsNote, NotePath
<1>2. CASE IsHome(n, p, g)
    BY <1>1, <1>2 DEF IsHome, RenderHome
<1>3. CASE IsState(n, p, g)
    BY <1>1, <1>3 DEF IsState, RenderState
<1>4. CASE IsDecision(n, g)
    BY <1>1, <1>4 DEF IsDecision, RenderDecision
<1>5. CASE IsRequirement(n, g)
    BY <1>1, <1>5 DEF IsRequirement, RenderRequirement
<1>6. CASE IsVerification(n, g)
    BY <1>1, <1>6 DEF IsVerification, RenderVerification
<1>7. CASE IsIndex(n, g)
    BY <1>1, <1>7 DEF IsIndex, RenderConflictIndex
<1>8. CASE IsConflict(n, g)
    BY <1>1, <1>8 DEF IsConflict, RenderConflict
<1> QED BY Kinds, <1>2, <1>3, <1>4, <1>5, <1>6, <1>7, <1>8

\* The identity of each kind of note.
LEMMA ProjectIdentities ==
    ASSUME NEW p, NEW g, NEW n
    PROVE  /\ IsHome(n, p, g) => n.id = <<"project", "charter", p, p>>
           /\ IsState(n, p, g) => n.id = <<"project", "state", p, p>>
<1>0. \A id, title, body, links, texts : BuildNote(id, title, body, links, texts).id = id
    BY NoteShape
<1>1. \A charter, d, q, v, s : RenderHome(p, charter, d, q, v, s).id = <<"project", "charter", p, p>>
    BY <1>0 DEF RenderHome, NoteId
<1>2. \A rows : RenderState(p, rows).id = <<"project", "state", p, p>>
    BY <1>0 DEF RenderState, NoteId
<1> QED BY <1>1, <1>2 DEF IsHome, IsState

LEMMA SourceIdentities ==
    ASSUME NEW g, NEW n
    PROVE  /\ IsIndex(n, g) => n.id = <<"conflict", "decision", Index, Absent>>
           /\ IsDecision(n, g) =>
                \E r \in DOMAIN ItemsOf(g, "source", "decision") :
                    /\ n.id = <<"decision", "decision", r, ProjectOf[r]>>
                    /\ n = RenderDecision(r, ItemsOf(g, "source", "decision")[r], RegistryOf(g, "source"))
           /\ IsRequirement(n, g) =>
                \E r \in DOMAIN ItemsOf(g, "source", "requirement") :
                    /\ n.id = <<"requirement", "requirement", r, ProjectOf[r]>>
                    /\ n = RenderRequirement(r, ItemsOf(g, "source", "requirement")[r], RegistryOf(g, "source"))
           /\ IsVerification(n, g) =>
                \E r \in DOMAIN ItemsOf(g, "source", "verification") :
                    /\ n.id = <<"verification", "verification", r, ProjectOf[r]>>
                    /\ n = RenderVerification(r, ItemsOf(g, "source", "verification")[r])
           /\ IsConflict(n, g) =>
                \E c \in GroupConflicts(ItemsOf(g, "source", "decision")) :
                    /\ n.id = <<"conflict", "decision", c.key, c.key[1]>>
                    /\ n = RenderConflict(c, ItemsOf(g, "source", "decision"))
<1>0. \A id, title, body, links, texts : BuildNote(id, title, body, links, texts).id = id
    BY NoteShape
<1>1. IsIndex(n, g) => n.id = <<"conflict", "decision", Index, Absent>>
    BY <1>0 DEF IsIndex, RenderConflictIndex, NoteId
<1>2. \A r, rec, registry : RenderDecision(r, rec, registry).id = <<"decision", "decision", r, ProjectOf[r]>>
    BY <1>0 DEF RenderDecision, NoteId
<1>3. \A r, rec, registry :
        RenderRequirement(r, rec, registry).id = <<"requirement", "requirement", r, ProjectOf[r]>>
    BY <1>0 DEF RenderRequirement, NoteId
<1>4. \A r, rec : RenderVerification(r, rec).id = <<"verification", "verification", r, ProjectOf[r]>>
    BY <1>0 DEF RenderVerification, NoteId
<1>5. \A c, items : RenderConflict(c, items).id = <<"conflict", "decision", c.key, c.key[1]>>
    BY <1>0 DEF RenderConflict, NoteId
<1> QED BY <1>1, <1>2, <1>3, <1>4, <1>5 DEF IsDecision, IsRequirement, IsVerification, IsConflict

\* Groups are told apart by their keys, and none has the key of the index.
LEMMA GroupKeys ==
    ASSUME NEW items, NEW c \in GroupConflicts(items)
    PROVE  c.key # Index /\ \A d \in GroupConflicts(items) : c.key = d.key => c = d
<1>1. \A d \in GroupConflicts(items) :
        \E k : /\ d = [key |-> k, positions |-> {r \in Conflicted(items) : ConflictKey(r, items[r]) = k}]
              /\ \E r \in Conflicted(items) : k = ConflictKey(r, items[r])
    BY DEF GroupConflicts
<1>2. \A r, rec : ConflictKey(r, rec)[2] # "index"
    BY DEF ConflictKey
<1>3. Index[2] = "index"
    BY DEF Index
<1> QED BY <1>1, <1>2, <1>3

LEMMA Tags ==
    ASSUME NEW p, NEW g, NEW n
    PROVE  /\ IsHome(n, p, g) => n.id[1] = "project" /\ n.id[2] = "charter"
           /\ IsState(n, p, g) => n.id[1] = "project" /\ n.id[2] = "state"
           /\ IsDecision(n, g) => n.id[1] = "decision" /\ n.id[2] = "decision"
           /\ IsRequirement(n, g) => n.id[1] = "requirement" /\ n.id[2] = "requirement"
           /\ IsVerification(n, g) => n.id[1] = "verification" /\ n.id[2] = "verification"
           /\ IsIndex(n, g) \/ IsConflict(n, g) => n.id[1] = "conflict" /\ n.id[2] = "decision"
BY ProjectIdentities, SourceIdentities

\* A note is found again under its identity: no two notes of a pass share one.
LEMMA IdentitiesAreUnique ==
    ASSUME NEW p, NEW g, NEW n \in Rendered(p, g), NEW m \in Rendered(p, g), n.id = m.id
    PROVE  n = m
<1>1. \/ IsHome(m, p, g) \/ IsState(m, p, g) \/ IsDecision(m, g) \/ IsRequirement(m, g)
      \/ IsVerification(m, g) \/ IsIndex(m, g) \/ IsConflict(m, g)
    BY Kinds
<1>2. CASE IsHome(n, p, g)
    <2>1. IsHome(m, p, g)
        BY <1>1, <1>2, Tags
    <2> QED BY <1>2, <2>1 DEF IsHome
<1>3. CASE IsState(n, p, g)
    <2>1. IsState(m, p, g)
        BY <1>1, <1>3, Tags
    <2> QED BY <1>3, <2>1 DEF IsState
<1>4. CASE IsDecision(n, g)
    <2>1. IsDecision(m, g)
        BY <1>1, <1>4, Tags
    <2>2. PICK r \in DOMAIN ItemsOf(g, "source", "decision") :
            n.id[3] = r /\ n = RenderDecision(r, ItemsOf(g, "source", "decision")[r], RegistryOf(g, "source"))
        BY <1>4, SourceIdentities
    <2>3. PICK s \in DOMAIN ItemsOf(g, "source", "decision") :
            m.id[3] = s /\ m = RenderDecision(s, ItemsOf(g, "source", "decision")[s], RegistryOf(g, "source"))
        BY <2>1, SourceIdentities
    <2> QED BY <2>2, <2>3
<1>5. CASE IsRequirement(n, g)
    <2>1. IsRequirement(m, g)
        BY <1>1, <1>5, Tags
    <2>2. PICK r \in DOMAIN ItemsOf(g, "source", "requirement") :
            n.id[3] = r /\ n = RenderRequirement(r, ItemsOf(g, "source", "requirement")[r], RegistryOf(g, "source"))
        BY <1>5, SourceIdentities
    <2>3. PICK s \in DOMAIN ItemsOf(g, "source", "requirement") :
            m.id[3] = s /\ m = RenderRequirement(s, ItemsOf(g, "source", "requirement")[s], RegistryOf(g, "source"))
        BY <2>1, SourceIdentities
    <2> QED BY <2>2, <2>3
<1>6. CASE IsVerification(n, g)
    <2>1. IsVerification(m, g)
        BY <1>1, <1>6, Tags
    <2>2. PICK r \in DOMAIN ItemsOf(g, "source", "verification") :
            n.id[3] = r /\ n = RenderVerification(r, ItemsOf(g, "source", "verification")[r])
        BY <1>6, SourceIdentities
    <2>3. PICK s \in DOMAIN ItemsOf(g, "source", "verification") :
            m.id[3] = s /\ m = RenderVerification(s, ItemsOf(g, "source", "verification")[s])
        BY <2>1, SourceIdentities
    <2> QED BY <2>2, <2>3
<1>7. CASE IsIndex(n, g) \/ IsConflict(n, g)
    <2>1. IsIndex(m, g) \/ IsConflict(m, g)
        BY <1>1, <1>7, Tags
    <2>2. /\ IsIndex(n, g) => n.id[3] = Index
          /\ IsConflict(n, g) =>
                \E c \in GroupConflicts(ItemsOf(g, "source", "decision")) :
                    n.id[3] = c.key /\ n = RenderConflict(c, ItemsOf(g, "source", "decision"))
        BY SourceIdentities
    <2>3. /\ IsIndex(m, g) => m.id[3] = Index
          /\ IsConflict(m, g) =>
                \E c \in GroupConflicts(ItemsOf(g, "source", "decision")) :
                    m.id[3] = c.key /\ m = RenderConflict(c, ItemsOf(g, "source", "decision"))
        BY SourceIdentities
    <2>4. CASE IsIndex(n, g)
        <3>1. IsIndex(m, g)
            BY <2>1, <2>2, <2>3, <2>4, GroupKeys
        <3> QED BY <2>4, <3>1 DEF IsIndex
    <2>5. CASE IsConflict(n, g)
        <3>1. IsConflict(m, g)
            BY <2>1, <2>2, <2>3, <2>5, GroupKeys
        <3>2. PICK c \in GroupConflicts(ItemsOf(g, "source", "decision")) :
                n.id[3] = c.key /\ n = RenderConflict(c, ItemsOf(g, "source", "decision"))
            BY <2>2, <2>5
        <3>3. PICK d \in GroupConflicts(ItemsOf(g, "source", "decision")) :
                m.id[3] = d.key /\ m = RenderConflict(d, ItemsOf(g, "source", "decision"))
            BY <2>3, <3>1
        <3> QED BY <3>2, <3>3, GroupKeys
    <2> QED BY <1>7, <2>4, <2>5
<1> QED BY Kinds, <1>2, <1>3, <1>4, <1>5, <1>6, <1>7

-----------------------------------------------------------------------------
(***************************************************************************)
(* What a note shows.                                                      *)
(***************************************************************************)

\* The reads g of project p, as the service gives them.
ReadsAreTyped(g, p) ==
    \A k \in DOMAIN g : \A r \in DOMAIN g[k].items :
        r \in Records /\ TypeOf[r] = k[2] /\ ProjectOf[r] = p
        /\ g[k].items[r] \in States[r] \ {NoRecord}

\* All that was awaited was read: without a charter the home note needs no more.
ReadsAreComplete(g) ==
    /\ <<"home", "charter">> \in DOMAIN g
    /\ \A k \in {<<"state", "state">>, <<"source", "decision">>, <<"source", "requirement">>, <<"source", "verification">>} :
          k \in DOMAIN g
    /\ DOMAIN g[<<"home", "charter">>].items # {} =>
          \A t \in {"decision", "requirement", "verification", "state"} : <<"home", t>> \in DOMAIN g

Linkable == {"decision", "requirement", "verification"}

\* The path of the note of a record.
PathOf(r, rec) == NotePath(NoteId(TypeOf[r], TypeOf[r], r, ProjectOf[r]), TitleOf(r, rec))

LEMMA Eligibles ==
    ASSUME NEW g, NEW part, NEW t
    PROVE  /\ \A r \in DOMAIN ItemsOf(g, part, t) :
                /\ r \in DOMAIN g[<<part, t>>].items
                /\ ItemsOf(g, part, t)[r] = g[<<part, t>>].items[r]
                /\ Eligible(g[<<part, t>>].items[r])
           /\ \A r \in DOMAIN g[<<part, t>>].items :
                Eligible(g[<<part, t>>].items[r]) => r \in DOMAIN ItemsOf(g, part, t)
BY DEF ItemsOf, EligibleRecords

\* A link leads to the note of an eligible record that was read for its part.
LEMMA RegistryLeadsToNotes ==
    ASSUME NEW g, NEW p, ReadsAreTyped(g, p), NEW part,
           \A t \in Linkable : <<part, t>> \in DOMAIN g,
           NEW r, NEW path \in LinkOrMarker(RegistryOf(g, part), r)
    PROVE  \E t \in Linkable : \E s \in DOMAIN ItemsOf(g, part, t) :
               s = r /\ TypeOf[r] = t /\ path = PathOf(r, ItemsOf(g, part, t)[r])
<1>1. PICK x \in RegistryOf(g, part) : x.key = <<TypeOf[r], r>> /\ path = x.path
    BY DEF LinkOrMarker, Resolve
<1>2. PICK t \in Linkable : x \in LinkRegistry(ItemsOf(g, part, t))
    BY <1>1 DEF RegistryOf, Linkable
<1>3. PICK s \in DOMAIN ItemsOf(g, part, t) : x = Target(s, ItemsOf(g, part, t)[s])
    BY <1>2 DEF LinkRegistry
<1>4. x.key = <<TypeOf[s], s>>
    BY <1>3 DEF Target
<1>5. s = r
    BY <1>1, <1>4
<1>6. TypeOf[s] = t
    <2>1. s \in DOMAIN g[<<part, t>>].items
        BY <1>3, Eligibles
    <2> QED BY <2>1 DEF ReadsAreTyped
<1>7. x.path = NotePath(NoteId(NoteTypeOf(t), t, s, ProjectOf[s]), TitleOf(s, ItemsOf(g, part, t)[s]))
    BY <1>3, <1>6 DEF Target
<1>8. NoteTypeOf(t) = t
    BY DEF NoteTypeOf, Linkable
<1> QED BY <1>1, <1>3, <1>5, <1>6, <1>7, <1>8 DEF PathOf

\* Every such note is rendered.
LEMMA NotesOfRecords ==
    ASSUME NEW g, NEW p, ReadsAreTyped(g, p), NEW t \in Linkable, <<"source", t>> \in DOMAIN g,
           NEW r \in DOMAIN ItemsOf(g, "source", t)
    PROVE  \E m \in Rendered(p, g) : m.path = PathOf(r, ItemsOf(g, "source", t)[r])
<1>1. TypeOf[r] = t
    BY Eligibles DEF ReadsAreTyped
<1>0. \A id, title, body, links, texts : BuildNote(id, title, body, links, texts).path = NotePath(id, title)
    BY NoteShape
<1>2. CASE t = "decision"
    <2>1. RenderDecision(r, ItemsOf(g, "source", t)[r], RegistryOf(g, "source")).path
            = PathOf(r, ItemsOf(g, "source", t)[r])
        BY <1>0, <1>1, <1>2 DEF RenderDecision, PathOf, TitleOf
    <2> QED BY <1>2, <2>1, SourceNotes
<1>3. CASE t = "requirement"
    <2>1. RenderRequirement(r, ItemsOf(g, "source", t)[r], RegistryOf(g, "source")).path
            = PathOf(r, ItemsOf(g, "source", t)[r])
        BY <1>0, <1>1, <1>3 DEF RenderRequirement, PathOf, TitleOf
    <2> QED BY <1>3, <2>1, SourceNotes
<1>4. CASE t = "verification"
    <2>1. RenderVerification(r, ItemsOf(g, "source", t)[r]).path = PathOf(r, ItemsOf(g, "source", t)[r])
        BY <1>0, <1>1, <1>4 DEF RenderVerification, PathOf, TitleOf
    <2> QED BY <1>4, <2>1, SourceNotes
<1> QED BY <1>2, <1>3, <1>4 DEF Linkable

\* All links of the notes on records are looked up in the registry of their reads.
LEMMA SourceLinks ==
    ASSUME NEW g, NEW p, NEW n \in Rendered(p, g), ~IsHome(n, p, g), NEW path \in LinksOf(n)
    PROVE  \E r : path \in LinkOrMarker(RegistryOf(g, "source"), r)
<1>0. \A id, title, body, links, texts : BuildNote(id, title, body, links, texts).content.links = links
    BY NoteShape
<1>1. n.id[2] # "charter"
    BY Kinds, Tags
<1>2. PICK r \in DOMAIN n.content.links : path \in n.content.links[r]
    BY <1>1 DEF LinksOf
<1>3. DOMAIN <<>> = {}
    OBVIOUS
<1>4. CASE IsState(n, p, g)
    BY <1>0, <1>2, <1>3, <1>4 DEF IsState, RenderState
<1>5. CASE IsVerification(n, g)
    BY <1>0, <1>2, <1>3, <1>5 DEF IsVerification, RenderVerification
<1>6. CASE IsIndex(n, g)
    BY <1>0, <1>2, <1>3, <1>6 DEF IsIndex, RenderConflictIndex
<1>7. CASE IsConflict(n, g)
    BY <1>0, <1>2, <1>3, <1>7 DEF IsConflict, RenderConflict
<1>8. CASE IsDecision(n, g) \/ IsRequirement(n, g)
    <2>1. \A s, rec, registry :
            /\ RenderDecision(s, rec, registry).content.links = LinkList(registry, rec.links)
            /\ RenderRequirement(s, rec, registry).content.links = LinkList(registry, rec.links)
        BY <1>0 DEF RenderDecision, RenderRequirement
    <2>2. PICK references : n.content.links = LinkList(RegistryOf(g, "source"), references)
        BY <1>8, <2>1 DEF IsDecision, IsRequirement
    <2> QED BY <1>2, <2>2 DEF LinkList
<1> QED BY Kinds, <1>4, <1>5, <1>6, <1>7, <1>8

LEMMA HomeLinks ==
    ASSUME NEW g, NEW p, NEW n, IsHome(n, p, g), NEW path \in LinksOf(n)
    PROVE  \E r : path \in LinkOrMarker(RegistryOf(g, "home"), r)
<1>0. \A id, title, body, links, texts : BuildNote(id, title, body, links, texts).content.links = links
    BY NoteShape
<1>1. n.id[2] = "charter"
    BY Tags
<1> DEFINE linked(t) == Section(g[<<"home", t>>], LinkList(RegistryOf(g, "home"), DOMAIN ItemsOf(g, "home", t)))
<1>2. n.content.links = [decisions |-> linked("decision"), requirements |-> linked("requirement"),
                         verifications |-> linked("verification")]
    <2>1. \A charter, d, q, v, s :
            LET registry == LinkRegistry(EligibleRecords(d.items)) \cup LinkRegistry(EligibleRecords(q.items))
                                \cup LinkRegistry(EligibleRecords(v.items))
                links(read) == Section(read, LinkList(registry, DOMAIN EligibleRecords(read.items)))
            IN RenderHome(p, charter, d, q, v, s).content.links
                 = [decisions |-> links(d), requirements |-> links(q), verifications |-> links(v)]
        BY <1>0 DEF RenderHome
    <2> QED BY <2>1 DEF IsHome, RegistryOf, ItemsOf
<1>3. PICK s \in {"decisions", "requirements", "verifications"} :
        \E r \in DOMAIN n.content.links[s].rows : path \in n.content.links[s].rows[r]
    BY <1>1 DEF LinksOf
<1>4. PICK t : n.content.links[s] = linked(t)
    BY <1>2, <1>3
<1>5. \A read, rows : Section(read, rows).rows \in {rows, <<>>}
    BY DEF Section
<1>6. DOMAIN <<>> = {}
    OBVIOUS
<1>7. linked(t).rows = LinkList(RegistryOf(g, "home"), DOMAIN ItemsOf(g, "home", t))
    BY <1>3, <1>4, <1>5, <1>6
<1> QED BY <1>3, <1>4, <1>7 DEF LinkList

\* A record that the eligibility rules refuse by its sensitivity or lifecycle.
Refused(rec) ==
    rec.sensitivity = "secret" \/ rec.lifecycle \in {"raw", "observed", "candidate", "deleted"}

LEMMA RefusedIsIneligible == ASSUME NEW rec, Refused(rec) PROVE ~Eligible(rec)
<1>1. CASE rec.sensitivity = "secret"
    <2>1. SecretRank = 4
        BY DEF SecretRank, Rank, SensitivityOrder
    <2>2. ~ProjectableSensitivity(rec.sensitivity)
        BY <1>1, <2>1 DEF ProjectableSensitivity, SecretRank
    <2> QED BY <1>1, <2>2 DEF Eligible, Absent
<1>2. CASE rec.lifecycle \in {"raw", "observed", "candidate", "deleted"}
    BY <1>2 DEF Eligible, ProjectedLifecycle, Absent
<1> QED BY <1>1, <1>2 DEF Refused

\* A text that a part of a rendering may show: a charter's, or that of a record
\* which is eligible as this part read it.
Shown(g, part, x) ==
    \E s \in Records : \E y \in States[s] \ {NoRecord} :
        /\ TypeOf[s] # "charter" =>
               Eligible(y) /\ (TypeOf[s] \in Linkable => y = g[<<part, TypeOf[s]>>].items[s])
        /\ x \in {y.title, y.body}

\* The part of the reads that a note is made of: the home note has its own.
PartOf(n) == IF n.id[2] = "charter" THEN "home" ELSE "source"

Titled(x, items) == \E r \in DOMAIN EligibleRecords(items) : x = EligibleRecords(items)[r].title

LEMMA HomeTexts ==
    ASSUME NEW p, NEW charter, NEW d, NEW q, NEW v, NEW s, NEW x \in RenderHome(p, charter, d, q, v, s).texts
    PROVE  \/ x \in {charter.title, charter.body}
           \/ \E read \in {d, q, v, s} : Titled(x, read.items)
<1>0. \A id, title, body, links, texts : BuildNote(id, title, body, links, texts).texts = texts
    BY NoteShape
<1> QED BY <1>0 DEF RenderHome, Titled

LEMMA TextsAreShown ==
    ASSUME NEW g, NEW p, ReadsAreTyped(g, p), ReadsAreComplete(g), NEW n \in Rendered(p, g), NEW x \in n.texts
    PROVE  Shown(g, PartOf(n), x)
<1>0. \A id, title, body, links, texts : BuildNote(id, title, body, links, texts).texts = texts
    BY NoteShape
<1>1. ASSUME NEW part, NEW t, <<part, t>> \in DOMAIN g, NEW r \in DOMAIN ItemsOf(g, part, t),
             x \in {ItemsOf(g, part, t)[r].title, ItemsOf(g, part, t)[r].body},
             part = PartOf(n) \/ t = "state"
      PROVE  Shown(g, PartOf(n), x)
    <2> DEFINE y == g[<<part, t>>].items[r]
    <2>1. r \in DOMAIN g[<<part, t>>].items /\ Eligible(y) /\ x \in {y.title, y.body}
        BY <1>1, Eligibles
    <2>2. r \in Records /\ TypeOf[r] = t /\ y \in States[r] \ {NoRecord}
        BY <1>1, <2>1 DEF ReadsAreTyped
    <2>3. TypeOf[r] \in Linkable => y = g[<<PartOf(n), TypeOf[r]>>].items[r]
        BY <1>1, <2>2 DEF Linkable
    <2> QED BY <2>1, <2>2, <2>3 DEF Shown
<1>2. CASE IsHome(n, p, g)
    <2> DEFINE charters == g[<<"home", "charter">>].items
               c == CHOOSE c \in DOMAIN charters : TRUE
    <2>1. c \in DOMAIN charters
        BY <1>2 DEF IsHome
    <2>2. CASE x \in {charters[c].title, charters[c].body}
        <3>1. <<"home", "charter">>[2] = "charter"
            OBVIOUS
        <3> QED BY <2>1, <2>2, <3>1 DEF ReadsAreComplete, ReadsAreTyped, Shown
    <2>3. ASSUME NEW t \in {"decision", "requirement", "verification", "state"},
                 Titled(x, g[<<"home", t>>].items)
          PROVE  Shown(g, PartOf(n), x)
        <3>1. PartOf(n) = "home"
            BY <1>2, Tags DEF PartOf
        <3> QED BY <1>1, <2>1, <2>3, <3>1 DEF ReadsAreComplete, Titled, ItemsOf
    <2>4. n = RenderHome(p, charters[c], g[<<"home", "decision">>], g[<<"home", "requirement">>],
                         g[<<"home", "verification">>], g[<<"home", "state">>])
        BY <1>2 DEF IsHome
    <2>5. \/ x \in {charters[c].title, charters[c].body}
          \/ \E t \in {"decision", "requirement", "verification", "state"} : Titled(x, g[<<"home", t>>].items)
        BY <2>4, HomeTexts
    <2> QED BY <2>2, <2>3, <2>5
<1>3. CASE IsState(n, p, g)
    <2>1. n.texts = UNION {{ItemsOf(g, "state", "state")[r].title, ItemsOf(g, "state", "state")[r].body}
                           : r \in DOMAIN ItemsOf(g, "state", "state")}
        BY <1>0, <1>3 DEF IsState, RenderState
    <2> QED BY <1>1, <2>1 DEF ReadsAreComplete
<1>4. CASE IsDecision(n, g)
    <2>1. PartOf(n) = "source"
        BY <1>4, Tags DEF PartOf
    <2>2. PICK r \in DOMAIN ItemsOf(g, "source", "decision") :
              x \in {ItemsOf(g, "source", "decision")[r].title, ItemsOf(g, "source", "decision")[r].body}
        BY <1>0, <1>4 DEF IsDecision, RenderDecision
    <2>3. <<"source", "decision">> \in DOMAIN g
        BY DEF ReadsAreComplete
    <2> QED BY <1>1, <2>1, <2>2, <2>3
<1>5. CASE IsRequirement(n, g)
    <2>1. PartOf(n) = "source"
        BY <1>5, Tags DEF PartOf
    <2>2. PICK r \in DOMAIN ItemsOf(g, "source", "requirement") :
              x \in {ItemsOf(g, "source", "requirement")[r].title, ItemsOf(g, "source", "requirement")[r].body}
        BY <1>0, <1>5 DEF IsRequirement, RenderRequirement
    <2>3. <<"source", "requirement">> \in DOMAIN g
        BY DEF ReadsAreComplete
    <2> QED BY <1>1, <2>1, <2>2, <2>3
<1>6. CASE IsVerification(n, g)
    <2>1. PartOf(n) = "source"
        BY <1>6, Tags DEF PartOf
    <2>2. PICK r \in DOMAIN ItemsOf(g, "source", "verification") :
              x \in {ItemsOf(g, "source", "verification")[r].title, ItemsOf(g, "source", "verification")[r].body}
        BY <1>0, <1>6 DEF IsVerification, RenderVerification
    <2>3. <<"source", "verification">> \in DOMAIN g
        BY DEF ReadsAreComplete
    <2> QED BY <1>1, <2>1, <2>2, <2>3
<1>7. CASE IsIndex(n, g)
    BY <1>0, <1>7 DEF IsIndex, RenderConflictIndex
<1>8. CASE IsConflict(n, g)
    <2> DEFINE items == ItemsOf(g, "source", "decision")
    <2>1. PICK c \in GroupConflicts(items) : n = RenderConflict(c, items)
        BY <1>8 DEF IsConflict
    <2>2. c.positions \subseteq DOMAIN items
        BY DEF GroupConflicts, Conflicted
    <2>3. n.texts = UNION {{items[r].title, items[r].body} : r \in c.positions}
        BY <1>0, <2>1 DEF RenderConflict
    <2>4. PartOf(n) = "source"
        BY <1>8, Tags DEF PartOf
    <2> QED BY <1>1, <2>2, <2>3, <2>4 DEF ReadsAreComplete
<1> QED BY Kinds, <1>2, <1>3, <1>4, <1>5, <1>6, <1>7, <1>8

-----------------------------------------------------------------------------
(***************************************************************************)
(* The run.  Fingerprints are of generated bytes only, so a file that has  *)
(* the recorded fingerprint is no person's, and a decision to replace or   *)
(* remove was taken at a file that is none.                                *)
(***************************************************************************)
Counted ==
    /\ used \in [{"changes", "human", "faults", "runs"} -> Nat]
    /\ DOMAIN db = Records /\ \A r \in Records : db[r] \in States[r]

Phases ==
    /\ pc \in {"idle", "read", "reconcile", "retire"}
    /\ pc \in {"idle", "read"} =>
          /\ intent = NoIntent /\ todo = {} /\ desired = {} /\ prior = {} /\ retired = {}
          /\ DOMAIN status = {} /\ DOMAIN kept = {}
    /\ pc = "reconcile" => todo \subseteq desired /\ retired = {} /\ intent.op # "unlink"
    /\ pc = "retire" => todo \subseteq Active(prior) /\ intent.op # "write"

\* What is wanted is what was rendered from typed and complete reads.
Rendering ==
    /\ pc = "read" => ReadsAreTyped(got, project)
    /\ pc \in {"reconcile", "retire"} =>
          /\ desired = Kept(Rendered(project, reads))
          /\ ReadsAreTyped(reads, project) /\ ReadsAreComplete(reads)

IsEntry(e) ==
    /\ DOMAIN e = {"id", "path", "fp", "status"}
    /\ e.path[3] = e.id
    /\ "human" \notin DOMAIN e.fp

Entries ==
    /\ \A e \in manifest \cup prior \cup retired : IsEntry(e)
    /\ \A id \in DOMAIN kept : "human" \notin DOMAIN kept[id]

Intended ==
    intent # NoIntent =>
        /\ looked.path = intent.path /\ \A f \in looked.at : ~IsHuman(f)
        /\ intent.op = "unlink" => intent.entry \in Active(prior)

IInv == Counted /\ Phases /\ Rendering /\ Entries /\ Intended

LEMMA TypeInit == Init => IInv
<1>1. ASSUME Init PROVE IInv
    <2>1. DOMAIN <<>> = {}
        OBVIOUS
    <2>2. Counted
        BY <1>1 DEF Init, Counted
    <2>3. Phases /\ Rendering /\ Entries /\ Intended
        BY <1>1, <2>1 DEF Init, Phases, Rendering, Entries, Intended
    <2> QED BY <2>2, <2>3 DEF IInv
<1> QED BY <1>1

LEMMA CountedStep == ASSUME IInv, [Next]_vars PROVE Counted'
<1>1. ASSUME NEW what \in {"changes", "human", "faults", "runs"}, NEW bound, Spend(what, bound)
      PROVE  used' \in [{"changes", "human", "faults", "runs"} -> Nat]
    BY <1>1 DEF Spend, IInv, Counted
<1>2. CASE \E r \in Records : Change(r)
    BY <1>1, <1>2 DEF Change, IInv, Counted
<1>3. CASE UNCHANGED db
    <2>1. used' = used \/ \E bound : \E what \in {"changes", "human", "faults", "runs"} : Spend(what, bound)
        BY DEF Next, vars, Change, HumanEdit, HumanDelete, HumanDropsManifest, Start, Read, Plan, Decide, StartRetiring,
            Retire, Replace, ReplaceRefused, Unlink, OperationFails, StoreManifest, StoreFails, Crash
    <2> QED BY <1>1, <1>3, <2>1 DEF IInv, Counted
<1> QED BY <1>2, <1>3 DEF Next, vars, HumanEdit, HumanDelete, HumanDropsManifest, Start, Read, Plan, Decide, StartRetiring,
        Retire, Replace, ReplaceRefused, Unlink, OperationFails, StoreManifest, StoreFails, Crash

LEMMA AllRead == ASSUME Awaited = {} PROVE ReadsAreComplete(got)
<1>1. \A i \in 1..9 : ReadOrder[i] \in DOMAIN got \/ Skipped(ReadOrder[i])
    BY DEF Awaited
<1>2. /\ ReadOrder[1] = <<"home", "charter">> /\ ReadOrder[2] = <<"home", "decision">>
      /\ ReadOrder[3] = <<"home", "requirement">> /\ ReadOrder[4] = <<"home", "verification">>
      /\ ReadOrder[5] = <<"home", "state">> /\ ReadOrder[6] = <<"state", "state">>
      /\ ReadOrder[7] = <<"source", "decision">> /\ ReadOrder[8] = <<"source", "requirement">>
      /\ ReadOrder[9] = <<"source", "verification">>
    BY DEF ReadOrder
<1>3. <<"home", "charter">> \in DOMAIN got
    BY <1>1, <1>2 DEF Skipped
<1>4. \A k \in {<<"state", "state">>, <<"source", "decision">>, <<"source", "requirement">>, <<"source", "verification">>} :
          k \in DOMAIN got
    BY <1>1, <1>2 DEF Skipped
<1>5. ASSUME DOMAIN got[<<"home", "charter">>].items # {},
             NEW t \in {"decision", "requirement", "verification", "state"}
      PROVE  <<"home", t>> \in DOMAIN got
    BY <1>1, <1>2, <1>5 DEF Skipped
<1> QED BY <1>3, <1>4, <1>5 DEF ReadsAreComplete

LEMMA RenderingStep == ASSUME IInv, [Next]_vars PROVE Rendering'
<1>1. CASE Start
    <2>1. DOMAIN <<>> = {}
        OBVIOUS
    <2> QED BY <1>1, <2>1 DEF Start, Rendering, ReadsAreTyped
<1>2. CASE Read
    <2>1. PICK k : got' = With(got, k, Authorized(k[2]))
        BY <1>2 DEF Read
    <2>2. \A r \in DOMAIN Authorized(k[2]).items :
            /\ r \in Records /\ TypeOf[r] = k[2] /\ ProjectOf[r] = project
            /\ Authorized(k[2]).items[r] \in States[r] \ {NoRecord}
        <3>1. DOMAIN <<>> = {}
            OBVIOUS
        <3> QED BY <3>1 DEF Authorized, Nothing, IInv, Counted
    <2>3. pc = "read" /\ pc' = "read" /\ project' = project
        BY <1>2 DEF Read
    <2>4. DOMAIN got' = DOMAIN got \cup {k} /\ \A x \in DOMAIN got' : x # k => got'[x] = got[x]
        BY <2>1 DEF With
    <2>5. got'[k] = Authorized(k[2])
        BY <2>1 DEF With
    <2>6. ReadsAreTyped(got', project)
        BY <2>2, <2>3, <2>4, <2>5 DEF ReadsAreTyped, IInv, Rendering
    <2> QED BY <2>3, <2>6 DEF Rendering
<1>3. CASE Plan
    <2>1. /\ pc = "read" /\ pc' = "reconcile" /\ reads' = got /\ project' = project
          /\ desired' = Kept(Rendered(project, got))
        BY <1>3 DEF Plan
    <2>2. ReadsAreComplete(got)
        BY <1>3, AllRead DEF Plan
    <2> QED BY <2>1, <2>2 DEF Rendering, IInv
<1>4. CASE pc' = "idle"
    BY <1>4 DEF Rendering
<1>5. CASE /\ UNCHANGED <<got, project, desired, reads>>
           /\ pc' = pc \/ (pc = "reconcile" /\ pc' = "retire")
    BY <1>5 DEF IInv, Rendering
<1>6. ASSUME NEW r \in Records, Change(r) PROVE Rendering'
    BY <1>5, <1>6 DEF Change, run, history
<1>7. CASE HumanEdit \/ HumanDelete \/ HumanDropsManifest
    BY <1>5, <1>7 DEF HumanEdit, HumanDelete, HumanDropsManifest, run
<1>8. CASE Decide \/ StartRetiring \/ Retire
    BY <1>5, <1>8 DEF Decide, StartRetiring, Retire, Deciding, history
<1>9. CASE Replace \/ ReplaceRefused \/ Unlink \/ OperationFails
    BY <1>5, <1>9 DEF Replace, ReplaceRefused, Unlink, OperationFails, history
<1>10. CASE StoreManifest \/ StoreFails \/ Crash
    BY <1>4, <1>10 DEF StoreManifest, StoreFails, Crash, Stop
<1>11. CASE UNCHANGED vars
    BY <1>5, <1>11 DEF vars, run, history
<1> QED BY <1>1, <1>2, <1>3, <1>6, <1>7, <1>8, <1>9, <1>10, <1>11 DEF Next

LEMMA PhasesStep == ASSUME IInv, [Next]_vars PROVE Phases'
<1> USE DEF IInv, Phases
<1>1. CASE Start \/ Read
    BY <1>1 DEF Start, Read
<1>2. CASE Plan
    <2>1. DOMAIN <<>> = {}
        OBVIOUS
    <2> QED BY <1>2, <2>1 DEF Plan, NoIntent
<1>3. CASE Decide
    <2>1. UNCHANGED <<pc, desired, prior, retired>> /\ pc = "reconcile" /\ intent.op = "none"
        BY <1>3 DEF Decide, Deciding, NoIntent
    <2>2. \A n, p : Intend(n, Write(n, p)) => todo' \subseteq todo /\ intent'.op = "write"
        BY DEF Intend, Write
    <2>3. \A n : Settle(n) => todo' \subseteq todo /\ intent' = intent
        BY DEF Settle
    <2>4. \A n, e : MeetHumanEdit(n, e) => Settle(n) \/ \E p : Intend(n, Write(n, p))
        BY DEF MeetHumanEdit
    <2>5. \A n, listed : MeetOther(n, listed) => Settle(n) \/ \E p : Intend(n, Write(n, p))
        BY DEF MeetOther
    <2>6. \E n : Settle(n) \/ \E p : Intend(n, Write(n, p))
        BY <1>3, <2>4, <2>5 DEF Decide
    <2> QED BY <2>1, <2>2, <2>3, <2>6
<1>4. CASE StartRetiring
    BY <1>4 DEF StartRetiring, Deciding, Active, NoIntent
<1>5. CASE Retire
    <2>1. UNCHANGED <<pc, desired, prior, retired>> /\ pc = "retire" /\ intent.op = "none"
        BY <1>5 DEF Retire, NoIntent
    <2>2. \E e : Settle(e) \/ Intend(e, [op |-> "unlink", path |-> e.path, entry |-> e])
        BY <1>5 DEF Retire
    <2> QED BY <2>1, <2>2 DEF Settle, Intend
<1>6. ASSUME NEW r \in Records, Change(r) PROVE Phases'
    BY <1>6 DEF Change, run
<1>7. CASE HumanEdit \/ HumanDelete \/ HumanDropsManifest
    BY <1>7 DEF HumanEdit, HumanDelete, HumanDropsManifest, run
<1>8. CASE Replace \/ ReplaceRefused \/ OperationFails
    BY <1>8 DEF Replace, ReplaceRefused, OperationFails, Finish, NoIntent
<1>9. CASE Unlink
    BY <1>9 DEF Unlink, Finish, NoIntent
<1>10. CASE StoreManifest \/ StoreFails \/ Crash
    <2>1. DOMAIN <<>> = {}
        OBVIOUS
    <2> QED BY <1>10, <2>1 DEF StoreManifest, StoreFails, Crash, Stop, Stored, Finish
<1>11. CASE UNCHANGED vars
    BY <1>11 DEF vars, run
<1> QED BY <1>1, <1>2, <1>3, <1>4, <1>5, <1>6, <1>7, <1>8, <1>9, <1>10, <1>11 DEF Next

\* A note made by a rendering is no person's.
LEMMA DesiredIsGenerated ==
    ASSUME IInv, NEW n \in desired PROVE IsNote(n) /\ "human" \notin DOMAIN n.content
<1>1. n \in Rendered(project, reads)
    BY DEF IInv, Phases, Rendering, Kept
<1>2. IsNote(n)
    BY <1>1, RenderedAreNotes
<1> QED BY <1>2 DEF IsNote

LEMMA EntriesStep == ASSUME IInv, [Next]_vars PROVE Entries'
<1> USE DEF IInv, Entries
<1>1. CASE Start \/ Read
    BY <1>1 DEF Start, Read, disk
<1>2. CASE Plan
    <2>1. DOMAIN <<>> = {}
        OBVIOUS
    <2> QED BY <1>2, <2>1 DEF Plan, disk
<1>3. CASE Decide
    <2>1. UNCHANGED <<manifest, prior, retired>>
        BY <1>3 DEF Decide, disk
    <2>2. PICK n \in todo : LET listed == EntriesOf(prior, n.id)
                            IN IF Classify(n.id, n.path, listed, TRUE) = "generated_human_modified"
                               THEN MeetHumanEdit(n, CHOOSE e \in listed : TRUE)
                               ELSE MeetOther(n, listed)
        BY <1>3 DEF Decide, NextIn
    <2>3. CASE Classify(n.id, n.path, EntriesOf(prior, n.id), TRUE) = "generated_human_modified"
        <3>1. EntriesOf(prior, n.id) # {} /\ EntriesOf(prior, n.id) \subseteq prior
            BY <2>3 DEF Classify, EntriesOf
        <3>2. PICK e \in prior : MeetHumanEdit(n, e)
            BY <2>2, <2>3, <3>1
        <3>3. kept' = With(kept, n.id, e.fp)
            BY <3>2 DEF MeetHumanEdit, Override
        <3> QED BY <2>1, <3>2, <3>3 DEF With, IsEntry
    <2>4. CASE Classify(n.id, n.path, EntriesOf(prior, n.id), TRUE) # "generated_human_modified"
        BY <2>1, <2>2, <2>4 DEF MeetOther
    <2> QED BY <2>3, <2>4
<1>4. CASE StartRetiring \/ Retire
    BY <1>4 DEF StartRetiring, Retire, disk
<1>5. ASSUME NEW r \in Records, Change(r) PROVE Entries'
    BY <1>5 DEF Change, run, disk
<1>6. CASE HumanEdit \/ HumanDelete \/ HumanDropsManifest
    BY <1>6 DEF HumanEdit, HumanDelete, HumanDropsManifest, run
<1>7. CASE Replace \/ ReplaceRefused \/ OperationFails
    BY <1>7 DEF Replace, ReplaceRefused, OperationFails, disk
<1>8. CASE Unlink
    <2>1. intent.entry \in prior
        BY <1>8 DEF Unlink, Intended, Active, NoIntent
    <2>2. IsEntry([intent.entry EXCEPT !.status = "retired"])
        BY <2>1 DEF IsEntry
    <2> QED BY <1>8, <2>2 DEF Unlink
<1>9. CASE StoreManifest
    <2>1. \A n \in desired : IsEntry(Entry(n))
        BY DesiredIsGenerated DEF IsNote, IsEntry, Entry
    <2>2. \A e \in NewManifest : IsEntry(e)
        BY <2>1 DEF NewManifest
    <2>3. DOMAIN <<>> = {}
        OBVIOUS
    <2> QED BY <1>9, <2>2, <2>3 DEF StoreManifest
<1>10. CASE StoreFails \/ Crash
    <2>1. DOMAIN <<>> = {}
        OBVIOUS
    <2> QED BY <1>10, <2>1 DEF StoreFails, Crash, Stop, disk
<1>11. CASE UNCHANGED vars
    BY <1>11 DEF vars, run, disk
<1> QED BY <1>1, <1>2, <1>3, <1>4, <1>5, <1>6, <1>7, <1>8, <1>9, <1>10, <1>11 DEF Next

LEMMA IntendedStep == ASSUME IInv, [Next]_vars PROVE Intended'
<1> USE DEF IInv, Intended
<1>1. CASE UNCHANGED <<intent, looked, prior>> \/ intent' = NoIntent
    BY <1>1
<1>2. CASE Decide
    <2>1. PICK n \in todo : LET listed == EntriesOf(prior, n.id)
                            IN IF Classify(n.id, n.path, listed, TRUE) = "generated_human_modified"
                               THEN MeetHumanEdit(n, CHOOSE e \in listed : TRUE)
                               ELSE MeetOther(n, listed)
        BY <1>2 DEF Decide, NextIn
    <2>2. ASSUME NEW p, Intend(n, Write(n, p)), \A f \in At(p) : ~IsHuman(f) PROVE Intended'
        <3>1. intent'.op = "write" /\ looked'.path = intent'.path /\ looked'.at = At(p)
            BY <2>2 DEF Intend, Write
        <3> QED BY <2>2, <3>1
    <2>3. CASE Settle(n)
        BY <2>3, <1>1, <1>2 DEF Settle, Decide
    <2>4. ASSUME NEW e, MeetHumanEdit(n, e) PROVE Intended'
        BY <2>2, <2>3, <2>4 DEF MeetHumanEdit
    <2>5. ASSUME MeetOther(n, EntriesOf(prior, n.id)),
                 Classify(n.id, n.path, EntriesOf(prior, n.id), TRUE) # "generated_human_modified"
          PROVE  Intended'
        <3>1. CASE n.path \notin DOMAIN file
            BY <2>2, <2>5, <3>1 DEF MeetOther, At
        <3>2. CASE /\ n.path \in DOMAIN file /\ EntriesOf(prior, n.id) # {} /\ Marked(n.path, n.id)
                   /\ Intend(n, Write(n, n.path))
            <4>0. EntriesOf(prior, n.id) \subseteq prior
                BY DEF EntriesOf
            <4> DEFINE listed == EntriesOf(prior, n.id)
            <4>1. \A e \in listed : e.fp = file[n.path].bytes
                <5> HIDE DEF listed
                <5>1. Classify(n.id, n.path, listed, TRUE) # "generated_human_modified"
                    BY <2>5 DEF listed
                <5>2. n.path \in DOMAIN file /\ listed # {} /\ Marked(n.path, n.id)
                    BY <3>2 DEF listed
                <5> QED BY <5>1, <5>2 DEF Classify
            <4>2. PICK e \in prior : e.fp = file[n.path].bytes
                BY <3>2, <4>0, <4>1
            <4>3. \A f \in At(n.path) : ~IsHuman(f)
                BY <4>2 DEF At, IsHuman, Entries, IsEntry
            <4> QED BY <2>2, <3>2, <4>3
        <3> QED BY <2>3, <2>5, <3>1, <3>2 DEF MeetOther
    <2> QED BY <2>1, <2>4, <2>5
<1>3. CASE Retire
    <2>1. pc = "retire" /\ prior' = prior
        BY <1>3 DEF Retire
    <2>2. PICK e \in todo : \/ Settle(e)
                            \/ /\ Classify(e.id, e.path, {e}, FALSE) = "stale_generated"
                               /\ Intend(e, [op |-> "unlink", path |-> e.path, entry |-> e])
        BY <1>3 DEF Retire, NextIn
    <2>3. CASE Settle(e)
        BY <1>1, <2>1, <2>3 DEF Settle
    <2>4. CASE /\ Classify(e.id, e.path, {e}, FALSE) = "stale_generated"
               /\ Intend(e, [op |-> "unlink", path |-> e.path, entry |-> e])
        <3>1. e \in Active(prior) /\ IsEntry(e)
            BY <2>1 DEF Phases, Entries, Active
        <3>2. e.path \in DOMAIN file /\ e.fp = file[e.path].bytes
            BY <2>4 DEF Classify
        <3>3. \A f \in At(e.path) : ~IsHuman(f)
            BY <3>1, <3>2 DEF At, IsHuman, IsEntry
        <3>4. /\ intent'.path = e.path /\ intent'.entry = e
              /\ looked'.path = e.path /\ looked'.at = At(e.path)
            BY <2>4 DEF Intend
        <3> QED BY <2>1, <3>1, <3>3, <3>4
    <2> QED BY <2>2, <2>3, <2>4
<1>4. CASE Start \/ Read \/ StartRetiring
    BY <1>1, <1>4 DEF Start, Read, StartRetiring
<1>5. CASE Plan
    BY <1>5 DEF Plan, Phases
<1>6. ASSUME NEW r \in Records, Change(r) PROVE Intended'
    BY <1>1, <1>6 DEF Change, run
<1>7. CASE HumanEdit \/ HumanDelete \/ HumanDropsManifest
    BY <1>1, <1>7 DEF HumanEdit, HumanDelete, HumanDropsManifest, run
<1>8. CASE Replace \/ ReplaceRefused \/ Unlink \/ OperationFails
    BY <1>1, <1>8 DEF Replace, ReplaceRefused, Unlink, OperationFails, Finish
<1>9. CASE StoreManifest \/ StoreFails \/ Crash
    BY <1>1, <1>9 DEF StoreManifest, StoreFails, Crash, Stop, Stored, Finish
<1>10. CASE UNCHANGED vars
    BY <1>1, <1>10 DEF vars, run
<1> QED BY <1>2, <1>3, <1>4, <1>5, <1>6, <1>7, <1>8, <1>9, <1>10 DEF Next

\* Every reachable state satisfies the invariant.
THEOREM Invariance == Spec => []IInv
<1>1. IInv /\ [Next]_vars => IInv'
    BY CountedStep, PhasesStep, RenderingStep, EntriesStep, IntendedStep DEF IInv
<1> QED BY TypeInit, <1>1, PTL DEF Spec

-----------------------------------------------------------------------------
\* What a person wrote is destroyed only by an operation decided on before it
\* was there, for any records, reads, faults and hands.
THEOREM HumanBytesAlwaysSurvive == Spec => HumanBytesSurvive
<1> DEFINE Spared ==
      \A p \in DOMAIN file :
         IsHuman(file[p]) /\ (IF p \in DOMAIN file' THEN file'[p] # file[p] ELSE TRUE)
            => \/ used'.human > used.human
               \/ looked.path = p /\ looked.at # {file[p]}
<1>1. IInv /\ [Next]_vars => Spared
    <2> SUFFICES ASSUME IInv, [Next]_vars, file' # file PROVE Spared
        OBVIOUS
    <2>1. CASE HumanEdit \/ HumanDelete
        BY <2>1 DEF HumanEdit, HumanDelete, Spend, IInv, Counted
    <2>2. CASE Replace
        <3>1. intent # NoIntent
            BY <2>2 DEF Replace, NoIntent
        <3> QED BY <2>2, <3>1 DEF Replace, With, IInv, Intended
    <2>3. CASE Unlink
        <3>1. intent # NoIntent
            BY <2>3 DEF Unlink, NoIntent
        <3> QED BY <2>3, <3>1 DEF Unlink, Without, IInv, Intended
    <2> QED BY <2>1, <2>2, <2>3 DEF Next, vars, disk, Change, HumanDropsManifest, Start, Read, Plan, Decide, StartRetiring,
            Retire, ReplaceRefused, OperationFails, StoreManifest, StoreFails, Crash
<1>2. IInv /\ [Next]_vars => [Spared]_vars
    BY <1>1
<1>3. [][Spared]_vars <=> HumanBytesSurvive
    BY PTL DEF HumanBytesSurvive
<1> HIDE DEF Spared
<1> QED BY <1>2, <1>3, Invariance, PTL DEF Spec

-----------------------------------------------------------------------------
\* What the notes show and where they lead.
LEMMA LinksAlwaysResolve == ASSUME IInv PROVE LinksResolve
<1> SUFFICES ASSUME pc \in {"reconcile", "retire"}, NEW n \in desired, n.id[2] = "charter" => SameReads,
                    NEW p \in LinksOf(n)
             PROVE  (\E m \in desired : m.path = p) \/ Withheld(p)
    BY DEF LinksResolve
<1>1. /\ desired = Kept(Rendered(project, reads))
      /\ ReadsAreTyped(reads, project) /\ ReadsAreComplete(reads)
    BY DEF IInv, Rendering
<1>2. n \in Rendered(project, reads)
    BY <1>1 DEF Kept
<1>3. ASSUME NEW t \in Linkable, NEW r \in DOMAIN ItemsOf(reads, "source", t),
             p = PathOf(r, ItemsOf(reads, "source", t)[r])
      PROVE  (\E m \in desired : m.path = p) \/ Withheld(p)
    <2>1. PICK m \in Rendered(project, reads) : m.path = p
        BY <1>1, <1>3, NotesOfRecords DEF ReadsAreComplete, Linkable
    <2> QED BY <1>1, <2>1 DEF Kept, Withheld
<1>4. CASE IsHome(n, project, reads)
    <2>1. \A t \in Linkable : <<"home", t>> \in DOMAIN reads
        BY <1>1, <1>4 DEF IsHome, ReadsAreComplete, Linkable
    <2>2. SameReads
        BY <1>4, Tags
    <2>3. \A t \in Linkable : ItemsOf(reads, "home", t) = ItemsOf(reads, "source", t)
        BY <2>1, <2>2 DEF SameReads, ItemsOf, Linkable
    <2>4. PICK r : p \in LinkOrMarker(RegistryOf(reads, "home"), r)
        BY <1>4, HomeLinks
    <2> QED BY <1>1, <1>3, <2>1, <2>3, <2>4, RegistryLeadsToNotes
<1>5. CASE ~IsHome(n, project, reads)
    <2>1. \A t \in Linkable : <<"source", t>> \in DOMAIN reads
        BY <1>1 DEF ReadsAreComplete, Linkable
    <2>2. PICK r : p \in LinkOrMarker(RegistryOf(reads, "source"), r)
        BY <1>2, <1>5, SourceLinks
    <2> QED BY <1>1, <1>3, <2>1, <2>2, RegistryLeadsToNotes
<1> QED BY <1>4, <1>5

\* The title of a refused record is no text of another that may be shown, so
\* that a text tells whose it is.  (A record may keep its title when it becomes
\* eligible, or stops being so, between two reads.)
TitlesTell ==
    \A r, s \in Records : \A x \in States[r] \ {NoRecord}, y \in States[s] \ {NoRecord} :
        r # s /\ Refused(x) /\ (TypeOf[s] = "charter" \/ Eligible(y)) => x.title \notin {y.title, y.body}

LEMMA RefusedIsNotShown == ASSUME IInv, TitlesTell PROVE IneligibleIsNotShown
<1> SUFFICES ASSUME pc = "reconcile", NEW part \in {"home", "source"},
                    NEW t \in {"decision", "requirement", "verification"}, <<part, t>> \in DOMAIN reads,
                    NEW r \in DOMAIN reads[<<part, t>>].items, Refused(reads[<<part, t>>].items[r]),
                    NEW n \in desired, (n.id[2] = "charter") = (part = "home")
             PROVE  /\ reads[<<part, t>>].items[r].title \notin n.texts
                    /\ NotePath(NoteId(t, t, r, project), TitleOf(r, reads[<<part, t>>].items[r])) \notin LinksOf(n)
    BY DEF IneligibleIsNotShown, Refused
<1> DEFINE rec == reads[<<part, t>>].items[r]
<1>1. /\ desired = Kept(Rendered(project, reads))
      /\ ReadsAreTyped(reads, project) /\ ReadsAreComplete(reads)
    BY DEF IInv, Rendering
<1>2. n \in Rendered(project, reads)
    BY <1>1 DEF Kept
<1>3. ~Eligible(rec)
    BY RefusedIsIneligible
<1>4. r \in Records /\ TypeOf[r] = t /\ ProjectOf[r] = project /\ rec \in States[r] \ {NoRecord}
    BY <1>1 DEF ReadsAreTyped
<1>5. rec.title \notin n.texts
    <2> SUFFICES ASSUME rec.title \in n.texts PROVE FALSE
        OBVIOUS
    <2>1. Shown(reads, PartOf(n), rec.title)
        BY <1>1, <1>2, TextsAreShown
    <2>2. PartOf(n) = part
        BY DEF PartOf
    <2>3. PICK s \in Records : \E y \in States[s] \ {NoRecord} :
              /\ TypeOf[s] # "charter" =>
                     Eligible(y) /\ (TypeOf[s] \in Linkable => y = reads[<<part, TypeOf[s]>>].items[s])
              /\ rec.title \in {y.title, y.body}
        BY <2>1, <2>2 DEF Shown
    <2>4. CASE s = r
        BY <1>3, <1>4, <2>3, <2>4 DEF Linkable
    <2>5. CASE s # r
        BY <1>4, <2>3, <2>5 DEF TitlesTell
    <2> QED BY <2>4, <2>5
<1>6. ASSUME NEW path \in LinksOf(n), path = NotePath(NoteId(t, t, r, project), TitleOf(r, rec)) PROVE FALSE
    <2>1. \A u \in Linkable : <<part, u>> \in DOMAIN reads
        <3>1. CASE part = "source"
            BY <1>1, <3>1 DEF ReadsAreComplete, Linkable
        <3>2. CASE part = "home"
            <4>1. IsHome(n, project, reads)
                BY <1>2, <3>2, Kinds, Tags
            <4> QED BY <1>1, <3>2, <4>1 DEF IsHome, ReadsAreComplete, Linkable
        <3> QED BY <3>1, <3>2
    <2>2. PICK s : path \in LinkOrMarker(RegistryOf(reads, part), s)
        <3>1. CASE part = "source"
            <4>1. ~IsHome(n, project, reads)
                BY <3>1, Tags
            <4> QED BY <1>2, <1>6, <3>1, <4>1, SourceLinks
        <3>2. CASE part = "home"
            <4>1. IsHome(n, project, reads)
                BY <1>2, <3>2, Kinds, Tags
            <4> QED BY <1>6, <3>2, <4>1, HomeLinks
        <3> QED BY <3>1, <3>2
    <2>3. PICK u \in Linkable : /\ s \in DOMAIN ItemsOf(reads, part, u) /\ TypeOf[s] = u
                                /\ path = PathOf(s, ItemsOf(reads, part, u)[s])
        BY <1>1, <2>1, <2>2, RegistryLeadsToNotes
    <2>4. s = r
        BY <1>6, <2>3 DEF PathOf, NotePath, NoteId
    <2>5. u = t
        BY <1>4, <2>3, <2>4
    <2> QED BY <1>3, <2>3, <2>4, <2>5, Eligibles
<1> QED BY <1>5, <1>6

\* A run shows what it may and leads only to what it shows, for any records and
\* any changes between its reads.
THEOREM NotesStaySound == TitlesTell => (Spec => []NotesAreSound)
<1> SUFFICES ASSUME TitlesTell PROVE Spec => []NotesAreSound
    OBVIOUS
<1>1. IInv => NotesAreSound
    BY LinksAlwaysResolve, RefusedIsNotShown DEF NotesAreSound
<1> QED BY <1>1, Invariance, PTL

-----------------------------------------------------------------------------
(***************************************************************************)
(* As long as the vault is calm, each step of a run knows what every file  *)
(* holds: the note that was placed there, or what the last run left.       *)
(***************************************************************************)
Left(e) == [marker |-> e.id, bytes |-> e.fp]
Made(n) == [marker |-> n.id, bytes |-> n.content]

\* One entry for each note that is there, and no second one that is gone.
OneEntryEach(m) == \A e \in m, f \in Active(m) : e.id = f.id => e = f

\* The notes that the run has dealt with and written, or found written.
Placed == {n \in desired : n \notin todo /\ intent # Write(n, n.path)}

BetweenRuns ==
    /\ DOMAIN file = {e.path : e \in Active(manifest)}
    /\ \A e \in Active(manifest) : file[e.path] = Left(e)
    /\ \A e \in Active(manifest) : \E n \in done : n.id = e.id /\ n.path = e.path /\ n.content = e.fp
    /\ \A n \in done : \E e \in Active(manifest) : n.id = e.id /\ n.path = e.path /\ n.content = e.fp

WhileReconciling ==
    /\ DOMAIN status = {}
    /\ intent # NoIntent => \E n \in desired : n \notin todo /\ intent = Write(n, n.path)
    /\ \A p : p \in DOMAIN file <=> (\E e \in Active(prior) : e.path = p) \/ (\E n \in Placed : n.path = p)
    /\ \A n \in Placed : file[n.path] = Made(n)
    /\ \A e \in Active(prior) : (\A n \in Placed : n.path # e.path) => file[e.path] = Left(e)

WhileRetiring ==
    /\ intent # NoIntent =>
          /\ intent.path = intent.entry.path /\ intent.entry \notin todo
          /\ \A n \in desired : n.id # intent.entry.id
    /\ \A p : p \in DOMAIN file <=>
           \/ \E n \in desired : n.path = p
           \/ \E e \in todo : e.path = p
           \/ intent # NoIntent /\ intent.path = p
    /\ \A n \in desired : file[n.path] = Made(n)
    /\ \A e \in todo : (\A n \in desired : n.path # e.path) => file[e.path] = Left(e)
    /\ \A e \in retired : e.status = "retired" /\ \A n \in desired : n.id # e.id

Undisturbed ==
    calm =>
        /\ temps = {} /\ DOMAIN kept = {}
        /\ OneEntryEach(manifest)
        /\ pc \in {"idle", "read"} => BetweenRuns
        /\ pc \in {"reconcile", "retire"} => prior = manifest /\ ~Moved(desired, prior)
        /\ pc = "reconcile" => WhileReconciling
        /\ pc = "retire" => WhileRetiring

Statuses == \A id \in DOMAIN status : status[id] # "retired"

LEMMA PathsTell ==
    ASSUME IInv
    PROVE  /\ \A n, m \in desired : n.path = m.path => n = m
           /\ \A n, m \in desired : n.id = m.id => n = m
           /\ \A n \in desired, e \in prior : n.path = e.path => n.id = e.id
           /\ \A e, f \in prior : e.path = f.path => e.id = f.id
<1>1. \A n \in desired : n.path[3] = n.id
    BY DesiredIsGenerated DEF IsNote
<1>2. \A e \in prior : e.path[3] = e.id
    BY DEF IInv, Entries, IsEntry
<1>3. \A n, m \in desired : n.id = m.id => n = m
    BY IdentitiesAreUnique DEF IInv, Phases, Rendering, Kept
<1> QED BY <1>1, <1>2, <1>3

\* What a calm run decides on a note: it is there as wanted, or it is written.
LEMMA CalmDecision ==
    ASSUME IInv, Undisturbed, calm, Decide
    PROVE  /\ UNCHANGED <<status, kept>>
           /\ \E n \in todo :
                \/ Settle(n) /\ n.path \in DOMAIN file /\ file[n.path] = Made(n)
                \/ Intend(n, Write(n, n.path))
<1>0. /\ pc = "reconcile" /\ todo \subseteq desired /\ OneEntryEach(prior) /\ WhileReconciling
    BY DEF Decide, Deciding, IInv, Phases, Undisturbed
<1>1. PICK n \in todo : LET listed == EntriesOf(prior, n.id)
                        IN IF Classify(n.id, n.path, listed, TRUE) = "generated_human_modified"
                           THEN MeetHumanEdit(n, CHOOSE e \in listed : TRUE)
                           ELSE MeetOther(n, listed)
    BY DEF Decide, NextIn
<1>2. CASE n.path \notin DOMAIN file
    BY <1>1, <1>2 DEF Classify, MeetOther
<1>3. CASE n.path \in DOMAIN file
    <2>1. \A m \in Placed : m.path # n.path
        BY <1>0, PathsTell DEF Placed
    <2>2. PICK e \in Active(prior) : e.path = n.path
        BY <1>0, <1>3, <2>1 DEF WhileReconciling
    <2>3. file[n.path] = Left(e)
        BY <1>0, <2>1, <2>2 DEF WhileReconciling
    <2>4. e \in prior /\ e.status # "retired" /\ e.id = n.id
        BY <1>0, <2>2, PathsTell DEF Active
    <2>5. EntriesOf(prior, n.id) = {e}
        BY <1>0, <2>2, <2>4 DEF OneEntryEach, EntriesOf
    <2>6. Marked(n.path, n.id) /\ e.fp = file[n.path].bytes
        BY <1>3, <2>3, <2>4 DEF Marked, Left
    <2>7. Classify(n.id, n.path, {e}, TRUE) = "generated_unchanged"
        BY <1>3, <2>6 DEF Classify
    <2>8. MeetOther(n, {e})
        BY <1>1, <2>5, <2>7
    <2>9. file[n.path].bytes = n.content => file[n.path] = Made(n)
        BY <2>3, <2>4 DEF Left, Made
    <2> QED BY <1>3, <2>6, <2>8, <2>9 DEF MeetOther
<1> QED BY <1>2, <1>3

\* What a calm run decides on an entry: its file is wanted, or it is removed.
LEMMA CalmRetirement ==
    ASSUME IInv, Undisturbed, calm, Retire
    PROVE  \E e \in todo :
              /\ e \in Active(prior)
              /\ \/ Settle(e) /\ \E n \in desired : n.path = e.path
                 \/ /\ Intend(e, [op |-> "unlink", path |-> e.path, entry |-> e])
                    /\ \A n \in desired : n.id # e.id
<1>0. /\ pc = "retire" /\ todo \subseteq Active(prior) /\ WhileRetiring /\ ~Moved(desired, prior)
    BY DEF Retire, IInv, Phases, Undisturbed
<1>1. PICK e \in todo :
        LET class == Classify(e.id, e.path, {e}, FALSE)
        IN IF class # "stale_generated" THEN Settle(e)
           ELSE IF Unwanted(e) THEN Intend(e, [op |-> "unlink", path |-> e.path, entry |-> e]) ELSE Settle(e)
    BY DEF Retire, NextIn
<1>2. e \in Active(prior) /\ e \in prior
    BY <1>0 DEF Active
<1>3. CASE \E n \in desired : n.path = e.path
    <2>1. ~Unwanted(e)
        BY <1>2, <1>3, PathsTell DEF Unwanted
    <2> QED BY <1>1, <1>2, <1>3, <2>1
<1>4. CASE \A n \in desired : n.path # e.path
    <2>1. e.path \in DOMAIN file /\ file[e.path] = Left(e)
        BY <1>0, <1>4 DEF WhileRetiring
    <2>2. Classify(e.id, e.path, {e}, FALSE) = "stale_generated"
        BY <2>1 DEF Classify, Marked, Left
    <2>3. Unwanted(e)
        BY <1>4 DEF Unwanted
    <2>4. \A n \in desired : n.id # e.id
        BY <1>0, <1>2, <1>4 DEF Moved
    <2> QED BY <1>1, <1>2, <2>2, <2>3, <2>4
<1> QED BY <1>3, <1>4

LEMMA StatusesStep == ASSUME Statuses, [Next]_vars PROVE Statuses'
<1>1. CASE status' = status \/ status' = <<>>
    BY <1>1 DEF Statuses
<1>2. ASSUME NEW id, NEW s \in {"edit_conflict", "human_modified"}, status' = With(status, id, s) PROVE Statuses'
    BY <1>2 DEF Statuses, With
<1>3. CASE Decide
    BY <1>1, <1>2, <1>3 DEF Decide, MeetHumanEdit, MeetOther, Override
<1>4. CASE Retire
    BY <1>1, <1>2, <1>4 DEF Retire
<1> QED BY <1>1, <1>3, <1>4 DEF Next, vars, run, Change, HumanEdit, HumanDelete, HumanDropsManifest, Start, Read, Plan,
        StartRetiring, Replace, ReplaceRefused, Unlink, OperationFails, StoreManifest, StoreFails, Crash, Stop

\* The manifest of a calm run has the notes that it wrote and what it removed.
LEMMA CalmManifest ==
    ASSUME IInv, Undisturbed, Statuses, calm, Stored
    PROVE  /\ \A n \in desired : /\ Entry(n) \in Active(NewManifest)
                                  /\ Entry(n).id = n.id /\ Entry(n).path = n.path /\ Entry(n).fp = n.content
           /\ \A e \in Active(NewManifest) : \E n \in desired : e = Entry(n)
           /\ OneEntryEach(NewManifest)
<1>0. WhileRetiring /\ DOMAIN kept = {}
    BY DEF Stored, Undisturbed
<1>1. \A n \in desired : /\ Entry(n).id = n.id /\ Entry(n).path = n.path /\ Entry(n).fp = n.content
                          /\ Entry(n).status # "retired"
    BY <1>0 DEF Entry, Statuses
<1>2. \A e \in retired : e.status = "retired" /\ \A n \in desired : n.id # e.id
    BY <1>0 DEF WhileRetiring
<1>3. \A e \in Active(NewManifest) : \E n \in desired : e = Entry(n)
    BY <1>2 DEF Active, NewManifest
<1>4. \A n \in desired : Entry(n) \in Active(NewManifest)
    BY <1>1 DEF Active, NewManifest
<1>5. OneEntryEach(NewManifest)
    <2> SUFFICES ASSUME NEW e \in NewManifest, NEW f \in Active(NewManifest), e.id = f.id PROVE e = f
        BY DEF OneEntryEach
    <2>1. PICK n \in desired : f = Entry(n)
        BY <1>3
    <2>2. e \notin retired
        BY <1>1, <1>2, <2>1
    <2>3. PICK m \in desired : e = Entry(m)
        BY <2>2 DEF NewManifest
    <2> QED BY <1>1, <2>1, <2>3, PathsTell
<1> QED BY <1>1, <1>3, <1>4, <1>5

LEMMA UndisturbedStep == ASSUME IInv, Statuses, Undisturbed, [Next]_vars PROVE Undisturbed'
<1> SUFFICES ASSUME calm' PROVE Undisturbed'
    BY DEF Undisturbed
<1>0. calm
    BY DEF Next, vars, history, Change, HumanEdit, HumanDelete, HumanDropsManifest, Start, Read, Plan, Decide,
        StartRetiring, Retire, Replace, ReplaceRefused, Unlink, OperationFails, StoreManifest, StoreFails, Crash
<1>a. temps = {} /\ DOMAIN kept = {} /\ OneEntryEach(manifest)
    BY <1>0 DEF Undisturbed
<1>b. DOMAIN <<>> = {}
    OBVIOUS
<1>1. CASE /\ UNCHANGED <<file, manifest, temps, done, kept>>
           /\ pc \in {"idle", "read"} /\ pc' \in {"idle", "read"}
    BY <1>0, <1>1 DEF Undisturbed, BetweenRuns, OneEntryEach, Active
<1>2. CASE Start \/ Read
    BY <1>1, <1>2 DEF Start, Read, disk, history
<1>3. ASSUME NEW r \in Records, Change(r) PROVE Undisturbed'
    BY <1>1, <1>3 DEF Change, disk, run, history
<1>4. CASE UNCHANGED vars
    BY <1>0, <1>4 DEF vars, disk, run, history, Undisturbed, BetweenRuns, WhileReconciling, WhileRetiring, Placed,
        OneEntryEach, Moved, Active
<1>5. CASE Plan
    <2>1. /\ pc = "read" /\ pc' = "reconcile" /\ prior' = manifest /\ todo' = desired' /\ intent = NoIntent
          /\ UNCHANGED <<file, manifest, temps, intent>> /\ DOMAIN status' = {} /\ DOMAIN kept' = {}
          /\ ~Moved(desired', manifest)
        BY <1>5, <1>b DEF Plan, disk, IInv, Phases
    <2>2. Placed' = {}
        BY <2>1 DEF Placed
    <2>3. BetweenRuns
        BY <1>0, <2>1 DEF Undisturbed
    <2>4. WhileReconciling'
        BY <2>1, <2>2, <2>3 DEF WhileReconciling, BetweenRuns, Active
    <2>5. OneEntryEach(manifest)' /\ ~Moved(desired, prior)'
        BY <1>a, <2>1 DEF OneEntryEach, Moved, Active
    <2> QED BY <1>a, <2>1, <2>4, <2>5 DEF Undisturbed
<1>6. CASE Decide
    <2>1. /\ pc = "reconcile" /\ pc' = pc /\ intent = NoIntent /\ todo \subseteq desired
          /\ UNCHANGED <<file, manifest, temps, desired, prior>>
        BY <1>6 DEF Decide, Deciding, disk, IInv, Phases
    <2>2. UNCHANGED <<status, kept>>
        BY <1>0, <1>6, CalmDecision
    <2>3. PICK n \in todo : \/ Settle(n) /\ n.path \in DOMAIN file /\ file[n.path] = Made(n)
                            \/ Intend(n, Write(n, n.path))
        BY <1>0, <1>6, CalmDecision
    <2>4. WhileReconciling /\ prior = manifest /\ ~Moved(desired, prior)
        BY <1>0, <2>1 DEF Undisturbed
    <2>5. \A m, k \in desired : m.path = k.path => m = k
        BY PathsTell
    <2>6. \A m : Write(m, m.path) # NoIntent /\ Write(m, m.path).path = m.path
        <3>1. \A m : Write(m, m.path).op = "write" /\ NoIntent.op = "none" /\ Write(m, m.path).path = m.path
            BY DEF Write, NoIntent
        <3> QED BY <3>1
    <2>7. CASE Settle(n) /\ n.path \in DOMAIN file /\ file[n.path] = Made(n)
        <3>1. todo' = todo \ {n} /\ intent' = NoIntent
            BY <2>1, <2>7 DEF Settle
        <3>2. Placed' = Placed \cup {n}
            BY <2>1, <2>6, <3>1 DEF Placed
        <3>3. WhileReconciling'
            BY <2>1, <2>2, <2>4, <2>7, <3>1, <3>2 DEF WhileReconciling, Active
        <3> QED BY <1>a, <2>1, <2>2, <2>4, <3>3 DEF Undisturbed, OneEntryEach, Moved, Active
    <2>8. CASE Intend(n, Write(n, n.path))
        <3>1. todo' = todo \ {n} /\ intent' = Write(n, n.path)
            BY <2>8 DEF Intend
        <3>2. Placed' = Placed
            BY <2>1, <2>5, <2>6, <3>1 DEF Placed
        <3>3. WhileReconciling'
            BY <2>1, <2>2, <2>4, <2>8, <3>1, <3>2 DEF WhileReconciling, Active
        <3> QED BY <1>a, <2>1, <2>2, <2>4, <3>3 DEF Undisturbed, OneEntryEach, Moved, Active
    <2> QED BY <2>3, <2>7, <2>8
<1>7. CASE StartRetiring
    <2>1. /\ pc = "reconcile" /\ pc' = "retire" /\ intent = NoIntent /\ todo = {} /\ retired = {}
          /\ UNCHANGED <<file, manifest, temps, desired, prior, intent, status, kept, retired>>
          /\ todo' = {e \in Active(prior) : e.id \notin DOMAIN status}
        BY <1>7 DEF StartRetiring, Deciding, disk, IInv, Phases
    <2>2. WhileReconciling /\ prior = manifest /\ ~Moved(desired, prior)
        BY <1>0, <2>1 DEF Undisturbed
    <2>3. todo' = Active(prior)
        BY <2>1, <2>2 DEF WhileReconciling
    <2>4. Placed = desired
        <3>1. \A m : Write(m, m.path).op = "write" /\ NoIntent.op = "none"
            BY DEF Write, NoIntent
        <3> QED BY <2>1, <3>1 DEF Placed
    <2>5. WhileRetiring'
        BY <2>1, <2>2, <2>3, <2>4 DEF WhileReconciling, WhileRetiring
    <2> QED BY <1>a, <2>1, <2>2, <2>5 DEF Undisturbed, OneEntryEach, Moved, Active
<1>8. CASE Retire
    <2>1. /\ pc = "retire" /\ pc' = pc /\ intent = NoIntent
          /\ UNCHANGED <<file, manifest, temps, desired, prior, kept, retired>>
        BY <1>8 DEF Retire, disk
    <2>2. WhileRetiring /\ prior = manifest /\ ~Moved(desired, prior)
        BY <1>0, <2>1 DEF Undisturbed
    <2>3. PICK e \in todo :
              /\ e \in Active(prior)
              /\ \/ Settle(e) /\ \E n \in desired : n.path = e.path
                 \/ /\ Intend(e, [op |-> "unlink", path |-> e.path, entry |-> e])
                    /\ \A n \in desired : n.id # e.id
        BY <1>0, <1>8, CalmRetirement
    <2>4. CASE Settle(e) /\ \E n \in desired : n.path = e.path
        <3>1. todo' = todo \ {e} /\ intent' = NoIntent
            BY <2>1, <2>4 DEF Settle
        <3>2. WhileRetiring'
            BY <2>1, <2>2, <2>4, <3>1 DEF WhileRetiring
        <3> QED BY <1>a, <2>1, <2>2, <3>2 DEF Undisturbed, OneEntryEach, Moved, Active
    <2>5. CASE /\ Intend(e, [op |-> "unlink", path |-> e.path, entry |-> e])
               /\ \A n \in desired : n.id # e.id
        <3>1. /\ todo' = todo \ {e} /\ intent'.path = e.path /\ intent'.entry = e
              /\ intent'.op = "unlink"
            BY <2>5 DEF Intend
        <3>2. intent' # NoIntent
            BY <3>1 DEF NoIntent
        <3>3. WhileRetiring'
            BY <2>1, <2>2, <2>5, <3>1, <3>2 DEF WhileRetiring
        <3> QED BY <1>a, <2>1, <2>2, <3>3 DEF Undisturbed, OneEntryEach, Moved, Active
    <2> QED BY <2>3, <2>4, <2>5
<1>9. CASE Replace
    <2>1. /\ intent.op = "write" /\ intent' = NoIntent /\ pc' = pc
          /\ file' = With(file, intent.path, [marker |-> intent.marker, bytes |-> intent.bytes])
          /\ UNCHANGED <<manifest, temps, desired, prior, todo, status, kept, retired>>
        BY <1>9 DEF Replace, Finish
    <2>2. pc = "reconcile"
        BY <2>1 DEF IInv, Phases, NoIntent
    <2>3. WhileReconciling /\ prior = manifest /\ ~Moved(desired, prior)
        BY <1>0, <2>2 DEF Undisturbed
    <2>4. PICK n \in desired : n \notin todo /\ intent = Write(n, n.path)
        BY <2>1, <2>3 DEF WhileReconciling, NoIntent
    <2>5. file' = With(file, n.path, Made(n))
        BY <2>1, <2>4 DEF Write, Made
    <2>6. Placed' = Placed \cup {n}
        <3>1. \A m : Write(m, m.path).op = "write" /\ NoIntent.op = "none" /\ Write(m, m.path).path = m.path
            BY DEF Write, NoIntent
        <3>2. Placed' = {m \in desired : m \notin todo}
            BY <2>1, <3>1 DEF Placed
        <3>3. \A m, k \in desired : m.path = k.path => m = k
            BY PathsTell
        <3>4. intent.path = n.path
            BY <2>4, <3>1
        <3>5. ASSUME NEW m \in desired, intent = Write(m, m.path) PROVE m = n
            <4>1. intent.path = m.path
                BY <3>1, <3>5
            <4> QED BY <2>4, <3>3, <3>4, <4>1
        <3> QED BY <2>4, <3>2, <3>5 DEF Placed
    <2>7. \A m \in Placed : m.path # n.path
        BY <2>4, PathsTell DEF Placed
    <2>8. DOMAIN file' = DOMAIN file \cup {n.path} /\ file'[n.path] = Made(n)
          /\ \A p \in DOMAIN file : p # n.path => file'[p] = file[p]
        BY <2>5 DEF With
    <2>9. WhileReconciling'
        <3>1. \A p : p \in DOMAIN file' <=> (\E e \in Active(prior) : e.path = p) \/ (\E m \in Placed' : m.path = p)
            BY <2>3, <2>6, <2>8 DEF WhileReconciling
        <3>2. \A m \in Placed' : file'[m.path] = Made(m)
            BY <2>3, <2>6, <2>7, <2>8 DEF WhileReconciling
        <3>3. \A e \in Active(prior) : (\A m \in Placed' : m.path # e.path) => file'[e.path] = Left(e)
            BY <2>3, <2>6, <2>8 DEF WhileReconciling
        <3> QED BY <2>1, <2>3, <3>1, <3>2, <3>3 DEF WhileReconciling, Active
    <2> QED BY <1>a, <2>1, <2>2, <2>3, <2>9 DEF Undisturbed, OneEntryEach, Moved, Active
<1>10. CASE ReplaceRefused
    BY <1>10, <1>a DEF ReplaceRefused
<1>11. CASE Unlink
    <2>1. /\ intent.op = "unlink" /\ intent' = NoIntent /\ pc' = pc
          /\ file' = Without(file, intent.path)
          /\ retired' = IF intent.path \in DOMAIN file
                        THEN retired \cup {[intent.entry EXCEPT !.status = "retired"]} ELSE retired
          /\ UNCHANGED <<manifest, temps, desired, prior, todo, status, kept>>
        BY <1>11 DEF Unlink, Finish
    <2>2. pc = "retire" /\ intent # NoIntent /\ todo \subseteq Active(prior)
        BY <2>1 DEF IInv, Phases, NoIntent
    <2>3. WhileRetiring /\ prior = manifest /\ ~Moved(desired, prior)
        BY <1>0, <2>2 DEF Undisturbed
    <2>4. intent.entry \in Active(prior) /\ IsEntry(intent.entry) /\ intent.entry \in prior
        BY <2>1, <2>2 DEF IInv, Intended, Entries, Active
    <2> DEFINE gone == [intent.entry EXCEPT !.status = "retired"]
    <2>5. gone.status = "retired" /\ gone.id = intent.entry.id
        BY <2>4 DEF IsEntry
    <2>6. \A n \in desired : n.path # intent.path
        BY <2>2, <2>3, <2>4, PathsTell DEF WhileRetiring
    <2>7. \A e \in todo : e.path # intent.path
        BY <1>a, <2>2, <2>3, <2>4, PathsTell DEF WhileRetiring, OneEntryEach, Active
    <2>8. DOMAIN file' = DOMAIN file \ {intent.path} /\ \A p \in DOMAIN file' : file'[p] = file[p]
        BY <2>1 DEF Without
    <2> HIDE DEF gone
    <2>9. \A e \in retired' : e \in retired \/ e = gone
        BY <2>1 DEF gone
    <2>10. WhileRetiring'
        <3>1. \A p : p \in DOMAIN file' <=> (\E n \in desired : n.path = p) \/ (\E e \in todo : e.path = p)
            BY <2>2, <2>3, <2>6, <2>7, <2>8 DEF WhileRetiring
        <3>2. \A n \in desired : file'[n.path] = Made(n)
            BY <2>3, <2>8, <3>1 DEF WhileRetiring
        <3>3. \A e \in todo : (\A n \in desired : n.path # e.path) => file'[e.path] = Left(e)
            BY <2>3, <2>8, <3>1 DEF WhileRetiring
        <3>4. \A e \in retired' : e.status = "retired" /\ \A n \in desired : n.id # e.id
            BY <2>2, <2>3, <2>5, <2>9 DEF WhileRetiring
        <3> QED BY <2>1, <3>1, <3>2, <3>3, <3>4 DEF WhileRetiring
    <2> QED BY <1>a, <2>1, <2>2, <2>3, <2>10 DEF Undisturbed, OneEntryEach, Moved, Active
<1>12. CASE StoreManifest
    <2>1. /\ Stored /\ manifest' = NewManifest /\ done' = desired /\ pc' = "idle" /\ kept' = <<>>
          /\ UNCHANGED <<file, temps>>
        BY <1>12 DEF StoreManifest
    <2>2. WhileRetiring /\ todo = {} /\ intent = NoIntent
        BY <1>0, <2>1 DEF Undisturbed, Stored
    <2>3. /\ \A n \in desired : /\ Entry(n) \in Active(NewManifest)
                                 /\ Entry(n).id = n.id /\ Entry(n).path = n.path /\ Entry(n).fp = n.content
          /\ \A e \in Active(NewManifest) : \E n \in desired : e = Entry(n)
          /\ OneEntryEach(NewManifest)
        BY <1>0, <2>1, CalmManifest
    <2>4. Active(manifest)' = Active(NewManifest) /\ OneEntryEach(manifest)'
        BY <2>1, <2>3 DEF Active, OneEntryEach
    <2>5. BetweenRuns'
        <3>1. DOMAIN file = {e.path : e \in Active(NewManifest)}
            BY <2>2, <2>3 DEF WhileRetiring
        <3>2. \A e \in Active(NewManifest) : file[e.path] = Left(e)
            BY <2>2, <2>3 DEF WhileRetiring, Left, Made
        <3> QED BY <2>1, <2>3, <2>4, <3>1, <3>2 DEF BetweenRuns, Left
    <2> QED BY <1>a, <1>b, <2>1, <2>4, <2>5 DEF Undisturbed
<1>13. ~(HumanEdit \/ HumanDelete \/ HumanDropsManifest \/ OperationFails \/ StoreFails \/ Crash)
    BY DEF HumanEdit, HumanDelete, HumanDropsManifest, OperationFails, StoreFails, Crash
<1> QED BY <1>2, <1>3, <1>4, <1>5, <1>6, <1>7, <1>8, <1>9, <1>10, <1>11, <1>12, <1>13 DEF Next

\* A run that nobody disturbed leaves exactly its notes and a manifest that
\* says so, for any records and any number of runs.
THEOREM VaultSettles == Spec => []SettledVault
<1>1. Init => Undisturbed /\ Statuses
    <2>1. DOMAIN <<>> = {}
        OBVIOUS
    <2> QED BY <2>1 DEF Init, Undisturbed, Statuses, BetweenRuns, OneEntryEach, Active
<1>2. IInv /\ Undisturbed /\ Statuses /\ [Next]_vars => Undisturbed' /\ Statuses'
    BY UndisturbedStep, StatusesStep
<1>3. Undisturbed => SettledVault
    <2> SUFFICES ASSUME Undisturbed, calm, pc = "idle" PROVE SettledVault
        BY DEF SettledVault
    <2>1. BetweenRuns
        BY DEF Undisturbed
    <2>2. DOMAIN file = {n.path : n \in done}
        BY <2>1 DEF BetweenRuns
    <2>3. \A n \in done : file[n.path].bytes = n.content
        <3> SUFFICES ASSUME NEW n \in done PROVE file[n.path].bytes = n.content
            OBVIOUS
        <3>1. PICK e \in Active(manifest) : n.path = e.path /\ n.content = e.fp
            BY <2>1 DEF BetweenRuns
        <3>2. file[e.path] = Left(e)
            BY <2>1, <3>1 DEF BetweenRuns
        <3>3. Left(e).bytes = e.fp
            BY DEF Left
        <3> QED BY <3>1, <3>2, <3>3
    <2>4. {<<e.id, e.path, e.fp>> : e \in Active(manifest)} = {<<n.id, n.path, n.content>> : n \in done}
        BY <2>1 DEF BetweenRuns
    <2> QED BY <2>2, <2>3, <2>4 DEF SettledVault
<1> QED BY <1>1, <1>2, <1>3, Invariance, PTL DEF Spec
=============================================================================
