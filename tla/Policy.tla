------------------------------- MODULE Policy -------------------------------
(***************************************************************************)
(* The rules of access: the base policy over a request, its composition    *)
(* with read grants into an effective scope, the SQL predicates a scope    *)
(* becomes, and the second look at each row in Python.  Pure operators     *)
(* over requests, scopes, grant rows and events; src/access/contracts.py,  *)
(* policy.py, grants.py, resolver.py and the gate of authorized_read.py.   *)
(*                                                                         *)
(* A list of ids whose order is never used is a set, NULL is None, and a   *)
(* resource_types column of NULL ("all") is the set of all the types.      *)
(***************************************************************************)
EXTENDS Naturals, FiniteSets, Sequences, SequencesExt

CONSTANTS
    ResourceTypes   \* the validated resource types a request can name

None == "none"      \* Python's None and SQL's NULL
Everyone == "*"     \* a profile grant's target that stands for global reading

-----------------------------------------------------------------------------
(* Lists *)

\* The members of S as R, a strict order of them, puts them.
InOrder(S, R) == [k \in 1..Cardinality(S) |-> CHOOSE x \in S : Cardinality({y \in S : <<y, x>> \in R}) = k - 1]

Ascending(S) == InOrder(S, {p \in S \X S : p[1] < p[2]})

\* What a list has at some of its places.
At(list, places) == [k \in 1..Cardinality(places) |-> list[Ascending(places)[k]]]

-----------------------------------------------------------------------------
(* Requests and the base policy *)

Scope(profiles, projects, spaces, global, isolated, isGrant) ==
    [profiles |-> profiles, projects |-> projects, spaces |-> spaces,
     global |-> global, isolated |-> isolated, isGrant |-> isGrant]

EmptyScope == Scope({}, {}, {}, FALSE, FALSE, FALSE)

\* AccessRequest.validate: the operation and the type are known literals.
ValidRequest(r) ==
    /\ r.operation \in {"READ", "WRITE"}
    /\ r.resource \in ResourceTypes \cup {None}

Selects(r) == r.profiles # {} \/ r.projects # <<>> \/ r.spaces # {}

OwnProfileOnly(r) == r.profiles = {r.requester}

Deny(reason) == [allow |-> FALSE, scope |-> EmptyScope, reason |-> reason]

Allow(r, global, reason) ==
    [allow |-> TRUE, reason |-> reason,
     scope |-> Scope(IF OwnProfileOnly(r) THEN r.profiles ELSE {}, ToSet(r.projects), r.spaces, global, FALSE, FALSE)]

\* An unbound caller may only read what nobody owns, and only unisolated.
EvaluateUnbound(r) ==
    IF Selects(r) \/ r.operation = "WRITE" \/ r.isolated \/ ~r.includeGlobal
    THEN Deny("unbound")
    ELSE [allow |-> TRUE, reason |-> "global", scope |-> Scope({}, {}, {}, TRUE, FALSE, FALSE)]

\* Under isolation nothing is implied: a profile or a project must be named.
EscapesIsolation(r) == r.isolated /\ r.profiles = {} /\ r.projects = <<>>

CrossesProfile(r) == r.profiles \ {r.requester} # {}

CrossesProject(r) == ~OwnProfileOnly(r) /\ r.projects # <<>>

Evaluate(r) ==
    IF ~ValidRequest(r) THEN Deny("invalid")
    ELSE IF r.requester = None THEN EvaluateUnbound(r)
    ELSE IF EscapesIsolation(r) THEN Deny("isolated")
    ELSE IF CrossesProfile(r) \/ CrossesProject(r) THEN Deny("cross")
    ELSE IF r.operation = "WRITE" /\ ~OwnProfileOnly(r) THEN Deny("global_write")
    ELSE Allow(r, r.operation = "READ" /\ r.includeGlobal /\ ~r.isolated, "local")

-----------------------------------------------------------------------------
(* Grants: rows of zm_access_grants, in the order of their rowids *)

\* Mutant: the domain state of a revoked grant is not looked at.
LiveByLifecycle(g) == g.lifecycle = "active"

Live(g) == g.lifecycle = "active" /\ g.state # "revoked"

\* _resolve_persistent_grants narrows by the only target of the first
\* dimension that has exactly one.
NarrowedTo(r, g) ==
    IF Cardinality(r.profiles) = 1 THEN g.type = "profile" /\ g.target \in r.profiles
    ELSE IF Len(r.projects) = 1 THEN g.type = "project" /\ g.target = r.projects[1]
    ELSE IF Cardinality(r.spaces) = 1 THEN g.type = "knowledge_space" /\ g.target \in r.spaces
    ELSE TRUE

Reads(g, r) ==
    /\ g.operation = "READ" /\ g.subject = r.requester /\ Live(g)
    /\ NarrowedTo(r, g) /\ r.resource \in g.resources \cup {None}

ResolveReadGrants(r, grants) == At(grants, {i \in DOMAIN grants : Reads(grants[i], r)})

Writes(g, subject, type, target, resource) ==
    /\ g.operation = "WRITE" /\ g.subject = subject /\ Live(g)
    /\ g.type = type /\ g.target = target /\ resource \in g.resources \cup {None}

\* Mutant: of several grants the first is taken.
ResolveWriteGrantFirst(subject, type, target, resource, grants, verified) ==
    LET candidates == {i \in DOMAIN grants : Writes(grants[i], subject, type, target, resource)}
        first == CHOOSE i \in candidates : \A j \in candidates : i <= j
    IN  IF candidates # {} /\ grants[first].verification \in verified
        THEN [outcome |-> "granted", grant |-> grants[first]] ELSE [outcome |-> "absent"]

\* The row of the only grant that lets the profile write the target, if the
\* verification it names is verified now; two such rows are a conflict.
ResolveWriteGrant(subject, type, target, resource, grants, verified) ==
    LET candidates == {i \in DOMAIN grants : Writes(grants[i], subject, type, target, resource)}
        only == CHOOSE i \in candidates : TRUE
    IN  CASE Cardinality(candidates) > 1 -> [outcome |-> "conflict"]
          [] Cardinality(candidates) = 1 /\ grants[only].verification \in verified ->
                 [outcome |-> "granted", grant |-> grants[only]]
          [] OTHER -> [outcome |-> "absent"]

-----------------------------------------------------------------------------
(* Composition of the base scope with the scopes of the grants *)

GrantTargets(held, type) == {g.target : g \in {h \in held : h.type = type}} \ {Everyone}

Named(g, type) == IF g.type = type THEN {g.target} ELSE {}

GrantScope(g, isolated) ==
    Scope(Named(g, "profile"), Named(g, "project"), Named(g, "knowledge_space"), FALSE, isolated, TRUE)

\* The last grant on a project says which resource types may be read in it.
ProjectResources(held) ==
    [p \in GrantTargets(ToSet(held), "project") |->
        LET onIt == {i \in DOMAIN held : held[i].type = "project" /\ held[i].target = p}
        IN  held[CHOOSE i \in onIt : \A j \in onIt : j <= i].resources]

Effective(allow, reason, base, scopes, refs, resources) ==
    [allow |-> allow, reason |-> reason, base |-> base, scopes |-> scopes, refs |-> refs, resources |-> resources]

\* compose_effective_scope of a READ request; held are the resolved grants.
Compose(r, held) ==
    LET base == Evaluate(r)
        grants == ToSet(held)
        global == \E g \in grants : g.type = "profile" /\ g.target = Everyone
        profiles == GrantTargets(grants, "profile")
        projects == GrantTargets(grants, "project")
        spaces == GrantTargets(grants, "knowledge_space")
        asked == ToSet(r.projects)
        own == base.scope.profiles \cup ({r.requester} \ {None})
        refs == {g.id : g \in grants}
        covered == /\ \A p \in r.profiles : IF p = Everyone THEN global
                                            ELSE p \in own \cup profiles \/ asked \cap projects # {}
                   /\ asked \subseteq base.scope.projects \cup projects
                   /\ r.spaces \subseteq base.scope.spaces \cup spaces
        narrow == At(held, {i \in DOMAIN held : held[i].type # "global" /\ held[i].target # Everyone})
    IN  IF profiles \cup projects \cup spaces = {} /\ ~global
        THEN Effective(base.allow, base.reason, base.scope, <<>>, {}, <<>>)
        ELSE IF ~Selects(r) THEN Effective(base.allow, base.reason, base.scope, <<>>, refs, <<>>)
        ELSE IF ~covered THEN Effective(FALSE, "cross", EmptyScope, <<>>, {}, <<>>)
        ELSE Effective(TRUE, "granted",
                 Scope(IF r.profiles = {} THEN own ELSE own \cap r.profiles, base.scope.projects \cup asked,
                       base.scope.spaces \cup r.spaces, base.scope.global \/ global, r.isolated, FALSE),
                 [i \in DOMAIN narrow |-> GrantScope(narrow[i], r.isolated)], refs, ProjectResources(held))

\* A grant narrowed to some resource types authorizes no other type.
ResourceAllowed(eff, r) ==
    \/ r.resource = None \/ eff.scopes = <<>>
    \/ \A p \in ToSet(r.projects) \cap DOMAIN eff.resources : r.resource \in eff.resources[p]

Gate(r, grants) ==
    LET eff == Compose(r, ResolveReadGrants(r, grants)) IN
    IF ResourceAllowed(eff, r) THEN eff
    ELSE Effective(FALSE, "cross", eff.base, eff.scopes, eff.refs, eff.resources)

\* The base first, then the grants' in the order of their rows.
OrderedScopes(eff) == <<eff.base>> \o eff.scopes

-----------------------------------------------------------------------------
(* A scope as a predicate over the rows of zm_meta, and over a view of one *)

ProfileRestricted(scope, requester) ==
    scope.global \/ scope.profiles # {} \/ (~scope.isGrant /\ requester # None)

\* Mutant: a scope with projects or spaces passes for a grant's (before DEF-028).
ProfileClauseInferred(scope, requester, e) ==
    IF scope.global THEN e.profile = None \/ (requester # None /\ e.profile \in scope.profiles \cup {requester})
    ELSE IF scope.profiles # {} THEN e.profile \in scope.profiles
    ELSE scope.projects \cup scope.spaces # {} \/ requester = None \/ e.profile = requester

ProfileClause(scope, requester, e) ==
    IF scope.global THEN e.profile = None \/ (requester # None /\ e.profile \in scope.profiles \cup {requester})
    ELSE IF scope.profiles # {} THEN e.profile \in scope.profiles
    ELSE scope.isGrant \/ requester = None \/ e.profile = requester

\* A row without junction rows belongs to no space.
SpaceClause(scope, e) == scope.spaces = {} \/ scope.spaces \cap e.spaces # {}

\* The conjunction of the clauses there are; without any clause no row at all.
SqlAdmits(scope, requester, e) ==
    /\ ProfileRestricted(scope, requester) \/ scope.projects # {} \/ scope.spaces # {}
    /\ ProfileClause(scope, requester, e)
    /\ scope.projects = {} \/ e.project \in scope.projects
    /\ SpaceClause(scope, e)

\* The requester is always among the profiles of a scope that is not a grant's.
ScopeAllows(scope, requester, e) ==
    LET profiles == scope.profiles \cup (IF scope.isGrant THEN {} ELSE {requester} \ {None}) IN
    IF scope.global /\ e.profile = None THEN scope.projects = {} \/ e.project \in scope.projects
    ELSE IF profiles # {} \/ scope.global THEN
        /\ e.profile \in profiles
        /\ IF scope.projects # {} THEN e.project \in scope.projects ELSE SpaceClause(scope, e)
    ELSE \/ e.project \in scope.projects
         \/ scope.spaces \cap e.spaces # {}

Readable(eff, requester, e) == \E scope \in ToSet(OrderedScopes(eff)) : ScopeAllows(scope, requester, e)

Listed(eff, requester, e) == \E scope \in ToSet(OrderedScopes(eff)) : SqlAdmits(scope, requester, e)
=============================================================================
