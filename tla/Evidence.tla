------------------------------ MODULE Evidence ------------------------------
(***************************************************************************)
(* The M7 evidence pipeline (src/integration/m7), from the router to the   *)
(* rendered context, as operators on the items the authorized reads gave.  *)
(* An item is a record whose id and time are ranks; its size is the number *)
(* of tokens of its text.                                                  *)
(***************************************************************************)
EXTENDS Calibration, SequencesExt

CONSTANTS
  MaxPrimary, MaxSupporting, TokenBudget,   \* the budgets of select_evidence
  MaxContext,                               \* ContextConfig: tokens of the rendered context
  PageLimit                                 \* the page a list read returns

ASSUME BudgetAssumption ==
  /\ MaxPrimary \in 1..5 /\ MaxSupporting \in 1..3
  /\ TokenBudget \in Nat \ {0} /\ MaxContext \in Nat \ {0} /\ PageLimit \in Nat \ {0}

(* What identifies an item, and what it is ordered by. *)
Resource(item) == <<item.type, item.id>>
Ranked(item) ==
  /\ {"type", "id", "at", "relevance"} \subseteq DOMAIN item
  /\ item.id \in Int /\ item.at \in Int \cup {None} /\ item.relevance \in Int \cup {None}

-----------------------------------------------------------------------------
(* The router: the first intent in this order decides *)

Precedence == <<"fresh", "global", "project", "session", "research", "user">>
RouteOf(req) ==
  IF req.hint # None THEN req.hint
  ELSE LET hits == {i \in DOMAIN Precedence : Precedence[i] \in req.intents}
       IN IF hits = {} THEN "no_memory"
          ELSE IF Min(hits) = 1 THEN "external_current" ELSE Precedence[Min(hits)]

ScopeHints(req, route) ==
  LET asked == IF req.hint # None THEN {} ELSE req.intents
      hint(name, holds) == IF holds THEN {name} ELSE {}
  IN IF route = "no_memory" /\ req.hint = None THEN {}
     ELSE hint("project", route \in {"project", "external_current"} \/ req.project # None)
          \cup hint("session", req.session # None \/ "session" \in asked \cup {route})
          \cup hint("user_profile", req.profile # None \/ "user" \in asked \cup {route})
          \cup hint("research_source", "research" \in req.intents \cup {route})
          \cup hint("multi_scope", "global" \in asked \cup {route} \/ Len(req.targets) >= 2 \/ Len(req.spaces) >= 2)
          \cup hint("freshness", "fresh" \in asked \/ route = "external_current")

(* The route needs a scope the request does not name. *)
InsufficientContext(req, route) ==
  CASE route = "project" -> req.project = None
    [] route = "user" -> req.profile = None
    [] route = "session" -> req.session = None
    [] route = "global" -> Len(req.targets) < 2 /\ Len(req.spaces) < 2
    [] OTHER -> FALSE

(* The reads of a route, in order; text also asks the corpus. *)
Reads(req) ==
  LET route == RouteOf(req)
      memory == IF route = "project" /\ req.project # None THEN
                       <<"charter", "requirement", "decision", "state", "verification", "artifact">>
                ELSE IF route = "session" /\ req.session = None THEN <<>>
                ELSE IF route \in {"user", "session", "research", "global"} THEN <<"event">>
                ELSE <<>>
  IN memory \o (IF req.text THEN <<"corpus_unit">> ELSE <<>>)

RouteMatches(item, req) ==
  LET route == RouteOf(req)
  IN IF item.type = "corpus_unit" THEN item.matches
     ELSE IF route = "project" THEN item.project = req.project
     ELSE IF route = "user" THEN item.profile = req.profile
     ELSE IF route = "session" THEN item.session = req.session
     ELSE IF route = "research" THEN item.matches
     ELSE TRUE

TypeRank(type) == CASE type = "artifact" -> 1 [] type = "charter" -> 2 [] type = "corpus_unit" -> 3
                    [] type = "decision" -> 4 [] type = "event" -> 5 [] type = "requirement" -> 6
                    [] type = "state" -> 7 [] type = "verification" -> 8 [] OTHER -> 9
Rank(n) == IF n = None THEN 0 ELSE n
Lexically(a, b) == \E k \in DOMAIN a : a[k] < b[k] /\ \A j \in 1..(k - 1) : a[j] = b[j]

(* The elements of a set in the order of their keys, no two of them equal. *)
SortedBy(set, key) ==
  [n \in 1..Cardinality(set) |-> CHOOSE x \in set : Cardinality({y \in set : Lexically(key[y], key[x])}) = n - 1]
Take(s, n) == SubSeq(s, 1, IF Len(s) < n THEN Len(s) ELSE n)

(* One page of the live items, the oldest first. *)
FirstPage(items) == ToSet(Take(SortedBy(items, [i \in items |-> <<Rank(i.at), i.id>>]), PageLimit))

Read(type, items, req) ==
  FirstPage({i \in items : i.type = type /\ i.life # "deleted" /\ RouteMatches(i, req)})

-----------------------------------------------------------------------------
(* Eligibility: the second gate, and the role *)

SensitivityRank(level) == CASE level = "public" -> 0 [] level = "internal" -> 1 [] level = "private" -> 2
                            [] level = "secret" -> 3 [] OTHER -> 99
ExceedsCeiling(level, ceiling) ==
  \/ SensitivityRank(level) >= 3 \/ SensitivityRank(ceiling) = 99
  \/ SensitivityRank(level) > SensitivityRank(ceiling)

LifeOf(item) == IF item.life = None THEN "active" ELSE item.life
MemoryOf(item) == IF item.memory = None THEN item.type ELSE item.memory
Verified(item) == item.status \notin {None, "none"}

ProvenanceComplete(item) ==
  item.id # None /\ (item.sourceEvent # None \/ (item.type # "corpus_unit" /\ item.at # None))

Eligible(item, ceiling) ==
  /\ LifeOf(item) # "deleted"
  /\ item.type = "event" => ~ExceedsCeiling(item.sensitivity, ceiling)
  /\ ProvenanceComplete(item)

NonPromotable == {"assistant_claim", "inference", "user_statement"}
IsPrimary(item, route) ==
  /\ MemoryOf(item) \notin NonPromotable
  /\ LifeOf(item) \notin {"superseded", "archived", "raw", "observed", "candidate"}
  /\ \/ LifeOf(item) = "active" /\ Verified(item)
     \/ MemoryOf(item) \in {"decision", "verified_state", "tool_observation"}
     \/ LifeOf(item) = "confirmed"
     \/ route = "project" /\ item.type = "state" /\ LifeOf(item) = "active"

-----------------------------------------------------------------------------
(* Conflicts and the bounded selection *)

(* Items of one trace that do not agree on the lifecycle: no winner. *)
Conflicts(items) ==
  LET key(i) == IF i.trace = None THEN i.id ELSE i.trace
      groups == {{j \in items : key(j) = key(i)} : i \in items}
  IN {g \in groups : Cardinality(g) > 1 /\ (Cardinality({LifeOf(i) : i \in g}) > 1 \/ \E i \in g : i.life = "conflicted")}

(* Sorting is stable: what ties is in the order of the reads. *)
Arrival == [charter |-> 1, requirement |-> 2, decision |-> 3, state |-> 4, verification |-> 5, artifact |-> 6,
            event |-> 7, corpus_unit |-> 8]
OrderKey(item, route) ==
  <<IF route = "project" /\ item.type = "state" /\ LifeOf(item) = "active" THEN 0 ELSE 1,
    IF Verified(item) THEN 0 ELSE 1, IF LifeOf(item) = "active" THEN 0 ELSE 1,
    Rank(item.at), item.id, Arrival[item.type]>>
Pool(items, route) == SortedBy(items, [i \in items |-> OrderKey(i, route)])

Tokens(s) == FoldSeq(LAMBDA item, sum : item.size + sum, 0, s)

(* Whole items from the head; the first one even beyond the budget. *)
FitTokens(s, budget) ==
  Take(s, Max({1} \cup {n \in 1..Len(s) : Tokens(Take(s, n)) <= budget}))

SelectCountingCuts(items, route) ==
  LET primary == Take(Pool({i \in items : IsPrimary(i, route)}, route), MaxPrimary)
      supporting == Take(Pool({i \in items : ~IsPrimary(i, route)}, route), MaxSupporting)
      kept == FitTokens(primary, TokenBudget)
  IN [primary |-> kept, supporting |-> FitTokens(supporting, TokenBudget - Tokens(kept)),
      omitted |-> Cardinality(items) - Len(primary) - Len(supporting)]
Select(items, route) ==
  LET primary == FitTokens(Take(Pool({i \in items : IsPrimary(i, route)}, route), MaxPrimary), TokenBudget)
      supporting == FitTokens(Take(Pool({i \in items : ~IsPrimary(i, route)}, route), MaxSupporting), TokenBudget - Tokens(primary))
  IN [primary |-> primary, supporting |-> supporting,
      omitted |-> Cardinality(items) - Len(primary) - Len(supporting)]

-----------------------------------------------------------------------------
(* Enrichment with the calibration, item roles kept *)

(* What the adapter shows of an item to the calibration, and of a request. *)
View(item) == [item EXCEPT !.memory = MemoryOf(item), !.life = LifeOf(item), !.sourceEvent = None]
MetadataRequest(req) ==
  [profile |-> req.profile, project |-> req.project, space |-> IF req.spaces = <<>> THEN None ELSE Head(req.spaces),
   profiles |-> IF req.targets # <<>> THEN ToSet(req.targets) ELSE {req.profile} \ {None},
   projects |-> {req.project} \ {None}, spaces |-> ToSet(req.spaces),
   globalRead |-> FALSE, asOf |-> None, distances |-> <<>>]

(* Each resource type is scored on its own, a refused one is neutral.      *)
ScoreOf(item, pool, req) ==
  LET group == {View(i) : i \in {j \in ToSet(pool) : j.type = item.type}}
      same == {k \in DOMAIN pool : pool[k].type = item.type /\ pool[k].id = item.id}
  IN IF Refused(group, MetadataRequest(req)) THEN Neutral
     ELSE Decision(Candidate(View(pool[Min(same)]), MetadataRequest(req))).score

CalibratedAsSelected(pool, req) == pool
Calibrated(pool, req) ==
  SortedBy(ToSet(pool), [i \in ToSet(pool) |-> <<-ScoreOf(i, pool, req), TypeRank(i.type), i.id>>])

MetadataOf(item, req) ==
  LET c == Candidate(View(item), MetadataRequest(req))
  IN IF IllFormed(c) THEN {"score_unavailable"} ELSE Decision(c).codes

Enrich(es, req) ==
  [es EXCEPT !.primary = Calibrated(@, req), !.supporting = Calibrated(@, req),
             !.metadata = [i \in ToSet(es.primary) \cup ToSet(es.supporting) |-> MetadataOf(i, req)]]

EmptySet(reason) == [primary |-> <<>>, supporting |-> <<>>, conflicts |-> {}, omitted |-> 0, metadata |-> <<>>, reason |-> reason]

(* build_evidence_set over what the reads gave. *)
EvidenceSet(read, req, ceiling) ==
  LET route == RouteOf(req)
      items == {i \in read : Eligible(i, ceiling)}
      chosen == Select(items, route)
  IN IF items = {} THEN EmptySet("INSUFFICIENT_EVIDENCE")
     ELSE Enrich([primary |-> chosen.primary, supporting |-> chosen.supporting, conflicts |-> Conflicts(items),
                  omitted |-> chosen.omitted, metadata |-> <<>>, reason |-> "EVIDENCE_READY"], req)

-----------------------------------------------------------------------------
(* Validation, rendering within the budget *)

Ids(s) == [k \in DOMAIN s |-> s[k].id]
Valid(es) ==
  LET ids == Ids(es.primary \o es.supporting)
  IN /\ Len(es.primary) <= MaxPrimary /\ Len(es.supporting) <= MaxSupporting
     /\ IsInjective(ids)
     /\ \A k \in DOMAIN ids : ids[k] # None

(* The tokens of the envelope: nothing at all of a ready set without items.*)
Envelope(es) ==
  IF es.primary \o es.supporting = <<>> THEN (IF es.reason = "EVIDENCE_READY" THEN 0 ELSE 1)
  ELSE 1 + Tokens(es.primary \o es.supporting) + Cardinality(es.conflicts)

(* The supporting items go first, from the last, then the primary ones but *)
(* one, until the rest fits the context.                                   *)
Render(es) ==
  LET supporting == Len(es.supporting)
      most == IF es.primary = <<>> THEN supporting ELSE supporting + Len(es.primary) - 1
      left(k) == IF k <= supporting THEN [es EXCEPT !.supporting = SubSeq(@, 1, supporting - k)]
                 ELSE [es EXCEPT !.supporting = <<>>, !.primary = SubSeq(@, 1, supporting + Len(@) - k)]
      fitting == {k \in 0..most : Envelope(left(k)) <= MaxContext}
  IN IF fitting = {} THEN [status |-> "BUDGET_EXCEEDED", set |-> EmptySet("BUDGET_EXCEEDED"), omitted |-> es.omitted + most]
     ELSE [status |-> "READY", set |-> left(Min(fitting)), omitted |-> es.omitted + Min(fitting)]
=============================================================================
