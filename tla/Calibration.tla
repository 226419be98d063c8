---------------------------- MODULE Calibration ----------------------------
(***************************************************************************)
(* The M8.5 calibration of one authorized item (src/m8/calibration.py and  *)
(* retrieval_metadata.py).  A candidate is excluded, or scored by a        *)
(* product of eight factors.  A factor is an integer over the denominator  *)
(* of its table, so a score is an integer over Unit and 0.5 is Neutral.    *)
(***************************************************************************)
EXTENDS Integers, FiniteSets, Sequences, FiniteSetsExt

CONSTANT None

ResourceTypes == {"event", "trace", "relation", "charter", "requirement", "decision", "state",
                  "verification", "artifact", "project_artifact", "corpus_source", "corpus_unit"}
Lifecycles == {"raw", "observed", "candidate", "confirmed", "active", "superseded", "conflicted", "archived", "deleted"}

Unit == 10 * 10 * 10 * 4 * 4 * 2 * 10
Neutral == Unit \div 2

-----------------------------------------------------------------------------
(* Classification of an item against the scope of the request *)

Declared(item) == <<item.profile, item.project, item.space>>
Requested(req) == <<req.profile, req.project, req.space>>
AuthorizedSets(req) == <<req.profiles, req.projects, req.spaces>>

(* Every dimension asked for is the item's own, and no other is declared:  *)
(* exact.  Every declared one lies in the authorized sets: composed.       *)
ScopeMatch(item, req) ==
  LET got == Declared(item)  want == Requested(req)  allowed == AuthorizedSets(req)
      outside == {d \in 1..3 : got[d] # None /\ got[d] # want[d]}
  IN IF got = want THEN "exact"
     ELSE IF outside # {} /\ \A d \in outside : got[d] \in allowed[d] THEN "composed"
     ELSE IF got = <<None, None, None>> /\ req.globalRead THEN "global_fallback"
     ELSE "unauthorized"

ProvenanceClass(item) ==
  IF item.id = None \/ (item.at = None /\ item.sourceEvent = None) THEN "incomplete"
  ELSE IF item.trace = None \/ item.sourceEvent = None THEN "required_only"
  ELSE "complete"

(* No clock is read: a declared validity stands when no instant is asked.  *)
TemporalValidity(item, req) ==
  IF item.validFrom = None THEN "unknown"
  ELSE IF req.asOf = None \/ item.validFrom <= req.asOf THEN "valid"
  ELSE "invalid"

Candidate(item, req) ==
  [type |-> item.type, id |-> item.id,
   memory |-> IF item.memory = None THEN item.type ELSE item.memory,
   life |-> IF item.life = None THEN "active" ELSE item.life,
   status |-> item.status, scope |-> ScopeMatch(item, req), provenance |-> ProvenanceClass(item),
   temporal |-> TemporalValidity(item, req), recorded |-> item.at # None, conflict |-> item.conflict,
   distance |-> IF <<item.type, item.id>> \in DOMAIN req.distances THEN req.distances[<<item.type, item.id>>] ELSE None,
   relevance |-> item.relevance]

(* What building the candidate refuses.  Statuses come from the closed     *)
(* vocabulary of the capture contract, so no factor refuses one.           *)
IllFormed(c) == c.type \notin ResourceTypes \/ c.id = None \/ c.life \notin Lifecycles

(* The codes of an exclusion: a scorable candidate has none of them.       *)
ExclusionCodes == {"unauthorized_scope", "lifecycle_ineligible", "provenance_incomplete", "temporal_invalid",
                   "relation_beyond_bounds"}
ASSUME AbsentAssumption == None \notin ExclusionCodes

(* In this order, and before any factor is computed. *)
ExclusionCode(c) ==
  IF c.scope = "unauthorized" THEN "unauthorized_scope"
  ELSE IF c.life = "deleted" THEN "lifecycle_ineligible"
  ELSE IF c.provenance = "incomplete" THEN "provenance_incomplete"
  ELSE IF c.temporal = "invalid" THEN "temporal_invalid"
  ELSE IF c.distance # None /\ c.distance \notin 0..2 THEN "relation_beyond_bounds"
  ELSE None

-----------------------------------------------------------------------------
(* The factors *)

ScopePriority(c) == CASE c.scope = "exact" -> 10 [] c.scope = "composed" -> 9 [] c.scope = "global_fallback" -> 8

StatusStrength(status) ==
  CASE status \in {"deterministic_verification", "approval"} -> 10
    [] status \in {"direct_tool_output", "user_confirmation"} -> 9
    [] OTHER -> 5

VerificationStrength(c) ==
  CASE c.memory \in {"verified_state", "verification"} -> 10
    [] c.memory \in {"decision", "tool_observation"} -> 9
    [] c.memory = "user_statement" -> 8
    [] c.memory = "assistant_claim" -> 6
    [] c.memory = "inference" -> 5
    [] OTHER -> StatusStrength(c.status)

RetrievalMatch(c) == IF c.relevance = None THEN 10 ELSE c.relevance
ProvenanceCompleteness(c) == IF c.provenance = "complete" THEN 4 ELSE 3
TemporalFactor(c) == IF c.temporal = "valid" THEN 4 ELSE 3
Conflicted(c) == c.conflict \/ c.life = "conflicted"
ConflictPenalty(c) == IF Conflicted(c) THEN 1 ELSE 2
RelationRelevance(c) == IF c.distance = None THEN 10 ELSE 10 - c.distance

Score(c) == RetrievalMatch(c) * ScopePriority(c) * VerificationStrength(c) * ProvenanceCompleteness(c)
            * TemporalFactor(c) * ConflictPenalty(c) * RelationRelevance(c)

(* Each code tells of the candidate itself. *)
ReasonCodes(c) ==
  {"LIFECYCLE_ELIGIBLE"}
  \cup {IF VerificationStrength(c) = 10 THEN "VERIFIED_SOURCE" ELSE "UNVERIFIED_SOURCE"}
  \cup {IF c.temporal = "valid" THEN "TEMPORAL_VALID_TIME_PRESENT" ELSE "TEMPORAL_VALID_TIME_ABSENT"}
  \cup (IF c.memory = "assistant_claim" THEN {"ASSISTANT_CLAIM_NOT_PROMOTED"} ELSE {})
  \cup (IF c.provenance = "complete" THEN {"EXPLICIT_PROVENANCE_COMPLETE"} ELSE {})
  \cup (IF Conflicted(c) THEN {"CONFLICT_PRESENT"} ELSE {})

(* A result carries the authoritative status and lifecycle as they are. *)
Decision(c) ==
  LET code == ExclusionCode(c)
  IN IF code # None THEN [included |-> FALSE, score |-> Neutral, codes |-> {code}, conflict |-> FALSE]
     ELSE [included |-> TRUE, score |-> Score(c), codes |-> ReasonCodes(c), conflict |-> Conflicted(c)]

(* One malformed item refuses the items it is calibrated with. *)
Refused(items, req) == \E i \in items : IllFormed(Candidate(i, req))
=============================================================================
