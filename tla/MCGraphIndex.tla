---------------------------- MODULE MCGraphIndex ----------------------------
EXTENDS GraphIndex

MCEvent(id, project, life) == [table |-> "event", id |-> id, project |-> project, life |-> life, at |-> 1]
MCRequirement(id, life, at) ==
  [table |-> "requirement", id |-> id, project |-> "A", life |-> life, supersedes |-> None, at |-> at]
MCDecision(id, life, supersedes, links, at) ==
  [table |-> "decision", id |-> id, project |-> "A", life |-> life, supersedes |-> supersedes, links |-> links, at |-> at]
MCLinked(project, links) ==
  [table |-> "project_artifact", id |-> "a1", project |-> project, links |-> links, at |-> 2]

(* Two events related twice, an artifact of one of them, a requirement     *)
(* that a decision and an artifact of the project link, and the artifact's *)
(* id in two tables.                                                       *)
MCInitialRows ==
  {MCEvent("e1", "A", "active"), MCEvent("e2", "A", "active"),
   [table |-> "relation", id |-> "m1", from |-> "e1", relation |-> "derived_from", to |-> "e2", at |-> 1],
   [table |-> "relation", id |-> "m3", from |-> "e2", relation |-> "supersedes", to |-> "e1", at |-> 1],
   [table |-> "artifact", id |-> "a1", origin |-> "e1", at |-> 1],
   MCRequirement("r1", "active", 1),
   MCDecision("d1", "active", None, {Ref("requirement", "r1")}, 1),
   MCLinked("A", {Ref("requirement", "r1")})}

(* A deleted event, a child_of relation, a second project's link to the    *)
(* same artifact, a dropped link, a link list and a time no parser takes.  *)
MCCatalogue ==
  {MCEvent("e2", "A", "deleted"),
   [table |-> "relation", id |-> "m2", from |-> "e2", relation |-> "child_of", to |-> "e1", at |-> 1],
   MCLinked("B", {Ref("requirement", "r1")}),
   MCDecision("d1", "active", None, Malformed, 1), MCDecision("d1", "active", None, {}, 1),
   MCDecision("d2", "active", "d1", {}, 2),
   [table |-> "verification", id |-> "v1", project |-> "A", subject |-> Ref("decision", "d1"), at |-> None],
   MCRequirement("r1", "deleted", Malformed)}
MCFacts == {[kind |-> "mention", entity |-> "n1"]}
MCSeeds == {Ref("event", "e1"), Ref("decision", "d1")}
=============================================================================
