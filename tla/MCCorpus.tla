------------------------------ MODULE MCCorpus ------------------------------
EXTENDS Corpus

CONSTANTS p1, p2
MCProcesses == {p1, p2}
MCSymmetry == Permutations(MCProcesses)

(* Two documents of two profiles; the reader is the first one.             *)
MCOwn == [ref |-> "own.txt", kind |-> "txt", scope |-> <<"me", None, None>>]
MCHidden == [ref |-> "hidden.txt", kind |-> "txt", scope |-> <<"other", None, None>>]

(* The second content is a shorter text that repeats a line and has one    *)
(* that no row may hold.                                                   *)
MCText ==
  [c1 |-> <<{"x", "xy"}, {}, {"x"}, {"x", "y"}, {"y"}>>, c2 |-> <<{"y"}, {}, {Secret, "x"}, {"y"}>>, c3 |-> <<{"x", "y"}>>]
MCCompletions == [x |-> {"x", "xy"}, y |-> {"y"}, z |-> {"z"}]
MCRank == (MCOwn :> 2 @@ MCHidden :> 1)

MCEntry(d, content, life, blob) ==
  [ref |-> d.ref, kind |-> d.kind, scope |-> d.scope, content |-> content, life |-> life, blob |-> blob]
MCCatalogue ==
  {MCEntry(MCOwn, "c1", "observed", TRUE), MCEntry(MCOwn, "c2", "observed", TRUE),
   MCEntry(MCOwn, "c2", "deleted", FALSE), MCEntry(MCHidden, "c3", "observed", TRUE)}

MCBase == [grant |-> FALSE, profiles |-> {}, projects |-> {}, spaces |-> {}, global |-> FALSE]
MCSearch(words, limit) == [scopes |-> {MCBase}, words |-> words, source |-> None, limit |-> limit]
MCSearches == {MCSearch({"x", "y"}, 1), MCSearch({"x"}, 1), MCSearch({"y", "z"}, 2)}
MCNeighbourhoods == [scopes : {{MCBase}}, seed : {UnitId(MCOwn, None), UnitId(MCOwn, 3)}]
=============================================================================
