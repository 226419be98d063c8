----------------------------- MODULE GraphProofs ------------------------------
(***************************************************************************)
(* The derived graph and temporal indexes for any sources: what the        *)
(* projector has published, or holds in a transaction it may yet commit,   *)
(* is what its sources said; a rebuild that fails leaves the rows; and a   *)
(* bounded read that nothing disturbed has found everything in its reach.  *)
(***************************************************************************)
EXTENDS GraphIndex, TLAPS

Shaped(v) ==
  v = [edges |-> v.edges, facts |-> v.facts, temporal |-> v.temporal, status |-> v.status, fingerprint |-> v.fingerprint]

Times == Nat \cup {None}

(* A row that was projected records one kind of time. *)
OneKindOfTime(f) ==
  /\ f.created \in Times /\ f.effective \in Times
  /\ f.key[1] \in Transactional => f.effective = None
  /\ f.key[1] \notin Transactional => f.created = None

(* A state of the tables, with the sources its edges, later edges and      *)
(* temporal rows came from.                                                *)
ViewIsItsSources(view, from, later, dates) ==
  /\ Shaped(view)
  /\ view.status = "published" => view.edges = InsertEdges(Edges(from), later)
  /\ view.temporal \subseteq TemporalRows(dates)
  /\ \A f, g \in view.temporal : f.key = g.key => f = g
  /\ \A f \in view.temporal : OneKindOfTime(f)

SourcesSound(rows) ==
  /\ \A r, s \in rows : KeyOf(r) = KeyOf(s) => r = s
  /\ \A r \in rows : r.at \in Times \cup {Malformed}

(* The open transaction is as sound as the tables; it was not begun over a *)
(* failed build unless they are failed; and a rebuild whose own            *)
(* transaction was rolled back has none open.                              *)
IInv ==
  /\ SourcesSound(src)
  /\ ViewIsItsSources(idx, scanned, added, dated)
  /\ txn # None => /\ ViewIsItsSources(txn.view, txn.scanned, txn.added, txn.dated)
                   /\ txn.view.status = "failed" => idx.status = "failed"
  /\ (call # None /\ call.op = "fail") => txn = None

-----------------------------------------------------------------------------
(***************************************************************************)
(* The operators on edges and temporal rows.                               *)
(***************************************************************************)

(* Edges inserted in two goes are those inserted in one: what the first    *)
(* left out the second leaves out too.                                     *)
LEMMA InsertTwice ==
  ASSUME NEW table, NEW old, NEW new
  PROVE  LET once == InsertEdges(table, old)
             twice == InsertEdges(once, new)
         IN twice = InsertEdges(table, old \cup (twice \ once))
BY DEF InsertEdges

LEMMA InsertIntoNone ==
  ASSUME NEW new
  PROVE  InsertEdges({}, new) = new /\ InsertEdges(new, {}) = new
BY DEF InsertEdges

(* Rows that do not fail are dated by numbers, of one kind each. *)
LEMMA RowsAreDated ==
  ASSUME SourcesSound(src), ~TemporalFails(src), NEW f \in TemporalRows(src)
  PROVE  OneKindOfTime(f)
<1>1. PICK r \in src : f = TemporalRow(r)
  BY DEF TemporalRows
<1>2. f.created # Malformed /\ f.effective # Malformed
  BY <1>1 DEF TemporalFails
<1>3. f.key[1] = r.table
  BY <1>1 DEF TemporalRow, Ref
<1>4. f.created = (IF r.table \in Transactional THEN r.at ELSE None) /\ f.effective = (IF r.table = "decision" THEN r.at ELSE None)
  BY <1>1 DEF TemporalRow
<1>5. "decision" \notin Transactional
  BY DEF Transactional
<1> QED BY <1>2, <1>3, <1>4, <1>5 DEF OneKindOfTime, SourcesSound, Times

(* Rows without a collision have keys of their own. *)
LEMMA RowsHaveKeys ==
  ASSUME SourcesSound(src), ~KeysCollide(src), NEW f \in TemporalRows(src), NEW g \in TemporalRows(src), f.key = g.key
  PROVE  f = g
BY DEF TemporalRows, KeysCollide, SourcesSound

LEMMA ShapeOfBuilt ==
  ASSUME NEW view, Shaped(view), NEW fingerprint, NEW supplied
  PROVE  LET built == Built(view, fingerprint, supplied) IN
         /\ Shaped(built) /\ built.temporal = {}
         /\ built.status = IF ScanFails(src) THEN "building" ELSE "published"
         /\ ~ScanFails(src) => built.edges = Edges(src)
<1> DEFINE begun == Cleared([view EXCEPT !.status = "building", !.fingerprint = fingerprint])
<1>1. begun = [edges |-> {}, facts |-> {}, temporal |-> {}, status |-> "building", fingerprint |-> fingerprint]
  <2> DEFINE marked == [view EXCEPT !.status = "building", !.fingerprint = fingerprint]
  <2>0. DOMAIN view = {"edges", "facts", "temporal", "status", "fingerprint"}
    BY DEF Shaped
  <2>1. DOMAIN marked = DOMAIN view /\ marked.status = "building" /\ marked.fingerprint = fingerprint
    BY <2>0
  <2> HIDE DEF marked
  <2> DEFINE cleared == Cleared(marked)
  <2>2. DOMAIN marked = {"edges", "facts", "temporal", "status", "fingerprint"}
    BY <2>0, <2>1
  <2>3. /\ cleared.edges = {} /\ cleared.facts = {} /\ cleared.temporal = {}
        /\ cleared.status = "building" /\ cleared.fingerprint = fingerprint
        /\ cleared = [f \in {"edges", "facts", "temporal", "status", "fingerprint"} |-> cleared[f]]
    BY <2>1, <2>2 DEF Cleared
  <2> HIDE DEF cleared
  <2>4. cleared = [edges |-> {}, facts |-> {}, temporal |-> {}, status |-> "building", fingerprint |-> fingerprint]
    BY <2>3
  <2> QED BY <2>4 DEF cleared, marked
<1>2. CASE ScanFails(src)
  BY <1>1, <1>2 DEF Built, Shaped
<1>3. CASE ~ScanFails(src)
  <2> DEFINE filled == [begun EXCEPT !.edges = InsertEdges(@, Edges(src))]
             told == SupplyFacts(filled, supplied)
  <2>1. filled = [edges |-> Edges(src), facts |-> {}, temporal |-> {}, status |-> "building", fingerprint |-> fingerprint]
    BY <1>1, InsertIntoNone
  <2> HIDE DEF filled
  <2>2. told = [edges |-> Edges(src), facts |-> told.facts, temporal |-> {}, status |-> "building", fingerprint |-> fingerprint]
    BY <2>1 DEF SupplyFacts
  <2> HIDE DEF told, begun
  <2>3. Built(view, fingerprint, supplied) = [told EXCEPT !.status = "published"]
    BY <1>3 DEF Built, told, filled, begun
  <2>4. [told EXCEPT !.status = "published"] =
           [edges |-> Edges(src), facts |-> told.facts, temporal |-> {}, status |-> "published", fingerprint |-> fingerprint]
    BY <2>2
  <2> QED BY <1>3, <2>3, <2>4 DEF Shaped
<1> QED BY <1>2, <1>3

-----------------------------------------------------------------------------
(***************************************************************************)
(* The inductive invariant, action by action.                              *)
(***************************************************************************)

LEMMA InitIInv == Init => IInv
BY SourcesAssumption DEF Init, IInv, SourcesSound, EmptyIndex, ViewIsItsSources, Shaped, Times

LEMMA ViewIsSound ==
  ASSUME IInv
  PROVE  ViewIsItsSources(View, IF txn = None THEN scanned ELSE txn.scanned, IF txn = None THEN added ELSE txn.added,
                          IF txn = None THEN dated ELSE txn.dated)
BY DEF IInv, View

LEMMA WriteSourceStep ==
  ASSUME IInv, NEW r \in Catalogue, WriteSource(r)
  PROVE  IInv'
<1>1. r.at \in Times \cup {Malformed}
  BY SourcesAssumption DEF Times
<1>2. SourcesSound(src')
  BY <1>1 DEF IInv, WriteSource, SourcesSound, Upsert
<1> QED BY <1>2 DEF IInv, WriteSource

LEMMA BuildStep ==
  ASSUME IInv, Build \/ BuildInside \/ BuildRefused \/ Fail
  PROVE  IInv'
<1>1. CASE Build
  <2>1. CASE ScanFails(src)
    BY <1>1, <2>1 DEF Build, IInv
  <2>2. CASE ~ScanFails(src)
    <3>1. ViewIsItsSources(idx', scanned', added', dated')
      BY <1>1, <2>2, ShapeOfBuilt, InsertIntoNone DEF Build, IInv, ViewIsItsSources
    <3> QED BY <1>1, <2>2, <3>1 DEF Build, IInv
  <2> QED BY <2>1, <2>2
<1>2. CASE BuildInside
  <2> DEFINE built == Built(txn.view, call.fingerprint, call.supplied)
  <2>1. txn' = [view |-> built, dirty |-> TRUE, scanned |-> src, added |-> {}, dated |-> {}] /\ txn # None
    BY <1>2 DEF BuildInside
  <2>2. ViewIsItsSources(built, src, {}, {}) /\ built.status # "failed"
    BY <2>1, ShapeOfBuilt, InsertIntoNone DEF IInv, ViewIsItsSources
  <2> HIDE DEF built
  <2>3. ViewIsItsSources(txn'.view, txn'.scanned, txn'.added, txn'.dated) /\ txn'.view.status # "failed"
    BY <2>1, <2>2
  <2> QED BY <1>2, <2>3 DEF BuildInside, IInv
<1>3. CASE BuildRefused
  <2>1. txn' = txn \/ txn' = [view |-> idx, dirty |-> FALSE, scanned |-> scanned, added |-> added, dated |-> dated]
    BY <1>3 DEF BuildRefused
  <2> QED BY <1>3, <2>1 DEF BuildRefused, IInv
<1>4. CASE Fail
  <2>1. idx' = [edges |-> idx.edges, facts |-> idx.facts, temporal |-> idx.temporal, status |-> "failed",
                fingerprint |-> call.fingerprint]
    BY <1>4 DEF Fail, Failed, IInv, ViewIsItsSources, Shaped
  <2>2. ViewIsItsSources(idx', scanned, added, dated)
    BY <2>1 DEF IInv, ViewIsItsSources, Shaped
  <2> QED BY <1>4, <2>2 DEF Fail, IInv
<1> QED BY <1>1, <1>2, <1>3, <1>4

LEMMA IncrementStep ==
  ASSUME IInv, ProjectIncrement
  PROVE  IInv'
<1> DEFINE from == IF txn = None THEN scanned ELSE txn.scanned
           later == IF txn = None THEN added ELSE txn.added
           dates == IF txn = None THEN dated ELSE txn.dated
           edges == InsertEdges(View.edges, Edges(src))
           view == [View EXCEPT !.edges = edges]
<1>1. ViewIsItsSources(View, from, later, dates)
  BY ViewIsSound
<1>2. txn' = [view |-> view, dirty |-> TRUE, scanned |-> from, added |-> later \cup (edges \ View.edges), dated |-> dates]
  BY DEF ProjectIncrement
<1>3. view = [edges |-> edges, facts |-> View.facts, temporal |-> View.temporal, status |-> View.status,
              fingerprint |-> View.fingerprint]
  BY <1>1 DEF ViewIsItsSources, Shaped
<1>4. View.status = "published" => edges = InsertEdges(Edges(from), later \cup (edges \ View.edges))
  BY <1>1, InsertTwice DEF ViewIsItsSources
<1>5. View.status = "failed" => idx.status = "failed"
  BY DEF View, IInv
<1> HIDE DEF edges, from, later, dates
<1>6. ViewIsItsSources(view, from, later \cup (edges \ View.edges), dates) /\ view.status = View.status
  BY <1>1, <1>3, <1>4 DEF ViewIsItsSources, Shaped
<1> HIDE DEF view
<1>7. /\ ViewIsItsSources(txn'.view, txn'.scanned, txn'.added, txn'.dated)
      /\ txn'.view.status = "failed" => idx.status = "failed"
  BY <1>2, <1>5, <1>6
<1> QED BY <1>7 DEF ProjectIncrement, IInv

LEMMA TemporalStep ==
  ASSUME IInv, ProjectTemporal
  PROVE  IInv'
<1>1. Shaped(View) /\ (View.status = "published" => View.edges = InsertEdges(Edges(scanned'), added'))
  BY ViewIsSound DEF ViewIsItsSources, ProjectTemporal
<1>2. idx' = [edges |-> View.edges, facts |-> View.facts, temporal |-> TemporalRows(src), status |-> View.status,
              fingerprint |-> View.fingerprint]
  BY <1>1 DEF ProjectTemporal, Refilled, Shaped
<1>3. \A f, g \in TemporalRows(src) : f.key = g.key => f = g
  BY RowsHaveKeys DEF ProjectTemporal, IInv
<1>4. \A f \in TemporalRows(src) : OneKindOfTime(f)
  BY RowsAreDated DEF ProjectTemporal, IInv
<1>5. dated' = src
  BY DEF ProjectTemporal
<1>6. ViewIsItsSources(idx', scanned', added', dated')
  BY <1>1, <1>2, <1>3, <1>4, <1>5 DEF ViewIsItsSources, Shaped
<1> QED BY <1>6 DEF ProjectTemporal, IInv

(* What a projection that breaks leaves in its transaction still has one   *)
(* row for each key: the rows that clash are all of project_artifact, of   *)
(* which the first went in and the one it clashes with did not.            *)
LEMMA TemporalBreaksStep ==
  ASSUME IInv, TemporalBreaks
  PROVE  IInv'
<1> DEFINE rows == TemporalRows(src)
           clash == {f \in rows : \E g \in rows \ {f} : f.key = g.key}
           linked == {TemporalRow(r) : r \in Rows(src, "project_artifact")}
           before == {TemporalRow(r) : r \in {s \in src : s.table \in {"artifact", "decision", "event"}}}
           firsts == {TemporalRow(r) : r \in {s \in src : \E z \in src : KeyOf(z) # KeyOf(s) /\ TemporalRow(z).key = TemporalRow(s).key}}
<1>1. PICK first \in firsts, some \in SUBSET (linked \ clash) :
        txn' = [view |-> [View EXCEPT !.temporal = before \cup some \cup {first}], dirty |-> TRUE,
                scanned |-> IF txn = None THEN scanned ELSE txn.scanned,
                added |-> IF txn = None THEN added ELSE txn.added, dated |-> src]
  BY DEF TemporalBreaks
<1> DEFINE temporal == before \cup some \cup {first}
<1>2. temporal \subseteq rows
  BY DEF Rows, TemporalRows
<1>3. \A f \in before : f.key[1] \in {"artifact", "decision", "event"}
  BY DEF TemporalRow, Ref
<1>4. first.key[1] = "project_artifact"
  <2>1. PICK s \in src, z \in src : first = TemporalRow(s) /\ KeyOf(z) # KeyOf(s) /\ TemporalRow(z).key = TemporalRow(s).key
    OBVIOUS
  <2>2. s.table = z.table /\ s.id = z.id
    BY <2>1 DEF TemporalRow, Ref
  <2>3. s.table = "project_artifact"
    BY <2>1, <2>2 DEF KeyOf
  <2> QED BY <2>1, <2>3 DEF TemporalRow, Ref
<1>5. \A f \in linked : f.key[1] = "project_artifact"
  BY DEF TemporalRow, Ref, Rows
<1>6. \A f, g \in before : f.key = g.key => f = g
  <2> SUFFICES ASSUME NEW r \in {s \in src : s.table \in {"artifact", "decision", "event"}},
                      NEW s \in {z \in src : z.table \in {"artifact", "decision", "event"}},
                      TemporalRow(r).key = TemporalRow(s).key
               PROVE  r = s
    OBVIOUS
  <2>1. KeyOf(r) = KeyOf(s)
    BY DEF TemporalRow, Ref, KeyOf
  <2> QED BY <2>1 DEF IInv, SourcesSound
<1>7. \A f \in some, g \in rows : f.key = g.key => f = g
  BY DEF TemporalRows, Rows
<1>8. \A f, g \in temporal : f.key = g.key => f = g
  <2> HIDE DEF before, firsts, linked, clash, rows
  <2> SUFFICES ASSUME NEW f \in temporal, NEW g \in temporal, f.key = g.key PROVE f = g
    OBVIOUS
  <2>1. CASE f \in some \/ g \in some
    BY <1>2, <1>7, <2>1
  <2>2. CASE (f \in before /\ g = first) \/ (f = first /\ g \in before)
    BY <1>3, <1>4, <2>2
  <2>3. (f \in before \/ f \in some \/ f = first) /\ (g \in before \/ g \in some \/ g = first)
    OBVIOUS
  <2>4. CASE f \in before /\ g \in before
    BY <1>6, <2>4
  <2> QED BY <2>1, <2>2, <2>3, <2>4
<1>9. \A f \in temporal : OneKindOfTime(f)
  BY <1>2, RowsAreDated DEF TemporalBreaks, IInv
<1> HIDE DEF temporal
<1>10. Shaped(View) /\ (View.status = "published" => View.edges = InsertEdges(Edges(txn'.scanned), txn'.added))
  BY <1>1, ViewIsSound DEF ViewIsItsSources
<1>11. txn'.view = [edges |-> View.edges, facts |-> View.facts, temporal |-> temporal, status |-> View.status,
                    fingerprint |-> View.fingerprint]
  BY <1>1, <1>10 DEF Shaped, temporal
<1>12. txn'.dated = src
  BY <1>1
<1>13. ViewIsItsSources(txn'.view, txn'.scanned, txn'.added, txn'.dated)
  BY <1>2, <1>8, <1>9, <1>10, <1>11, <1>12 DEF ViewIsItsSources, Shaped
<1>14. View.status = "failed" => idx.status = "failed"
  BY DEF View, IInv
<1>15. UNCHANGED <<src, idx, call, scanned, added, dated>>
  BY DEF TemporalBreaks
<1> QED BY <1>11, <1>13, <1>14, <1>15 DEF IInv, TemporalBreaks

LEMMA NextPreservesIInv == IInv /\ [Next]_vars => IInv'
<1> SUFFICES ASSUME IInv, [Next]_vars PROVE IInv'
  OBVIOUS
<1>1. ASSUME NEW r \in Catalogue, WriteSource(r) PROVE IInv'
  BY <1>1, WriteSourceStep
<1>2. CASE Build \/ BuildInside \/ BuildRefused \/ Fail
  BY <1>2, BuildStep
<1>3. CASE ProjectIncrement
  BY <1>3, IncrementStep
<1>4. CASE ProjectTemporal
  BY <1>4, TemporalStep
<1>5. CASE TemporalBreaks
  BY <1>5, TemporalBreaksStep
<1>6. CASE Commit \/ Die
  BY <1>6 DEF Commit, Die, IInv
<1>7. ASSUME NEW supplied \in SUBSET Facts, StartRebuild(supplied) PROVE IInv'
  BY <1>7 DEF StartRebuild, IInv
<1>8. CASE UNCHANGED <<src, projector>>
  BY <1>8 DEF projector, IInv
<1>9. ASSUME \/ \E p \in granted : Revoke(p)
             \/ \E ref \in Seeds, p \in Projects : Seed(ref, p)
             \/ Visit \/ ReadEdges \/ Weigh \/ Answer
             \/ UNCHANGED vars
      PROVE UNCHANGED <<src, projector>>
  BY <1>9 DEF Revoke, Seed, Visit, ReadEdges, Weigh, Answer, projector, vars
<1> QED BY <1>1, <1>2, <1>3, <1>4, <1>5, <1>6, <1>7, <1>8, <1>9 DEF Next

(* Every reachable state satisfies the inductive invariant. *)
THEOREM Invariance == Spec => []IInv
BY InitIInv, NextPreservesIInv, PTL DEF Spec

-----------------------------------------------------------------------------
(***************************************************************************)
(* The properties of GraphIndex.                                           *)
(***************************************************************************)

(* A row of one kind of time answers for that kind only, and "known at t"  *)
(* is the window that ends after t.                                        *)
LEMMA TimesStayApart ==
  ASSUME \A f \in idx.temporal : OneKindOfTime(f)
  PROVE  TimesAreNotConflated
<1> SUFFICES ASSUME NEW f \in idx.temporal, NEW t \in 0..2
             PROVE  LET Ask(dimension, when, end) ==
                          ReadTemporal(idx.temporal, [dimension |-> dimension, as_of |-> when, start |-> None, end |-> end], f.key)
                    IN /\ Ask("transaction", t, None) = Ask("transaction", None, t + 1)
                       /\ Ask("valid", t, None) \subseteq Ask("valid", None, t + 1)
                       /\ f.key[1] \in Transactional => Ask("valid", t, None) = {}
                       /\ f.key[1] \notin Transactional => Ask("transaction", t, None) = {}
  BY DEF TimesAreNotConflated
<1> DEFINE query(dimension, when, end) == [dimension |-> dimension, as_of |-> when, start |-> None, end |-> end]
<1>0. t # None /\ t + 1 # None
  BY SourcesAssumption
<1>1. ASSUME NEW g \in idx.temporal
      PROVE  /\ Selects(query("transaction", t, None), g) <=> g.created # None /\ g.created =< t
             /\ Selects(query("valid", t, None), g) <=> g.effective # None /\ g.effective = t
  BY <1>0 DEF Selects, AsOfMatch
<1>2. ASSUME NEW g \in idx.temporal
      PROVE  /\ Selects(query("transaction", None, t + 1), g) <=> g.created # None /\ g.created < t + 1
             /\ Selects(query("valid", None, t + 1), g) <=> g.effective # None /\ g.effective < t + 1
  BY <1>0 DEF Selects, WithinWindow, DimensionValue
<1>3. \A g \in idx.temporal : (g.created # None => g.created \in Nat) /\ (g.effective # None => g.effective \in Nat)
  BY DEF OneKindOfTime, Times
<1>4. \A g \in idx.temporal : g.key = f.key =>
         /\ f.key[1] \in Transactional => g.effective = None
         /\ f.key[1] \notin Transactional => g.created = None
  BY DEF OneKindOfTime
<1> HIDE DEF query
<1>5. \A g \in idx.temporal :
        /\ Selects(query("transaction", t, None), g) <=> Selects(query("transaction", None, t + 1), g)
        /\ Selects(query("valid", t, None), g) => Selects(query("valid", None, t + 1), g)
  BY <1>1, <1>2, <1>3
<1>6. \A g \in idx.temporal : g.key = f.key =>
        /\ f.key[1] \in Transactional => ~Selects(query("valid", t, None), g)
        /\ f.key[1] \notin Transactional => ~Selects(query("transaction", t, None), g)
  BY <1>1, <1>4
<1> QED BY <1>5, <1>6 DEF ReadTemporal, query

(* The published index is what its sources said, edge for edge and time    *)
(* for time, whatever was written, built, refused, broken off or committed *)
(* late.                                                                   *)
THEOREM IndexStaysItsSources == Spec => []IndexIsItsSources
<1>1. IInv => IndexIsItsSources
  BY TimesStayApart DEF IInv, ViewIsItsSources, IndexIsItsSources, GraphIsItsSources, TemporalIsItsSources
<1> QED BY <1>1, Invariance, PTL

(* A rebuild that fails changes the registry and nothing else. *)
THEOREM FailuresKeepTheIndex == Spec => FailureKeepsTheIndex
<1> DEFINE Keeps == idx'.status # idx.status /\ idx'.status = "failed" =>
                      /\ idx'.edges = idx.edges /\ idx'.facts = idx.facts /\ idx'.temporal = idx.temporal
<1>1. IInv /\ [Next]_vars => Keeps
  <2> SUFFICES ASSUME IInv, [Next]_vars, idx'.status # idx.status, idx'.status = "failed"
               PROVE  idx'.edges = idx.edges /\ idx'.facts = idx.facts /\ idx'.temporal = idx.temporal
    OBVIOUS
  <2>0. Shaped(idx) /\ Shaped(View) /\ (View.status = "failed" => idx.status = "failed")
    BY ViewIsSound DEF IInv, ViewIsItsSources, View
  <2>1. ~Build
    BY <2>0, ShapeOfBuilt DEF Build
  <2>2. ~ProjectTemporal
    BY <2>0 DEF ProjectTemporal, Refilled, Shaped
  <2>3. ~Commit
    BY <2>0 DEF Commit, View
  <2>4. Fail
    BY <2>1, <2>2, <2>3 DEF Next, vars, projector, WriteSource, Revoke, StartRebuild, BuildRefused, BuildInside,
                            ProjectIncrement, TemporalBreaks, Die, Seed, Visit, ReadEdges, Weigh, Answer
  <2> QED BY <2>0, <2>4 DEF Fail, Failed, Shaped
<1>2. IInv /\ [Next]_vars => [Keeps]_vars
  BY <1>1
<1>3. [][Keeps]_vars <=> FailureKeepsTheIndex
  BY PTL DEF FailureKeepsTheIndex
<1> HIDE DEF Keeps
<1> QED BY <1>2, <1>3, Invariance, PTL DEF Spec

-----------------------------------------------------------------------------
(***************************************************************************)
(* Reading: a walk that nothing disturbed and that no bound but the depth  *)
(* cut short is a breadth-first search.  An arm is an edge with the        *)
(* direction it is followed in, from its foot to its tip; of all arms,     *)
(* allowed has those whose tip may be shown.                               *)
(***************************************************************************)
Directions == {"outgoing", "incoming"}
Tip(q) == Candidate(q[1], q[2])
Foot(q) == (IF q[2] = "outgoing" THEN q[1].from ELSE q[1].to)[2]
Arms == idx.edges \X Directions
Allowed == {q \in Arms : AuthorizedCandidate(Tip(q), q[1].project)}

Around(allowed, R) == R \cup {Tip(q) : q \in {p \in allowed : \E r \in R : Foot(p) = r[2]}}

(* Hops, written out for the depths that GraphReadBounds accepts. *)
Within(allowed, seed, k) ==
  IF k = 0 THEN {seed} ELSE IF k = 1 THEN Around(allowed, {seed}) ELSE Around(allowed, Around(allowed, {seed}))
Expandable(allowed, seed) == IF MaxDepth = 0 THEN {} ELSE Within(allowed, seed, MaxDepth - 1)

RefAt(w, i) == w.frontier[i][1]
DepthAt(w, i) == w.frontier[i][2]
Waiting(w, r) == \E i \in DOMAIN w.frontier : RefAt(w, i) = r
Busy(w) == w.todo # {} \/ w.pend # {}

(* An arm whose tip may be shown is in the answer with its tip. *)
Handled(w, allowed, q) == q \in allowed => Tip(q) \in w.seen /\ q[1] \in w.edges
Closed(w, arms, allowed, r) == \A q \in arms : Foot(q) = r[2] => Handled(w, allowed, q)

(* The frontier holds references seen, level by level: none could have     *)
(* been reached earlier.                                                   *)
FrontierIsALevel(w, arms, allowed) ==
  /\ w.frontier \in Seq(({w.seed} \cup {Tip(q) : q \in arms}) \X (0 .. MaxDepth))
  /\ \A i \in DOMAIN w.frontier :
       /\ RefAt(w, i) \in w.seen /\ RefAt(w, i) \in Within(allowed, w.seed, DepthAt(w, i))
       /\ DepthAt(w, i) > 0 => RefAt(w, i) \notin Within(allowed, w.seed, DepthAt(w, i) - 1)
       /\ DepthAt(w, i) <= DepthAt(w, 1) + 1
  /\ \A i, j \in DOMAIN w.frontier : i < j => DepthAt(w, i) <= DepthAt(w, j)

(* What was seen lies within the depth, and whatever left the frontier and *)
(* was to be expanded has been.                                            *)
SeenIsExpanded(w, arms, allowed) ==
  /\ w.seed \in w.seen /\ w.seen \subseteq Within(allowed, w.seed, MaxDepth)
  /\ w.frontier # <<>> => Within(allowed, w.seed, DepthAt(w, 1)) \subseteq w.seen
  /\ \A r \in w.seen \cap Expandable(allowed, w.seed) : Waiting(w, r) \/ Closed(w, arms, allowed, r)
  /\ \A e \in w.edges : \E q \in arms :
       q[1] = e /\ Tip(q) \in w.seen /\ \E r \in Expandable(allowed, w.seed) : Foot(q) = r[2]

(* Of the reference at hand each arm is to be read, weighed or handled. *)
HeadIsInHand(w, arms, allowed) ==
  /\ w.todo \in {{}, {"incoming"}, Directions}
  /\ Busy(w) => /\ w.frontier # <<>> /\ DepthAt(w, 1) < MaxDepth
                /\ w.todo = Directions => w.pend = {}
                /\ w.pend \subseteq {q \in arms : Foot(q) = RefAt(w, 1)[2] /\ q[2] \notin w.todo}
                /\ \A q \in arms : Foot(q) = RefAt(w, 1)[2] /\ q[2] \notin w.todo => q \in w.pend \/ Handled(w, allowed, q)

Fields(w) ==
  w = [pc |-> w.pc, seed |-> w.seed, nodes |-> w.nodes, seen |-> w.seen, edges |-> w.edges, frontier |-> w.frontier,
       todo |-> w.todo, pend |-> w.pend, codes |-> w.codes, quiet |-> w.quiet]
Searching(w, arms, allowed) == FrontierIsALevel(w, arms, allowed) /\ SeenIsExpanded(w, arms, allowed)
NodesAreRows(w) == w.nodes = {r \in w.seen : Row(r) # {}}
CutByDepthOnly(w) == w.codes \subseteq {"bound_max_depth"}

WalkInv ==
  /\ Fields(rd)
  /\ rd.pc = "done" => rd.frontier = <<>>
  /\ rd.quiet /\ CutByDepthOnly(rd) /\ rd.pc \in {"walk", "done"} =>
       Searching(rd, Arms, Allowed) /\ HeadIsInHand(rd, Arms, Allowed) /\ NodesAreRows(rd)

-----------------------------------------------------------------------------
LEMMA TailOf ==
  ASSUME NEW S, NEW s \in Seq(S), s # <<>>
  PROVE  /\ Tail(s) \in Seq(S) /\ DOMAIN Tail(s) = 1 .. Len(s) - 1 /\ DOMAIN s = 1 .. Len(s) /\ Len(s) \in Nat \ {0}
         /\ Head(s) = s[1] /\ \A i \in 1 .. Len(s) - 1 : Tail(s)[i] = s[i + 1]
OBVIOUS

LEMMA AppendOf ==
  ASSUME NEW S, NEW s \in Seq(S), NEW x \in S
  PROVE  /\ Append(s, x) \in Seq(S) /\ DOMAIN Append(s, x) = 1 .. Len(s) + 1 /\ DOMAIN s = 1 .. Len(s) /\ Len(s) \in Nat
         /\ Append(s, x)[Len(s) + 1] = x /\ \A i \in 1 .. Len(s) : Append(s, x)[i] = s[i]
OBVIOUS

LEMMA DepthsAreFew == MaxDepth \in 0 .. 2
BY BoundsAssumption DEF ValidBounds

LEMMA WithinGrows ==
  ASSUME NEW allowed, NEW seed
  PROVE  /\ Within(allowed, seed, 0) = {seed}
         /\ \A k \in 0 .. 1 : Within(allowed, seed, k + 1) = Around(allowed, Within(allowed, seed, k))
         /\ \A j, k \in 0 .. 2 : j <= k => Within(allowed, seed, j) \subseteq Within(allowed, seed, k)
         /\ \A k \in 0 .. 2 : k < MaxDepth => Within(allowed, seed, k) \subseteq Expandable(allowed, seed)
         /\ \A k \in 0 .. 2 : seed \in Within(allowed, seed, k)
<1>1. Within(allowed, seed, 0) = {seed} /\ Within(allowed, seed, 1) = Around(allowed, {seed})
      /\ Within(allowed, seed, 2) = Around(allowed, Around(allowed, {seed}))
  BY DEF Within
<1>2. \A R : R \subseteq Around(allowed, R)
  BY DEF Around
<1>3. \A j, k \in 0 .. 2 : j <= k => Within(allowed, seed, j) \subseteq Within(allowed, seed, k)
  BY <1>1, <1>2
<1>4. \A k \in 0 .. 2 : k < MaxDepth => Within(allowed, seed, k) \subseteq Expandable(allowed, seed)
  BY <1>3, DepthsAreFew DEF Expandable
<1> QED BY <1>1, <1>3, <1>4

(* The head of the frontier leaves it when its arms are handled, or when   *)
(* it lies as deep as the walk may go.                                     *)
LEMMA HeadLeaves ==
  ASSUME NEW arms, NEW allowed \in SUBSET arms, NEW w, NEW v,
         Searching(w, arms, allowed), w.frontier # <<>>,
         DepthAt(w, 1) = MaxDepth \/ Closed(w, arms, allowed, RefAt(w, 1)),
         v.frontier = Tail(w.frontier), v.seed = w.seed, v.seen = w.seen, v.edges = w.edges
  PROVE  Searching(v, arms, allowed)
<1> DEFINE S == ({w.seed} \cup {Tip(q) : q \in arms}) \X (0 .. MaxDepth)
           n == Len(w.frontier)
<1>0. w.frontier \in Seq(S)
  BY DEF Searching, FrontierIsALevel
<1>1. /\ v.frontier \in Seq(S) /\ DOMAIN v.frontier = 1 .. n - 1 /\ DOMAIN w.frontier = 1 .. n /\ n \in Nat \ {0}
      /\ \A i \in 1 .. n - 1 : v.frontier[i] = w.frontier[i + 1]
  BY <1>0, TailOf
<1>2. \A i \in 1 .. n - 1 : RefAt(v, i) = RefAt(w, i + 1) /\ DepthAt(v, i) = DepthAt(w, i + 1) /\ i + 1 \in 1 .. n
  BY <1>1 DEF RefAt, DepthAt
<1>3. \A i \in 1 .. n : DepthAt(w, i) \in 0 .. MaxDepth /\ DepthAt(w, i) \in 0 .. 2
  <2>1. \A i \in 1 .. n : w.frontier[i] \in S
    BY <1>0
  <2> QED BY <2>1, DepthsAreFew DEF DepthAt
<1> HIDE DEF S, n
<1>4. 1 \in 1 .. n
  BY <1>1
<1>a. /\ \A i \in 1 .. n : DepthAt(w, i) <= DepthAt(w, 1) + 1
      /\ \A i, j \in 1 .. n : i < j => DepthAt(w, i) <= DepthAt(w, j)
  BY <1>1 DEF Searching, FrontierIsALevel
<1>5. \A i \in 1 .. n : DepthAt(w, 1) <= DepthAt(w, i) /\ DepthAt(w, i) <= DepthAt(w, 1) + 1
  <2> SUFFICES ASSUME NEW i \in 1 .. n PROVE DepthAt(w, 1) <= DepthAt(w, i)
    BY <1>a
  <2>1. i = 1 \/ 1 < i
    BY <1>1
  <2> QED BY <1>3, <1>4, <1>a, <2>1
<1>6. \A i, j \in 1 .. n - 1 : i < j => DepthAt(v, i) <= DepthAt(v, j)
  <2> SUFFICES ASSUME NEW i \in 1 .. n - 1, NEW j \in 1 .. n - 1, i < j PROVE DepthAt(v, i) <= DepthAt(v, j)
    OBVIOUS
  <2>1. i + 1 \in 1 .. n /\ j + 1 \in 1 .. n /\ i + 1 < j + 1
    BY <1>1
  <2> QED BY <1>2, <1>a, <2>1
<1>7. \A i \in 1 .. n - 1 : DepthAt(v, i) <= DepthAt(v, 1) + 1
  <2> SUFFICES ASSUME NEW i \in 1 .. n - 1 PROVE DepthAt(v, i) <= DepthAt(v, 1) + 1
    OBVIOUS
  <2>1. 1 \in 1 .. n - 1 /\ i + 1 \in 1 .. n /\ 1 + 1 \in 1 .. n
    BY <1>1
  <2>2. DepthAt(v, i) = DepthAt(w, i + 1) /\ DepthAt(v, 1) = DepthAt(w, 1 + 1)
    BY <1>2, <2>1
  <2>3. DepthAt(w, i + 1) <= DepthAt(w, 1) + 1 /\ DepthAt(w, 1) <= DepthAt(w, 1 + 1)
    BY <1>5, <2>1
  <2>4. DepthAt(w, i + 1) \in 0 .. 2 /\ DepthAt(w, 1) \in 0 .. 2 /\ DepthAt(w, 1 + 1) \in 0 .. 2
    BY <1>3, <1>4, <2>1
  <2> QED BY <2>2, <2>3, <2>4
<1>8. FrontierIsALevel(v, arms, allowed)
  <2>1. \A i \in 1 .. n - 1 :
          /\ RefAt(v, i) \in w.seen /\ RefAt(v, i) \in Within(allowed, w.seed, DepthAt(v, i))
          /\ DepthAt(v, i) > 0 => RefAt(v, i) \notin Within(allowed, w.seed, DepthAt(v, i) - 1)
    BY <1>1, <1>2 DEF Searching, FrontierIsALevel
  <2> QED BY <1>1, <1>6, <1>7, <2>1 DEF FrontierIsALevel, S
(* No reference of an earlier level waits any more. *)
<1>9. \A r \in w.seen \cap Expandable(allowed, w.seed) : Waiting(v, r) \/ Closed(v, arms, allowed, r)
  <2> SUFFICES ASSUME NEW r \in w.seen \cap Expandable(allowed, w.seed), ~Waiting(v, r)
               PROVE  Closed(w, arms, allowed, r)
    BY DEF Closed, Handled
  <2>1. CASE ~Waiting(w, r)
    BY <2>1 DEF Searching, SeenIsExpanded
  <2>2. CASE Waiting(w, r)
    <3>1. PICK i \in 1 .. n : RefAt(w, i) = r
      BY <1>1, <2>2 DEF Waiting
    <3>2. i = 1
      <4> SUFFICES ASSUME i # 1 PROVE FALSE
        OBVIOUS
      <4>1. i - 1 \in 1 .. n - 1 /\ (i - 1) + 1 = i
        BY <1>1
      <4>2. RefAt(v, i - 1) = r
        BY <1>2, <3>1, <4>1
      <4> QED BY <1>1, <4>1, <4>2 DEF Waiting
    <3>3. CASE DepthAt(w, 1) = MaxDepth
      <4>1. MaxDepth # 0
        BY DEF Expandable
      <4>2. r \notin Within(allowed, w.seed, MaxDepth - 1)
        BY <1>1, <1>4, <3>1, <3>2, <3>3, <4>1, DepthsAreFew DEF Searching, FrontierIsALevel
      <4> QED BY <4>1, <4>2 DEF Expandable
    <3> QED BY <3>1, <3>2, <3>3
  <2> QED BY <2>1, <2>2
<1>10. v.frontier # <<>> => Within(allowed, w.seed, DepthAt(v, 1)) \subseteq w.seen
  <2> SUFFICES ASSUME v.frontier # <<>> PROVE Within(allowed, w.seed, DepthAt(v, 1)) \subseteq w.seen
    OBVIOUS
  <2>1. 1 \in 1 .. n - 1 /\ 2 \in 1 .. n /\ DepthAt(v, 1) = DepthAt(w, 2)
    <3>1. n - 1 # 0
      BY <1>1
    <3>2. 1 \in 1 .. n - 1 /\ 1 + 1 = 2 /\ 2 \in 1 .. n
      BY <1>1, <3>1
    <3> QED BY <1>2, <3>2
  <2>2. CASE DepthAt(v, 1) = DepthAt(w, 1)
    BY <2>2 DEF Searching, SeenIsExpanded
  <2>3. CASE DepthAt(v, 1) # DepthAt(w, 1)
    <3> DEFINE k == DepthAt(w, 1)
    <3>1. k \in 0 .. 1 /\ DepthAt(v, 1) = k + 1 /\ k < MaxDepth
      BY <1>3, <1>4, <1>5, <2>1, <2>3, DepthsAreFew
    <3>2. Within(allowed, w.seed, k) \subseteq w.seen \cap Expandable(allowed, w.seed)
      BY <3>1, WithinGrows DEF Searching, SeenIsExpanded
    <3>3. \A i \in 1 .. n - 1 : RefAt(v, i) \notin Within(allowed, w.seed, k)
      <4> SUFFICES ASSUME NEW i \in 1 .. n - 1 PROVE RefAt(v, i) \notin Within(allowed, w.seed, k)
        OBVIOUS
      <4>0. DepthAt(v, i) \in 0 .. 2 /\ i \in DOMAIN v.frontier
        BY <1>1, <1>2, <1>3
      <4>1. DepthAt(v, 1) <= DepthAt(v, i)
        BY <1>6, <2>1, <3>1, <4>0
      <4>2. DepthAt(v, i) > 0 /\ k <= DepthAt(v, i) - 1 /\ DepthAt(v, i) - 1 \in 0 .. 2
        BY <3>1, <4>0, <4>1
      <4>3. RefAt(v, i) \notin Within(allowed, w.seed, DepthAt(v, i) - 1)
        BY <1>8, <4>0, <4>2 DEF FrontierIsALevel
      <4> QED BY <3>1, <4>2, <4>3, WithinGrows
    <3>4. \A r \in Within(allowed, w.seed, k) : Closed(w, arms, allowed, r)
      <4> SUFFICES ASSUME NEW r \in Within(allowed, w.seed, k) PROVE Closed(w, arms, allowed, r)
        OBVIOUS
      <4>1. ~Waiting(v, r)
        BY <1>1, <3>3 DEF Waiting
      <4>2. Closed(v, arms, allowed, r)
        BY <1>9, <3>2, <4>1
      <4> QED BY <4>2 DEF Closed, Handled
    <3> HIDE DEF k
    <3>5. Around(allowed, Within(allowed, w.seed, k)) \subseteq w.seen
      BY <3>2, <3>4 DEF Around, Closed, Handled
    <3> QED BY <3>1, <3>5, WithinGrows
  <2> QED BY <2>2, <2>3
<1> QED BY <1>8, <1>9, <1>10 DEF Searching, SeenIsExpanded

-----------------------------------------------------------------------------
(* Nodes and edges are added, unless a bound is reported. *)
Kept(w, v) ==
  /\ Fields(v) /\ w.codes \subseteq v.codes
  /\ v.pc = w.pc /\ v.seed = w.seed /\ v.todo = w.todo /\ v.pend = w.pend /\ v.quiet = w.quiet
NodeIn(w, v, ref) ==
  CutByDepthOnly(v) => /\ v.seen = w.seen \cup {ref} /\ v.codes = w.codes
                       /\ v.nodes = IF Row(ref) # {} THEN w.nodes \cup {ref} ELSE w.nodes
EdgeIn(w, v, e) == CutByDepthOnly(v) => v.edges = w.edges \cup {e} /\ v.codes = w.codes

LEMMA NodeAdded ==
  ASSUME NEW w, Fields(w), NEW ref, ref \notin w.seen, NEW v, v = AddNode(w, ref)
  PROVE  Kept(w, v) /\ v.edges = w.edges /\ v.frontier = w.frontier /\ NodeIn(w, v, ref)
<1>1. CASE Cardinality(w.seen) >= MaxNodes
  <2>1. v = [pc |-> w.pc, seed |-> w.seed, nodes |-> w.nodes, seen |-> w.seen, edges |-> w.edges, frontier |-> w.frontier,
             todo |-> w.todo, pend |-> w.pend, codes |-> w.codes \cup {"bound_max_nodes"}, quiet |-> w.quiet]
    BY <1>1 DEF AddNode, Fields
  <2>2. Fields(v) /\ v.codes = w.codes \cup {"bound_max_nodes"}
    BY <2>1 DEF Fields
  <2>3. ~CutByDepthOnly(v)
    BY <2>2 DEF CutByDepthOnly
  <2> QED BY <2>1, <2>2, <2>3 DEF Kept, NodeIn
<1>2. CASE ~(Cardinality(w.seen) >= MaxNodes)
  <2>1. v = [pc |-> w.pc, seed |-> w.seed, nodes |-> IF Row(ref) # {} THEN w.nodes \cup {ref} ELSE w.nodes,
             seen |-> w.seen \cup {ref}, edges |-> w.edges, frontier |-> w.frontier,
             todo |-> w.todo, pend |-> w.pend, codes |-> w.codes, quiet |-> w.quiet]
    BY <1>2 DEF AddNode, Fields
  <2> QED BY <2>1 DEF Fields, Kept, NodeIn
<1> QED BY <1>1, <1>2

LEMMA EdgeAdded ==
  ASSUME NEW w, Fields(w), NEW e, NEW v, v = AddEdge(w, e)
  PROVE  Kept(w, v) /\ v.nodes = w.nodes /\ v.seen = w.seen /\ v.frontier = w.frontier /\ EdgeIn(w, v, e)
<1>1. CASE e \in w.edges
  BY <1>1 DEF AddEdge, Kept, EdgeIn
<1>2. CASE e \notin w.edges /\ Cardinality(w.edges) >= MaxEdges
  <2>1. v = [pc |-> w.pc, seed |-> w.seed, nodes |-> w.nodes, seen |-> w.seen, edges |-> w.edges, frontier |-> w.frontier,
             todo |-> w.todo, pend |-> w.pend, codes |-> w.codes \cup {"bound_max_edges"}, quiet |-> w.quiet]
    BY <1>2 DEF AddEdge, Fields
  <2>2. Fields(v) /\ v.codes = w.codes \cup {"bound_max_edges"}
    BY <2>1 DEF Fields
  <2>3. ~CutByDepthOnly(v)
    BY <2>2 DEF CutByDepthOnly
  <2> QED BY <2>1, <2>2, <2>3 DEF Kept, EdgeIn
<1>3. CASE e \notin w.edges /\ ~(Cardinality(w.edges) >= MaxEdges)
  <2>1. v = [pc |-> w.pc, seed |-> w.seed, nodes |-> w.nodes, seen |-> w.seen, edges |-> w.edges \cup {e},
             frontier |-> w.frontier, todo |-> w.todo, pend |-> w.pend, codes |-> w.codes, quiet |-> w.quiet]
    BY <1>3 DEF AddEdge, Fields
  <2> QED BY <2>1 DEF Fields, Kept, EdgeIn
<1> QED BY <1>1, <1>2, <1>3

LEMMA FrontierSet ==
  ASSUME NEW w, Fields(w), NEW f
  PROVE  [w EXCEPT !.frontier = f] =
           [pc |-> w.pc, seed |-> w.seed, nodes |-> w.nodes, seen |-> w.seen, edges |-> w.edges, frontier |-> f,
            todo |-> w.todo, pend |-> w.pend, codes |-> w.codes, quiet |-> w.quiet]
BY DEF Fields

(* A reference that is admitted waits one level below the one at hand. *)
Queued(w, ref) == Append(w.frontier, <<ref, Head(w.frontier)[2] + 1>>)

LEMMA Admitted ==
  ASSUME NEW w, Fields(w), NEW e, NEW ref, ref \notin w.seen, NEW v, v = Admit(w, e, ref)
  PROVE  Kept(w, v) /\ v.frontier = Queued(w, ref) /\ NodeIn(w, v, ref) /\ EdgeIn(w, v, e)
<1> DEFINE noded == AddNode(w, ref)
           queued == [noded EXCEPT !.frontier = Append(@, <<ref, Head(@)[2] + 1>>)]
<1>0. v = AddEdge(queued, e)
  BY DEF Admit
<1>1. Kept(w, noded) /\ noded.edges = w.edges /\ noded.frontier = w.frontier /\ NodeIn(w, noded, ref)
  BY NodeAdded
<1> HIDE DEF noded
<1>2. queued = [pc |-> noded.pc, seed |-> noded.seed, nodes |-> noded.nodes, seen |-> noded.seen, edges |-> noded.edges,
                frontier |-> Queued(w, ref),
                todo |-> noded.todo, pend |-> noded.pend, codes |-> noded.codes, quiet |-> noded.quiet]
  <2>1. queued = [noded EXCEPT !.frontier = Queued(w, ref)]
    BY <1>1 DEF Queued
  <2>2. Fields(noded)
    BY <1>1 DEF Kept
  <2> HIDE DEF queued
  <2> QED BY <2>1, <2>2, FrontierSet
<1> HIDE DEF queued
<1>3. Fields(queued)
  BY <1>2 DEF Fields
<1>4. Kept(queued, v) /\ v.nodes = queued.nodes /\ v.seen = queued.seen /\ v.frontier = queued.frontier /\ EdgeIn(queued, v, e)
  BY <1>0, <1>3, EdgeAdded
<1>5. /\ queued.codes = noded.codes /\ queued.nodes = noded.nodes /\ queued.seen = noded.seen /\ queued.edges = noded.edges
      /\ queued.pc = noded.pc /\ queued.seed = noded.seed /\ queued.todo = noded.todo /\ queued.pend = noded.pend
      /\ queued.quiet = noded.quiet /\ queued.frontier = Queued(w, ref)
  BY <1>2
<1>6. CutByDepthOnly(v) => CutByDepthOnly(noded)
  BY <1>4, <1>5 DEF CutByDepthOnly, Kept
<1>7. Kept(w, v)
  BY <1>1, <1>4, <1>5 DEF Kept
<1> QED BY <1>1, <1>4, <1>5, <1>6, <1>7 DEF NodeIn, EdgeIn

LEMMA MetShape ==
  ASSUME NEW w, Fields(w), NEW e, NEW ref, NEW v, v = Met(w, e, ref)
  PROVE  Kept(w, v)
<1>1. CASE ref \in w.seen
  <2>1. v = AddEdge(w, e)
    BY <1>1 DEF Met
  <2> QED BY <2>1, EdgeAdded
<1>2. CASE ref \notin w.seen /\ AuthorizedCandidate(ref, e.project)
  <2>1. v = Admit(w, e, ref)
    BY <1>2 DEF Met
  <2> QED BY <1>2, <2>1, Admitted
<1>3. CASE ref \notin w.seen /\ ~AuthorizedCandidate(ref, e.project)
  BY <1>3 DEF Met, Kept
<1> QED BY <1>1, <1>2, <1>3

(* An arm of the reference at hand is weighed, and the search goes on from *)
(* what it adds.                                                           *)
LEMMA ArmsOf ==
  /\ \A q \in Arms : q = <<q[1], q[2]>> /\ q[1] \in idx.edges /\ q[2] \in Directions
  /\ \A e \in idx.edges, d \in Directions : <<e, d>> \in Arms
  /\ \A q \in Arms : \A id : Foot(q) = id <=> q[1] \in EdgesAt(id, q[2])
  /\ Allowed \subseteq Arms
<1>1. \A q \in Arms : q = <<q[1], q[2]>> /\ q[1] \in idx.edges /\ q[2] \in Directions
  BY DEF Arms
<1>2. \A e \in idx.edges, d \in Directions : <<e, d>> \in Arms
  BY DEF Arms
<1>3. ASSUME NEW q \in Arms, NEW id PROVE Foot(q) = id <=> q[1] \in EdgesAt(id, q[2])
  BY <1>1 DEF Foot, EdgesAt
<1> QED BY <1>1, <1>2, <1>3 DEF Allowed

LEMMA ArmIsWeighed ==
  ASSUME NEW w, Fields(w), Searching(w, Arms, Allowed), NodesAreRows(w),
         w.frontier # <<>>, DepthAt(w, 1) < MaxDepth,
         NEW q \in Arms, Foot(q) = RefAt(w, 1)[2], AuthorizedCandidate(Tip(q), q[1].project) <=> q \in Allowed,
         NEW v, v = Met(w, q[1], Tip(q)), CutByDepthOnly(v)
  PROVE  /\ Searching(v, Arms, Allowed) /\ NodesAreRows(v) /\ Handled(v, Allowed, q)
         /\ w.seen \subseteq v.seen /\ w.edges \subseteq v.edges
         /\ v.frontier # <<>> /\ v.frontier[1] = w.frontier[1]
<1> DEFINE S == ({w.seed} \cup {Tip(p) : p \in Arms}) \X (0 .. MaxDepth)
           n == Len(w.frontier)
           k == DepthAt(w, 1)
<1>0. w.frontier \in Seq(S)
  BY DEF Searching, FrontierIsALevel
<1>1. n \in Nat \ {0} /\ DOMAIN w.frontier = 1 .. n /\ Head(w.frontier) = w.frontier[1] /\ 1 \in 1 .. n
  <2>1. n \in Nat \ {0} /\ DOMAIN w.frontier = 1 .. n /\ Head(w.frontier) = w.frontier[1]
    BY <1>0, TailOf
  <2> QED BY <2>1
<1>2. w.frontier[1] \in S
  BY <1>0, <1>1
<1>3. k \in 0 .. 1 /\ k \in 0 .. MaxDepth /\ k + 1 \in 0 .. MaxDepth /\ k + 1 \in 0 .. 2
  BY <1>2, DepthsAreFew DEF DepthAt
<1>4. RefAt(w, 1) \in Within(Allowed, w.seed, k) /\ RefAt(w, 1) \in w.seen
  BY <1>1 DEF Searching, FrontierIsALevel
<1>5. RefAt(w, 1) \in Expandable(Allowed, w.seed)
  BY <1>3, <1>4, WithinGrows
<1> HIDE DEF n, S, k
<1>6. CASE Tip(q) \in w.seen
  <2>1. v = AddEdge(w, q[1])
    BY <1>6 DEF Met
  <2>2. /\ v.edges = w.edges \cup {q[1]} /\ v.nodes = w.nodes /\ v.seen = w.seen /\ v.seed = w.seed /\ v.frontier = w.frontier
    BY <2>1, EdgeAdded DEF Kept, EdgeIn
  <2>3. FrontierIsALevel(v, Arms, Allowed)
    BY <2>2 DEF Searching, FrontierIsALevel, RefAt, DepthAt
  <2>4. /\ v.seed \in v.seen /\ v.seen \subseteq Within(Allowed, v.seed, MaxDepth)
        /\ v.frontier # <<>> => Within(Allowed, v.seed, DepthAt(v, 1)) \subseteq v.seen
    BY <2>2 DEF Searching, SeenIsExpanded, DepthAt
  <2>5. \A r \in v.seen \cap Expandable(Allowed, v.seed) : Waiting(v, r) \/ Closed(v, Arms, Allowed, r)
    BY <2>2 DEF Searching, SeenIsExpanded, Waiting, RefAt, Closed, Handled
  <2>6. \A e \in v.edges : \E p \in Arms :
          p[1] = e /\ Tip(p) \in v.seen /\ \E r \in Expandable(Allowed, v.seed) : Foot(p) = r[2]
    BY <1>5, <1>6, <2>2 DEF Searching, SeenIsExpanded
  <2>7. Searching(v, Arms, Allowed)
    BY <2>3, <2>4, <2>5, <2>6 DEF Searching, SeenIsExpanded
  <2> QED BY <1>6, <2>2, <2>7 DEF Handled, NodesAreRows
<1>7. CASE Tip(q) \notin w.seen /\ q \notin Allowed
  <2>1. v = w
    BY <1>7 DEF Met
  <2> QED BY <1>7, <2>1 DEF Handled
<1>8. CASE Tip(q) \notin w.seen /\ q \in Allowed
  <2> DEFINE x == <<Tip(q), k + 1>>
  <2>1. v = Admit(w, q[1], Tip(q))
    BY <1>8 DEF Met
  <2>2. /\ v.seen = w.seen \cup {Tip(q)} /\ v.edges = w.edges \cup {q[1]} /\ v.seed = w.seed
        /\ v.nodes = IF Row(Tip(q)) # {} THEN w.nodes \cup {Tip(q)} ELSE w.nodes
        /\ v.frontier = Append(w.frontier, x)
    <3>1. x = <<Tip(q), Head(w.frontier)[2] + 1>>
      BY <1>1 DEF k, DepthAt
    <3> HIDE DEF x
    <3>2. Kept(w, v) /\ v.frontier = Queued(w, Tip(q)) /\ NodeIn(w, v, Tip(q)) /\ EdgeIn(w, v, q[1])
      BY <1>8, <2>1, Admitted
    <3> QED BY <3>1, <3>2 DEF Queued, Kept, NodeIn, EdgeIn
  <2>3. x \in S
    BY <1>3 DEF S
  <2>4. /\ v.frontier \in Seq(S) /\ DOMAIN v.frontier = 1 .. n + 1 /\ v.frontier[n + 1] = x
        /\ \A i \in 1 .. n : v.frontier[i] = w.frontier[i]
    BY <1>0, <1>1, <2>2, <2>3, AppendOf DEF n
  <2>5. /\ RefAt(v, n + 1) = Tip(q) /\ DepthAt(v, n + 1) = k + 1
        /\ \A i \in 1 .. n : RefAt(v, i) = RefAt(w, i) /\ DepthAt(v, i) = DepthAt(w, i)
    BY <2>4 DEF RefAt, DepthAt
  <2> HIDE DEF x
  <2>6. Tip(q) \in Within(Allowed, w.seed, k + 1)
    <3>1. Tip(q) \in Around(Allowed, Within(Allowed, w.seed, k))
      BY <1>4, <1>8 DEF Around
    <3> QED BY <1>3, <3>1, WithinGrows
  <2>7. Tip(q) \notin Within(Allowed, w.seed, k)
    BY <1>8 DEF Searching, SeenIsExpanded, k
  <2>8. DepthAt(v, 1) = k
    BY <1>1, <2>5 DEF k
  <2>9. ASSUME NEW i \in 1 .. n + 1
        PROVE  /\ RefAt(v, i) \in v.seen /\ RefAt(v, i) \in Within(Allowed, w.seed, DepthAt(v, i))
               /\ DepthAt(v, i) > 0 => RefAt(v, i) \notin Within(Allowed, w.seed, DepthAt(v, i) - 1)
               /\ DepthAt(v, i) <= k + 1
    <3>1. CASE i = n + 1
      <4>1. (k + 1) - 1 = k /\ k + 1 <= k + 1
        BY <1>3
      <4> QED BY <2>2, <2>5, <2>6, <2>7, <3>1, <4>1
    <3>2. CASE i # n + 1
      <4>1. i \in 1 .. n
        BY <1>1, <3>2
      <4> QED BY <1>1, <2>2, <2>5, <4>1 DEF Searching, FrontierIsALevel, k
    <3> QED BY <3>1, <3>2
  <2>10. ASSUME NEW i \in 1 .. n + 1, NEW j \in 1 .. n + 1, i < j PROVE DepthAt(v, i) <= DepthAt(v, j)
    <3>1. i \in 1 .. n
      BY <1>1, <2>10
    <3>2. CASE j = n + 1
      BY <2>5, <2>9, <3>2
    <3>3. CASE j # n + 1
      <4>1. j \in 1 .. n
        BY <1>1, <3>3
      <4> QED BY <1>1, <2>5, <2>10, <3>1, <4>1 DEF Searching, FrontierIsALevel
    <3> QED BY <3>2, <3>3
  <2>11. FrontierIsALevel(v, Arms, Allowed)
    BY <2>2, <2>4, <2>8, <2>9, <2>10 DEF FrontierIsALevel, S
  <2>12. v.seen \subseteq Within(Allowed, v.seed, MaxDepth)
    <3>1. Within(Allowed, w.seed, k + 1) \subseteq Within(Allowed, w.seed, MaxDepth)
      BY <1>3, DepthsAreFew, WithinGrows
    <3> QED BY <2>2, <2>6, <3>1 DEF Searching, SeenIsExpanded
  <2>13. Within(Allowed, v.seed, DepthAt(v, 1)) \subseteq v.seen
    BY <2>2, <2>8 DEF Searching, SeenIsExpanded, k
  <2>14. \A r \in v.seen \cap Expandable(Allowed, v.seed) : Waiting(v, r) \/ Closed(v, Arms, Allowed, r)
    <3> SUFFICES ASSUME NEW r \in v.seen \cap Expandable(Allowed, w.seed)
                 PROVE  Waiting(v, r) \/ Closed(v, Arms, Allowed, r)
      BY <2>2
    <3>1. CASE r = Tip(q)
      <4>1. n + 1 \in 1 .. n + 1
        BY <1>1
      <4> QED BY <2>4, <2>5, <3>1, <4>1 DEF Waiting
    <3>2. CASE r \in w.seen /\ Waiting(w, r)
      <4>1. PICK i \in 1 .. n : RefAt(w, i) = r
        BY <1>1, <3>2 DEF Waiting
      <4>2. i \in 1 .. n + 1 /\ RefAt(v, i) = r
        BY <1>1, <2>5, <4>1
      <4> QED BY <2>4, <4>2 DEF Waiting
    <3>3. CASE r \in w.seen /\ Closed(w, Arms, Allowed, r)
      BY <2>2, <3>3 DEF Closed, Handled
    <3> QED BY <2>2, <3>1, <3>2, <3>3 DEF Searching, SeenIsExpanded
  <2>15. \A e \in v.edges : \E p \in Arms :
           p[1] = e /\ Tip(p) \in v.seen /\ \E r \in Expandable(Allowed, v.seed) : Foot(p) = r[2]
    BY <1>5, <2>2 DEF Searching, SeenIsExpanded
  <2>16. Searching(v, Arms, Allowed)
    BY <2>2, <2>11, <2>12, <2>13, <2>14, <2>15 DEF Searching, SeenIsExpanded
  <2>17. NodesAreRows(v)
    BY <2>2 DEF NodesAreRows
  <2>18. v.frontier # <<>> /\ v.frontier[1] = w.frontier[1]
    BY <1>1, <2>4
  <2> QED BY <2>2, <2>16, <2>17, <2>18 DEF Handled
<1> QED BY <1>6, <1>7, <1>8

-----------------------------------------------------------------------------
LEMMA SearchGoesOn ==
  ASSUME NEW arms, NEW allowed, NEW w, NEW v, Searching(w, arms, allowed),
         v.seed = w.seed, v.seen = w.seen, v.edges = w.edges, v.frontier = w.frontier
  PROVE  Searching(v, arms, allowed)
BY DEF Searching, FrontierIsALevel, SeenIsExpanded, RefAt, DepthAt, Waiting, Closed, Handled

LEMMA HandledStays ==
  ASSUME NEW allowed, NEW w, NEW v, w.seen \subseteq v.seen, w.edges \subseteq v.edges, NEW q, Handled(w, allowed, q)
  PROVE  Handled(v, allowed, q)
BY DEF Handled

(* A step of the walk itself changes neither index, sources nor grants. *)
LEMMA WalkGoesOn ==
  ASSUME UNCHANGED <<src, granted>>, idx'.edges = idx.edges,
         Fields(rd'), rd'.pc = "done" => rd'.frontier = <<>>,
         rd'.quiet /\ CutByDepthOnly(rd') /\ rd'.pc \in {"walk", "done"} =>
           Searching(rd', Arms, Allowed) /\ HeadIsInHand(rd', Arms, Allowed) /\ NodesAreRows(rd')
  PROVE  WalkInv'
<1>1. Arms' = Arms
  BY DEF Arms
<1>2. \A c, p : AuthorizedCandidate(c, p)' <=> AuthorizedCandidate(c, p)
  BY DEF AuthorizedCandidate, ExactEvent, Readable, Listed
<1>3. Allowed' = Allowed
  BY <1>1, <1>2 DEF Allowed
<1>4. NodesAreRows(rd)' <=> NodesAreRows(rd')
  BY DEF NodesAreRows, Row
<1> QED BY <1>1, <1>3, <1>4 DEF WalkInv

LEMMA WalkSame ==
  ASSUME WalkInv, UNCHANGED <<src, granted, rd>>, idx'.edges = idx.edges
  PROVE  WalkInv'
<1>1. NodesAreRows(rd) => NodesAreRows(rd')
  BY DEF NodesAreRows
<1> QED BY <1>1, WalkGoesOn DEF WalkInv

LEMMA WalkDisturbed ==
  ASSUME WalkInv, Disturbed
  PROVE  WalkInv'
<1>1. rd' = [pc |-> rd.pc, seed |-> rd.seed, nodes |-> rd.nodes, seen |-> rd.seen, edges |-> rd.edges,
             frontier |-> rd.frontier, todo |-> rd.todo, pend |-> rd.pend, codes |-> rd.codes, quiet |-> FALSE]
  BY DEF Disturbed, WalkInv, Fields
<1>2. Fields(rd') /\ ~rd'.quiet /\ rd'.pc = rd.pc /\ rd'.frontier = rd.frontier
  BY <1>1 DEF Fields
<1> QED BY <1>2 DEF WalkInv

LEMMA SeedStep ==
  ASSUME NEW ref, NEW project, Seed(ref, project)
  PROVE  WalkInv'
<1>0. UNCHANGED <<src, granted>> /\ idx' = idx
  BY DEF Seed, projector
<1>1. Fields(NoRead)
  BY DEF Fields, NoRead
<1>2. CASE AuthorizedSeed(ref, project)
  <2> DEFINE w == AddNode(NoRead, ref)
  <2>1. ref \notin NoRead.seen /\ NoRead.edges = {} /\ NoRead.todo = {} /\ NoRead.pend = {} /\ NoRead.nodes = {} /\ NoRead.seen = {}
    BY DEF NoRead
  <2>2. Kept(NoRead, w) /\ w.edges = {} /\ NodeIn(NoRead, w, ref)
    BY <1>1, <2>1, NodeAdded
  <2>3. rd' = [w EXCEPT !.pc = "walk", !.seed = ref, !.frontier = <<<<ref, 0>>>>]
    BY <1>2 DEF Seed
  <2> HIDE DEF w
  <2>4. rd' = [pc |-> "walk", seed |-> ref, nodes |-> w.nodes, seen |-> w.seen, edges |-> {},
               frontier |-> <<<<ref, 0>>>>, todo |-> {}, pend |-> {}, codes |-> w.codes, quiet |-> w.quiet]
    BY <2>1, <2>2, <2>3 DEF Kept, Fields
  <2>5. Fields(rd') /\ rd'.pc = "walk"
    BY <2>4 DEF Fields
  <2>6. ASSUME CutByDepthOnly(rd')
        PROVE  Searching(rd', Arms, Allowed) /\ HeadIsInHand(rd', Arms, Allowed) /\ NodesAreRows(rd')
    <3>1. /\ rd'.seen = {ref} /\ rd'.nodes = {r \in {ref} : Row(r) # {}} /\ rd'.seed = ref /\ rd'.edges = {}
          /\ rd'.frontier = <<<<ref, 0>>>> /\ rd'.todo = {} /\ rd'.pend = {}
      <4>1. CutByDepthOnly(w)
        BY <2>4, <2>6 DEF CutByDepthOnly
      <4>2. w.seen = {ref} /\ w.nodes = IF Row(ref) # {} THEN {ref} ELSE {}
        BY <2>1, <2>2, <4>1 DEF NodeIn
      <4> QED BY <2>4, <4>2
    <3>2. /\ DOMAIN rd'.frontier = {1} /\ RefAt(rd', 1) = ref /\ DepthAt(rd', 1) = 0
      BY <3>1 DEF RefAt, DepthAt
    <3>3. \A k \in 0 .. 2 : Within(Allowed, ref, k) = Within(Allowed, ref, k) /\ ref \in Within(Allowed, ref, k)
      BY WithinGrows
    <3>4. rd'.frontier \in Seq(({ref} \cup {Tip(q) : q \in Arms}) \X (0 .. MaxDepth))
      <4>1. <<ref, 0>> \in ({ref} \cup {Tip(q) : q \in Arms}) \X (0 .. MaxDepth)
        BY DepthsAreFew
      <4> QED BY <3>1, <4>1
    <3>5. FrontierIsALevel(rd', Arms, Allowed)
      BY <3>1, <3>2, <3>3, <3>4 DEF FrontierIsALevel
    <3>6. SeenIsExpanded(rd', Arms, Allowed)
      <4>1. Within(Allowed, ref, 0) = {ref}
        BY WithinGrows
      <4>2. \A r \in rd'.seen : Waiting(rd', r)
        BY <3>1, <3>2 DEF Waiting
      <4> QED BY <3>1, <3>2, <3>3, <4>1, <4>2, DepthsAreFew DEF SeenIsExpanded
    <3>7. HeadIsInHand(rd', Arms, Allowed)
      BY <3>1 DEF HeadIsInHand, Busy
    <3> QED BY <3>1, <3>5, <3>6, <3>7 DEF Searching, NodesAreRows
  <2> QED BY <1>0, <2>5, <2>6, WalkGoesOn
<1>3. CASE ~AuthorizedSeed(ref, project)
  <2>1. rd' = [NoRead EXCEPT !.pc = "denied", !.seed = ref]
    BY <1>3 DEF Seed
  <2>2. Fields(rd') /\ rd'.pc = "denied"
    BY <2>1 DEF NoRead, Fields
  <2> QED BY <2>2 DEF WalkInv
<1> QED BY <1>2, <1>3

LEMMA VisitStep ==
  ASSUME WalkInv, Visit
  PROVE  WalkInv'
<1>0. UNCHANGED <<src, granted>> /\ idx' = idx
  BY DEF Visit, projector
<1>1. rd.pc = "walk" /\ rd.todo = {} /\ rd.pend = {} /\ rd.frontier # <<>>
  BY DEF Visit, Expanding
<1>2. CASE Head(rd.frontier)[2] >= MaxDepth
  <2>1. rd' = [pc |-> rd.pc, seed |-> rd.seed, nodes |-> rd.nodes, seen |-> rd.seen, edges |-> rd.edges,
               frontier |-> Tail(rd.frontier), todo |-> rd.todo, pend |-> rd.pend,
               codes |-> rd.codes \cup {"bound_max_depth"}, quiet |-> rd.quiet]
    BY <1>2 DEF Visit, WalkInv, Fields
  <2>2. Fields(rd') /\ rd'.pc = "walk"
    BY <1>1, <2>1 DEF Fields
  <2>3. ASSUME rd'.quiet, CutByDepthOnly(rd')
        PROVE  Searching(rd', Arms, Allowed) /\ HeadIsInHand(rd', Arms, Allowed) /\ NodesAreRows(rd')
    <3>1. Searching(rd, Arms, Allowed) /\ NodesAreRows(rd)
      BY <1>1, <2>1, <2>3 DEF WalkInv, CutByDepthOnly
    <3>2. DepthAt(rd, 1) = MaxDepth
      <4>1. rd.frontier \in Seq(({rd.seed} \cup {Tip(q) : q \in Arms}) \X (0 .. MaxDepth))
        BY <3>1 DEF Searching, FrontierIsALevel
      <4>2. Head(rd.frontier) = rd.frontier[1] /\ Head(rd.frontier) \in ({rd.seed} \cup {Tip(q) : q \in Arms}) \X (0 .. MaxDepth)
        BY <1>1, <4>1
      <4> QED BY <1>2, <4>2, DepthsAreFew DEF DepthAt
    <3>3. Searching(rd', Arms, Allowed)
      BY <1>1, <2>1, <3>1, <3>2, ArmsOf, HeadLeaves
    <3>4. HeadIsInHand(rd', Arms, Allowed)
      BY <1>1, <2>1 DEF HeadIsInHand, Busy
    <3> QED BY <2>1, <3>1, <3>3, <3>4 DEF NodesAreRows
  <2> QED BY <1>0, <2>2, <2>3, WalkGoesOn
<1>3. CASE ~(Head(rd.frontier)[2] >= MaxDepth)
  <2>1. rd' = [pc |-> rd.pc, seed |-> rd.seed, nodes |-> rd.nodes, seen |-> rd.seen, edges |-> rd.edges,
               frontier |-> rd.frontier, todo |-> Directions, pend |-> rd.pend, codes |-> rd.codes, quiet |-> rd.quiet]
    BY <1>3 DEF Visit, WalkInv, Fields, Directions
  <2>2. Fields(rd') /\ rd'.pc = "walk"
    BY <1>1, <2>1 DEF Fields
  <2>3. ASSUME rd'.quiet, CutByDepthOnly(rd')
        PROVE  Searching(rd', Arms, Allowed) /\ HeadIsInHand(rd', Arms, Allowed) /\ NodesAreRows(rd')
    <3>1. Searching(rd, Arms, Allowed) /\ NodesAreRows(rd)
      BY <1>1, <2>1, <2>3 DEF WalkInv, CutByDepthOnly
    <3>2. DepthAt(rd', 1) < MaxDepth
      <4>1. rd.frontier \in Seq(({rd.seed} \cup {Tip(q) : q \in Arms}) \X (0 .. MaxDepth))
        BY <3>1 DEF Searching, FrontierIsALevel
      <4>2. Head(rd.frontier) = rd.frontier[1] /\ Head(rd.frontier) \in ({rd.seed} \cup {Tip(q) : q \in Arms}) \X (0 .. MaxDepth)
        BY <1>1, <4>1
      <4> QED BY <1>3, <2>1, <4>2, DepthsAreFew DEF DepthAt
    <3>3. Searching(rd', Arms, Allowed)
      BY <2>1, <3>1, SearchGoesOn
    <3>4. HeadIsInHand(rd', Arms, Allowed)
      BY <1>1, <2>1, <3>2, ArmsOf DEF HeadIsInHand, Busy
    <3> QED BY <2>1, <3>1, <3>3, <3>4 DEF NodesAreRows
  <2> QED BY <1>0, <2>2, <2>3, WalkGoesOn
<1> QED BY <1>2, <1>3

LEMMA ReadEdgesStep ==
  ASSUME WalkInv, ReadEdges
  PROVE  WalkInv'
<1> DEFINE direction == IF "outgoing" \in rd.todo THEN "outgoing" ELSE "incoming"
           found == EdgesAt(Head(rd.frontier)[1][2], direction)
<1>0. UNCHANGED <<src, granted>> /\ idx' = idx /\ rd.pc = "walk" /\ rd.pend = {} /\ rd.todo # {}
  BY DEF ReadEdges, projector
<1>1. PICK cut \in SUBSET found :
        rd' = [rd EXCEPT !.todo = @ \ {direction}, !.pend = {<<e, direction>> : e \in cut},
                         !.codes = IF cut # found THEN @ \cup {"bound_max_fan_out"} ELSE @,
                         !.frontier = IF direction = "incoming" /\ cut = {} THEN Tail(@) ELSE @]
  BY DEF ReadEdges
<1> HIDE DEF direction, found
<1>2. rd' = [pc |-> rd.pc, seed |-> rd.seed, nodes |-> rd.nodes, seen |-> rd.seen, edges |-> rd.edges,
             frontier |-> IF direction = "incoming" /\ cut = {} THEN Tail(rd.frontier) ELSE rd.frontier,
             todo |-> rd.todo \ {direction}, pend |-> {<<e, direction>> : e \in cut},
             codes |-> IF cut # found THEN rd.codes \cup {"bound_max_fan_out"} ELSE rd.codes, quiet |-> rd.quiet]
  BY <1>1 DEF WalkInv, Fields
<1>3. Fields(rd') /\ rd'.pc = "walk"
  BY <1>0, <1>2 DEF Fields
<1>4. ASSUME rd'.quiet, CutByDepthOnly(rd')
      PROVE  Searching(rd', Arms, Allowed) /\ HeadIsInHand(rd', Arms, Allowed) /\ NodesAreRows(rd')
  <2>1. cut = found
    <3>1. "bound_max_fan_out" \notin rd'.codes
      BY <1>4 DEF CutByDepthOnly
    <3> QED BY <1>2, <3>1
  <2>2. Searching(rd, Arms, Allowed) /\ HeadIsInHand(rd, Arms, Allowed) /\ NodesAreRows(rd)
    BY <1>0, <1>2, <1>4, <2>1 DEF WalkInv, CutByDepthOnly
  <2>3. /\ rd.todo \in {{"incoming"}, Directions} /\ rd.frontier # <<>> /\ DepthAt(rd, 1) < MaxDepth
        /\ \A q \in Arms : Foot(q) = RefAt(rd, 1)[2] /\ q[2] \notin rd.todo => Handled(rd, Allowed, q)
    BY <1>0, <2>2 DEF HeadIsInHand, Busy
  <2>4. found = EdgesAt(RefAt(rd, 1)[2], direction)
    <3>1. rd.frontier \in Seq(({rd.seed} \cup {Tip(q) : q \in Arms}) \X (0 .. MaxDepth))
      BY <2>2 DEF Searching, FrontierIsALevel
    <3>2. Head(rd.frontier) = rd.frontier[1]
      BY <2>3, <3>1
    <3> QED BY <3>2 DEF found, RefAt
  <2>5. /\ rd'.todo = rd.todo \ {direction} /\ rd'.pend = {<<e, direction>> : e \in found} /\ rd'.seed = rd.seed
        /\ rd'.seen = rd.seen /\ rd'.edges = rd.edges /\ rd'.nodes = rd.nodes
        /\ rd'.frontier = IF direction = "incoming" /\ found = {} THEN Tail(rd.frontier) ELSE rd.frontier
    BY <1>2, <2>1
  <2>6. \A q \in Arms : Foot(q) = RefAt(rd, 1)[2] /\ q[2] = direction => q[1] \in found /\ q \in rd'.pend
    BY <2>4, <2>5, ArmsOf
  <2>7. \A q \in rd'.pend : q \in Arms /\ Foot(q) = RefAt(rd, 1)[2] /\ q[2] = direction
    <3> SUFFICES ASSUME NEW e \in found
                 PROVE  <<e, direction>> \in Arms /\ Foot(<<e, direction>>) = RefAt(rd, 1)[2] /\ <<e, direction>>[2] = direction
      BY <2>5
    <3>1. e \in idx.edges /\ direction \in Directions
      BY <2>4 DEF EdgesAt, direction, Directions
    <3>2. <<e, direction>> \in Arms
      BY <3>1, ArmsOf
    <3> QED BY <2>4, <3>2, ArmsOf
  <2>8. \/ rd.todo = Directions /\ direction = "outgoing" /\ rd'.todo = {"incoming"}
        \/ rd.todo = {"incoming"} /\ direction = "incoming" /\ rd'.todo = {}
    BY <2>3, <2>5 DEF direction, Directions
  <2>9. CASE direction = "incoming" /\ found = {}
    <3>1. Closed(rd, Arms, Allowed, RefAt(rd, 1))
      <4> SUFFICES ASSUME NEW q \in Arms, Foot(q) = RefAt(rd, 1)[2] PROVE Handled(rd, Allowed, q)
        BY DEF Closed
      <4>1. q[2] \in Directions /\ q[2] # "incoming"
        BY <2>6, <2>9, ArmsOf
      <4>2. rd.todo = {"incoming"}
        BY <2>8, <2>9
      <4> QED BY <2>3, <4>1, <4>2
    <3>2. Searching(rd', Arms, Allowed)
      BY <2>2, <2>3, <2>5, <2>9, <3>1, ArmsOf, HeadLeaves
    <3>3. rd'.todo = {} /\ rd'.pend = {}
      BY <2>5, <2>8, <2>9
    <3> QED BY <2>2, <2>5, <3>2, <3>3 DEF HeadIsInHand, Busy, NodesAreRows
  <2>10. CASE ~(direction = "incoming" /\ found = {})
    <3>1. rd'.frontier = rd.frontier
      BY <2>5, <2>10
    <3>2. RefAt(rd', 1) = RefAt(rd, 1) /\ DepthAt(rd', 1) = DepthAt(rd, 1)
      BY <3>1 DEF RefAt, DepthAt
    <3>3. Searching(rd', Arms, Allowed)
      BY <2>2, <2>5, <3>1, SearchGoesOn
    <3>4. ASSUME NEW q \in Arms, Foot(q) = RefAt(rd, 1)[2], q[2] \notin rd'.todo
          PROVE  q \in rd'.pend \/ Handled(rd', Allowed, q)
      <4>1. CASE q[2] = direction
        BY <2>6, <3>4, <4>1
      <4>2. CASE q[2] # direction
        <5>1. q[2] \notin rd.todo
          BY <2>5, <3>4, <4>2
        <5>2. Handled(rd, Allowed, q)
          BY <2>3, <3>4, <5>1
        <5> QED BY <2>5, <5>2, HandledStays
      <4> QED BY <4>1, <4>2
    <3>5. rd'.pend \subseteq {q \in Arms : Foot(q) = RefAt(rd', 1)[2] /\ q[2] \notin rd'.todo}
      BY <2>5, <2>7, <3>2
    <3>6. rd'.todo \in {{}, {"incoming"}} /\ rd'.todo # Directions
      BY <2>8 DEF Directions
    <3>7. HeadIsInHand(rd', Arms, Allowed)
      BY <2>3, <3>1, <3>2, <3>4, <3>5, <3>6 DEF HeadIsInHand
    <3> QED BY <2>2, <2>5, <3>3, <3>7 DEF NodesAreRows
  <2> QED BY <2>9, <2>10
<1> QED BY <1>0, <1>3, <1>4, WalkGoesOn

LEMMA WeighStep ==
  ASSUME WalkInv, Weigh
  PROVE  WalkInv'
<1>0. UNCHANGED <<src, granted>> /\ idx' = idx /\ rd.pc = "walk"
  BY DEF Weigh, projector
<1>1. PICK q \in rd.pend :
        LET met == Met([rd EXCEPT !.pend = @ \ {q}], q[1], Candidate(q[1], q[2]))
        IN  rd' = [met EXCEPT !.frontier = IF rd.todo = {} /\ rd.pend = {q} THEN Tail(@) ELSE @]
  BY DEF Weigh
<1> DEFINE w == [rd EXCEPT !.pend = @ \ {q}]
           met == Met(w, q[1], Tip(q))
           last == rd.todo = {} /\ rd.pend = {q}
<1>2. w = [pc |-> rd.pc, seed |-> rd.seed, nodes |-> rd.nodes, seen |-> rd.seen, edges |-> rd.edges, frontier |-> rd.frontier,
           todo |-> rd.todo, pend |-> rd.pend \ {q}, codes |-> rd.codes, quiet |-> rd.quiet]
  BY DEF WalkInv, Fields
<1>3. rd' = [met EXCEPT !.frontier = IF last THEN Tail(@) ELSE @]
  BY <1>1 DEF Tip
<1> HIDE DEF w
<1>4. Fields(w)
  BY <1>2 DEF Fields
<1>5. Kept(w, met)
  BY <1>4, MetShape
<1> HIDE DEF met
<1>6. rd' = [pc |-> met.pc, seed |-> met.seed, nodes |-> met.nodes, seen |-> met.seen, edges |-> met.edges,
             frontier |-> IF last THEN Tail(met.frontier) ELSE met.frontier,
             todo |-> met.todo, pend |-> met.pend, codes |-> met.codes, quiet |-> met.quiet]
  <2>1. rd' = [met EXCEPT !.frontier = IF last THEN Tail(met.frontier) ELSE met.frontier]
    BY <1>3
  <2>2. Fields(met)
    BY <1>5 DEF Kept
  <2> HIDE DEF last
  <2> QED BY <2>1, <2>2, FrontierSet
<1>7. Fields(rd') /\ rd'.pc = "walk"
  BY <1>0, <1>2, <1>5, <1>6 DEF Fields, Kept
<1>8. ASSUME rd'.quiet, CutByDepthOnly(rd')
      PROVE  Searching(rd', Arms, Allowed) /\ HeadIsInHand(rd', Arms, Allowed) /\ NodesAreRows(rd')
  <2>1. /\ w.seed = rd.seed /\ w.seen = rd.seen /\ w.edges = rd.edges /\ w.frontier = rd.frontier /\ w.nodes = rd.nodes
        /\ w.todo = rd.todo /\ w.pend = rd.pend \ {q} /\ w.codes = rd.codes /\ w.quiet = rd.quiet
    BY <1>2
  <2>2. CutByDepthOnly(met) /\ CutByDepthOnly(rd) /\ rd.quiet
    BY <1>5, <1>6, <1>8, <2>1 DEF CutByDepthOnly, Kept
  <2>3. Searching(rd, Arms, Allowed) /\ HeadIsInHand(rd, Arms, Allowed) /\ NodesAreRows(rd)
    BY <1>0, <2>2 DEF WalkInv
  <2>4. /\ rd.frontier # <<>> /\ DepthAt(rd, 1) < MaxDepth /\ rd.todo \in {{}, {"incoming"}}
        /\ rd.pend \subseteq {p \in Arms : Foot(p) = RefAt(rd, 1)[2] /\ p[2] \notin rd.todo}
        /\ \A p \in Arms : Foot(p) = RefAt(rd, 1)[2] /\ p[2] \notin rd.todo => p \in rd.pend \/ Handled(rd, Allowed, p)
    BY <2>3 DEF HeadIsInHand, Busy
  <2>5. q \in Arms /\ Foot(q) = RefAt(rd, 1)[2]
    BY <2>4
  <2>6. Searching(w, Arms, Allowed) /\ NodesAreRows(w) /\ w.frontier # <<>> /\ DepthAt(w, 1) < MaxDepth /\ Foot(q) = RefAt(w, 1)[2]
    BY <2>1, <2>3, <2>4, <2>5, SearchGoesOn DEF NodesAreRows, DepthAt, RefAt
  <2>7. AuthorizedCandidate(Tip(q), q[1].project) <=> q \in Allowed
    BY <2>5 DEF Allowed
  <2>8. /\ Searching(met, Arms, Allowed) /\ NodesAreRows(met) /\ Handled(met, Allowed, q)
        /\ rd.seen \subseteq met.seen /\ rd.edges \subseteq met.edges
        /\ met.frontier # <<>> /\ met.frontier[1] = rd.frontier[1]
    <3>1. met = Met(w, q[1], Tip(q))
      BY DEF met
    <3>3. w.frontier # <<>> /\ DepthAt(w, 1) < MaxDepth /\ q \in Arms /\ Foot(q) = RefAt(w, 1)[2]
      BY <2>5, <2>6
    <3>4. Searching(w, Arms, Allowed) /\ NodesAreRows(w) /\ CutByDepthOnly(met)
      BY <2>2, <2>6
    <3>5. /\ Searching(met, Arms, Allowed) /\ NodesAreRows(met) /\ Handled(met, Allowed, q)
          /\ w.seen \subseteq met.seen /\ w.edges \subseteq met.edges
          /\ met.frontier # <<>> /\ met.frontier[1] = w.frontier[1]
      BY <1>4, <2>7, <3>1, <3>3, <3>4, ArmIsWeighed
    <3> QED BY <2>1, <3>5
  <2>9. \A p \in Arms : Foot(p) = RefAt(rd, 1)[2] /\ p[2] \notin rd.todo => p \in rd.pend \ {q} \/ Handled(met, Allowed, p)
    BY <2>4, <2>8, HandledStays
  <2>10. met.todo = rd.todo /\ met.pend = rd.pend \ {q} /\ RefAt(met, 1) = RefAt(rd, 1) /\ DepthAt(met, 1) = DepthAt(rd, 1)
    BY <1>5, <2>1, <2>8 DEF Kept, RefAt, DepthAt
  <2>11. /\ rd'.seed = met.seed /\ rd'.seen = met.seen /\ rd'.edges = met.edges /\ rd'.nodes = met.nodes
         /\ rd'.todo = rd.todo /\ rd'.pend = rd.pend \ {q}
         /\ rd'.frontier = IF last THEN Tail(met.frontier) ELSE met.frontier
    BY <1>6, <2>10
  <2>12. NodesAreRows(rd')
    BY <2>8, <2>11 DEF NodesAreRows
  <2>13. CASE last
    <3>1. Closed(met, Arms, Allowed, RefAt(met, 1))
      BY <2>9, <2>10, <2>13 DEF Closed
    <3>2. Searching(rd', Arms, Allowed)
      BY <2>8, <2>11, <2>13, <3>1, ArmsOf, HeadLeaves
    <3>3. rd'.todo = {} /\ rd'.pend = {}
      BY <2>11, <2>13
    <3> QED BY <2>12, <3>2, <3>3 DEF HeadIsInHand, Busy
  <2>14. CASE ~last
    <3>1. rd'.frontier = met.frontier /\ rd'.frontier # <<>>
      BY <2>8, <2>11, <2>14
    <3>2. Searching(rd', Arms, Allowed)
      BY <2>8, <2>11, <3>1, SearchGoesOn
    <3>3. RefAt(rd', 1) = RefAt(rd, 1) /\ DepthAt(rd', 1) = DepthAt(rd, 1)
      BY <2>10, <3>1 DEF RefAt, DepthAt
    <3>4. \A p \in Arms : Foot(p) = RefAt(rd, 1)[2] /\ p[2] \notin rd.todo => p \in rd'.pend \/ Handled(rd', Allowed, p)
      BY <2>9, <2>11, HandledStays
    <3>5. rd'.todo # Directions
      <4>1. "outgoing" \notin rd'.todo
        BY <2>4, <2>11
      <4> QED BY <4>1 DEF Directions
    <3>6. HeadIsInHand(rd', Arms, Allowed)
      BY <2>4, <2>11, <3>1, <3>3, <3>4, <3>5 DEF HeadIsInHand
    <3> QED BY <2>12, <3>2, <3>6
  <2> QED BY <2>13, <2>14
<1> QED BY <1>0, <1>7, <1>8, WalkGoesOn

LEMMA AnswerStep ==
  ASSUME WalkInv, Answer
  PROVE  WalkInv'
<1>0. UNCHANGED <<src, granted>> /\ idx' = idx
  BY DEF Answer, projector
<1>1. rd' = [pc |-> "done", seed |-> rd.seed, nodes |-> rd.nodes, seen |-> rd.seen, edges |-> rd.edges,
             frontier |-> rd.frontier, todo |-> rd.todo, pend |-> rd.pend, codes |-> rd.codes, quiet |-> rd.quiet]
  BY DEF Answer, WalkInv, Fields
<1>2. rd.pc = "walk" /\ rd.frontier = <<>> /\ rd.todo = {} /\ rd.pend = {}
  BY DEF Answer
<1>3. Fields(rd') /\ rd'.frontier = <<>> /\ rd'.todo = {} /\ rd'.pend = {}
  BY <1>1, <1>2 DEF Fields
<1>4. ASSUME rd'.quiet, CutByDepthOnly(rd')
      PROVE  Searching(rd', Arms, Allowed) /\ HeadIsInHand(rd', Arms, Allowed) /\ NodesAreRows(rd')
  <2>1. Searching(rd, Arms, Allowed) /\ NodesAreRows(rd)
    BY <1>1, <1>2, <1>4 DEF WalkInv, CutByDepthOnly
  <2>2. Searching(rd', Arms, Allowed)
    BY <1>1, <2>1, SearchGoesOn
  <2> QED BY <1>1, <1>3, <2>1, <2>2 DEF NodesAreRows, HeadIsInHand, Busy
<1> QED BY <1>0, <1>3, <1>4, WalkGoesOn

LEMMA NextPreservesWalkInv == IInv /\ WalkInv /\ [Next]_vars => WalkInv'
<1> SUFFICES ASSUME IInv, WalkInv, [Next]_vars PROVE WalkInv'
  OBVIOUS
<1>1. CASE \E ref \in Seeds, p \in Projects : Seed(ref, p)
  BY <1>1, SeedStep
<1>2. CASE Visit \/ ReadEdges \/ Weigh \/ Answer
  BY <1>2, VisitStep, ReadEdgesStep, WeighStep, AnswerStep
<1>3. CASE Disturbed
  BY <1>3, WalkDisturbed
<1>4. CASE UNCHANGED <<src, granted, rd>> /\ idx'.edges = idx.edges
  BY <1>4, WalkSame
<1>5. Fail => idx'.edges = idx.edges
  BY DEF Fail, Failed, IInv, ViewIsItsSources, Shaped
<1>6. ASSUME ~(\E ref \in Seeds, p \in Projects : Seed(ref, p)), ~(Visit \/ ReadEdges \/ Weigh \/ Answer), ~Disturbed
      PROVE  UNCHANGED <<src, granted, rd>> /\ idx'.edges = idx.edges
  BY <1>5, <1>6 DEF Next, WriteSource, Revoke, StartRebuild, BuildRefused, Build, BuildInside, Fail, ProjectIncrement,
                    ProjectTemporal, TemporalBreaks, Commit, Die, projector, vars
<1> QED BY <1>1, <1>2, <1>3, <1>4, <1>6

LEMMA WalkInitially == Init => WalkInv
BY DEF Init, NoRead, WalkInv, Fields

-----------------------------------------------------------------------------
(* The recursive definition of Hops has a solution, the sets Within. *)
LEMMA HopsAreWithin ==
  ASSUME NEW seed
  PROVE  \A k \in 0 .. MaxDepth : Hops(seed)[k] = Within(Allowed, seed, k)
<1> DEFINE Further(R) ==
             R \cup {c \in {Candidate(e, d) : e \in idx.edges, d \in {"outgoing", "incoming"}} :
                       \E r \in R, d \in {"outgoing", "incoming"} :
                         \E e \in EdgesAt(r[2], d) : Candidate(e, d) = c /\ AuthorizedCandidate(c, e.project)}
           Solves(h) == h = [k \in 0 .. MaxDepth |-> IF k = 0 THEN {seed} ELSE Further(h[k - 1])]
           w == [k \in 0 .. MaxDepth |-> Within(Allowed, seed, k)]
<1>1. ASSUME NEW R PROVE Further(R) = Around(Allowed, R)
  <2>1. ASSUME NEW c \in Around(Allowed, R) PROVE c \in Further(R)
    <3>1. CASE c \in R
      BY <3>1
    <3>2. CASE c \notin R
      <4>1. PICK q \in Allowed : c = Tip(q) /\ \E r \in R : Foot(q) = r[2]
        BY <2>1, <3>2 DEF Around
      <4>2. PICK r \in R : Foot(q) = r[2]
        BY <4>1
      <4>3. /\ q[1] \in idx.edges /\ q[2] \in {"outgoing", "incoming"} /\ q[1] \in EdgesAt(r[2], q[2])
            /\ c = Candidate(q[1], q[2]) /\ AuthorizedCandidate(c, q[1].project)
        BY <4>1, <4>2, ArmsOf DEF Allowed, Tip, Directions
      <4> QED BY <4>3
    <3> QED BY <3>1, <3>2
  <2>2. ASSUME NEW c \in Further(R) PROVE c \in Around(Allowed, R)
    <3>1. CASE c \in R
      BY <3>1 DEF Around
    <3>2. CASE c \notin R
      <4>1. PICK r \in R, d \in Directions : \E e \in EdgesAt(r[2], d) : Candidate(e, d) = c /\ AuthorizedCandidate(c, e.project)
        BY <2>2, <3>2 DEF Directions
      <4>2. PICK e \in EdgesAt(r[2], d) : Candidate(e, d) = c /\ AuthorizedCandidate(c, e.project)
        BY <4>1
      <4>3. <<e, d>> \in Arms /\ <<e, d>>[1] = e /\ <<e, d>>[2] = d
        BY ArmsOf DEF EdgesAt
      <4>4. Foot(<<e, d>>) = r[2] /\ Tip(<<e, d>>) = c
        BY <4>2, <4>3, ArmsOf DEF Tip
      <4>5. <<e, d>> \in Allowed
        BY <4>2, <4>3, <4>4 DEF Allowed
      <4> QED BY <4>4, <4>5 DEF Around
    <3> QED BY <3>1, <3>2
  <2> QED BY <2>1, <2>2
<1>2. Hops(seed) = CHOOSE h : Solves(h)
  BY DEF Hops
<1> HIDE DEF Further
<1>3. \A k \in 0 .. MaxDepth : k # 0 => k - 1 \in 0 .. 1 /\ k - 1 \in 0 .. MaxDepth /\ (k - 1) + 1 = k
  BY DepthsAreFew
<1>4. Solves(w)
  <2>1. ASSUME NEW k \in 0 .. MaxDepth PROVE w[k] = IF k = 0 THEN {seed} ELSE Further(w[k - 1])
    <3>1. CASE k = 0
      BY <3>1, WithinGrows
    <3>2. CASE k # 0
      <4>1. w[k - 1] = Within(Allowed, seed, k - 1) /\ w[k] = Within(Allowed, seed, k)
        BY <1>3, <3>2
      <4>2. Within(Allowed, seed, k) = Around(Allowed, Within(Allowed, seed, k - 1))
        BY <1>3, <3>2, WithinGrows
      <4> QED BY <1>1, <3>2, <4>1, <4>2
    <3> QED BY <3>1, <3>2
  <2> QED BY <2>1
<1>5. Solves(Hops(seed))
  BY <1>2, <1>4
<1> DEFINE h == Hops(seed)
<1>6. \A k \in 0 .. MaxDepth : h[k] = IF k = 0 THEN {seed} ELSE Further(h[k - 1])
  BY <1>5
<1> HIDE DEF h, Solves, w
<1>7. h[0] = Within(Allowed, seed, 0)
  <2>1. 0 \in 0 .. MaxDepth
    BY DepthsAreFew
  <2>2. h[0] = {seed}
    BY <1>6, <2>1
  <2>3. Within(Allowed, seed, 0) = {seed}
    BY WithinGrows
  <2> QED BY <2>2, <2>3
<1>8. ASSUME NEW k \in 0 .. MaxDepth, k # 0, h[k - 1] = Within(Allowed, seed, k - 1)
      PROVE  h[k] = Within(Allowed, seed, k)
  <2>1. h[k] = Around(Allowed, Within(Allowed, seed, k - 1))
    BY <1>1, <1>6, <1>8
  <2> QED BY <1>3, <1>8, <2>1, WithinGrows
<1>9. MaxDepth >= 1 => h[1] = Within(Allowed, seed, 1)
  <2> SUFFICES ASSUME MaxDepth >= 1 PROVE h[1] = Within(Allowed, seed, 1)
    OBVIOUS
  <2>1. 1 \in 0 .. MaxDepth /\ 1 - 1 = 0 /\ 1 # 0
    BY DepthsAreFew
  <2> QED BY <1>7, <1>8, <2>1
<1>10. MaxDepth = 2 => h[2] = Within(Allowed, seed, 2)
  <2> SUFFICES ASSUME MaxDepth = 2 PROVE h[2] = Within(Allowed, seed, 2)
    OBVIOUS
  <2>1. 2 \in 0 .. MaxDepth /\ 2 - 1 = 1 /\ 2 # 0 /\ MaxDepth >= 1
    OBVIOUS
  <2> QED BY <1>8, <1>9, <2>1
<1>11. \A k \in 0 .. MaxDepth : k = 0 \/ (k = 1 /\ MaxDepth >= 1) \/ (k = 2 /\ MaxDepth = 2)
  BY DepthsAreFew
<1> QED BY <1>7, <1>9, <1>10, <1>11 DEF h

LEMMA WalkEndsComplete ==
  ASSUME WalkInv
  PROVE  QuietReadIsComplete
<1> DEFINE hops == Hops(rd.seed)
           expanded == IF MaxDepth = 0 THEN {} ELSE hops[MaxDepth - 1]
           reached == UNION {{<<Candidate(e, d), e>> : e \in EdgesAt(r[2], d)} : r \in expanded, d \in {"outgoing", "incoming"}}
<1> SUFFICES ASSUME rd.pc = "done", rd.quiet, rd.codes \subseteq {"bound_max_depth"}
             PROVE  /\ rd.seen = hops[MaxDepth]
                    /\ rd.nodes = {r \in rd.seen : Row(r) # {}}
                    /\ rd.edges \subseteq {p[2] : p \in {q \in reached : q[1] \in rd.seen}}
                    /\ {p[2] : p \in {q \in reached : AuthorizedCandidate(q[1], q[2].project)}} \subseteq rd.edges
  BY DEF QuietReadIsComplete
<1>1. Searching(rd, Arms, Allowed) /\ NodesAreRows(rd) /\ rd.frontier = <<>>
  BY DEF WalkInv, CutByDepthOnly
<1>2. \A k \in 0 .. MaxDepth : hops[k] = Within(Allowed, rd.seed, k)
  BY HopsAreWithin
<1>3. expanded = Expandable(Allowed, rd.seed) /\ hops[MaxDepth] = Within(Allowed, rd.seed, MaxDepth)
  BY <1>2, DepthsAreFew DEF Expandable
<1> HIDE DEF hops, expanded
<1>4. \A r \in rd.seen \cap Expandable(Allowed, rd.seed) : Closed(rd, Arms, Allowed, r)
  <2>1. \A r : ~Waiting(rd, r)
    BY <1>1 DEF Waiting
  <2> QED BY <1>1, <2>1 DEF Searching, SeenIsExpanded
<1>5. ASSUME NEW k \in 0 .. 1, k < MaxDepth, Within(Allowed, rd.seed, k) \subseteq rd.seen
      PROVE  Within(Allowed, rd.seed, k + 1) \subseteq rd.seen
  <2>1. Within(Allowed, rd.seed, k) \subseteq rd.seen \cap Expandable(Allowed, rd.seed)
    BY <1>5, WithinGrows
  <2>2. \A q \in Allowed, r \in Within(Allowed, rd.seed, k) : Foot(q) = r[2] => Tip(q) \in rd.seen
    BY <1>4, <2>1, ArmsOf DEF Closed, Handled
  <2>3. Around(Allowed, Within(Allowed, rd.seed, k)) \subseteq rd.seen
    BY <1>5, <2>2 DEF Around
  <2> QED BY <2>3, WithinGrows
<1>6. Within(Allowed, rd.seed, MaxDepth) \subseteq rd.seen
  <2>1. Within(Allowed, rd.seed, 0) \subseteq rd.seen
    BY <1>1, WithinGrows DEF Searching, SeenIsExpanded
  <2>2. MaxDepth > 0 => Within(Allowed, rd.seed, 1) \subseteq rd.seen
    BY <1>5, <2>1
  <2>3. MaxDepth > 1 => Within(Allowed, rd.seed, 2) \subseteq rd.seen
    BY <1>5, <2>2, DepthsAreFew
  <2> QED BY <2>1, <2>2, <2>3, DepthsAreFew
<1>7. rd.seen = hops[MaxDepth]
  <2>1. rd.seen \subseteq Within(Allowed, rd.seed, MaxDepth)
    BY <1>1 DEF Searching, SeenIsExpanded
  <2> QED BY <1>3, <1>6, <2>1
<1>8. ASSUME NEW e \in rd.edges PROVE \E p \in reached : p[2] = e /\ p[1] \in rd.seen
  <2>1. PICK q \in Arms : q[1] = e /\ Tip(q) \in rd.seen /\ \E r \in Expandable(Allowed, rd.seed) : Foot(q) = r[2]
    BY <1>1, <1>8 DEF Searching, SeenIsExpanded
  <2>2. PICK r \in expanded : Foot(q) = r[2]
    BY <1>3, <2>1
  <2>3. e \in EdgesAt(r[2], q[2]) /\ q[2] \in {"outgoing", "incoming"} /\ Tip(q) = Candidate(e, q[2])
    BY <2>1, <2>2, ArmsOf DEF Tip, Directions
  <2>4. <<Candidate(e, q[2]), e>> \in reached
    <3> DEFINE families == {{<<Candidate(f, d), f>> : f \in EdgesAt(s[2], d)} : s \in expanded, d \in {"outgoing", "incoming"}}
    <3>1. <<Candidate(e, q[2]), e>> \in {<<Candidate(f, q[2]), f>> : f \in EdgesAt(r[2], q[2])}
      BY <2>3
    <3>2. {<<Candidate(f, q[2]), f>> : f \in EdgesAt(r[2], q[2])} \in families
      BY <2>2, <2>3
    <3>3. reached = UNION families
      OBVIOUS
    <3> HIDE DEF families, reached
    <3> QED BY <3>1, <3>2, <3>3
  <2> QED BY <2>1, <2>3, <2>4
<1>9. ASSUME NEW p \in reached, AuthorizedCandidate(p[1], p[2].project) PROVE p[2] \in rd.edges
  <2>1. PICK r \in expanded, d \in Directions : \E e \in EdgesAt(r[2], d) : p = <<Candidate(e, d), e>>
    BY <1>9 DEF Directions
  <2>2. PICK e \in EdgesAt(r[2], d) : p = <<Candidate(e, d), e>>
    BY <2>1
  <2>3. <<e, d>> \in Arms /\ <<e, d>>[1] = e /\ <<e, d>>[2] = d /\ p[1] = Candidate(e, d) /\ p[2] = e
    BY <2>2, ArmsOf DEF EdgesAt
  <2>4. Foot(<<e, d>>) = r[2] /\ <<e, d>> \in Allowed
    BY <1>9, <2>2, <2>3, ArmsOf DEF Allowed, Tip
  <2>5. r \in rd.seen \cap Expandable(Allowed, rd.seed)
    <3>1. Expandable(Allowed, rd.seed) \subseteq Within(Allowed, rd.seed, MaxDepth)
      BY DepthsAreFew, WithinGrows DEF Expandable
    <3> QED BY <1>3, <1>6, <3>1
  <2> QED BY <1>4, <2>3, <2>4, <2>5 DEF Closed, Handled
<1>10. rd.nodes = {r \in rd.seen : Row(r) # {}}
  BY <1>1 DEF NodesAreRows
<1> HIDE DEF reached
<1> QED BY <1>7, <1>8, <1>9, <1>10

(* A read that nothing disturbed and no bound but the depth cut short has  *)
(* found every reference within its depth that may be shown, with the      *)
(* edges that lead there, and nothing else.                                *)
THEOREM QuietReadsAreComplete == Spec => []QuietReadIsComplete
<1>1. Spec => []WalkInv
  BY WalkInitially, NextPreservesWalkInv, Invariance, PTL DEF Spec
<1>2. WalkInv => QuietReadIsComplete
  BY WalkEndsComplete
<1> QED BY <1>1, <1>2, PTL
=============================================================================
