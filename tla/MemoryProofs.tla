----------------------------- MODULE MemoryProofs -----------------------------
(***************************************************************************)
(* Project memory for any stream of events: every slot has one current     *)
(* record whatever is projected, replayed, refused or cut short, a         *)
(* supersession goes through, a failed full rebuild gives the tables back, *)
(* and the tables are what a replay of the stream gives.  The argument is  *)
(* about one operation on the tables; the stream and the replays only      *)
(* apply operations or put back tables there were.                         *)
(***************************************************************************)
EXTENDS ProjectMemory, FiniteSetTheorems, SequenceTheorems, WellFoundedInduction, TLAPS

Projects == {ev.project : ev \in Events}
Scopes == {ev.scope : ev \in Events} \cup {"of project"}
Keys == {ev.key : ev \in Events}
Texts == {ev.text : ev \in Events}
Lifecycles == {ev.lifecycle : ev \in Events} \cup {"superseded", "candidate", "deleted"}
Ids == {ev.id : ev \in Events}
Links == {ev.supersedes : ev \in Events} \cup Nat

\* What event_to_op gives.
Ops ==
    [domain : {ev.domain : ev \in Events}, op : {ev.op : ev \in Events}, id : Ids, project : Projects, scope : Scopes,
     key : Keys, text : Texts, lifecycle : Lifecycles, supersedes : {ev.supersedes : ev \in Events},
     claim : {ev.claim : ev \in Events}]

Rows ==
    [project : Projects, scope : Scopes, key : Keys, text : Texts, lifecycle : Lifecycles, version : Nat,
     supersedes : Links, replacedBy : Ids \cup {None}]

RowsOf(table) == \A id \in DOMAIN table : table[id] \in Rows

Shaped(t) ==
    t = [there |-> t.there, charter |-> t.charter, requirement |-> t.requirement, decision |-> t.decision,
         state |-> t.state, verification |-> t.verification, artifact |-> t.artifact]

\* Two active rows of a slot with a key are the same row.
OneStatePerSlot(rows) ==
    \A i, j \in DOMAIN rows :
        (SameSlot(rows[i], rows[j]) /\ rows[i].key # None /\ {rows[i].lifecycle, rows[j].lifecycle} = {"active"}) => i = j

\* What every operation keeps.
TablesSound(t) ==
    /\ Shaped(t)
    /\ RowsOf(t.charter) /\ RowsOf(t.requirement) /\ RowsOf(t.decision) /\ t.state \in Seq(Rows)
    /\ ~CharterClash(t.charter)
    /\ ~DecisionClash(t.decision) /\ Linked(t.decision)
    /\ OneStatePerSlot(t.state)

\* A job holds a sound copy of the tables, which is the one it began from.
JobSound ==
    \/ job = NoJob
    \/ /\ job = [kind |-> job.kind, filter |-> job.filter, events |-> job.events, at |-> job.at,
                 snapshot |-> job.snapshot, from |-> job.from]
       /\ job.kind \in {"all", "over"} /\ job.events \in Seq(Events) /\ job.at \in Nat
       /\ TablesSound(job.snapshot) /\ job.from = job.snapshot

IInv ==
    /\ log \in Seq(Events) /\ next \in Nat \ {0}
    /\ TablesSound(db)
    /\ JobSound

-----------------------------------------------------------------------------
(***************************************************************************)
(* Rows and tables.                                                        *)
(***************************************************************************)

\* event_to_op fills in the scope of a keyed state and the lifecycle of a
\* deletion, and keeps the rest.
LEMMA OpOfEvent ==
    ASSUME NEW ev \in Events
    PROVE  LET op == EventToOp(ev) IN
           /\ op \in Ops
           /\ op.domain = ev.domain /\ op.op = ev.op /\ op.id = ev.id /\ op.project = ev.project
           /\ op.key = ev.key /\ op.supersedes = ev.supersedes
BY EventsAreRecords DEF EventToOp, EventFields, Ops, Scopes, Lifecycles, Projects, Keys, Texts, Ids

\* The row an operation writes is a row.
LEMMA RowOfOp ==
    ASSUME NEW op \in Ops, NEW version \in Nat
    PROVE  Row(op, version) \in Rows
BY DEF Row, Rows, Ops, Links, Ids

\* A row keeps its shape when its lifecycle is set.
LEMMA RowLifecycle ==
    ASSUME NEW row \in Rows, NEW lifecycle \in Lifecycles
    PROVE  LET new == [row EXCEPT !.lifecycle = lifecycle] IN
           /\ new \in Rows /\ new.lifecycle = lifecycle
           /\ new.project = row.project /\ new.scope = row.scope /\ new.key = row.key
           /\ new.supersedes = row.supersedes /\ new.replacedBy = row.replacedBy
BY DEF Rows

LEMMA PutRows ==
    ASSUME NEW table, RowsOf(table), NEW id, NEW row \in Rows
    PROVE  RowsOf(Put(table, id, row))
BY DEF RowsOf, Put

LEMMA ExceptLifecycle ==
    ASSUME NEW table, RowsOf(table), NEW id, NEW lifecycle \in Lifecycles
    PROVE  LET new == [table EXCEPT ![id].lifecycle = lifecycle] IN
           /\ RowsOf(new) /\ DOMAIN new = DOMAIN table
           /\ \A i \in DOMAIN table : i # id => new[i] = table[i]
           /\ id \in DOMAIN table => new[id] = [table[id] EXCEPT !.lifecycle = lifecycle]
BY RowLifecycle DEF RowsOf

LEMMA SettleCharterSound ==
    ASSUME NEW t, TablesSound(t), NEW table, RowsOf(table)
    PROVE  TablesSound(SettleCharter(t, table).db)
<1>1. CASE CharterClash(table) \/ ~Linked(table)
    BY <1>1 DEF SettleCharter, Outcome
<1>2. CASE ~CharterClash(table) /\ Linked(table)
    <2>1. SettleCharter(t, table).db = [t EXCEPT !.charter = table]
        BY <1>2 DEF SettleCharter, Outcome
    <2>2. [t EXCEPT !.charter = table] =
             [there |-> t.there, charter |-> table, requirement |-> t.requirement, decision |-> t.decision,
              state |-> t.state, verification |-> t.verification, artifact |-> t.artifact]
        BY DEF TablesSound, Shaped
    <2> QED BY <1>2, <2>1, <2>2 DEF TablesSound, Shaped
<1> QED BY <1>1, <1>2

\* Writing a table of requirements or decisions leaves the other tables alone.
LEMMA WriteTable ==
    ASSUME NEW t, Shaped(t), NEW table
    PROVE  /\ [t EXCEPT !["decision"] = table] =
                 [there |-> t.there, charter |-> t.charter, requirement |-> t.requirement, decision |-> table,
                  state |-> t.state, verification |-> t.verification, artifact |-> t.artifact]
           /\ [t EXCEPT !["requirement"] = table] =
                 [there |-> t.there, charter |-> t.charter, requirement |-> table, decision |-> t.decision,
                  state |-> t.state, verification |-> t.verification, artifact |-> t.artifact]
           /\ [t EXCEPT !["state"] = table] =
                 [there |-> t.there, charter |-> t.charter, requirement |-> t.requirement, decision |-> t.decision,
                  state |-> table, verification |-> t.verification, artifact |-> t.artifact]
<1> DEFINE fields == {"there", "charter", "requirement", "decision", "state", "verification", "artifact"}
<1>1. DOMAIN t = fields
    BY DEF Shaped
<1>2. [t EXCEPT !["decision"] = table] = [f \in fields |-> IF f = "decision" THEN table ELSE t[f]]
    BY <1>1
<1>3. [t EXCEPT !["requirement"] = table] = [f \in fields |-> IF f = "requirement" THEN table ELSE t[f]]
    BY <1>1
<1>4. [t EXCEPT !["state"] = table] = [f \in fields |-> IF f = "state" THEN table ELSE t[f]]
    BY <1>1
<1> QED BY <1>2, <1>3, <1>4

LEMMA SettleSound ==
    ASSUME NEW t, TablesSound(t), NEW table, RowsOf(table), NEW domain \in {"requirement", "decision"}
    PROVE  TablesSound(Settle(t, table, domain).db)
<1>1. CASE (domain = "decision" /\ DecisionClash(table)) \/ ~Linked(table)
    BY <1>1 DEF Settle, Outcome
<1>2. CASE ~(domain = "decision" /\ DecisionClash(table)) /\ Linked(table)
    <2>1. Settle(t, table, domain).db = [t EXCEPT ![domain] = table]
        BY <1>2 DEF Settle, Outcome
    <2>2. CASE domain = "decision"
        <3>1. TablesSound([t EXCEPT !["decision"] = table])
            BY <1>2, <2>2, WriteTable DEF TablesSound, Shaped
        <3> QED BY <2>1, <2>2, <3>1
    <2>3. CASE domain = "requirement"
        <3>1. TablesSound([t EXCEPT !["requirement"] = table])
            BY WriteTable DEF TablesSound, Shaped
        <3> QED BY <2>1, <2>3, <3>1
    <2> QED BY <2>2, <2>3
<1> QED BY <1>1, <1>2

-----------------------------------------------------------------------------
(***************************************************************************)
(* One operation on sound tables leaves sound tables.                      *)
(***************************************************************************)

LEMMA CharterKeepsSound ==
    ASSUME NEW t, TablesSound(t), NEW op \in Ops, op.op \in Operations
    PROVE  TablesSound(ProjectCharter(t, op).db)
<1> DEFINE old == t.charter[op.id]
<1>0. RowsOf(t.charter) /\ Row(op, 1) \in Rows /\ op.lifecycle \in Lifecycles /\ "superseded" \in Lifecycles
    BY RowOfOp DEF TablesSound, Ops, Lifecycles
<1>1. TablesSound(CharterCreate(t, op).db)
    BY <1>0, PutRows, SettleCharterSound DEF CharterCreate, Outcome
<1>2. TablesSound(CharterSupersede(t, op).db)
    BY <1>0, ExceptLifecycle, PutRows, SettleCharterSound DEF CharterSupersede, Outcome
<1>3. TablesSound(CharterUpdate(t, op).db)
    <2>1. CASE Known(t.charter, op.id) /\ ~CharterEqual(old, op)
        <3>1. old \in Rows
            BY <1>0, <2>1 DEF RowsOf, Known
        <3>2. [Row(op, old.version + 1) EXCEPT !.project = old.project] \in Rows
            BY <3>1, RowOfOp DEF Rows
        <3>3. RowsOf([t.charter EXCEPT ![op.id] = [Row(op, old.version + 1) EXCEPT !.project = old.project]])
            BY <1>0, <3>2 DEF RowsOf
        <3> QED BY <2>1, <3>3, SettleCharterSound DEF CharterUpdate, Outcome
    <2> QED BY <2>1 DEF CharterUpdate, Outcome
<1>4. TablesSound(CharterTransition(t, op).db)
    BY <1>0, ExceptLifecycle, SettleCharterSound DEF CharterTransition, Outcome
<1> QED BY <1>1, <1>2, <1>3, <1>4 DEF ProjectCharter, Operations

LEMMA DecisionKeepsSound ==
    ASSUME NEW t, TablesSound(t), NEW op \in Ops, op.domain \in {"requirement", "decision"}
    PROVE  TablesSound(RequirementOrDecision(t, op).db)
<1> DEFINE table == t[op.domain]
<1>0. RowsOf(table) /\ Row(op, 1) \in Rows /\ op.lifecycle \in Lifecycles /\ {"superseded", "deleted", "candidate"} \subseteq Lifecycles
    BY RowOfOp DEF TablesSound, Ops, Lifecycles
<1>1. TablesSound(Create(t, op).db)
    BY <1>0, PutRows, SettleSound DEF Create, Outcome
<1>2. TablesSound(Transition(t, op).db)
    <2> DEFINE new == [table EXCEPT ![op.id].lifecycle = op.lifecycle,
                                    ![op.id].text = Given(op.text, @),
                                    ![op.id].scope = Given(op.scope, @),
                                    ![op.id].key = Given(op.key, @),
                                    ![op.id].supersedes = Given(op.supersedes, @)]
    <2>1. CASE Known(table, op.id)
        <3>1. RowsOf(new)
            <4>1. table[op.id] \in Rows
                BY <1>0, <2>1 DEF RowsOf, Known
            <4>2. new[op.id] \in Rows
                BY <2>1, <4>1 DEF Rows, Ops, Given, Known, Links
            <4> QED BY <1>0, <4>2 DEF RowsOf
        <3> HIDE DEF new
        <3>2. Transition(t, op) = Outcome(t, "transition") \/ Transition(t, op) = Settle(t, new, op.domain)
            BY <2>1 DEF Transition, new
        <3> QED BY <3>1, <3>2, SettleSound DEF Outcome
    <2> QED BY <2>1 DEF Transition, Outcome
<1>3. TablesSound(Supersede(t, op).db)
    <2> DEFINE first == Row(IF op.domain = "decision" THEN [op EXCEPT !.lifecycle = "candidate"] ELSE op, 1)
               inserted == Settle(t, Put(table, op.id, first), op.domain)
               mid == inserted.db[op.domain]
               new == [mid EXCEPT ![op.supersedes].lifecycle = "superseded",
                                  ![op.supersedes].replacedBy = op.id,
                                  ![op.id].lifecycle = op.lifecycle]
    <2>1. first \in Rows
        BY <1>0 DEF Ops, Row, Rows, Links, Ids
    <2>2. TablesSound(inserted.db) /\ RowsOf(mid)
        BY <1>0, <2>1, PutRows, SettleSound DEF TablesSound
    <2>3. RowsOf(new)
        <3> SUFFICES ASSUME NEW i \in DOMAIN new PROVE new[i] \in Rows
            BY DEF RowsOf
        <3> HIDE DEF mid
        <3>1. mid[i] \in Rows
            BY <2>2 DEF RowsOf
        <3> QED BY <1>0, <3>1 DEF Rows, Ops, Ids
    <2> QED BY <2>2, <2>3, SettleSound DEF Supersede, Outcome
<1>4. TablesSound(Delete(t, op).db)
    <2> DEFINE new == [table EXCEPT ![op.id].lifecycle = "deleted"]
    <2>1. CASE Known(table, op.id)
        <3>1. /\ RowsOf(new) /\ DOMAIN new = DOMAIN table
              /\ \A i \in DOMAIN table : /\ new[i].project = table[i].project /\ new[i].scope = table[i].scope
                                         /\ new[i].key = table[i].key /\ new[i].supersedes = table[i].supersedes
                                         /\ new[i].replacedBy = table[i].replacedBy
                                         /\ new[i].lifecycle \in {table[i].lifecycle, "deleted"}
            BY <1>0, ExceptLifecycle, RowLifecycle DEF RowsOf
        <3> HIDE DEF new
        <3>2. Linked(table) => Linked(new)
            BY <3>1 DEF Linked
        <3>3. ~DecisionClash(table) => ~DecisionClash(new)
            <4> SUFFICES ASSUME NEW i \in DOMAIN new, NEW j \in DOMAIN new, i # j,
                                {new[i].lifecycle, new[j].lifecycle} = {"active"}, new[i].key # None, new[i].scope # None,
                                <<new[i].project, new[i].scope, new[i].key>> = <<new[j].project, new[j].scope, new[j].key>>
                         PROVE  DecisionClash(table)
                BY DEF DecisionClash
            <4>1. table[i].lifecycle = "active" /\ table[j].lifecycle = "active"
                BY <3>1
            <4>2. <<table[i].project, table[i].scope, table[i].key>> = <<table[j].project, table[j].scope, table[j].key>>
                BY <3>1
            <4> QED BY <3>1, <4>1, <4>2 DEF DecisionClash
        <3>4. CASE op.domain = "decision"
            <4>1. Delete(t, op).db = [t EXCEPT !["decision"] = new]
                BY <2>1, <3>4 DEF Delete, Outcome, new, TablesSound, Shaped
            <4> QED BY <3>1, <3>2, <3>3, <3>4, <4>1, WriteTable DEF TablesSound, Shaped
        <3>5. CASE op.domain = "requirement"
            <4>1. Delete(t, op).db = [t EXCEPT !["requirement"] = new]
                BY <2>1, <3>5 DEF Delete, Outcome, new, TablesSound, Shaped
            <4> QED BY <3>1, <3>5, <4>1, WriteTable DEF TablesSound, Shaped
        <3> QED BY <3>4, <3>5
    <2> QED BY <2>1 DEF Delete, Outcome
<1> QED BY <1>1, <1>2, <1>3, <1>4 DEF RequirementOrDecision, Outcome

\* The reader of a slot takes its first active row, and there is one.
LEMMA LeastOf ==
    ASSUME NEW S \in SUBSET Nat, S # {}
    PROVE  \E i \in S : \A j \in S : i <= j
<1>1. PICK i \in S : \A j \in S : ~ (<<j, i>> \in OpToRel(<, Nat))
    BY NatLessThanWellFounded, WFMin
<1>2. ASSUME NEW j \in S, j < i PROVE FALSE
    <2>1. <<j, i>> \in OpToRel(<, Nat)
        BY <1>2 DEF OpToRel
    <2> QED BY <1>1, <2>1
<1> QED BY <1>2

\* Retiring a row of a sequence.
LEMMA StateAsRows ==
    ASSUME NEW rows \in Seq(Rows), NEW i \in DOMAIN rows, NEW lifecycle \in Lifecycles
    PROVE  LET new == StateAs(rows, i, lifecycle) IN
           /\ new \in Seq(Rows) /\ Len(new) = Len(rows)
           /\ \A j \in 1..Len(rows) : j # i => new[j] = rows[j]
           /\ new[i] = [rows[i] EXCEPT !.lifecycle = lifecycle]
<1>1. rows[i] \in Rows /\ i \in 1..Len(rows)
    OBVIOUS
<1>2. [rows[i] EXCEPT !.lifecycle = lifecycle] \in Rows
    BY <1>1, RowLifecycle
<1>3. StateAs(rows, i, lifecycle) = [rows EXCEPT ![i] = [rows[i] EXCEPT !.lifecycle = lifecycle]]
    BY DEF StateAs
<1> QED BY <1>1, <1>2, <1>3

\* A new row of the slot op names, when it is not active, or has no key, or
\* the slot has no active row.
LEMMA InsertKeepsSlots ==
    ASSUME NEW rows \in Seq(Rows), OneStatePerSlot(rows), NEW op \in Ops, NEW link \in Links,
           \/ op.lifecycle # "active" \/ op.key = None
           \/ \A i \in DOMAIN rows : SameSlot(rows[i], op) => rows[i].lifecycle # "active"
    PROVE  /\ InsertState(rows, op, link) \in Seq(Rows)
           /\ OneStatePerSlot(InsertState(rows, op, link))
<1> DEFINE row == [Row(op, 1) EXCEPT !.supersedes = link]
           new == Append(rows, row)
<1>1. row \in Rows /\ SameSlot(row, op) /\ row.lifecycle = op.lifecycle /\ row.key = op.key
    BY RowOfOp DEF Rows, Row, SameSlot
<1>2. /\ new \in Seq(Rows) /\ Len(new) = Len(rows) + 1 /\ new[Len(rows) + 1] = row
      /\ \A i \in 1..Len(rows) : new[i] = rows[i]
    BY <1>1
<1> HIDE DEF row, new
<1>3. OneStatePerSlot(new)
    <2> SUFFICES ASSUME NEW i \in DOMAIN new, NEW j \in DOMAIN new, i < j, SameSlot(new[i], new[j]), new[i].key # None,
                        new[i].lifecycle = "active", new[j].lifecycle = "active"
                 PROVE  FALSE
        <3> SUFFICES ASSUME NEW i \in DOMAIN new, NEW j \in DOMAIN new, i # j, SameSlot(new[i], new[j]), new[i].key # None,
                            {new[i].lifecycle, new[j].lifecycle} = {"active"}
                     PROVE  FALSE
            BY DEF OneStatePerSlot
        <3>1. SameSlot(new[j], new[i]) /\ new[j].key # None /\ new[i].lifecycle = "active" /\ new[j].lifecycle = "active"
            BY DEF SameSlot
        <3> QED BY <1>2, <3>1
    <2>1. i \in DOMAIN rows /\ new[i] = rows[i]
        BY <1>2
    <2>2. CASE j \in DOMAIN rows
        BY <1>2, <2>1, <2>2 DEF OneStatePerSlot
    <2>3. CASE j = Len(rows) + 1
        <3>1. SameSlot(rows[i], op) /\ op.lifecycle = "active" /\ op.key # None
            BY <1>1, <1>2, <2>1, <2>3 DEF SameSlot
        <3> QED BY <2>1, <3>1
    <2> QED BY <1>2, <2>2, <2>3
<1> QED BY <1>2, <1>3 DEF InsertState, row, new

\* An active row leaves the active ones, or stays in its slot.
LEMMA RetireKeepsSlots ==
    ASSUME NEW rows \in Seq(Rows), OneStatePerSlot(rows), NEW i \in DOMAIN rows, rows[i].lifecycle = "active",
           NEW lifecycle \in Lifecycles
    PROVE  /\ StateAs(rows, i, lifecycle) \in Seq(Rows)
           /\ OneStatePerSlot(StateAs(rows, i, lifecycle))
           /\ Len(StateAs(rows, i, lifecycle)) = Len(rows)
<1> DEFINE new == StateAs(rows, i, lifecycle)
<1>1. /\ new \in Seq(Rows) /\ DOMAIN new = DOMAIN rows /\ Len(new) = Len(rows)
      /\ \A j \in DOMAIN rows : /\ new[j].project = rows[j].project /\ new[j].scope = rows[j].scope
                                /\ new[j].key = rows[j].key /\ (new[j].lifecycle = "active" => rows[j].lifecycle = "active")
    <2>1. new \in Seq(Rows) /\ Len(new) = Len(rows) /\ new[i] = [rows[i] EXCEPT !.lifecycle = lifecycle]
          /\ \A j \in 1..Len(rows) : j # i => new[j] = rows[j]
        BY StateAsRows
    <2>2. rows[i] \in Rows
        OBVIOUS
    <2>3. new[i].project = rows[i].project /\ new[i].scope = rows[i].scope /\ new[i].key = rows[i].key
        BY <2>1, <2>2, RowLifecycle
    <2>4. new[i].lifecycle = lifecycle
        BY <2>1, <2>2, RowLifecycle
    <2> HIDE DEF new
    <2>5. DOMAIN new = DOMAIN rows /\ DOMAIN rows = 1..Len(rows)
        BY <2>1
    <2>6. ASSUME NEW j \in DOMAIN rows
          PROVE  /\ new[j].project = rows[j].project /\ new[j].scope = rows[j].scope /\ new[j].key = rows[j].key
                 /\ new[j].lifecycle = "active" => rows[j].lifecycle = "active"
        BY <2>1, <2>3, <2>5
    <2> QED BY <2>1, <2>5, <2>6
<1> HIDE DEF new
<1>2. OneStatePerSlot(new)
    <2> SUFFICES ASSUME NEW j \in DOMAIN new, NEW k \in DOMAIN new, SameSlot(new[j], new[k]), new[j].key # None,
                        {new[j].lifecycle, new[k].lifecycle} = {"active"}
                 PROVE  j = k
        BY DEF OneStatePerSlot
    <2>1. SameSlot(rows[j], rows[k]) /\ rows[j].key # None /\ {rows[j].lifecycle, rows[k].lifecycle} = {"active"}
        BY <1>1 DEF SameSlot
    <2> QED BY <1>1, <2>1 DEF OneStatePerSlot
<1> QED BY <1>1, <1>2 DEF new

LEMMA StateKeepsSound ==
    ASSUME NEW t, TablesSound(t), NEW op \in Ops, op.op \in Operations
    PROVE  TablesSound(ProjectState(t, op).db)
<1> DEFINE rows == t.state
           actives == ActiveState(t, op)
           i == CHOOSE i \in actives : \A j \in actives : i <= j
           Fine(new) == new \in Seq(Rows) /\ OneStatePerSlot(new)
           with(new) == Outcome([t EXCEPT !.state = new], "ok")
           retired == IF actives # {} /\ op.key # None THEN StateAs(rows, i, "superseded") ELSE rows
<1>0. Fine(rows) /\ op.lifecycle \in Lifecycles /\ {"superseded", "deleted"} \subseteq Lifecycles /\ op.supersedes \in Links
    BY DEF TablesSound, Ops, Lifecycles, Links
<1>1. actives # {} => i \in actives
    <2>1. actives \in SUBSET Nat
        BY <1>0 DEF ActiveState
    <2> HIDE DEF actives
    <2> QED BY <2>1, LeastOf
<1>2. i \in actives => i \in DOMAIN rows /\ SameSlot(rows[i], op) /\ rows[i].lifecycle = "active" /\ i \in Links
    BY <1>0 DEF ActiveState, Links
<1> HIDE DEF i
<1>3. \A new : Fine(new) => TablesSound(with(new).db)
    <2> TAKE new
    <2> QED BY WriteTable DEF TablesSound, Shaped, Outcome
<1>4. i \in actives /\ op.key # None =>
         \A j \in DOMAIN rows : SameSlot(rows[j], op) /\ rows[j].lifecycle = "active" => j = i
    BY <1>0, <1>2 DEF OneStatePerSlot, SameSlot
<1>5. i \in actives => \A lifecycle \in Lifecycles :
                           Fine(StateAs(rows, i, lifecycle)) /\ Len(StateAs(rows, i, lifecycle)) = Len(rows)
    BY <1>0, <1>2, RetireKeepsSlots
<1>6. i \in actives /\ op.key # None =>
         LET new == StateAs(rows, i, "superseded") IN
         \A j \in DOMAIN new : SameSlot(new[j], op) => new[j].lifecycle # "active"
    <2> SUFFICES ASSUME i \in actives, op.key # None,
                        NEW j \in DOMAIN StateAs(rows, i, "superseded"), SameSlot(StateAs(rows, i, "superseded")[j], op)
                 PROVE  StateAs(rows, i, "superseded")[j].lifecycle # "active"
        OBVIOUS
    <2> DEFINE new == StateAs(rows, i, "superseded")
    <2>1. new \in Seq(Rows) /\ Len(new) = Len(rows) /\ new[i] = [rows[i] EXCEPT !.lifecycle = "superseded"]
          /\ \A k \in 1..Len(rows) : k # i => new[k] = rows[k]
        BY <1>0, <1>2, StateAsRows
    <2>2. rows[i] \in Rows
        BY <1>0, <1>2
    <2>3. new[i].lifecycle = "superseded"
        BY <2>1, <2>2 DEF Rows
    <2>4. j \in DOMAIN rows
        BY <1>0, <2>1
    <2> HIDE DEF new
    <2> QED BY <1>4, <2>1, <2>3, <2>4, <1>0 DEF new
<1>7. Fine(InsertState(rows, op, op.supersedes)) \/ (op.lifecycle = "active" /\ op.key # None /\ actives # {})
    BY <1>0, InsertKeepsSlots DEF ActiveState
<1>8. Fine(InsertState(retired, op, op.supersedes))
    <2>1. CASE actives # {} /\ op.key # None
        BY <1>0, <1>1, <1>5, <1>6, <2>1, InsertKeepsSlots
    <2>2. CASE actives = {} \/ op.key = None
        BY <1>0, <2>2, InsertKeepsSlots DEF ActiveState
    <2> QED BY <2>1, <2>2
<1>9. actives # {} => Fine(InsertState(StateAs(rows, i, "superseded"), op, i))
    <2>1. CASE op.key # None
        BY <1>0, <1>1, <1>2, <1>5, <1>6, <2>1, InsertKeepsSlots
    <2>2. CASE op.key = None
        BY <1>0, <1>1, <1>2, <1>5, <2>2, InsertKeepsSlots
    <2> QED BY <2>1, <2>2
<1>10. actives # {} => Fine([StateAs(rows, i, op.lifecycle) EXCEPT ![i].text = Given(op.text, @)])
    <2> SUFFICES ASSUME actives # {} PROVE Fine([StateAs(rows, i, op.lifecycle) EXCEPT ![i].text = Given(op.text, @)])
        OBVIOUS
    <2> DEFINE mid == StateAs(rows, i, op.lifecycle)
               new == [mid EXCEPT ![i].text = Given(op.text, @)]
    <2>1. Fine(mid) /\ i \in 1..Len(mid)
        <3>1. Len(mid) = Len(rows)
            BY <1>0, <1>1, <1>5
        <3>2. i \in 1..Len(rows)
            BY <1>0, <1>1, <1>2
        <3> QED BY <1>0, <1>1, <1>5, <3>1, <3>2
    <2> HIDE DEF mid
    <2>2. mid[i] \in Rows
        BY <2>1
    <2>3. [mid[i] EXCEPT !.text = Given(op.text, @)] \in Rows
        BY <2>2 DEF Given, Rows, Ops
    <2>4. new \in Seq(Rows) /\ Len(new) = Len(mid)
        BY <2>1, <2>3
    <2>5. \A j \in 1..Len(mid) : /\ new[j].project = mid[j].project /\ new[j].scope = mid[j].scope
                                 /\ new[j].key = mid[j].key /\ new[j].lifecycle = mid[j].lifecycle
        BY <2>1, <2>2 DEF Rows
    <2> HIDE DEF new
    <2>6. OneStatePerSlot(new)
        <3>1. DOMAIN new = DOMAIN mid /\ DOMAIN mid = 1..Len(mid)
            BY <2>1, <2>4
        <3> QED BY <2>1, <2>5, <3>1 DEF OneStatePerSlot, SameSlot
    <2> QED BY <2>4, <2>6 DEF new, mid
<1> HIDE DEF Fine
<1> QED
    <2>1. CASE op.op = "create"
        BY <1>0, <1>3, <1>7, <2>1 DEF ProjectState, Outcome, i
    <2>2. CASE op.op = "update"
        BY <1>0, <1>3, <1>8, <2>2 DEF ProjectState, Outcome, i
    <2>3. CASE op.op = "supersede"
        BY <1>0, <1>3, <1>9, <2>3 DEF ProjectState, Outcome, i
    <2>4. CASE op.op = "transition"
        BY <1>0, <1>3, <1>10, <2>4 DEF ProjectState, Outcome, i
    <2>5. CASE op.op = "delete"
        BY <1>0, <1>1, <1>3, <1>5, <2>5 DEF ProjectState, Outcome, i
    <2> QED BY <2>1, <2>2, <2>3, <2>4, <2>5 DEF Operations

\* What is not about charters, decisions or states is not looked at.
LEMMA OthersKeepSound ==
    ASSUME NEW t, TablesSound(t), NEW op, NEW arts
    PROVE  TablesSound(ProjectVerification(t, op).db) /\ TablesSound(ProjectArtifact(t, op, arts).db)
<1>1. \A table : TablesSound([t EXCEPT !.verification = table]) /\ TablesSound([t EXCEPT !.artifact = table])
    <2> TAKE table
    <2>1. [t EXCEPT !.verification = table] =
             [there |-> t.there, charter |-> t.charter, requirement |-> t.requirement, decision |-> t.decision,
              state |-> t.state, verification |-> table, artifact |-> t.artifact]
        BY DEF TablesSound, Shaped
    <2>2. [t EXCEPT !.artifact = table] =
             [there |-> t.there, charter |-> t.charter, requirement |-> t.requirement, decision |-> t.decision,
              state |-> t.state, verification |-> t.verification, artifact |-> table]
        BY DEF TablesSound, Shaped
    <2> QED BY <2>1, <2>2 DEF TablesSound, Shaped
<1> QED BY <1>1 DEF ProjectVerification, ProjectArtifact, Outcome

\* One event, of any domain, on any sound tables.
LEMMA ProjectKeepsSound ==
    ASSUME NEW t, TablesSound(t), NEW ev \in Events, NEW arts
    PROVE  TablesSound(Project(t, ev, arts).db)
<1> DEFINE op == EventToOp(ev)
<1>1. op \in Ops /\ op.domain = ev.domain
    BY OpOfEvent
<1> HIDE DEF op
<1>2. CASE Classify(ev) = "skip" \/ BadTransition(op) \/ ~(t.there /\ ValidOp(op) /\ SafeReference(op))
    BY <1>2 DEF Project, Outcome, op
<1>3. CASE Classify(ev) # "skip" /\ ~BadTransition(op) /\ t.there /\ ValidOp(op) /\ SafeReference(op)
    <2>1. ev.domain \in Domains /\ op.op \in Operations
        BY <1>3 DEF Classify, ValidOp
    <2>2. Project(t, ev, arts) = CASE ev.domain = "charter" -> ProjectCharter(t, op)
                                   [] ev.domain = "requirement" -> ProjectRequirement(t, op)
                                   [] ev.domain = "decision" -> ProjectDecision(t, op)
                                   [] ev.domain = "state" -> ProjectState(t, op)
                                   [] ev.domain = "verification" -> ProjectVerification(t, op)
                                   [] ev.domain = "artifact" -> ProjectArtifact(t, op, arts)
        BY <1>3 DEF Project, op
    <2>3. CASE ev.domain = "charter"
        BY <1>1, <2>1, <2>2, <2>3, CharterKeepsSound
    <2>4. CASE ev.domain \in {"requirement", "decision"}
        BY <1>1, <2>2, <2>4, DecisionKeepsSound DEF ProjectRequirement, ProjectDecision
    <2>5. CASE ev.domain = "state"
        BY <1>1, <2>1, <2>2, <2>5, StateKeepsSound
    <2>6. CASE ev.domain \in {"verification", "artifact"}
        BY <2>2, <2>6, OthersKeepSound
    <2> QED BY <2>1, <2>3, <2>4, <2>5, <2>6 DEF Domains
<1> QED BY <1>2, <1>3

LEMMA ThereOfShaped ==
    ASSUME NEW t, Shaped(t), NEW there
    PROVE  [t EXCEPT !.there = there] =
              [there |-> there, charter |-> t.charter, requirement |-> t.requirement, decision |-> t.decision,
               state |-> t.state, verification |-> t.verification, artifact |-> t.artifact]
BY DEF Shaped

\* Soundness does not look at whether the tables are there.
LEMMA ThereKeepsSound ==
    ASSUME NEW t, TablesSound(t), NEW there
    PROVE  TablesSound([t EXCEPT !.there = there])
BY ThereOfShaped DEF TablesSound, Shaped

\* Tables without a row are sound, dropped or not.
LEMMA EmptySound == TablesSound(EmptyTables) /\ TablesSound([EmptyTables EXCEPT !.there = FALSE])
<1>1. <<>> \in Seq(Rows) /\ DOMAIN <<>> = {}
    OBVIOUS
<1>2. RowsOf(<<>>) /\ ~CharterClash(<<>>) /\ ~DecisionClash(<<>>) /\ Linked(<<>>) /\ OneStatePerSlot(<<>>)
    BY <1>1 DEF RowsOf, CharterClash, DecisionClash, Linked, OneStatePerSlot
<1>3. EmptyTables = [there |-> TRUE, charter |-> <<>>, requirement |-> <<>>, decision |-> <<>>, state |-> <<>>,
                     verification |-> <<>>, artifact |-> <<>>]
    BY DEF EmptyTables
<1> QED BY <1>1, <1>2, <1>3, ThereKeepsSound DEF TablesSound, Shaped

\* A job goes on to a later event with the tables it holds.
LEMMA JobGoesOn ==
    ASSUME NEW at \in Nat, JobSound, job # NoJob, job' = [job EXCEPT !.at = at]
    PROVE  JobSound'
<1>1. job' = [kind |-> job.kind, filter |-> job.filter, events |-> job.events, at |-> at,
              snapshot |-> job.snapshot, from |-> job.from]
    BY DEF JobSound
<1> QED BY <1>1 DEF JobSound

-----------------------------------------------------------------------------
(***************************************************************************)
(* The inductive invariant.                                                *)
(***************************************************************************)

LEMMA InitIInv == Init => IInv
BY EmptySound DEF Init, IInv, JobSound

LEMMA NextPreservesIInv == IInv /\ [Next]_vars => IInv'
<1> SUFFICES ASSUME IInv, [Next]_vars PROVE IInv'
    OBVIOUS
<1>0. log \in Seq(Events) /\ next \in Nat \ {0} /\ TablesSound(db) /\ JobSound
    BY DEF IInv
<1>1. ASSUME NEW ev \in Events, AppendEvent(ev) PROVE IInv'
    BY <1>0, <1>1 DEF AppendEvent, IInv, JobSound
<1>2. ASSUME NEW a \in Artifacts, IngestArtifact(a) PROVE IInv'
    BY <1>0, <1>2 DEF IngestArtifact, IInv, JobSound
<1>3. CASE ProjectNext
    <2>1. log[next] \in Events
        BY <1>0, <1>3 DEF ProjectNext
    <2> QED BY <1>0, <1>3, <2>1, ProjectKeepsSound DEF ProjectNext, IInv, JobSound
<1>4. ASSUME NEW f \in Filters, StartAll(f) \/ StartOver(f) PROVE IInv'
    <2>1. \E kind \in {"all", "over"}, at \in Nat :
             job' = [kind |-> kind, filter |-> f, events |-> log, at |-> at, snapshot |-> db, from |-> db]
        BY <1>4 DEF StartAll, StartOver
    <2>2. JobSound'
        BY <1>0, <2>1 DEF JobSound
    <2> QED BY <1>0, <1>4, <2>2, EmptySound DEF StartAll, StartOver, IInv
<1>5. CASE Recreate
    <2>1. job # NoJob
        BY <1>5 DEF Recreate, NoJob
    <2> QED BY <1>0, <1>5, <2>1, JobGoesOn, ThereKeepsSound DEF Recreate, IInv
<1>6. CASE Blocked
    BY <1>0, <1>6 DEF Blocked, IInv, JobSound
<1>7. CASE Fail
    BY <1>0, <1>7 DEF Fail, Replaying, NoJob, IInv, JobSound
<1>8. CASE ReplayOne
    <2>1. job # NoJob
        BY <1>8 DEF ReplayOne, Replaying, NoJob
    <2>2. job.at + 1 \in Nat /\ job.events[job.at] \in Events
        BY <1>0, <1>8, <2>1 DEF ReplayOne, Replaying, JobSound
    <2>3. TablesSound(db')
        BY <1>0, <1>8, <2>2, ProjectKeepsSound DEF ReplayOne
    <2> QED BY <1>0, <1>8, <2>1, <2>2, <2>3, JobGoesOn DEF ReplayOne, IInv
<1>9. CASE Finish
    BY <1>0, <1>9 DEF Finish, NoJob, IInv, JobSound
<1>10. CASE Die
    BY <1>0, <1>10 DEF Die, IInv, JobSound
<1>11. CASE UNCHANGED vars
    BY <1>0, <1>11 DEF vars, IInv, JobSound
<1> QED BY <1>1, <1>2, <1>3, <1>4, <1>5, <1>6, <1>7, <1>8, <1>9, <1>10, <1>11 DEF Next

\* Every reachable state satisfies the inductive invariant.
THEOREM Invariance == Spec => []IInv
BY InitIInv, NextPreservesIInv, PTL DEF Spec

-----------------------------------------------------------------------------
(***************************************************************************)
(* The properties of ProjectMemory.                                        *)
(***************************************************************************)

LEMMA AtMostOne ==
    ASSUME NEW S, \A x, y \in S : x = y
    PROVE  Cardinality(S) <= 1
<1>1. CASE S = {}
    BY <1>1, FS_EmptySet
<1>2. CASE S # {}
    <2>1. PICK x \in S : S = {x}
        BY <1>2
    <2> QED BY <2>1, FS_Singleton
<1> QED BY <1>1, <1>2

\* On sound tables the queries that fetch one row find at most one.
LEMMA SoundIsUnambiguous == TablesSound(db) => CurrentIsUnambiguous
<1> SUFFICES ASSUME TablesSound(db), NEW ev \in Events
             PROVE  /\ Cardinality(ActiveCharters(db, ev.project)) <= 1
                    /\ ActiveCharters(db, ev.project) \subseteq ListCharters(db, ev.project)
                    /\ ev.key # None =>
                          /\ \A scope \in {ev.scope, "of project"} : Cardinality(StateValues(db, ev.project, scope, ev.key)) <= 1
                          /\ ev.scope # None => Cardinality(ActiveDecisions(db, ev.project, ev.scope, ev.key)) <= 1
                          /\ ActiveDecisions(db, ev.project, ev.scope, ev.key) \subseteq ListDecisions(db, ev.project)
    BY DEF CurrentIsUnambiguous
<1>1. Cardinality(ActiveCharters(db, ev.project)) <= 1
    <2>1. \A i, j \in ActiveCharters(db, ev.project) : i = j
        BY DEF TablesSound, ActiveCharters, CharterClash
    <2> QED BY <2>1, AtMostOne
<1>2. ActiveCharters(db, ev.project) \subseteq ListCharters(db, ev.project)
    BY DEF ActiveCharters, ListCharters, Listable
<1>3. ASSUME ev.key # None, NEW scope \in {ev.scope, "of project"}
      PROVE  Cardinality(StateValues(db, ev.project, scope, ev.key)) <= 1
    <2>1. \A i, j \in StateValues(db, ev.project, scope, ev.key) : i = j
        BY <1>3 DEF TablesSound, StateValues, CurrentState, OneStatePerSlot, SameSlot
    <2> QED BY <2>1, AtMostOne
<1>4. ASSUME ev.key # None, ev.scope # None
      PROVE  Cardinality(ActiveDecisions(db, ev.project, ev.scope, ev.key)) <= 1
    <2>1. \A i, j \in ActiveDecisions(db, ev.project, ev.scope, ev.key) : i = j
        BY <1>4 DEF TablesSound, ActiveDecisions, DecisionClash
    <2> QED BY <2>1, AtMostOne
<1>5. ActiveDecisions(db, ev.project, ev.scope, ev.key) \subseteq ListDecisions(db, ev.project)
    BY DEF ActiveDecisions, ListDecisions, Listable
<1> QED BY <1>1, <1>2, <1>3, <1>4, <1>5

\* The active charter of a project, the active decision of a scope and key and
\* the value of a state key are one record at every committed point, whatever
\* was streamed, replayed, refused or cut short.
THEOREM CurrentStaysUnambiguous == Spec => []CurrentIsUnambiguous
BY Invariance, SoundIsUnambiguous, PTL DEF IInv

\* A full rebuild that an event stops gives back the tables it dropped.
THEOREM FailedRebuildGivesBack == Spec => FailedRebuildLosesNothing
<1> DEFINE GivesBack == (job.kind = "all" /\ Replaying /\ job' = NoJob /\ pure') => db' = job.from
<1>1. IInv /\ [Next]_vars => GivesBack \/ UNCHANGED vars
    <2> SUFFICES ASSUME IInv, Next, job.kind = "all", Replaying, job' = NoJob, pure' PROVE db' = job.from
        OBVIOUS
    <2>1. job # NoJob
        BY DEF NoJob
    <2>2. /\ job.snapshot = job.from /\ job.events \in Seq(Events)
          /\ \A at : [job EXCEPT !.at = at] # NoJob
        <3>1. JobSound
            BY DEF IInv
        <3>2. \A at : [job EXCEPT !.at = at].kind = job.kind
            BY <2>1, <3>1 DEF JobSound
        <3> QED BY <2>1, <3>1, <3>2 DEF JobSound, NoJob
    <2>3. Fail
        <3>1. ~Finish
            <4>1. Len(job.events) \in Nat
                BY <2>2
            <4>2. job.at \in Nat /\ job.at <= Len(job.events)
                BY <4>1 DEF Replaying
            <4>3. Finish => job.at = Len(job.events) + 1
                BY DEF Finish
            <4> QED BY <4>1, <4>2, <4>3
        <3>2. ~Recreate /\ ~ReplayOne
            BY <2>2 DEF Recreate, ReplayOne
        <3>3. ~Die
            BY DEF Die
        <3> QED BY <2>1, <3>1, <3>2, <3>3 DEF Next, Idle, AppendEvent, IngestArtifact, ProjectNext, StartAll, StartOver, Blocked
    <2> QED BY <2>2, <2>3 DEF Fail
<1>2. IInv /\ [Next]_vars => [GivesBack]_vars
    BY <1>1
<1>3. [][GivesBack]_vars <=> FailedRebuildLosesNothing
    BY PTL DEF FailedRebuildLosesNothing
<1> HIDE DEF GivesBack
<1> QED BY <1>2, <1>3, Invariance, PTL DEF Spec

\* A supersession of the active decision of a slot by a new one: the candidate
\* is inserted, the old one retired and the new one promoted, and none of the
\* three statements is refused.
LEMMA SupersedeSucceeds ==
    ASSUME NEW t, TablesSound(t), NEW op \in Ops, op.domain = "decision", op.supersedes # op.id,
           op.id \notin DOMAIN t.decision, op.supersedes \in DOMAIN t.decision,
           op.supersedes \in ActiveDecisions(t, op.project, op.scope, op.key)
    PROVE  LET table == Supersede(t, op).db.decision IN
           /\ table[op.supersedes].lifecycle = "superseded"
           /\ table[op.id].lifecycle = op.lifecycle
<1> DEFINE old == op.supersedes
           first == Row([op EXCEPT !.lifecycle = "candidate"], 1)
           mid == Put(t.decision, op.id, first)
           new == [mid EXCEPT ![old].lifecycle = "superseded", ![old].replacedBy = op.id, ![op.id].lifecycle = op.lifecycle]
<1>1. /\ first \in Rows /\ first.lifecycle = "candidate" /\ first.project = op.project /\ first.scope = op.scope
      /\ first.key = op.key /\ first.supersedes = op.supersedes /\ first.replacedBy = None
    BY DEF Row, Rows, Ops, Lifecycles, Links
<1> HIDE DEF first
<1>2. /\ DOMAIN mid = DOMAIN t.decision \cup {op.id} /\ mid[op.id] = first
      /\ \A i \in DOMAIN t.decision : mid[i] = t.decision[i] /\ mid[i] \in Rows
    BY DEF Put, TablesSound, RowsOf
<1> HIDE DEF mid
<1>3. ~DecisionClash(mid) /\ Linked(mid)
    <2>1. \A i \in DOMAIN mid : mid[i].lifecycle = "active" => i \in DOMAIN t.decision
        BY <1>1, <1>2
    <2>2. ~DecisionClash(mid)
        <3> SUFFICES ASSUME NEW i \in DOMAIN mid, NEW j \in DOMAIN mid, i # j,
                            mid[i].lifecycle = "active", mid[j].lifecycle = "active", mid[i].key # None, mid[i].scope # None,
                            <<mid[i].project, mid[i].scope, mid[i].key>> = <<mid[j].project, mid[j].scope, mid[j].key>>
                     PROVE  FALSE
            BY DEF DecisionClash
        <3>1. i \in DOMAIN t.decision /\ j \in DOMAIN t.decision /\ mid[i] = t.decision[i] /\ mid[j] = t.decision[j]
            BY <1>2, <2>1
        <3> QED BY <3>1 DEF TablesSound, DecisionClash
    <2>3. Linked(mid)
        BY <1>1, <1>2 DEF Linked, TablesSound
    <2> QED BY <2>2, <2>3
<1> DEFINE inserted == [t EXCEPT !["decision"] = mid]
<1>4. Settle(t, mid, "decision") = [db |-> inserted, result |-> "ok"]
    BY <1>3 DEF Settle, Outcome
<1>a. inserted.decision = mid
    BY WriteTable DEF TablesSound
<1> HIDE DEF inserted
<1>5. /\ DOMAIN new = DOMAIN mid
      /\ new[old].lifecycle = "superseded" /\ new[old].replacedBy = op.id /\ new[old].supersedes = t.decision[old].supersedes
      /\ new[op.id] = [first EXCEPT !.lifecycle = op.lifecycle]
      /\ \A i \in DOMAIN mid : i \notin {old, op.id} => new[i] = t.decision[i]
    <2>1. mid[old] \in Rows /\ mid[old] = t.decision[old] /\ old # op.id
        BY <1>2
    <2>2. /\ [mid[old] EXCEPT !.lifecycle = "superseded", !.replacedBy = op.id].lifecycle = "superseded"
          /\ [mid[old] EXCEPT !.lifecycle = "superseded", !.replacedBy = op.id].replacedBy = op.id
          /\ [mid[old] EXCEPT !.lifecycle = "superseded", !.replacedBy = op.id].supersedes = mid[old].supersedes
        BY <2>1 DEF Rows
    <2> QED BY <1>2, <2>1, <2>2
<1> HIDE DEF new
<1>6. /\ new[op.id].lifecycle = op.lifecycle /\ new[op.id].project = op.project /\ new[op.id].scope = op.scope
      /\ new[op.id].key = op.key /\ new[op.id].supersedes = op.supersedes /\ new[op.id].replacedBy = None
    BY <1>1, <1>5 DEF Rows
<1>7. ~DecisionClash(new)
    <2>1. \A i \in DOMAIN new : i = op.id \/ i = old \/ (i \in DOMAIN t.decision /\ new[i] = t.decision[i])
        BY <1>2, <1>5
    <2>2. \A i \in DOMAIN t.decision :
             (/\ t.decision[i].lifecycle = "active" /\ op.key # None /\ op.scope # None
              /\ <<t.decision[i].project, t.decision[i].scope, t.decision[i].key>> = <<op.project, op.scope, op.key>>) => i = old
        BY DEF TablesSound, DecisionClash, ActiveDecisions
    <2>3. \A i, j \in DOMAIN new : new[i].lifecycle = "active" /\ new[j].lifecycle = "active" => i # old /\ j # old
        BY <1>5
    <2> SUFFICES ASSUME NEW i \in DOMAIN new, NEW j \in DOMAIN new, i # j,
                        new[i].lifecycle = "active", new[j].lifecycle = "active", new[i].key # None, new[i].scope # None,
                        <<new[i].project, new[i].scope, new[i].key>> = <<new[j].project, new[j].scope, new[j].key>>
                 PROVE  FALSE
        BY DEF DecisionClash
    <2>4. CASE i = op.id
        BY <1>6, <2>1, <2>2, <2>3, <2>4
    <2>5. CASE j = op.id
        BY <1>6, <2>1, <2>2, <2>3, <2>5
    <2>6. CASE i # op.id /\ j # op.id
        <3>1. new[i] = t.decision[i] /\ new[j] = t.decision[j] /\ i \in DOMAIN t.decision /\ j \in DOMAIN t.decision
            BY <2>1, <2>3, <2>6
        <3> QED BY <3>1 DEF TablesSound, DecisionClash
    <2> QED BY <2>4, <2>5, <2>6
<1>8. Linked(new)
    <2> SUFFICES ASSUME NEW i \in DOMAIN new
                 PROVE  {new[i].supersedes, new[i].replacedBy} \subseteq DOMAIN new \cup {None}
        BY DEF Linked
    <2>1. \A k \in DOMAIN t.decision :
             {t.decision[k].supersedes, t.decision[k].replacedBy} \subseteq DOMAIN t.decision \cup {None}
        BY DEF TablesSound, Linked
    <2>2. CASE i = op.id
        BY <1>2, <1>5, <1>6, <2>2
    <2>3. CASE i = old
        BY <1>2, <1>5, <2>1, <2>3
    <2>4. CASE i \notin {old, op.id}
        <3>1. i \in DOMAIN t.decision /\ new[i] = t.decision[i]
            BY <1>2, <1>5, <2>4
        <3> QED BY <1>2, <1>5, <2>1, <3>1
    <2> QED BY <2>2, <2>3, <2>4
<1>9. Supersede(t, op) = Settle(t, new, "decision")
    <2>1. /\ Settle(t, mid, "decision").result = "ok" /\ Settle(t, mid, "decision").db = inserted
          /\ Settle(t, mid, "decision").db["decision"] = mid
        BY <1>4, <1>a
    <2>2. mid = Put(t["decision"], op.id, Row([op EXCEPT !.lifecycle = "candidate"], 1))
        BY DEF mid, first
    <2>3. Known(t["decision"], op.supersedes) /\ ~Known(t["decision"], op.id)
        BY DEF Known
    <2> QED BY <2>1, <2>2, <2>3 DEF Supersede, new
<1>10. Supersede(t, op).db = [t EXCEPT !["decision"] = new]
    BY <1>7, <1>8, <1>9 DEF Settle, Outcome
<1>11. Supersede(t, op).db.decision = new
    <2>1. [t EXCEPT !["decision"] = new].decision = new
        BY WriteTable DEF TablesSound
    <2> QED BY <1>10, <2>1
<1> QED BY <1>5, <1>6, <1>11

\* No supersession is refused as a second active decision of its slot.
THEOREM SupersessionsGoThrough == Spec => SupersessionGoesThrough
<1> DEFINE GoesThrough ==
          (Idle /\ next' = next + 1 /\ db.there) =>
          LET op == EventToOp(log[next]) IN
          (/\ Classify(log[next]) # "skip" /\ op.domain = "decision" /\ op.op = "supersede" /\ ValidOp(op)
           /\ op.id \notin DOMAIN db.decision /\ op.supersedes \in DOMAIN db.decision
           /\ op.supersedes \in ActiveDecisions(db, op.project, op.scope, op.key))
          => /\ db'.decision[op.supersedes].lifecycle = "superseded"
             /\ db'.decision[op.id].lifecycle = op.lifecycle
<1>1. IInv /\ [Next]_vars => GoesThrough
    <2> DEFINE op == EventToOp(log[next])
    <2> SUFFICES ASSUME IInv, [Next]_vars, Idle, next' = next + 1, db.there,
                        Classify(log[next]) # "skip", op.domain = "decision", op.op = "supersede", ValidOp(op),
                        op.id \notin DOMAIN db.decision, op.supersedes \in DOMAIN db.decision,
                        op.supersedes \in ActiveDecisions(db, op.project, op.scope, op.key)
                 PROVE  /\ db'.decision[op.supersedes].lifecycle = "superseded"
                        /\ db'.decision[op.id].lifecycle = op.lifecycle
        OBVIOUS
    <2>0. next \in Nat /\ log \in Seq(Events) /\ TablesSound(db) /\ next \in Nat \ {0}
        BY DEF IInv
    <2>1. ProjectNext
        <3>1. next' # next
            BY <2>0
        <3> QED BY <3>1 DEF Next, vars, Idle, NoJob, AppendEvent, IngestArtifact, StartAll, StartOver, Recreate, Blocked,
                            Fail, ReplayOne, Finish, Die, Replaying
    <2>2. log[next] \in Events
        BY <2>0, <2>1 DEF ProjectNext
    <2>3. op \in Ops /\ log[next].domain = "decision"
        BY <2>2, OpOfEvent
    <2> HIDE DEF op
    <2>4. op.supersedes # op.id
        BY DEF ValidOp, ValidDecision
    <2>5. ~BadTransition(op) /\ SafeReference(op)
        BY <2>4 DEF ValidOp, BadTransition, SafeReference
    <2>6. Project(db, log[next], artifacts) = Supersede(db, op)
        BY <2>3, <2>5 DEF Project, ProjectDecision, RequirementOrDecision, op
    <2> QED BY <2>0, <2>1, <2>3, <2>4, <2>6, SupersedeSucceeds DEF ProjectNext
<1>2. IInv /\ [Next]_vars => [GoesThrough]_vars
    BY <1>1
<1>3. [][GoesThrough]_vars <=> SupersessionGoesThrough
    BY PTL DEF SupersessionGoesThrough
<1> HIDE DEF GoesThrough
<1> QED BY <1>2, <1>3, Invariance, PTL DEF Spec
-----------------------------------------------------------------------------
(***************************************************************************)
(* The stream and the tables.  What a replay of a prefix of the stream     *)
(* gives is extended event by event, and new artifacts do not change it.   *)
(***************************************************************************)
Fresh == [ok |-> TRUE, db |-> EmptyTables]

IsReplay(f, events, k, arts) ==
    f = [n \in 0..k |-> IF n = 0 THEN Fresh ELSE Replayed(f[n - 1], events[n], arts)]

\* A replay of the first k events from new tables succeeds with these.
Gives(events, k, arts, t) == \E f : IsReplay(f, events, k, arts) /\ f[k] = [ok |-> TRUE, db |-> t]

LEMMA ReplayEach ==
    ASSUME NEW f, NEW events, NEW k \in Nat, NEW arts, IsReplay(f, events, k, arts)
    PROVE  f[0] = Fresh /\ \A n \in 1..k : f[n] = Replayed(f[n - 1], events[n], arts)
<1> DEFINE e(n) == IF n = 0 THEN Fresh ELSE Replayed(f[n - 1], events[n], arts)
<1>1. \A n \in 0..k : f[n] = e(n)
    BY DEF IsReplay
<1>2. 0 \in 0..k /\ \A n \in 1..k : n \in 0..k /\ n # 0
    OBVIOUS
<1> QED BY <1>1, <1>2

LEMMA ReplayByEach ==
    ASSUME NEW K \in Nat, NEW f, f = [n \in 0..K |-> f[n]], NEW events, NEW arts,
           f[0] = Fresh, \A n \in 1..K : f[n] = Replayed(f[n - 1], events[n], arts)
    PROVE  IsReplay(f, events, K, arts)
<1> DEFINE e(n) == IF n = 0 THEN Fresh ELSE Replayed(f[n - 1], events[n], arts)
<1>1. \A n \in 0..K : f[n] = e(n)
    OBVIOUS
<1>2. f = [n \in 0..K |-> e(n)]
    <2> HIDE DEF e
    <2> QED BY <1>1
<1> QED BY <1>2 DEF IsReplay

LEMMA GivesNone == ASSUME NEW events, NEW arts PROVE Gives(events, 0, arts, EmptyTables)
<1> DEFINE f == [n \in 0..0 |-> Fresh]
<1>0. f[0] = Fresh /\ f = [n \in 0..0 |-> f[n]] /\ 1..0 = {} /\ 0 \in Nat
    OBVIOUS
<1> HIDE DEF f
<1>1. IsReplay(f, events, 0, arts)
    BY <1>0, ReplayByEach
<1> QED BY <1>0, <1>1 DEF Gives, Fresh

LEMMA GivesNext ==
    ASSUME NEW events, NEW k \in Nat, NEW arts, NEW t, Gives(events, k, arts, t),
           Project(t, events[k + 1], arts).result \in Passable
    PROVE  Gives(events, k + 1, arts, Project(t, events[k + 1], arts).db)
<1>1. PICK f : IsReplay(f, events, k, arts) /\ f[k] = [ok |-> TRUE, db |-> t]
    BY DEF Gives
<1> DEFINE last == [ok |-> TRUE, db |-> Project(t, events[k + 1], arts).db]
           g == [n \in 0..(k + 1) |-> IF n = k + 1 THEN last ELSE f[n]]
<1>2. Replayed(f[k], events[k + 1], arts) = last
    BY <1>1 DEF Replayed
<1>3. g[0] = Fresh /\ g[k + 1] = last
    BY <1>1, ReplayEach
<1>4. ASSUME NEW n \in 1..(k + 1) PROVE g[n] = Replayed(g[n - 1], events[n], arts)
    <2>1. CASE n = k + 1
        <3>1. g[n - 1] = f[k] /\ g[n] = last
            BY <2>1
        <3> QED BY <1>2, <2>1, <3>1
    <2>2. CASE n \in 1..k
        <3>1. f[n] = Replayed(f[n - 1], events[n], arts)
            BY <1>1, <2>2, ReplayEach
        <3>2. g[n] = f[n] /\ g[n - 1] = f[n - 1]
            BY <2>2
        <3> QED BY <3>1, <3>2
    <2> QED BY <2>1, <2>2
<1>5. k + 1 \in Nat /\ g = [n \in 0..(k + 1) |-> g[n]]
    OBVIOUS
<1> HIDE DEF g
<1>6. IsReplay(g, events, k + 1, arts)
    BY <1>3, <1>4, <1>5, ReplayByEach
<1> QED BY <1>3, <1>6 DEF Gives

\* Only the events replayed matter.
LEMMA GivesByPrefix ==
    ASSUME NEW events, NEW more, NEW k \in Nat, NEW arts, NEW t, Gives(events, k, arts, t),
           \A n \in 1..k : events[n] = more[n]
    PROVE  Gives(more, k, arts, t)
<1>1. PICK f : IsReplay(f, events, k, arts) /\ f[k] = [ok |-> TRUE, db |-> t]
    BY DEF Gives
<1>2. f[0] = Fresh /\ \A n \in 1..k : f[n] = Replayed(f[n - 1], more[n], arts)
    BY <1>1, ReplayEach
<1>3. f = [n \in 0..k |-> f[n]]
    BY <1>1 DEF IsReplay
<1>4. IsReplay(f, more, k, arts)
    BY <1>2, <1>3, ReplayByEach
<1> QED BY <1>1, <1>4 DEF Gives

\* What an event does does not change when more artifacts are there.
LEMMA ProjectMore ==
    ASSUME NEW t, NEW ev, NEW arts, NEW more, arts \subseteq more, Project(t, ev, arts).result \in Passable
    PROVE  Project(t, ev, more) = Project(t, ev, arts)
<1> DEFINE op == EventToOp(ev)
<1>1. CASE Classify(ev) = "skip" \/ BadTransition(op) \/ ~(t.there /\ ValidOp(op) /\ SafeReference(op))
    BY <1>1 DEF Project
<1>2. CASE ~(Classify(ev) = "skip" \/ BadTransition(op) \/ ~(t.there /\ ValidOp(op) /\ SafeReference(op)))
    <2>0. \A a : Project(t, ev, a) =
             CASE ev.domain = "charter" -> ProjectCharter(t, op)
               [] ev.domain = "requirement" -> ProjectRequirement(t, op)
               [] ev.domain = "decision" -> ProjectDecision(t, op)
               [] ev.domain = "state" -> ProjectState(t, op)
               [] ev.domain = "verification" -> ProjectVerification(t, op)
               [] ev.domain = "artifact" -> ProjectArtifact(t, op, a)
        BY <1>2 DEF Project
    <2> HIDE DEF op
    <2>1. CASE ev.domain = "artifact"
        <3>1. \A a : Project(t, ev, a) = ProjectArtifact(t, op, a)
            BY <2>0, <2>1
        <3>2. op.id \in arts
            BY <3>1 DEF ProjectArtifact, Outcome, Passable
        <3>3. ProjectArtifact(t, op, more) = ProjectArtifact(t, op, arts)
            BY <3>2 DEF ProjectArtifact
        <3> QED BY <3>1, <3>3
    <2>2. CASE ev.domain # "artifact"
        BY <2>0, <2>2
    <2> QED BY <2>1, <2>2
<1> QED BY <1>1, <1>2

\* A replay that has failed stays failed.
LEMMA OkBefore ==
    ASSUME NEW f, NEW events, NEW k \in Nat, NEW arts, IsReplay(f, events, k, arts), f[k].ok = TRUE
    PROVE  \A n \in 0..k : f[n].ok = TRUE
<1> DEFINE T == {j \in 0..k : f[k - j].ok # TRUE}
<1>1. SUFFICES ASSUME T # {} PROVE FALSE
    <2>1. ASSUME NEW n \in 0..k, f[n].ok # TRUE PROVE k - n \in T
        <3>1. k - n \in 0..k /\ k - (k - n) = n
            OBVIOUS
        <3> QED BY <2>1, <3>1
    <2> QED BY <2>1
<1>2. PICK j \in T : \A i \in T : j <= i
    <2>1. T \subseteq 0..k
        OBVIOUS
    <2> HIDE DEF T
    <2>2. T \in SUBSET Nat
        BY <2>1
    <2> QED BY <1>1, <2>2, LeastOf
<1>3. j # 0
    <2>1. k - 0 = k
        OBVIOUS
    <2> QED BY <1>2, <2>1
<1> DEFINE n == k - j + 1
<1>4. n \in 1..k /\ n - 1 = k - j /\ k - (j - 1) = n /\ j - 1 \in 0..k /\ j - 1 < j
    BY <1>2, <1>3
<1>5. f[n].ok = TRUE
    <2>1. j \in 0..k /\ ~(j <= j - 1)
        BY <1>2
    <2>2. j - 1 \notin T
        <3> HIDE DEF T
        <3> QED BY <1>2, <2>1
    <2> QED BY <1>4, <2>2
<1>6. f[n] = Replayed(f[n - 1], events[n], arts)
    BY <1>4, ReplayEach
<1> HIDE DEF n
<1>7. f[n - 1].ok # FALSE
    <2>1. f[n - 1].ok = FALSE => Replayed(f[n - 1], events[n], arts).ok = FALSE
        BY DEF Replayed
    <2> QED BY <1>5, <1>6, <2>1
<1>8. f[n - 1].ok \in BOOLEAN
    <2>1. CASE n - 1 = 0
        <3>1. f[0] = Fresh /\ Fresh.ok = TRUE
            BY ReplayEach DEF Fresh
        <3> QED BY <2>1, <3>1
    <2>2. CASE n - 1 \in 1..k
        <3>1. f[n - 1] = Replayed(f[(n - 1) - 1], events[n - 1], arts)
            BY <2>2, ReplayEach
        <3> QED BY <3>1 DEF Replayed
    <2> QED BY <1>4, <2>1, <2>2
<1> QED BY <1>2, <1>4, <1>7, <1>8

LEMMA GivesMore ==
    ASSUME NEW events, NEW k \in Nat, NEW arts, NEW more, arts \subseteq more, NEW t, Gives(events, k, arts, t)
    PROVE  Gives(events, k, more, t)
<1>1. PICK f : IsReplay(f, events, k, arts) /\ f[k] = [ok |-> TRUE, db |-> t]
    BY DEF Gives
<1>2. \A n \in 0..k : f[n].ok = TRUE
    <2>1. f[k].ok = TRUE
        BY <1>1
    <2> QED BY <1>1, <2>1, OkBefore
<1>3. f[0] = Fresh /\ \A n \in 1..k : f[n] = Replayed(f[n - 1], events[n], arts)
    BY <1>1, ReplayEach
<1>4. ASSUME NEW n \in 1..k PROVE f[n] = Replayed(f[n - 1], events[n], more)
    <2>1. f[n].ok = TRUE /\ f[n] = Replayed(f[n - 1], events[n], arts)
        BY <1>2, <1>3
    <2>2. Project(f[n - 1].db, events[n], arts).result \in Passable
        BY <2>1 DEF Replayed
    <2>3. Project(f[n - 1].db, events[n], more) = Project(f[n - 1].db, events[n], arts)
        BY <2>2, ProjectMore
    <2> QED BY <2>1, <2>3 DEF Replayed
<1>5. f = [n \in 0..k |-> f[n]]
    BY <1>1 DEF IsReplay
<1>6. IsReplay(f, events, k, more)
    BY <1>3, <1>4, <1>5, ReplayByEach
<1> QED BY <1>1, <1>6 DEF Gives

LEMMA OneReplay ==
    ASSUME NEW events, NEW k \in Nat, NEW arts, NEW f, NEW g, IsReplay(f, events, k, arts), IsReplay(g, events, k, arts)
    PROVE  f[k] = g[k]
<1> DEFINE T == {n \in 0..k : f[n] # g[n]}
<1>1. SUFFICES ASSUME T # {} PROVE FALSE
    OBVIOUS
<1>2. PICK n \in T : \A j \in T : n <= j
    <2>1. T \in SUBSET Nat
        OBVIOUS
    <2> HIDE DEF T
    <2> QED BY <1>1, <2>1, LeastOf
<1>3. f[0] = Fresh /\ g[0] = Fresh
    BY ReplayEach
<1>4. n \in 1..k /\ n - 1 \in 0..k /\ n - 1 < n
    BY <1>2, <1>3
<1>5. f[n - 1] = g[n - 1]
    BY <1>2, <1>4
<1>6. f[n] = Replayed(f[n - 1], events[n], arts) /\ g[n] = Replayed(g[n - 1], events[n], arts)
    BY <1>4, ReplayEach
<1> QED BY <1>2, <1>5, <1>6

\* What a replay gives is what ReplayFrom says of that part of the stream.
LEMMA GivesIsReplay ==
    ASSUME NEW events \in Seq(Events), NEW k \in 0..Len(events), NEW arts, NEW t, Gives(events, k, arts, t)
    PROVE  ReplayFrom(EmptyTables, SubSeq(events, 1, k), arts) = [ok |-> TRUE, db |-> t]
<1> DEFINE part == SubSeq(events, 1, k)
<1>1. Len(part) = k /\ \A n \in 1..k : events[n] = part[n]
    <2>1. k \in Int /\ 1 \in Int /\ \A i \in 1..k : events[i] \in Events
        OBVIOUS
    <2>2. Len(part) = (IF 1 <= k THEN k - 1 + 1 ELSE 0) /\ \A i \in 1..(k - 1 + 1) : part[i] = events[1 + i - 1]
        BY <2>1, SubSeqProperties
    <2> HIDE DEF part
    <2> QED BY <2>2
<1> HIDE DEF part
<1>2. PICK f : IsReplay(f, part, k, arts) /\ f[k] = [ok |-> TRUE, db |-> t]
    <2>1. Gives(part, k, arts, t)
        BY <1>1, GivesByPrefix
    <2> QED BY <2>1 DEF Gives
<1> DEFINE F == CHOOSE g : g = [n \in 0..Len(part) |-> IF n = 0 THEN Fresh ELSE Replayed(g[n - 1], part[n], arts)]
<1>3. ReplayFrom(EmptyTables, part, arts) = F[Len(part)]
    BY DEF ReplayFrom, Fresh
<1>4. IsReplay(F, part, k, arts)
    <2>1. f = [n \in 0..Len(part) |-> IF n = 0 THEN Fresh ELSE Replayed(f[n - 1], part[n], arts)]
        BY <1>1, <1>2 DEF IsReplay
    <2>2. F = [n \in 0..Len(part) |-> IF n = 0 THEN Fresh ELSE Replayed(F[n - 1], part[n], arts)]
        BY <2>1
    <2> HIDE DEF F
    <2> QED BY <1>1, <2>2 DEF IsReplay
<1> HIDE DEF F
<1>5. F[k] = f[k]
    BY <1>2, <1>4, OneReplay
<1> QED BY <1>1, <1>2, <1>3, <1>5 DEF part
-----------------------------------------------------------------------------
(***************************************************************************)
(* The tables follow the stream.  A running job has a part of the stream,  *)
(* and one into new tables has replayed what it is past.                   *)
(***************************************************************************)
Whole == job.filter = None /\ (job.kind = "all" \/ job.from = EmptyTables)

JobFollows ==
    /\ Len(job.events) <= Len(log) /\ \A i \in 1..Len(job.events) : job.events[i] = log[i]
    /\ job.at <= Len(job.events) + 1
    /\ job.at = 0 => job.kind = "all" /\ [db EXCEPT !.there = TRUE] = EmptyTables
    /\ (job.at > 0 /\ Whole) => Gives(log, job.at - 1, artifacts, db)

StreamInv ==
    /\ next <= Len(log) + 1 /\ pure \in BOOLEAN
    /\ (pure /\ Idle) => Gives(log, next - 1, artifacts, db)
    /\ (pure /\ job.kind = "all") => Gives(log, next - 1, artifacts, job.snapshot)
    /\ ~Idle => JobFollows

LEMMA StreamInit == Init => StreamInv
<1> SUFFICES ASSUME Init PROVE StreamInv
    OBVIOUS
<1>1. next - 1 = 0 /\ db = EmptyTables /\ Len(log) = 0 /\ next = 1 /\ job = NoJob /\ pure = TRUE
    BY DEF Init
<1>2. Gives(log, next - 1, artifacts, db)
    BY <1>1, GivesNone
<1> QED BY <1>1, <1>2 DEF StreamInv, Idle, NoJob

\* What a job has in hand when it goes on.
LEMMA NextEvent ==
    ASSUME IInv, NEW at, job # NoJob, job' = [job EXCEPT !.at = at]
    PROVE  /\ job' # NoJob /\ job'.at = at
           /\ job'.kind = job.kind /\ job'.filter = job.filter /\ job'.events = job.events
           /\ job'.snapshot = job.snapshot /\ job'.from = job.from
<1>1. job' = [kind |-> job.kind, filter |-> job.filter, events |-> job.events, at |-> at,
              snapshot |-> job.snapshot, from |-> job.from]
    BY DEF IInv, JobSound
<1>2. job'.kind = job.kind /\ job.kind \in {"all", "over"}
    BY <1>1 DEF IInv, JobSound
<1> QED BY <1>1, <1>2 DEF NoJob

LEMMA AppendFollows == ASSUME IInv, StreamInv, NEW ev \in Events, AppendEvent(ev) PROVE StreamInv'
<1>0. /\ log' = Append(log, ev) /\ UNCHANGED <<artifacts, db, job, next, pure>>
      /\ log \in Seq(Events) /\ next \in Nat \ {0} /\ next <= Len(log) + 1
    BY DEF AppendEvent, IInv, StreamInv
<1>1. Len(log) \in Nat /\ Len(log') = Len(log) + 1 /\ \A i \in 1..Len(log) : log[i] = log'[i]
    BY <1>0
<1>2. ASSUME NEW k \in Nat, k <= Len(log), NEW t, Gives(log, k, artifacts, t)
      PROVE  Gives(log', k, artifacts, t)
    <2>1. \A i \in 1..k : log[i] = log'[i]
        BY <1>1, <1>2
    <2> QED BY <1>2, <2>1, GivesByPrefix
<1>3. next - 1 \in Nat /\ next - 1 <= Len(log)
    BY <1>0, <1>1
<1>4. ASSUME ~Idle PROVE JobFollows'
    <2>1. JobFollows /\ job.at \in Nat /\ Len(job.events) \in Nat
        BY <1>4 DEF StreamInv, Idle, IInv, JobSound
    <2>2. job.at > 0 => job.at - 1 \in Nat /\ job.at - 1 <= Len(log)
        BY <1>1, <2>1 DEF JobFollows
    <2>3. \A i \in 1..Len(job.events) : i \in 1..Len(log)
        BY <1>1, <2>1 DEF JobFollows
    <2>4. (job.at > 0 /\ Whole) => Gives(log', job.at - 1, artifacts, db)
        BY <1>2, <2>1, <2>2 DEF JobFollows
    <2>5. Len(job.events) <= Len(log') /\ \A i \in 1..Len(job.events) : job.events[i] = log'[i]
        BY <1>1, <2>1, <2>3 DEF JobFollows
    <2> QED BY <1>0, <2>1, <2>4, <2>5 DEF JobFollows, Whole
<1>5. next' <= Len(log') + 1
    BY <1>0, <1>1
<1> QED BY <1>0, <1>2, <1>3, <1>4, <1>5 DEF StreamInv, Idle

LEMMA ArtifactFollows == ASSUME IInv, StreamInv, NEW a \in Artifacts, IngestArtifact(a) PROVE StreamInv'
<1>0. /\ artifacts \subseteq artifacts' /\ UNCHANGED <<log, db, job, next, pure>>
      /\ log \in Seq(Events) /\ next \in Nat \ {0}
    BY DEF IngestArtifact, IInv
<1>1. \A k \in Nat : \A t : Gives(log, k, artifacts, t) => Gives(log, k, artifacts', t)
    BY <1>0, GivesMore
<1>2. next - 1 \in Nat
    BY <1>0
<1>3. ASSUME ~Idle PROVE JobFollows'
    <2>1. JobFollows /\ job.at \in Nat
        BY <1>3 DEF StreamInv, Idle, IInv, JobSound
    <2>2. job.at > 0 => job.at - 1 \in Nat
        BY <2>1
    <2>3. (job.at > 0 /\ Whole) => Gives(log, job.at - 1, artifacts', db)
        BY <1>1, <2>1, <2>2 DEF JobFollows
    <2> QED BY <1>0, <2>1, <2>3 DEF JobFollows, Whole
<1> QED BY <1>0, <1>1, <1>2, <1>3 DEF StreamInv, Idle

LEMMA ProjectFollows == ASSUME IInv, StreamInv, ProjectNext PROVE StreamInv'
<1> DEFINE step == Project(db, log[next], artifacts)
<1>0. /\ Idle /\ next <= Len(log) /\ next' = next + 1 /\ db' = step.db /\ UNCHANGED <<log, artifacts, job>>
      /\ pure' = (pure /\ step.result \in Passable)
      /\ log \in Seq(Events) /\ next \in Nat \ {0} /\ pure \in BOOLEAN
    BY DEF ProjectNext, IInv, StreamInv
<1>1. next - 1 \in Nat /\ (next - 1) + 1 = next /\ next' - 1 = next /\ Len(log) \in Nat /\ next' <= Len(log) + 1
    BY <1>0
<1>2. ASSUME pure, step.result \in Passable PROVE Gives(log, next, artifacts, step.db)
    <2>1. Gives(log, next - 1, artifacts, db)
        BY <1>0, <1>2 DEF StreamInv
    <2>2. Project(db, log[(next - 1) + 1], artifacts) = step
        BY <1>1
    <2> HIDE DEF step
    <2> QED BY <1>1, <1>2, <2>1, <2>2, GivesNext
<1>3. Idle' /\ job'.kind # "all"
    BY <1>0 DEF Idle, NoJob
<1> HIDE DEF step
<1> QED BY <1>0, <1>1, <1>2, <1>3 DEF StreamInv

LEMMA StartFollows == ASSUME IInv, StreamInv, NEW f \in Filters, StartAll(f) \/ StartOver(f) PROVE StreamInv'
<1>0. log \in Seq(Events) /\ next \in Nat \ {0} /\ Idle /\ UNCHANGED <<log, artifacts, next, pure>>
    BY DEF StartAll, StartOver, IInv
<1>1. /\ job' # NoJob /\ job'.events = log /\ job'.snapshot = db /\ job'.from = db /\ Len(log) \in Nat
      /\ job'.at \in {0, 1} /\ job'.kind \in {"all", "over"}
    BY <1>0 DEF StartAll, StartOver, NoJob
<1>2. JobFollows'
    <2>1. CASE StartAll(f)
        <3>1. job'.at = 0 /\ job'.kind = "all" /\ db' = [EmptyTables EXCEPT !.there = FALSE]
            BY <2>1 DEF StartAll
        <3>2. [db' EXCEPT !.there = TRUE] = EmptyTables
            <4>1. /\ Shaped(EmptyTables) /\ EmptyTables.there = TRUE /\ db' = [EmptyTables EXCEPT !.there = FALSE]
                BY <3>1, EmptySound DEF EmptyTables, TablesSound
            <4>2. Shaped(db') /\ \A c \in {"charter", "requirement", "decision", "state", "verification", "artifact"} :
                      db'[c] = EmptyTables[c]
                BY <4>1, ThereOfShaped DEF Shaped
            <4>3. [db' EXCEPT !.there = TRUE] = [there |-> TRUE, charter |-> db'.charter, requirement |-> db'.requirement,
                      decision |-> db'.decision, state |-> db'.state, verification |-> db'.verification, artifact |-> db'.artifact]
                BY <4>2, ThereOfShaped
            <4>4. EmptyTables = [there |-> TRUE, charter |-> db'.charter, requirement |-> db'.requirement,
                      decision |-> db'.decision, state |-> db'.state, verification |-> db'.verification, artifact |-> db'.artifact]
                BY <4>1, <4>2 DEF Shaped
            <4> QED BY <4>3, <4>4
        <3> QED BY <1>0, <1>1, <3>1, <3>2 DEF JobFollows
    <2>2. CASE StartOver(f)
        <3>1. job'.at = 1 /\ job'.kind = "over" /\ db' = db
            BY <2>2 DEF StartOver
        <3>2. Whole' => Gives(log', 0, artifacts', db')
            BY <1>0, <1>1, <3>1, GivesNone DEF Whole
        <3> QED BY <1>0, <1>1, <3>1, <3>2 DEF JobFollows
    <2> QED BY <2>1, <2>2
<1> QED BY <1>0, <1>1, <1>2 DEF StreamInv, Idle

LEMMA RecreateFollows == ASSUME IInv, StreamInv, Recreate PROVE StreamInv'
<1>0. /\ job.kind = "all" /\ job.at = 0 /\ job' = [job EXCEPT !.at = 1] /\ db' = [db EXCEPT !.there = TRUE]
      /\ UNCHANGED <<log, artifacts, next, pure>>
    BY DEF Recreate
<1>1. job # NoJob
    BY <1>0 DEF NoJob
<1>2. /\ job' # NoJob /\ job'.at = 1 /\ job'.kind = job.kind /\ job'.filter = job.filter /\ job'.events = job.events
      /\ job'.snapshot = job.snapshot /\ job'.from = job.from
    BY <1>0, <1>1, NextEvent
<1>3. JobFollows /\ Len(job.events) \in Nat
    BY <1>1 DEF StreamInv, Idle, IInv, JobSound
<1>4. Gives(log', 0, artifacts', db')
    BY <1>0, <1>3, GivesNone DEF JobFollows
<1>5. JobFollows'
    BY <1>0, <1>2, <1>3, <1>4 DEF JobFollows
<1> QED BY <1>0, <1>1, <1>2, <1>5 DEF StreamInv, Idle

LEMMA ReplayFollows == ASSUME IInv, StreamInv, ReplayOne PROVE StreamInv'
<1> DEFINE ev == job.events[job.at]
           step == Project(db, ev, artifacts)
<1>0. /\ Replaying /\ UNCHANGED <<log, artifacts, next, pure>> /\ job' = [job EXCEPT !.at = @ + 1]
      /\ Concerns(ev, job.filter) => step.result \in Passable
      /\ db' = IF Concerns(ev, job.filter) THEN step.db ELSE db
    BY DEF ReplayOne
<1>1. job # NoJob
    BY <1>0 DEF NoJob, Replaying
<1>2. JobFollows /\ Len(job.events) \in Nat /\ job.at \in 1..Len(job.events)
    BY <1>0, <1>1 DEF StreamInv, Idle, IInv, JobSound, Replaying
<1>3. /\ job' # NoJob /\ job'.at = job.at + 1 /\ job'.kind = job.kind /\ job'.filter = job.filter
      /\ job'.events = job.events /\ job'.snapshot = job.snapshot /\ job'.from = job.from
    <2>1. job' = [job EXCEPT !.at = job.at + 1]
        BY <1>0
    <2> QED BY <1>1, <2>1, NextEvent
<1>4. ASSUME Whole PROVE Gives(log, job.at, artifacts, db')
    <2>1. job.at - 1 \in Nat /\ (job.at - 1) + 1 = job.at /\ log[job.at] = ev /\ Gives(log, job.at - 1, artifacts, db)
        BY <1>2, <1>4 DEF JobFollows
    <2>2. step.result \in Passable /\ db' = step.db
        <3>1. CASE Classify(ev) = "skip"
            <4>1. step = [db |-> db, result |-> "skip"] /\ ~Concerns(ev, job.filter)
                BY <3>1 DEF Project, Outcome, Concerns
            <4> QED BY <1>0, <4>1 DEF Passable
        <3>2. CASE Classify(ev) # "skip"
            <4>1. Concerns(ev, job.filter)
                BY <1>4, <3>2 DEF Concerns, Whole
            <4> QED BY <1>0, <4>1
        <3> QED BY <3>1, <3>2
    <2>3. Project(db, log[(job.at - 1) + 1], artifacts) = step
        BY <2>1
    <2> HIDE DEF step, ev
    <2> QED BY <2>1, <2>2, <2>3, GivesNext
<1>5. JobFollows'
    <2>1. job'.at - 1 = job.at /\ job'.at <= Len(job.events) + 1 /\ job'.at # 0
        BY <1>2, <1>3
    <2> QED BY <1>0, <1>2, <1>3, <1>4, <2>1 DEF JobFollows, Whole
<1> QED BY <1>0, <1>1, <1>3, <1>5 DEF StreamInv, Idle

LEMMA FailFollows == ASSUME IInv, StreamInv, Fail PROVE StreamInv'
<1>0. /\ Replaying /\ UNCHANGED <<log, artifacts, next>> /\ job' = NoJob
      /\ db' = IF job.kind = "all" THEN job.snapshot ELSE db
      /\ pure' = (pure /\ job.kind = "all") /\ pure \in BOOLEAN /\ next <= Len(log) + 1
    BY DEF Fail, StreamInv
<1>1. pure' => Gives(log', next' - 1, artifacts', db')
    BY <1>0 DEF StreamInv
<1>2. Idle' /\ job'.kind # "all"
    BY <1>0 DEF Idle, NoJob
<1> QED BY <1>0, <1>1, <1>2 DEF StreamInv

LEMMA FinishFollows == ASSUME IInv, StreamInv, Finish PROVE StreamInv'
<1>0. /\ job.kind \in {"all", "over"} /\ job.at = Len(job.events) + 1 /\ UNCHANGED <<log, artifacts, db>> /\ job' = NoJob
      /\ pure' = Whole /\ next' = IF Whole THEN Len(job.events) + 1 ELSE next
    BY DEF Finish, Whole
<1>1. JobFollows /\ Len(job.events) \in Nat /\ Whole \in BOOLEAN
    BY <1>0 DEF StreamInv, Idle, NoJob, IInv, JobSound, Whole
<1>2. Whole => Gives(log', next' - 1, artifacts', db')
    <2>1. job.at > 0 /\ job.at - 1 = Len(job.events)
        BY <1>0, <1>1
    <2>2. Whole => next' - 1 = Len(job.events)
        BY <1>0, <1>1
    <2> QED BY <1>0, <1>1, <2>1, <2>2 DEF JobFollows
<1>3. next' <= Len(log) + 1
    <2>1. Len(log) \in Nat /\ Len(job.events) <= Len(log)
        BY <1>1 DEF JobFollows, IInv
    <2> QED BY <1>0, <1>1, <2>1 DEF StreamInv
<1>4. Idle' /\ job'.kind # "all"
    BY <1>0 DEF Idle, NoJob
<1> QED BY <1>0, <1>1, <1>2, <1>3, <1>4 DEF StreamInv

LEMMA StreamNext == IInv /\ StreamInv /\ [Next]_vars => StreamInv'
<1> SUFFICES ASSUME IInv, StreamInv, [Next]_vars PROVE StreamInv'
    OBVIOUS
<1>1. CASE Blocked
    BY <1>1 DEF Blocked, StreamInv, JobFollows, Whole, Idle
<1>2. CASE Die
    BY <1>2 DEF Die, StreamInv, Idle, NoJob
<1>3. CASE UNCHANGED vars
    BY <1>3 DEF vars, StreamInv, JobFollows, Whole, Idle
<1> QED BY <1>1, <1>2, <1>3, AppendFollows, ArtifactFollows, ProjectFollows, StartFollows, RecreateFollows, ReplayFollows,
           FailFollows, FinishFollows DEF Next

\* A replay of the stream into new tables succeeds and gives the tables there
\* are, whatever was streamed, rebuilt, refused or ingested meanwhile, unless
\* a process died in a replay or a replay ran over tables with rows.
THEOREM TablesFollowStream == Spec => []RebuildMatchesStream
<1>1. IInv /\ StreamInv => RebuildMatchesStream
    <2> SUFFICES ASSUME IInv, StreamInv, pure, Idle
                 PROVE  ReplayFrom(EmptyTables, SubSeq(log, 1, next - 1), artifacts) = [ok |-> TRUE, db |-> db]
        BY DEF RebuildMatchesStream
    <2>1. log \in Seq(Events) /\ next - 1 \in 0..Len(log) /\ Gives(log, next - 1, artifacts, db)
        BY DEF IInv, StreamInv
    <2> QED BY <2>1, GivesIsReplay
<1>2. IInv /\ StreamInv /\ [Next]_vars => IInv' /\ StreamInv'
    BY NextPreservesIInv, StreamNext
<1> QED BY <1>1, <1>2, InitIInv, StreamInit, PTL DEF Spec
=============================================================================
