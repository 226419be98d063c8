---------------------------- MODULE MemoryTables ----------------------------
(***************************************************************************)
(* The six project-memory tables and what one operation of each domain     *)
(* does to them: src/project_memory/{contracts,projector,reader}.py.       *)
(* Every operation is one transaction, so Project returns the tables after *)
(* it and its outcome: "ok", "noop", "conflict" or "transition" (which a   *)
(* replay steps over), "error" (which stops it), "skip".                   *)
(***************************************************************************)
EXTENDS Naturals, FiniteSets, Sequences

CONSTANT None   \* no value

Domains == {"charter", "requirement", "decision", "state", "verification", "artifact"}

Operations == {"create", "update", "supersede", "transition", "delete"}

\* charter ... artifact: id -> row.  state: rows by their row id.
EmptyTables ==
    [there |-> TRUE, charter |-> <<>>, requirement |-> <<>>, decision |-> <<>>, state |-> <<>>,
     verification |-> <<>>, artifact |-> <<>>]

Outcome(db, result) == [db |-> db, result |-> result]

\* classify_event_for_m4: the domain, when domain, identity and op are all there.
Classify(ev) ==
    IF ev.domain \in Domains /\ ev.op # None /\ (ev.id # None \/ ev.domain = "state") THEN ev.domain ELSE "skip"

\* A state with a key is in the scope of its project unless it names one.
EventToOp(ev) ==
    [ev EXCEPT !.scope = IF ev.domain = "state" /\ @ = None /\ ev.key # None THEN "of project" ELSE @,
               !.lifecycle = IF ev.op = "delete" THEN "deleted" ELSE @]

\* What an assistant claimed is not made active on its own.
Promoted(ev) == ev.claim /\ ev.lifecycle = "active"

ValidRequirement(ev) == ev.project # None /\ ~Promoted(ev)

ValidDecision(ev) == ev.project # None /\ ~Promoted(ev) /\ ~(ev.op = "supersede" /\ ev.supersedes = ev.id)

ValidState(ev) == ev.project # None /\ ~Promoted(ev) /\ ~(ev.op = "supersede" /\ ev.key = None)

ValidOp(ev) ==
    /\ ev.op \in Operations
    /\ CASE ev.domain \in {"charter", "requirement"} -> ValidRequirement(ev)
         [] ev.domain = "decision" -> ValidDecision(ev)
         [] ev.domain = "state" -> ValidState(ev)
         [] OTHER -> ev.project # None

\* What validate refuses as a transition and not as a malformed event.
BadTransition(ev) ==
    \/ ev.op \notin Operations
    \/ ev.domain = "decision" /\ ev.op = "supersede" /\ ev.supersedes = ev.id /\ ev.project # None /\ ~Promoted(ev)

\* Op.validate of verifications and artifact links.
SafeReference(ev) == ev.domain \in {"verification", "artifact"} => ev.text # "raw output"

Known(table, id) == id \in DOMAIN table

Row(op, version) ==
    [project |-> op.project, scope |-> op.scope, key |-> op.key, text |-> op.text, lifecycle |-> op.lifecycle,
     version |-> version, supersedes |-> op.supersedes, replacedBy |-> None]

Put(table, id, row) == [i \in DOMAIN table \cup {id} |-> IF i = id THEN row ELSE table[i]]

\* Foreign keys of supersedes and replaced_by; charters have only the first.
Linked(table) ==
    \A id \in DOMAIN table : {table[id].supersedes, table[id].replacedBy} \subseteq DOMAIN table \cup {None}

-----------------------------------------------------------------------------
(* Charters *)

\* Mutant: the schema has no index of active charters.
CharterClashUnindexed(table) == FALSE

\* Unique index of active charters by project.
CharterClash(table) ==
    \E i, j \in DOMAIN table :
        i # j /\ table[i].project = table[j].project /\ table[i].lifecycle = "active" /\ table[j].lifecycle = "active"

SettleCharter(db, table) ==
    IF CharterClash(table) THEN Outcome(db, "conflict")
    ELSE IF ~Linked(table) THEN Outcome(db, "error")
    ELSE Outcome([db EXCEPT !.charter = table], "ok")

CharterEqual(row, op) == row.text = op.text /\ row.lifecycle = op.lifecycle

CharterCreate(db, op) ==
    CASE ~Known(db.charter, op.id) -> SettleCharter(db, Put(db.charter, op.id, Row(op, 1)))
      [] Known(db.charter, op.id) /\ CharterEqual(db.charter[op.id], op) -> Outcome(db, "noop")
      [] OTHER -> Outcome(db, "transition")

\* The prior charter becomes superseded whatever it was; nothing links back.
CharterSupersede(db, op) ==
    CASE ~Known(db.charter, op.supersedes) -> Outcome(db, "error")
      [] Known(db.charter, op.supersedes) /\ Known(db.charter, op.id) -> Outcome(db, "noop")
      [] OTHER -> SettleCharter(db, Put([db.charter EXCEPT ![op.supersedes].lifecycle = "superseded"], op.id, Row(op, 1)))

\* The version counts the changes; a charter that does not exist is an error.
CharterUpdate(db, op) ==
    CASE ~Known(db.charter, op.id) -> Outcome(db, "error")
      [] Known(db.charter, op.id) /\ CharterEqual(db.charter[op.id], op) -> Outcome(db, "noop")
      [] OTHER ->
            LET old == db.charter[op.id] IN
            SettleCharter(db, [db.charter EXCEPT ![op.id] =
                [Row(op, old.version + 1) EXCEPT !.project = old.project]])

\* transition and delete.
CharterTransition(db, op) ==
    CASE ~Known(db.charter, op.id) -> Outcome(db, "error")
      [] Known(db.charter, op.id) /\ db.charter[op.id].lifecycle = "deleted" /\ op.lifecycle # "deleted" ->
            Outcome(db, "transition")
      [] OTHER -> SettleCharter(db, [db.charter EXCEPT ![op.id].lifecycle = op.lifecycle])

ProjectCharter(db, op) ==
    CASE op.op = "create" -> CharterCreate(db, op)
      [] op.op = "update" -> CharterUpdate(db, op)
      [] op.op = "supersede" -> CharterSupersede(db, op)
      [] op.op \in {"transition", "delete"} -> CharterTransition(db, op)

-----------------------------------------------------------------------------
(* Requirements and decisions: create, transition, supersede, delete *)

DecisionClash(table) ==
    \E i, j \in DOMAIN table :
        /\ i # j /\ {table[i].lifecycle, table[j].lifecycle} = {"active"}
        /\ table[i].key # None /\ table[i].scope # None     \* a NULL differs from every NULL
        /\ <<table[i].project, table[i].scope, table[i].key>> = <<table[j].project, table[j].scope, table[j].key>>

\* What is left of a statement: the unique index, then the foreign keys.
Settle(db, table, domain) ==
    IF domain = "decision" /\ DecisionClash(table) THEN Outcome(db, "conflict")
    ELSE IF ~Linked(table) THEN Outcome(db, "error")
    ELSE Outcome([db EXCEPT ![domain] = table], "ok")

RequirementEqual(row, op) == row.text = op.text /\ row.lifecycle = op.lifecycle

DecisionEqual(row, op) ==
    /\ row.text = op.text /\ row.lifecycle = op.lifecycle
    /\ <<row.scope, row.key, row.supersedes, row.replacedBy>> = <<op.scope, op.key, op.supersedes, None>>

Create(db, op) ==
    LET table == db[op.domain]
        same == IF op.domain = "decision" THEN DecisionEqual(table[op.id], op) ELSE RequirementEqual(table[op.id], op)
    IN  CASE ~Known(table, op.id) -> Settle(db, Put(table, op.id, Row(op, 1)), op.domain)
          [] Known(table, op.id) /\ same -> Outcome(db, "noop")
          [] OTHER -> Outcome(db, "transition")

Given(new, old) == IF new = None THEN old ELSE new

Transition(db, op) ==
    LET table == db[op.domain] IN
    CASE ~Known(table, op.id) -> Outcome(db, "error")
      [] Known(table, op.id) /\ table[op.id].lifecycle = "deleted" /\ op.lifecycle # "deleted" -> Outcome(db, "transition")
      [] OTHER -> Settle(db, [table EXCEPT ![op.id].lifecycle = op.lifecycle,
                                           ![op.id].text = Given(op.text, @),
                                           ![op.id].scope = Given(op.scope, @),
                                           ![op.id].key = Given(op.key, @),
                                           ![op.id].supersedes = Given(op.supersedes, @)], op.domain)

\* Mutant: the new decision is inserted as what it will be.
SupersedeInOrder(db, op) ==
    LET inserted == Settle(db, Put(db[op.domain], op.id, Row(op, 1)), op.domain) IN
    IF ~Known(db[op.domain], op.supersedes) THEN Outcome(db, "error")
    ELSE IF Known(db[op.domain], op.id) THEN Outcome(db, "noop")
    ELSE IF inserted.result # "ok" THEN Outcome(db, inserted.result)
    ELSE Settle(db, [inserted.db[op.domain] EXCEPT ![op.supersedes].lifecycle = "superseded",
                                                   ![op.supersedes].replacedBy = op.id], op.domain)

\* The new row comes first, for the foreign key; a new decision is a candidate
\* until the old one has left the active ones.
Supersede(db, op) ==
    LET first == Row(IF op.domain = "decision" THEN [op EXCEPT !.lifecycle = "candidate"] ELSE op, 1)
        inserted == Settle(db, Put(db[op.domain], op.id, first), op.domain)
    IN  IF ~Known(db[op.domain], op.supersedes) THEN Outcome(db, "error")
        ELSE IF Known(db[op.domain], op.id) THEN Outcome(db, "noop")
        ELSE IF inserted.result # "ok" THEN Outcome(db, inserted.result)
        ELSE Settle(db, [inserted.db[op.domain] EXCEPT ![op.supersedes].lifecycle = "superseded",
                                                       ![op.supersedes].replacedBy = op.id,
                                                       ![op.id].lifecycle = op.lifecycle], op.domain)

Delete(db, op) ==
    IF Known(db[op.domain], op.id) THEN Outcome([db EXCEPT ![op.domain][op.id].lifecycle = "deleted"], "ok")
    ELSE Outcome(db, "error")

RequirementOrDecision(db, op) ==
    CASE op.op = "create" -> Create(db, op)
      [] op.op = "transition" -> Transition(db, op)
      [] op.op = "supersede" -> Supersede(db, op)
      [] op.op = "delete" -> Delete(db, op)
      [] OTHER -> Outcome(db, "transition")

ProjectRequirement(db, op) == RequirementOrDecision(db, op)

ProjectDecision(db, op) == RequirementOrDecision(db, op)

-----------------------------------------------------------------------------
(* Project state: rows in the order of their ids *)

SameSlot(row, op) == <<row.project, row.scope, row.key>> = <<op.project, op.scope, op.key>>

\* The row ids of the slot's active rows, of which the first is taken.
ActiveState(db, op) == {i \in DOMAIN db.state : SameSlot(db.state[i], op) /\ db.state[i].lifecycle = "active"}

StateEqual(row, op) == row.text = op.text /\ row.lifecycle = op.lifecycle

InsertState(rows, op, supersedes) == Append(rows, [Row(op, 1) EXCEPT !.supersedes = supersedes])

StateAs(rows, i, lifecycle) == [rows EXCEPT ![i].lifecycle = lifecycle]

ProjectState(db, op) ==
    LET actives == ActiveState(db, op)
        i == CHOOSE i \in actives : \A j \in actives : i <= j
        with(rows) == Outcome([db EXCEPT !.state = rows], "ok")
    IN  IF op.op \in {"create", "update", "supersede"} /\ actives # {} /\ StateEqual(db.state[i], op) THEN Outcome(db, "noop")
        ELSE IF op.op \in {"supersede", "transition", "delete"} /\ actives = {} THEN Outcome(db, "error")
        ELSE CASE op.op = "create" ->
                    IF op.lifecycle = "active" /\ op.key # None /\ actives # {} THEN Outcome(db, "conflict")
                    ELSE with(InsertState(db.state, op, op.supersedes))
               [] op.op = "update" ->
                    with(InsertState(IF actives # {} /\ op.key # None THEN StateAs(db.state, i, "superseded") ELSE db.state,
                                     op, op.supersedes))
               [] op.op = "supersede" -> with(InsertState(StateAs(db.state, i, "superseded"), op, i))
               [] op.op = "transition" -> with([StateAs(db.state, i, op.lifecycle) EXCEPT ![i].text = Given(op.text, @)])
               [] op.op = "delete" -> with(StateAs(db.state, i, "deleted"))

-----------------------------------------------------------------------------
(* Verifications and artifact links: one row per id, written over *)

ProjectVerification(db, op) ==
    LET row == [project |-> op.project, text |-> op.text] IN
    IF Known(db.verification, op.id) /\ db.verification[op.id] = row THEN Outcome(db, "noop")
    ELSE Outcome([db EXCEPT !.verification = Put(db.verification, op.id, row)], "ok")

\* The foreign key to zm_artifacts refuses a link to an artifact not ingested.
ProjectArtifact(db, op, artifacts) ==
    LET key == <<op.id, op.project>> IN
    CASE op.id \notin artifacts -> Outcome(db, "error")
      [] op.id \in artifacts /\ key \in DOMAIN db.artifact /\ db.artifact[key] = op.text -> Outcome(db, "noop")
      [] OTHER -> Outcome([db EXCEPT !.artifact = Put(db.artifact, key, op.text)], "ok")

Project(db, ev, artifacts) ==
    LET op == EventToOp(ev) IN
    CASE Classify(ev) = "skip" -> Outcome(db, "skip")
      [] Classify(ev) # "skip" /\ BadTransition(op) -> Outcome(db, "transition")
      [] Classify(ev) # "skip" /\ ~BadTransition(op) /\ ~(db.there /\ ValidOp(op) /\ SafeReference(op)) -> Outcome(db, "error")
      [] OTHER -> CASE ev.domain = "charter" -> ProjectCharter(db, op)
                    [] ev.domain = "requirement" -> ProjectRequirement(db, op)
                    [] ev.domain = "decision" -> ProjectDecision(db, op)
                    [] ev.domain = "state" -> ProjectState(db, op)
                    [] ev.domain = "verification" -> ProjectVerification(db, op)
                    [] ev.domain = "artifact" -> ProjectArtifact(db, op, artifacts)

-----------------------------------------------------------------------------
(* Readers: what each query returns *)

Listable(row) == row.lifecycle # "deleted"

ListCharters(db, p) == {id \in DOMAIN db.charter : db.charter[id].project = p /\ Listable(db.charter[id])}
ActiveCharters(db, p) == {id \in DOMAIN db.charter : db.charter[id].project = p /\ db.charter[id].lifecycle = "active"}

ListDecisions(db, p) == {id \in DOMAIN db.decision : db.decision[id].project = p /\ Listable(db.decision[id])}
ActiveDecisions(db, p, scope, key) ==
    {id \in DOMAIN db.decision : /\ db.decision[id].lifecycle = "active"
                                 /\ <<db.decision[id].project, db.decision[id].scope, db.decision[id].key>> = <<p, scope, key>>}

CurrentState(db, p) == {i \in DOMAIN db.state : db.state[i].project = p /\ db.state[i].lifecycle = "active"}
StateValues(db, p, scope, key) ==
    {i \in CurrentState(db, p) : db.state[i].scope = scope /\ db.state[i].key = key}
=============================================================================
