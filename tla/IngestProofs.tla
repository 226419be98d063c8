---------------------------- MODULE IngestProofs ----------------------------
(***************************************************************************)
(* Proofs about Ingest for any number of streams, events, lines and        *)
(* faults: types, supersession, the agreement of checkpoint, log and       *)
(* growing streams, and deletion.                                          *)
(***************************************************************************)
EXTENDS Ingest, TLAPS

-----------------------------------------------------------------------------
(***************************************************************************)
(* Rows and the job.                                                       *)
(***************************************************************************)

\* An inserted row is told from a missing one.
LEMMA RowsAreEnvelopes == NoRow \notin Envelope
<1> SUFFICES ASSUME NoRow \in Envelope PROVE FALSE
    OBVIOUS
<1>1. NoRow.event_id \in Events
    BY DEF Envelope
<1>2. NoRow.event_id = NoEvent
    BY DEF NoRow
<1> QED BY <1>1, <1>2, VocabularyAssumption

\* The fields of a job that reads lines.
LEMMA LinesJob ==
    ASSUME TypeOK, job.pc = "lines"
    PROVE  /\ job \in [pc : {"lines"}, source : Sources, hashed : Seq(Lines),
                       next : Nat \ {0}, lines : Seq(Lines)]
           /\ job # Idle
BY DEF TypeOK, Jobs, Idle

LEMMA ReadJob ==
    ASSUME TypeOK, job.pc = "read"
    PROVE  /\ job \in [pc : {"read"}, source : Sources, hashed : Seq(Lines)]
           /\ job # Idle
BY DEF TypeOK, Jobs, Idle

\* The line under way and its source.
LEMMA LineAtHand ==
    ASSUME TypeOK, AtLine
    PROVE  /\ CurrentLine \in Lines
           /\ job.source \in Sources
           /\ job.hashed \in Seq(Lines)
           /\ job.next \in Nat
           /\ Append(job.hashed, CurrentLine) \in Seq(Lines)
           /\ job \in [pc : {"lines"}, source : Sources, hashed : Seq(Lines),
                       next : Nat \ {0}, lines : Seq(Lines)]
<1>1. job \in [pc : {"lines"}, source : Sources, hashed : Seq(Lines),
               next : Nat \ {0}, lines : Seq(Lines)]
    BY LinesJob DEF AtLine
<1>2. job.lines \in Seq(Lines) /\ job.next \in 1 .. Len(job.lines)
    BY <1>1 DEF AtLine
<1>3. job.lines[job.next] \in Lines
    BY <1>2
<1> QED BY <1>1, <1>3 DEF CurrentLine

\* The job at the next line.
LEMMA NextLine ==
    ASSUME TypeOK, AtLine, NEW hashed \in Seq(Lines)
    PROVE  [job EXCEPT !.next = @ + 1, !.hashed = hashed] \in Jobs
<1>1. job.next + 1 \in Nat \ {0}
    BY LineAtHand
<1>2. [job EXCEPT !.next = @ + 1, !.hashed = hashed]
          \in [pc : {"lines"}, source : Sources, hashed : Seq(Lines),
               next : Nat \ {0}, lines : Seq(Lines)]
    BY <1>1, LineAtHand
<1> QED BY <1>2 DEF Jobs

-----------------------------------------------------------------------------
(***************************************************************************)
(* Type correctness.                                                       *)
(***************************************************************************)

\* What a transaction does to the tables keeps their types.
LEMMA ProjectTypes ==
    ASSUME TypeOK, NEW l \in Envelope, Project(l)
    PROVE  /\ meta' \in [Events -> Envelope \cup {NoRow}]
           /\ life' \in [Events -> Statuses \cup {"none"}]
           /\ successor' \in [Events -> Events \cup {NoEvent}]
           /\ fts' \subseteq Events
           /\ tombs' \in [Events -> Tombstone \cup {NoTomb}]
<1> DEFINE new == IF Classify(l) = "new_event" THEN {l.event_id} ELSE {}
           present == Known \cup new
           dead == Deleted(l, present)
<1>1. l.event_id \in Events /\ l.target_event_id \in Events \cup {NoEvent}
      /\ l.lifecycle_status \in Statuses
    BY DEF Envelope
<1>2. dead \subseteq Events
    BY <1>1 DEF Deleted, Known
<1>3. Entomb(l, new, present)
    BY DEF Project
<1>4. tombs' \in [Events -> Tombstone \cup {NoTomb}]
    <2>1. \A t \in Events : tombs[t] \in Tombstone \cup {NoTomb}
        BY DEF TypeOK
    <2> HIDE DEF new, present
    <2>2. \A t \in Events : tombs'[t] \in Tombstone \cup {NoTomb}
        <3> SUFFICES ASSUME NEW t \in Events PROVE tombs'[t] \in Tombstone \cup {NoTomb}
            OBVIOUS
        <3>1. CASE IsDeletion(l) /\ t = l.event_id
            <4>1. l.target_event_id \in Events
                BY <1>1, <3>1 DEF IsDeletion
            <4>2. CASE tombs[t] = NoTomb
                BY <1>3, <3>1, <4>1, <4>2 DEF Entomb, Tombstone
            <4>3. CASE tombs[t] # NoTomb
                BY <1>3, <2>1, <3>1, <4>1, <4>3 DEF Entomb, Tombstone
            <4> QED BY <4>2, <4>3
        <3>2. CASE ~(IsDeletion(l) /\ t = l.event_id)
            <4>1. CASE new # {} /\ IsPending(t, l.event_id)
                BY <1>1, <1>3, <2>1, <3>2, <4>1 DEF Entomb, Tombstone, IsPending
            <4>2. CASE ~(new # {} /\ IsPending(t, l.event_id))
                BY <1>3, <2>1, <3>2, <4>2 DEF Entomb
            <4> QED BY <4>1, <4>2
        <3> QED BY <3>1, <3>2
    <2>3. tombs' = [t \in Events |-> tombs'[t]]
        BY <1>3 DEF Entomb
    <2> QED BY <2>2, <2>3
<1>5. CASE new # {}
    <2>1. InsertEvent(l, dead)
        BY <1>5 DEF Project
    <2> HIDE DEF new, dead
    <2>2. PICK prior \in IF Prior(l) = {} THEN {NoEvent} ELSE Prior(l) :
             /\ life' = [e \in Events |->
                           IF e \in dead THEN "deleted"
                           ELSE IF e = l.event_id THEN l.lifecycle_status
                           ELSE IF e = prior THEN "superseded" ELSE life[e]]
             /\ successor' = [e \in Events |-> IF e = prior THEN l.event_id ELSE successor[e]]
        BY <2>1 DEF InsertEvent
    <2>3. life' \in [Events -> Statuses \cup {"none"}]
        BY <1>1, <2>2 DEF TypeOK, Statuses
    <2>4. successor' \in [Events -> Events \cup {NoEvent}]
        BY <1>1, <2>2 DEF TypeOK
    <2>5. meta' \in [Events -> Envelope \cup {NoRow}]
        BY <1>1, <2>1 DEF TypeOK, InsertEvent
    <2>6. fts' \subseteq Events
        BY <1>1, <2>1 DEF TypeOK, InsertEvent
    <2> QED BY <1>4, <2>3, <2>4, <2>5, <2>6
<1>6. CASE new = {}
    <2>1. OnlyDelete(dead)
        BY <1>6 DEF Project
    <2> HIDE DEF new, dead
    <2>2. life' \in [Events -> Statuses \cup {"none"}]
        BY <2>1 DEF TypeOK, Statuses, OnlyDelete
    <2>3. fts' \subseteq Events
        BY <2>1 DEF TypeOK, OnlyDelete
    <2> QED BY <1>4, <2>1, <2>2, <2>3 DEF TypeOK, OnlyDelete
<1> QED BY <1>5, <1>6

\* The bounded counters stay in their range.
Spent == [faults : 0 .. MaxFaults, rewrites : 0 .. MaxRewrites, rebuilds : 0 .. MaxRebuilds]

LEMMA SpentTypes ==
    ASSUME spent \in Spent
    PROVE  /\ spent.faults < MaxFaults => [spent EXCEPT !.faults = @ + 1] \in Spent
           /\ spent.rewrites < MaxRewrites => [spent EXCEPT !.rewrites = @ + 1] \in Spent
           /\ spent.rebuilds < MaxRebuilds => [spent EXCEPT !.rebuilds = @ + 1] \in Spent
<1>1. \A n, max \in Nat : n \in 0 .. max /\ n < max => n + 1 \in 0 .. max
    OBVIOUS
<1>2. spent.faults \in 0 .. MaxFaults /\ spent.rewrites \in 0 .. MaxRewrites
      /\ spent.rebuilds \in 0 .. MaxRebuilds
    BY DEF Spent
<1>3. spent.faults < MaxFaults => spent.faults + 1 \in 0 .. MaxFaults
    BY <1>2, BoundsAssumption
<1>4. spent.rewrites < MaxRewrites => spent.rewrites + 1 \in 0 .. MaxRewrites
    BY <1>2, BoundsAssumption
<1>5. spent.rebuilds < MaxRebuilds => spent.rebuilds + 1 \in 0 .. MaxRebuilds
    BY <1>2, BoundsAssumption
<1> QED BY <1>3, <1>4, <1>5 DEF Spent

LEMMA ClassifyType == ASSUME NEW l PROVE Classify(l) \in Outcomes
BY DEF Classify, Outcomes

LEMMA TypeInit == Init => TypeOK
BY BoundsAssumption DEF Init, TypeOK, AllEvents, AllSources, NoCheckpoint, Lines, Jobs, Idle

LEMMA TypeStep == TypeOK /\ [Next]_vars => TypeOK'
<1> SUFFICES ASSUME TypeOK, [Next]_vars PROVE TypeOK'
    OBVIOUS
<1> USE DEF files, derived
<1>0. spent \in Spent
    BY DEF TypeOK, Spent
<1>1. ASSUME NEW s \in Sources, Write(s) PROVE TypeOK'
    BY <1>1, VocabularyAssumption DEF TypeOK, Write, Lines
<1>3. ASSUME NEW s \in Sources, Rewrite(s) PROVE TypeOK'
    <2>1. stream' \in [Sources -> Seq(Lines)]
        <3>1. PICK i \in DOMAIN stream[s] :
                 \/ \E l \in Vocabulary : stream' = [stream EXCEPT ![s][i] = l]
                 \/ stream' = [stream EXCEPT ![s] = SubSeq(@, 1, i - 1)]
            BY <1>3 DEF Rewrite
        <3>2. stream[s] \in Seq(Lines) /\ i \in 1 .. Len(stream[s])
            BY DEF TypeOK
        <3>3. SubSeq(stream[s], 1, i - 1) \in Seq(Lines)
            BY <3>2
        <3>4. \A l \in Vocabulary : [stream[s] EXCEPT ![i] = l] \in Seq(Lines)
            BY <3>2, VocabularyAssumption DEF Lines
        <3>5. PICK f \in Seq(Lines) : stream' = [stream EXCEPT ![s] = f]
            BY <3>1, <3>3, <3>4
        <3>6. stream \in [Sources -> Seq(Lines)]
            BY DEF TypeOK
        <3> QED BY <3>5, <3>6
    <2>2. spent' \in Spent
        BY <1>3, <1>0, SpentTypes DEF Rewrite
    <2> QED BY <1>3, <2>1, <2>2 DEF TypeOK, Rewrite, Spent
<1>4. ASSUME NEW s \in Sources, Begin(s) PROVE TypeOK'
    <2>1. job' \in Jobs
        <3>1. CASE SourceChanged(s)
            BY <1>4, <3>1 DEF TypeOK, Begin
        <3>2. CASE ~SourceChanged(s)
            <4>1. checkpoint[s].last_line \in Nat /\ checkpoint[s].last_line <= Len(stream[s])
                BY <3>2 DEF TypeOK, SourceChanged
            <4>2. stream[s] \in Seq(Lines)
                BY DEF TypeOK
            <4>3. SubSeq(stream[s], 1, checkpoint[s].last_line) \in Seq(Lines)
                BY <4>1, <4>2
            <4>4. job' = [pc |-> "read", source |-> s,
                          hashed |-> SubSeq(stream[s], 1, checkpoint[s].last_line)]
                BY <1>4, <3>2 DEF Begin
            <4>5. job' \in [pc : {"read"}, source : Sources, hashed : Seq(Lines)]
                BY <4>3, <4>4
            <4> QED BY <4>5 DEF Jobs
        <3> QED BY <3>1, <3>2
    <2>2. refused' \subseteq Sources /\ todo' \subseteq Sources
        BY <1>4 DEF TypeOK, Begin
    <2> QED BY <1>4, <2>1, <2>2 DEF TypeOK, Begin
<1>5. ASSUME Read PROVE TypeOK'
    <2>1. job.source \in Sources /\ job.hashed \in Seq(Lines)
        BY <1>5, ReadJob DEF Read
    <2>2. checkpoint[job.source].last_line \in Nat /\ stream[job.source] \in Seq(Lines)
        BY <2>1 DEF TypeOK
    <2>3. job' \in Jobs
        BY <1>5, <2>1, <2>2 DEF Read, Jobs
    <2> QED BY <1>5, <2>3 DEF TypeOK, Read
<1>6. ASSUME CommitLine PROVE TypeOK'
    <2>1. AtLine
        BY <1>6 DEF CommitLine
    <2>2. /\ meta' \in [Events -> Envelope \cup {NoRow}]
          /\ life' \in [Events -> Statuses \cup {"none"}]
          /\ successor' \in [Events -> Events \cup {NoEvent}]
          /\ fts' \subseteq Events
          /\ tombs' \in [Events -> Tombstone \cup {NoTomb}]
        <3>1. CASE CurrentLine = Garbage
            BY <1>6, <3>1 DEF CommitLine, TypeOK
        <3>2. CASE CurrentLine # Garbage
            BY <1>6, <2>1, <3>2, LineAtHand, ProjectTypes DEF CommitLine, Lines
        <3> QED BY <3>1, <3>2
    <2>3. log' \in [Sources -> Seq(Entry)]
        <3>1. [line |-> CurrentLine, outcome |-> Classify(CurrentLine)] \in Entry
            BY <2>1, LineAtHand, ClassifyType DEF Entry
        <3> QED BY <1>6, <2>1, <3>1, LineAtHand DEF CommitLine, TypeOK
    <2>4. checkpoint' \in [Sources -> [last_line : Nat, prefix : Seq(Lines)]]
        BY <1>6, <2>1, LineAtHand DEF CommitLine, TypeOK
    <2>5. job' \in Jobs
        BY <1>6, <2>1, LineAtHand, NextLine DEF CommitLine
    <2> QED BY <1>6, <2>2, <2>3, <2>4, <2>5 DEF TypeOK, CommitLine
<1>7. ASSUME FailLine PROVE TypeOK'
    <2>1. AtLine
        BY <1>7 DEF FailLine
    <2>2. job' \in Jobs
        <3>1. CASE CurrentLine = Garbage
            <4>1. PICK hashed \in {job.hashed, Append(job.hashed, CurrentLine)} :
                     job' = [job EXCEPT !.next = @ + 1, !.hashed = hashed]
                BY <1>7, <3>1 DEF FailLine
            <4>2. hashed \in Seq(Lines)
                BY <2>1, LineAtHand
            <4> QED BY <2>1, <4>1, <4>2, NextLine
        <3>2. CASE CurrentLine # Garbage
            BY <1>7, <3>2 DEF FailLine, Jobs
        <3> QED BY <3>1, <3>2
    <2>3. spent' \in Spent
        BY <1>7, <1>0, SpentTypes DEF FailLine
    <2> QED BY <1>7, <2>2, <2>3 DEF TypeOK, FailLine, Spent
<1>8. ASSUME EndOfFile PROVE TypeOK'
    BY <1>8 DEF TypeOK, EndOfFile, Jobs
<1>9. ASSUME DropDerived PROVE TypeOK'
    <2>1. spent' \in Spent
        BY <1>9, <1>0, SpentTypes DEF DropDerived
    <2>2. /\ meta' \in [Events -> Envelope \cup {NoRow}]
          /\ life' \in [Events -> Statuses \cup {"none"}]
          /\ successor' \in [Events -> Events \cup {NoEvent}]
          /\ tombs' \in [Events -> Tombstone \cup {NoTomb}]
          /\ log' \in [Sources -> Seq(Entry)]
        BY <1>9 DEF DropDerived, AllEvents, AllSources
    <2>3. checkpoint' \in [Sources -> [last_line : Nat, prefix : Seq(Lines)]]
        BY <1>9 DEF DropDerived, AllSources, NoCheckpoint
    <2> QED BY <1>9, <2>1, <2>2, <2>3 DEF TypeOK, DropDerived, Spent
<1>10. ASSUME Crash PROVE TypeOK'
    <2>1. spent' \in Spent
        BY <1>10, <1>0, SpentTypes DEF Crash
    <2>2. job' \in Jobs
        BY <1>10 DEF Crash, Jobs
    <2> QED BY <1>10, <2>1, <2>2 DEF TypeOK, Crash, Spent
<1>11. CASE UNCHANGED vars
    BY <1>11 DEF TypeOK, vars
<1> QED BY <1>1, <1>3, <1>4, <1>5, <1>6, <1>7, <1>8, <1>9, <1>10, <1>11
        DEF Next, IngestStep

\* Every reachable state has its types, for all constants.
THEOREM TypeCorrect == Spec => []TypeOK
BY TypeInit, TypeStep, PTL DEF Spec

-----------------------------------------------------------------------------
(***************************************************************************)
(* Supersession.                                                           *)
(***************************************************************************)

\* Rows exist together, and only events inserted as active are active.
RowsAgree ==
    /\ \A e \in Events : e \notin Known => life[e] = "none" /\ successor[e] = NoEvent
    /\ \A e \in Known : successor[e] \in Known \cup {NoEvent}
    /\ \A e \in Known : life[e] = "active" => meta[e].lifecycle_status = "active"

OneActive ==
    \A d, e \in Known :
        life[d] = "active" /\ life[e] = "active" /\ meta[d].trace_id = meta[e].trace_id => d = e

Linked ==
    \A e \in Known :
        /\ life[e] = "superseded" /\ meta[e].lifecycle_status # "superseded" => successor[e] \in Known
        /\ successor[e] \in Known => meta[successor[e]].trace_id = meta[e].trace_id

Ending == \A S \in SUBSET Events : S # {} => \E e \in S : successor[e] \notin S

ChainInv == RowsAgree /\ OneActive /\ Linked /\ Ending

LEMMA ChainIsTheProperty == ChainInv => SupersessionIsAChain
BY DEF ChainInv, OneActive, Linked, Ending, SupersessionIsAChain

\* The effect of inserting l with the prior event it supersedes.
Inserted(l, prior, dead) ==
    /\ meta' = [meta EXCEPT ![l.event_id] = l]
    /\ life' = [e \in Events |->
                  IF e \in dead THEN "deleted"
                  ELSE IF e = l.event_id THEN l.lifecycle_status
                  ELSE IF e = prior THEN "superseded" ELSE life[e]]
    /\ successor' = [e \in Events |-> IF e = prior THEN l.event_id ELSE successor[e]]

\* The domain of the tables grows by the event.
LEMMA KnownGrows ==
    ASSUME TypeOK, NEW l \in Envelope, meta' = [meta EXCEPT ![l.event_id] = l]
    PROVE  /\ Known' = Known \cup {l.event_id}
           /\ meta'[l.event_id] = l
           /\ \A e \in Events : e # l.event_id => meta'[e] = meta[e]
<1>1. l.event_id \in Events
    BY DEF Envelope
<1>2. meta'[l.event_id] = l /\ \A e \in Events : e # l.event_id => meta'[e] = meta[e]
    BY <1>1 DEF TypeOK
<1>3. l # NoRow
    BY RowsAreEnvelopes
<1> QED BY <1>1, <1>2, <1>3 DEF Known

LEMMA InsertKeepsChain ==
    ASSUME TypeOK, ChainInv, NEW l \in Envelope, l.event_id \notin Known, NEW dead,
           dead \subseteq Known \cup {l.event_id},
           NEW prior \in IF Prior(l) = {} THEN {NoEvent} ELSE Prior(l),
           Inserted(l, prior, dead)
    PROVE  ChainInv'
<1> DEFINE id == l.event_id
<1>1. id \in Events /\ id # NoEvent
    BY VocabularyAssumption DEF Envelope
<1>2. /\ Known' = Known \cup {id}
      /\ meta'[id] = l
      /\ \A e \in Events : e # id => meta'[e] = meta[e]
    BY KnownGrows DEF Inserted
<1>3. Known \subseteq Events
    BY DEF Known
<1>4. /\ prior \in Known \/ prior = NoEvent
      /\ prior # id
      /\ prior \in Known => /\ l.lifecycle_status = "active"
                            /\ life[prior] = "active"
                            /\ meta[prior].trace_id = l.trace_id
    <2>1. CASE Prior(l) = {}
        <3>1. prior = NoEvent
            BY <2>1
        <3>2. NoEvent \notin Known
            BY <1>3, VocabularyAssumption
        <3> QED BY <1>1, <3>1, <3>2
    <2>2. CASE Prior(l) # {}
        <3>1. prior \in Prior(l)
            BY <2>2
        <3>2. l.lifecycle_status = "active"
            BY <3>1 DEF Prior
        <3>3. prior \in Known /\ life[prior] = "active" /\ meta[prior].trace_id = l.trace_id
            BY <3>1 DEF Prior
        <3> QED BY <3>2, <3>3
    <2> QED BY <2>1, <2>2
<1>5. life[id] = "none" /\ successor[id] = NoEvent
    BY <1>1 DEF ChainInv, RowsAgree
<1>6. /\ successor'[id] = NoEvent
      /\ \A e \in Events : e # prior => successor'[e] = successor[e]
      /\ prior \in Events => successor'[prior] = id
    BY <1>1, <1>4, <1>5 DEF Inserted
<1>7. \A e \in Events :
          life'[e] = IF e \in dead THEN "deleted"
                     ELSE IF e = id THEN l.lifecycle_status
                     ELSE IF e = prior THEN "superseded" ELSE life[e]
    BY DEF Inserted
<1>8. l.lifecycle_status \in Statuses
    BY DEF Envelope
<1> HIDE DEF id
<1>9. RowsAgree'
    <2>1. \A e \in Events : e \notin Known' => life'[e] = "none" /\ successor'[e] = NoEvent
        <3> SUFFICES ASSUME NEW e \in Events, e \notin Known'
                     PROVE  life'[e] = "none" /\ successor'[e] = NoEvent
            OBVIOUS
        <3>1. e \notin Known /\ e # id
            BY <1>2
        <3>2. e # prior
            BY <3>1, <1>4, VocabularyAssumption
        <3>3. life[e] = "none" /\ successor[e] = NoEvent
            BY <3>1 DEF ChainInv, RowsAgree
        <3>4. e \notin dead
            BY <3>1 DEF id
        <3> QED BY <1>6, <1>7, <3>1, <3>2, <3>3, <3>4
    <2>2. \A e \in Known' : successor'[e] \in Known' \cup {NoEvent}
        BY <1>2, <1>3, <1>6 DEF ChainInv, RowsAgree
    <2>3. \A e \in Known' : life'[e] = "active" => meta'[e].lifecycle_status = "active"
        <3> SUFFICES ASSUME NEW e \in Known', life'[e] = "active"
                     PROVE  meta'[e].lifecycle_status = "active"
            OBVIOUS
        <3>1. CASE e = id
            <4>1. l.lifecycle_status = "active"
                BY <1>1, <1>7, <3>1
            <4> QED BY <1>2, <3>1, <4>1
        <3>2. CASE e # id
            <4>1. e \in Known /\ e \in Events
                BY <1>2, <1>3, <3>2
            <4>2. life[e] = "active"
                BY <1>7, <3>2, <4>1
            <4> QED BY <1>2, <3>2, <4>1, <4>2 DEF ChainInv, RowsAgree
        <3> QED BY <3>1, <3>2
    <2> QED BY <2>1, <2>2, <2>3 DEF RowsAgree
<1>10. OneActive'
    <2>1. \A e \in Known : life'[e] = "active" => life[e] = "active" /\ e # prior /\ e # id
        BY <1>3, <1>7 DEF id
    <2>2. \A e \in Known : meta'[e] = meta[e]
        BY <1>2, <1>3 DEF id
    <2>3. \A e \in Known : life'[e] = "active" /\ life'[id] = "active"
                              => meta[e].trace_id # l.trace_id
        <3> SUFFICES ASSUME NEW e \in Known, life'[e] = "active", life'[id] = "active",
                            meta[e].trace_id = l.trace_id
                     PROVE  FALSE
            OBVIOUS
        <3>1. l.lifecycle_status = "active"
            BY <1>1, <1>7
        <3>2. life[e] = "active" /\ meta[e].lifecycle_status = "active" /\ e # prior
            BY <2>1 DEF ChainInv, RowsAgree
        <3>3. e \in Prior(l)
            BY <3>1, <3>2 DEF Prior
        <3>4. prior \in Prior(l)
            BY <3>3
        <3>5. prior \in Known /\ life[prior] = "active" /\ meta[prior].trace_id = meta[e].trace_id
            BY <3>4 DEF Prior
        <3> QED BY <3>2, <3>5 DEF ChainInv, OneActive
    <2> QED BY <1>2, <2>1, <2>2, <2>3 DEF ChainInv, OneActive
<1>11. Linked'
    <2> SUFFICES ASSUME NEW e \in Known'
                 PROVE  /\ life'[e] = "superseded" /\ meta'[e].lifecycle_status # "superseded"
                               => successor'[e] \in Known'
                        /\ successor'[e] \in Known'
                               => meta'[successor'[e]].trace_id = meta'[e].trace_id
        BY DEF Linked
    <2>1. CASE e = id
        <3>1. NoEvent \notin Known'
            BY <1>1, <1>2, <1>3, VocabularyAssumption
        <3> QED BY <1>1, <1>2, <1>6, <1>7, <2>1, <3>1
    <2>2. CASE e = prior /\ e # id
        BY <1>1, <1>2, <1>3, <1>4, <1>6, <2>2
    <2>3. CASE e # prior /\ e # id
        <3>1. e \in Known /\ successor'[e] = successor[e] /\ meta'[e] = meta[e]
            BY <1>2, <1>3, <1>6, <2>3
        <3>2. life'[e] = "superseded" => life[e] = "superseded"
            BY <1>3, <1>7, <2>3, <3>1
        <3>3. successor[e] \in Known \cup {NoEvent}
            BY <3>1 DEF ChainInv, RowsAgree
        <3>4. successor[e] # id
            BY <1>1, <3>3 DEF id
        <3>5. successor[e] \in Known' => successor[e] \in Known /\ meta'[successor[e]] = meta[successor[e]]
            BY <1>2, <1>3, <3>4
        <3> QED BY <1>2, <3>1, <3>2, <3>5 DEF ChainInv, Linked
    <2> QED BY <2>1, <2>2, <2>3
<1>12. Ending'
    <2> SUFFICES ASSUME NEW S \in SUBSET Events, S # {}
                 PROVE  \E e \in S : successor'[e] \notin S
        BY DEF Ending
    <2>1. CASE id \in S
        BY <1>6, <2>1, VocabularyAssumption
    <2>2. CASE id \notin S /\ prior \in S
        BY <1>6, <2>2
    <2>3. CASE id \notin S /\ prior \notin S
        <3>1. PICK e \in S : successor[e] \notin S
            BY DEF ChainInv, Ending
        <3> QED BY <1>6, <2>3, <3>1
    <2> QED BY <2>1, <2>2, <2>3
<1> QED BY <1>9, <1>10, <1>11, <1>12 DEF ChainInv

\* Deleting known events breaks nothing.
LEMMA DeleteKeepsChain ==
    ASSUME TypeOK, ChainInv, NEW dead \in SUBSET Known, OnlyDelete(dead)
    PROVE  ChainInv'
<1>1. Known' = Known /\ Known \subseteq Events
    BY DEF Known, OnlyDelete
<1>2. meta' = meta /\ successor' = successor
    BY DEF OnlyDelete
<1>3. \A e \in Events : life'[e] = IF e \in dead THEN "deleted" ELSE life[e]
    BY DEF OnlyDelete
<1>4. RowsAgree'
    BY <1>1, <1>2, <1>3 DEF ChainInv, RowsAgree
<1>5. OneActive'
    BY <1>1, <1>2, <1>3 DEF ChainInv, OneActive
<1>6. Linked'
    BY <1>1, <1>2, <1>3 DEF ChainInv, Linked
<1>7. Ending'
    BY <1>2 DEF ChainInv, Ending
<1> QED BY <1>4, <1>5, <1>6, <1>7 DEF ChainInv

LEMMA ChainStep == TypeOK /\ ChainInv /\ [Next]_vars => ChainInv'
<1> SUFFICES ASSUME TypeOK, ChainInv, [Next]_vars PROVE ChainInv'
    OBVIOUS
<1>1. CASE CommitLine
    <2> DEFINE l == CurrentLine
               new == IF Classify(l) = "new_event" THEN {l.event_id} ELSE {}
               dead == Deleted(l, Known \cup new)
    <2>1. l \in Lines
        BY <1>1, LineAtHand DEF CommitLine
    <2>2. CASE l = Garbage
        <3>1. UNCHANGED <<meta, life, successor>>
            BY <1>1, <2>2 DEF CommitLine
        <3> QED BY <3>1 DEF ChainInv, RowsAgree, OneActive, Linked, Ending, Known
    <2>3. CASE l # Garbage /\ Classify(l) = "new_event"
        <3>1. InsertEvent(l, dead)
            BY <1>1, <2>3 DEF CommitLine, Project
        <3>2. l \in Envelope /\ l.event_id \notin Known
            BY <2>1, <2>3 DEF Lines, Classify
        <3>3. PICK prior \in IF Prior(l) = {} THEN {NoEvent} ELSE Prior(l) : Inserted(l, prior, dead)
            BY <3>1 DEF InsertEvent, Inserted
        <3>4. dead \subseteq Known \cup {l.event_id}
            BY DEF Deleted
        <3> HIDE DEF l, dead
        <3> QED BY <3>2, <3>3, <3>4, InsertKeepsChain
    <2>4. CASE l # Garbage /\ Classify(l) # "new_event"
        <3>1. OnlyDelete(dead)
            BY <1>1, <2>4 DEF CommitLine, Project
        <3>2. dead \in SUBSET Known
            BY <2>4 DEF Deleted
        <3> QED BY <3>1, <3>2, DeleteKeepsChain
    <2> QED BY <2>2, <2>3, <2>4
<1>2. CASE DropDerived
    <2>1. Known' = {}
        BY <1>2 DEF DropDerived, Known, AllEvents
    <2>2. \A e \in Events : life'[e] = "none" /\ successor'[e] = NoEvent
        BY <1>2 DEF DropDerived, AllEvents
    <2> QED BY <2>1, <2>2, VocabularyAssumption
            DEF ChainInv, RowsAgree, OneActive, Linked, Ending
<1>3. CASE UNCHANGED <<meta, life, successor>>
    BY <1>3 DEF ChainInv, RowsAgree, OneActive, Linked, Ending, Known
<1> QED BY <1>1, <1>2, <1>3
        DEF Next, IngestStep, Write, Rewrite, Begin, Read, FailLine, EndOfFile, Crash,
            derived, vars

LEMMA ChainInit == Init => ChainInv
<1> SUFFICES ASSUME Init PROVE ChainInv
    OBVIOUS
<1>1. Known = {}
    BY DEF Init, Known, AllEvents
<1>2. \A e \in Events : life[e] = "none" /\ successor[e] = NoEvent
    BY DEF Init, AllEvents
<1> QED BY <1>1, <1>2, VocabularyAssumption
        DEF ChainInv, RowsAgree, OneActive, Linked, Ending

\* Of a trace's events at most one is active, and each superseded one leads on
\* to another of its trace in finitely many links, for all constants.
THEOREM SupersessionHolds == Spec => []SupersessionIsAChain
<1>1. Init => TypeOK /\ ChainInv
    BY TypeInit, ChainInit
<1>2. TypeOK /\ ChainInv /\ [Next]_vars => (TypeOK /\ ChainInv)'
    BY TypeStep, ChainStep
<1> QED BY <1>1, <1>2, ChainIsTheProperty, PTL DEF Spec

-----------------------------------------------------------------------------
(***************************************************************************)
(* Checkpoint, log and stream, when the transactions of invalid lines do   *)
(* not fail.                                                               *)
(***************************************************************************)

\* The hasher of the job holds what the checkpoint holds.
HasherAgrees ==
    /\ job.pc = "read" => job.hashed = checkpoint[job.source].prefix
    /\ job.pc = "lines" => /\ job.hashed = checkpoint[job.source].prefix
                           /\ job.next = checkpoint[job.source].last_line + 1

LogInv == CheckpointIsTheLog /\ HasherAgrees

\* One more line agrees with one more log row.
LEMMA AppendAgrees ==
    ASSUME NEW L \in Seq(Entry), NEW P \in Seq(Lines), Len(L) = Len(P),
           \A i \in 1 .. Len(L) : L[i].line = P[i],
           NEW row \in Entry
    PROVE  /\ Len(Append(L, row)) = Len(L) + 1
           /\ Len(Append(P, row.line)) = Len(P) + 1
           /\ \A i \in 1 .. Len(Append(L, row)) : Append(L, row)[i].line = Append(P, row.line)[i]
<1>1. row.line \in Lines
    BY DEF Entry
<1>2. Len(Append(L, row)) = Len(L) + 1 /\ Len(Append(P, row.line)) = Len(P) + 1
    BY <1>1
<1>3. \A i \in 1 .. Len(L) : Append(L, row)[i] = L[i] /\ Append(P, row.line)[i] = P[i]
    BY <1>1
<1>4. Append(L, row)[Len(L) + 1] = row /\ Append(P, row.line)[Len(L) + 1] = row.line
    BY <1>1
<1>5. \A i \in 1 .. Len(L) + 1 : i \in 1 .. Len(L) \/ i = Len(L) + 1
    OBVIOUS
<1> QED BY <1>2, <1>3, <1>4, <1>5

\* What one transaction does to log, checkpoint and job.
LEMMA CommitEffect ==
    ASSUME TypeOK, CommitLine, NEW s, s = job.source
    PROVE  /\ s \in Sources
           /\ [line |-> CurrentLine, outcome |-> Classify(CurrentLine)] \in Entry
           /\ log' = [log EXCEPT ![s] = Append(log[s], [line |-> CurrentLine, outcome |-> Classify(CurrentLine)])]
           /\ checkpoint' = [checkpoint EXCEPT ![s] = [last_line |-> job.next,
                                                      prefix |-> Append(job.hashed, CurrentLine)]]
           /\ job'.pc = "lines" /\ job'.source = s /\ job'.lines = job.lines
           /\ job'.hashed = Append(job.hashed, CurrentLine) /\ job'.next = job.next + 1
           /\ job.next \in Nat \ {0} /\ CurrentLine \in Lines
<1>1. AtLine
    BY DEF CommitLine
<1>2. [line |-> CurrentLine, outcome |-> Classify(CurrentLine)] \in Entry
    BY <1>1, LineAtHand, ClassifyType DEF Entry
<1>3. job' = [job EXCEPT !.next = @ + 1, !.hashed = Append(job.hashed, CurrentLine)]
    BY DEF CommitLine
<1>4. job'.pc = "lines" /\ job'.source = job.source /\ job'.lines = job.lines
      /\ job'.hashed = Append(job.hashed, CurrentLine) /\ job'.next = job.next + 1
    BY <1>1, <1>3, LineAtHand
<1> QED BY <1>1, <1>2, <1>4, LineAtHand DEF CommitLine

LEMMA LogStep ==
    ASSUME Garbage \notin Failing, TypeOK, LogInv, [Next]_vars
    PROVE  LogInv'
<1>1. CASE CommitLine
    <2> DEFINE s == job.source
               row == [line |-> CurrentLine, outcome |-> Classify(CurrentLine)]
    <2>1. job.pc = "lines"
        BY <1>1 DEF CommitLine, AtLine
    <2>2. job.hashed = checkpoint[s].prefix /\ job.next = checkpoint[s].last_line + 1
        BY <2>1 DEF LogInv, HasherAgrees
    <2>3. /\ s \in Sources /\ row \in Entry
          /\ log' = [log EXCEPT ![s] = Append(log[s], row)]
          /\ checkpoint' = [checkpoint EXCEPT ![s] = [last_line |-> job.next,
                                                     prefix |-> Append(job.hashed, row.line)]]
          /\ job'.pc = "lines" /\ job'.source = s
          /\ job'.hashed = Append(job.hashed, row.line) /\ job'.next = job.next + 1
        BY <1>1, CommitEffect
    <2>4. log[s] \in Seq(Entry) /\ checkpoint[s].prefix \in Seq(Lines)
          /\ checkpoint[s].last_line \in Nat
        BY <2>3 DEF TypeOK
    <2> HIDE DEF s, row
    <2>5. /\ Len(log[s]) = checkpoint[s].last_line
          /\ Len(checkpoint[s].prefix) = checkpoint[s].last_line
          /\ \A i \in 1 .. Len(log[s]) : log[s][i].line = checkpoint[s].prefix[i]
        BY <2>3 DEF LogInv, CheckpointIsTheLog
    <2>6. /\ Len(Append(log[s], row)) = Len(log[s]) + 1
          /\ Len(Append(job.hashed, row.line)) = Len(job.hashed) + 1
          /\ \A i \in 1 .. Len(Append(log[s], row)) :
                 Append(log[s], row)[i].line = Append(job.hashed, row.line)[i]
        BY <2>2, <2>3, <2>4, <2>5, AppendAgrees
    <2>7. log'[s] = Append(log[s], row) /\ checkpoint'[s].last_line = job.next
          /\ checkpoint'[s].prefix = Append(job.hashed, row.line)
        BY <2>3 DEF TypeOK
    <2>8. \A r \in Sources : r # s => log'[r] = log[r] /\ checkpoint'[r] = checkpoint[r]
        BY <2>3 DEF TypeOK
    <2>9. CheckpointIsTheLog'
        <3> SUFFICES ASSUME NEW r \in Sources
                     PROVE  /\ Len(log'[r]) = checkpoint'[r].last_line
                            /\ Len(checkpoint'[r].prefix) = checkpoint'[r].last_line
                            /\ \A i \in 1 .. Len(log'[r]) : log'[r][i].line = checkpoint'[r].prefix[i]
            BY DEF CheckpointIsTheLog
        <3>1. CASE r = s
            BY <2>2, <2>5, <2>6, <2>7, <3>1
        <3>2. CASE r # s
            BY <2>8, <3>2 DEF LogInv, CheckpointIsTheLog
        <3> QED BY <3>1, <3>2
    <2>10. HasherAgrees'
        BY <2>3, <2>7 DEF HasherAgrees
    <2> QED BY <2>9, <2>10 DEF LogInv
<1>2. CASE DropDerived
    <2>1. CheckpointIsTheLog'
        BY <1>2 DEF DropDerived, CheckpointIsTheLog, AllSources, NoCheckpoint
    <2>2. HasherAgrees'
        BY <1>2 DEF DropDerived, HasherAgrees, Idle
    <2> QED BY <2>1, <2>2 DEF LogInv
<1>3. CASE FailLine
    <2>1. job' = Idle
        BY <1>3 DEF FailLine
    <2> QED BY <1>3, <2>1 DEF FailLine, LogInv, CheckpointIsTheLog, HasherAgrees, Idle, derived
<1>4. ASSUME NEW s \in Sources, Begin(s) PROVE LogInv'
    <2>1. UNCHANGED <<log, checkpoint>>
        BY <1>4 DEF Begin, derived
    <2>2. HasherAgrees'
        <3>1. CASE SourceChanged(s)
            BY <1>4, <2>1, <3>1 DEF Begin, Idle, HasherAgrees, LogInv
        <3>2. CASE ~SourceChanged(s)
            <4>1. job' = [pc |-> "read", source |-> s,
                          hashed |-> SubSeq(stream[s], 1, checkpoint[s].last_line)]
                BY <1>4, <3>2 DEF Begin
            <4>2. SubSeq(stream[s], 1, checkpoint[s].last_line) = checkpoint[s].prefix
                BY <3>2 DEF SourceChanged
            <4>3. job'.pc = "read" /\ job'.source = s /\ job'.hashed = checkpoint[s].prefix
                BY <4>1, <4>2
            <4> QED BY <2>1, <4>3 DEF HasherAgrees
        <3> QED BY <3>1, <3>2
    <2> QED BY <2>1, <2>2 DEF LogInv, CheckpointIsTheLog
<1>5. CASE Read
    <2>1. UNCHANGED <<log, checkpoint>>
        BY <1>5 DEF Read, derived
    <2>2. HasherAgrees'
        BY <1>5, <2>1 DEF Read, LogInv, HasherAgrees
    <2> QED BY <2>1, <2>2 DEF LogInv, CheckpointIsTheLog
<1>6. CASE EndOfFile \/ Crash
    BY <1>6 DEF EndOfFile, Crash, LogInv, CheckpointIsTheLog, HasherAgrees, Idle, derived
<1>7. CASE UNCHANGED <<log, checkpoint, job>>
    BY <1>7 DEF LogInv, CheckpointIsTheLog, HasherAgrees
<1> QED BY <1>1, <1>2, <1>3, <1>4, <1>5, <1>6, <1>7
        DEF Next, IngestStep, Write, Rewrite, derived, vars

LEMMA LogInit == Init => LogInv
BY DEF Init, LogInv, CheckpointIsTheLog, HasherAgrees, AllSources, NoCheckpoint, Idle

\* If only valid lines can fail, the consumed prefix of a stream is what its
\* transactions logged, for all constants.
THEOREM CheckpointHolds == Garbage \notin Failing => (Spec => []CheckpointIsTheLog)
<1> SUFFICES ASSUME Garbage \notin Failing PROVE Spec => []CheckpointIsTheLog
    OBVIOUS
<1>1. Init => TypeOK /\ LogInv
    BY TypeInit, LogInit
<1>2. TypeOK /\ LogInv /\ [Next]_vars => (TypeOK /\ LogInv)'
    BY TypeStep, LogStep
<1>3. LogInv => CheckpointIsTheLog
    BY DEF LogInv
<1> QED BY <1>1, <1>2, <1>3, PTL DEF Spec

-----------------------------------------------------------------------------
(***************************************************************************)
(* A stream that only grows.                                               *)
(***************************************************************************)

\* S continues P.
Continues(S, P) == Len(P) <= Len(S) /\ \A i \in 1 .. Len(P) : S[i] = P[i]

\* The consumed prefix, and what the job has read, are the stream's start.
GrowInv ==
    /\ \A s \in Sources \ rewritten :
           /\ Continues(stream[s], checkpoint[s].prefix)
           /\ job.pc = "lines" /\ job.source = s => Continues(stream[s], job.lines)
    /\ refused \subseteq rewritten

LEMMA ContinuedPrefix ==
    ASSUME NEW S \in Seq(Lines), NEW P \in Seq(Lines), Continues(S, P)
    PROVE  SubSeq(S, 1, Len(P)) = P
BY DEF Continues

LEMMA ContinuesGrows ==
    ASSUME NEW S \in Seq(Lines), NEW P \in Seq(Lines), Continues(S, P), NEW l \in Lines
    PROVE  Continues(Append(S, l), P)
BY DEF Continues

LEMMA GrowStep ==
    ASSUME Garbage \notin Failing, TypeOK, LogInv, GrowInv, [Next]_vars
    PROVE  GrowInv'
<1>0. \A s \in Sources : /\ stream[s] \in Seq(Lines) /\ checkpoint[s].prefix \in Seq(Lines)
                         /\ Len(checkpoint[s].prefix) = checkpoint[s].last_line
    BY DEF TypeOK, LogInv, CheckpointIsTheLog
<1>1. ASSUME NEW s \in Sources, Write(s) PROVE GrowInv'
    <2>1. PICK l \in Vocabulary : stream' = [stream EXCEPT ![s] = Append(stream[s], l)]
        BY <1>1 DEF Write
    <2>2. l \in Lines
        BY VocabularyAssumption DEF Lines
    <2>3. UNCHANGED <<checkpoint, job, rewritten, refused>>
        BY <1>1 DEF Write, derived
    <2>4. \A r \in Sources : stream'[r] = IF r = s THEN Append(stream[s], l) ELSE stream[r]
        BY <2>1 DEF TypeOK
    <2>5. job.pc = "lines" => job.lines \in Seq(Lines)
        BY LinesJob
    <2>6. \A r \in Sources \ rewritten : Continues(stream'[r], checkpoint[r].prefix)
        BY <1>0, <2>2, <2>4, ContinuesGrows DEF GrowInv
    <2>7. \A r \in Sources \ rewritten :
              job.pc = "lines" /\ job.source = r => Continues(stream'[r], job.lines)
        BY <1>0, <2>2, <2>4, <2>5, ContinuesGrows DEF GrowInv
    <2> QED BY <2>3, <2>6, <2>7 DEF GrowInv
<1>2. ASSUME NEW s \in Sources, Rewrite(s) PROVE GrowInv'
    <2>1. UNCHANGED <<checkpoint, job, refused>> /\ rewritten' = rewritten \cup {s}
        BY <1>2 DEF Rewrite, derived
    <2>2. \A r \in Sources : r # s => stream'[r] = stream[r]
        BY <1>2 DEF Rewrite, TypeOK
    <2> QED BY <2>1, <2>2 DEF GrowInv
<1>3. ASSUME NEW s \in Sources, Begin(s) PROVE GrowInv'
    <2>1. UNCHANGED <<stream, rewritten, checkpoint>>
        BY <1>3 DEF Begin, files, derived
    <2>2. job'.pc # "lines"
        BY <1>3 DEF Begin, Idle
    <2>3. s \notin rewritten => ~SourceChanged(s)
        <3> SUFFICES ASSUME s \notin rewritten PROVE ~SourceChanged(s)
            OBVIOUS
        <3>1. Continues(stream[s], checkpoint[s].prefix)
            BY DEF GrowInv
        <3>2. SubSeq(stream[s], 1, checkpoint[s].last_line) = checkpoint[s].prefix
            BY <1>0, <3>1, ContinuedPrefix
        <3>3. checkpoint[s].last_line <= Len(stream[s])
            BY <1>0, <3>1 DEF Continues
        <3> QED BY <3>2, <3>3 DEF SourceChanged
    <2>4. refused' \subseteq rewritten
        BY <1>3, <2>3 DEF Begin, GrowInv
    <2> QED BY <2>1, <2>2, <2>4 DEF GrowInv
<1>4. CASE Read
    <2>1. UNCHANGED <<stream, rewritten, checkpoint, refused>>
        BY <1>4 DEF Read, files, derived
    <2>2. job'.lines = stream[job'.source] /\ job'.source \in Sources
        BY <1>4, ReadJob DEF Read
    <2>3. \A r \in Sources : Continues(stream[r], stream[r])
        BY <1>0 DEF Continues
    <2> QED BY <2>1, <2>2, <2>3 DEF GrowInv
<1>5. CASE CommitLine
    <2> DEFINE s == job.source
    <2>1. AtLine /\ UNCHANGED <<stream, rewritten, refused>>
        BY <1>5 DEF CommitLine, files
    <2>2. /\ s \in Sources
          /\ checkpoint' = [checkpoint EXCEPT ![s] = [last_line |-> job.next,
                                                     prefix |-> Append(job.hashed, CurrentLine)]]
          /\ job'.pc = "lines" /\ job'.source = s /\ job'.lines = job.lines
          /\ CurrentLine \in Lines
        BY <1>5, CommitEffect
    <2>3. /\ job.hashed = checkpoint[s].prefix
          /\ job.next = Len(job.hashed) + 1
          /\ job.next \in 1 .. Len(job.lines)
          /\ job.lines \in Seq(Lines)
        BY <1>0, <2>1, <2>2, LineAtHand DEF LogInv, HasherAgrees, AtLine
    <2>4. s \notin rewritten => Continues(stream[s], Append(job.hashed, CurrentLine))
        <3> SUFFICES ASSUME s \notin rewritten
                     PROVE  Continues(stream[s], Append(job.hashed, CurrentLine))
            OBVIOUS
        <3>1. Continues(stream[s], job.lines) /\ Continues(stream[s], job.hashed)
            BY <2>1, <2>2, <2>3 DEF GrowInv, AtLine
        <3>2. job.hashed \in Seq(Lines) /\ stream[s] \in Seq(Lines)
            BY <1>0, <2>2, <2>3
        <3>3. stream[s][Len(job.hashed) + 1] = CurrentLine
            BY <2>3, <3>1 DEF Continues, CurrentLine
        <3>4. Len(job.hashed) + 1 <= Len(stream[s])
            BY <2>3, <3>1, <3>2 DEF Continues
        <3>5. Len(Append(job.hashed, CurrentLine)) = Len(job.hashed) + 1
            BY <2>2, <3>2
        <3>6. \A i \in 1 .. Len(job.hashed) + 1 :
                  stream[s][i] = Append(job.hashed, CurrentLine)[i]
            BY <2>2, <3>1, <3>2, <3>3 DEF Continues
        <3> QED BY <3>4, <3>5, <3>6 DEF Continues
    <2>5. checkpoint'[s].prefix = Append(job.hashed, CurrentLine)
          /\ \A r \in Sources : r # s => checkpoint'[r] = checkpoint[r]
        BY <2>2 DEF TypeOK
    <2>6. job.pc = "lines"
        BY <2>1 DEF AtLine
    <2> HIDE DEF s
    <2> QED BY <2>1, <2>2, <2>4, <2>5, <2>6 DEF GrowInv, s
<1>6. CASE FailLine \/ EndOfFile \/ Crash
    <2>1. UNCHANGED <<stream, rewritten, checkpoint, refused>> /\ job'.pc = "idle"
        BY <1>6 DEF FailLine, EndOfFile, Crash, files, derived, Idle
    <2> QED BY <2>1 DEF GrowInv
<1>7. CASE DropDerived
    <2>1. UNCHANGED <<stream, rewritten, job, refused>> /\ job = Idle
        BY <1>7 DEF DropDerived, files
    <2>2. \A s \in Sources : checkpoint'[s].prefix = <<>>
        BY <1>7 DEF DropDerived, AllSources, NoCheckpoint
    <2>3. \A s \in Sources : Continues(stream[s], <<>>)
        BY <1>0 DEF Continues
    <2> QED BY <2>1, <2>2, <2>3 DEF GrowInv, Idle
<1>8. CASE UNCHANGED <<stream, rewritten, checkpoint, job, refused>>
    BY <1>8 DEF GrowInv
<1> QED BY <1>1, <1>2, <1>3, <1>4, <1>5, <1>6, <1>7, <1>8
        DEF Next, IngestStep, files, derived, vars

LEMMA GrowInit == Init => GrowInv
BY DEF Init, GrowInv, Continues, AllSources, NoCheckpoint, Idle

\* If only valid lines can fail, a stream that nobody rewrites is never
\* refused, whatever tears, fails or dies, for all constants.
THEOREM GrowingStreamsAreAccepted ==
    Garbage \notin Failing => (Spec => []GrowingStreamIsNotRefused)
<1> SUFFICES ASSUME Garbage \notin Failing PROVE Spec => []GrowingStreamIsNotRefused
    OBVIOUS
<1>1. Init => TypeOK /\ LogInv /\ GrowInv
    BY TypeInit, LogInit, GrowInit
<1>2. TypeOK /\ LogInv /\ GrowInv /\ [Next]_vars => (TypeOK /\ LogInv /\ GrowInv)'
    BY TypeStep, LogStep, GrowStep
<1>3. GrowInv => GrowingStreamIsNotRefused
    BY DEF GrowInv, GrowingStreamIsNotRefused
<1> QED BY <1>1, <1>2, <1>3, PTL DEF Spec

\* Both together: an ingest resumes exactly where the last one ended.
THEOREM ResumptionIsExact == Garbage \notin Failing => (Spec => []ResumeIsExact)
<1> SUFFICES ASSUME Garbage \notin Failing PROVE Spec => []ResumeIsExact
    OBVIOUS
<1>1. Spec => []CheckpointIsTheLog
    BY CheckpointHolds
<1>2. Spec => []GrowingStreamIsNotRefused
    BY GrowingStreamsAreAccepted
<1>3. GrowingStreamIsNotRefused /\ CheckpointIsTheLog => ResumeIsExact
    BY DEF ResumeIsExact
<1> QED BY <1>1, <1>2, <1>3, PTL

-----------------------------------------------------------------------------
(***************************************************************************)
(* Deletion.                                                               *)
(***************************************************************************)

\* The deletion lines of one event id agree on what they delete: an event id
\* names one event.  A tombstone keeps the target of its first line.
TargetsAgree ==
    \A l, m \in Vocabulary :
        IsDeletion(l) /\ IsDeletion(m) /\ l.event_id = m.event_id => l.target_event_id = m.target_event_id

Applied(t, e) == tombs[t] = [target_event_id |-> e, status |-> "applied"]

\* Only lines that may be written are read and committed.
LinesAreWritten ==
    /\ \A s \in Sources : stream[s] \in Seq(Vocabulary)
    /\ job.pc = "lines" => job.lines \in Seq(Vocabulary)
    /\ Committed \subseteq Vocabulary

\* The tombstones are those of the committed lines; one waits until its target
\* is there, and has deleted it from then on.
TombsAreTheLog ==
    /\ \A t \in Events : tombs[t] # NoTomb =>
           \E l \in Committed :
               IsDeletion(l) /\ l.event_id = t /\ l.target_event_id = tombs[t].target_event_id
    /\ \A l \in Committed : IsDeletion(l) =>
           tombs[l.event_id] # NoTomb /\ tombs[l.event_id].target_event_id = l.target_event_id
    /\ \A t, e \in Events : IsPending(t, e) => e \notin Known
    /\ \A t, e \in Events : Applied(t, e) => e \in Known /\ life[e] = "deleted"

\* What is deleted came so or has a tombstone that was applied.
DeletedHasReason ==
    \A e \in Known :
        /\ meta[e].lifecycle_status = "deleted" => life[e] = "deleted"
        /\ life[e] = "deleted" =>
               meta[e].lifecycle_status = "deleted" \/ \E t \in Events : Applied(t, e)

\* Until the first rebuild the index is on and holds the living.
IndexIsOn == spent.rebuilds = 0 => fts5 /\ IndexHoldsTheLiving

DeletionInv == LinesAreWritten /\ TombsAreTheLog /\ DeletedHasReason /\ IndexIsOn

NewOf(l) == IF Classify(l) = "new_event" THEN {l.event_id} ELSE {}
PresentOf(l) == Known \cup NewOf(l)
DeadOf(l) == Deleted(l, PresentOf(l))

LEMMA DeletionIsTheProperty ==
    ASSUME TypeOK, DeletionInv PROVE DeletionHolds
<1>1. DeletionTakesEffect
    <2> SUFFICES ASSUME NEW e \in Known
                 PROVE  (life[e] = "deleted") <=>
                            \/ meta[e].lifecycle_status = "deleted"
                            \/ \E l \in Committed : IsDeletion(l) /\ l.target_event_id = e
        BY DEF DeletionTakesEffect
    <2>0. e \in Events
        BY DEF Known
    <2>1. ASSUME life[e] = "deleted", meta[e].lifecycle_status # "deleted"
          PROVE  \E l \in Committed : IsDeletion(l) /\ l.target_event_id = e
        <3>1. PICK t \in Events : Applied(t, e)
            BY <2>1 DEF DeletionInv, DeletedHasReason
        <3>2. tombs[t] # NoTomb /\ tombs[t].target_event_id = e
            BY <3>1 DEF Applied, NoTomb
        <3> QED BY <3>2 DEF DeletionInv, TombsAreTheLog
    <2>2. ASSUME NEW l \in Committed, IsDeletion(l), l.target_event_id = e
          PROVE  life[e] = "deleted"
        <3>1. l \in Vocabulary
            BY DEF DeletionInv, LinesAreWritten
        <3>2. l \in Envelope
            BY <2>2, <3>1, VocabularyAssumption DEF IsDeletion
        <3>3. l.event_id \in Events
            BY <3>2 DEF Envelope
        <3>4. tombs[l.event_id] # NoTomb /\ tombs[l.event_id].target_event_id = e
            BY <2>2 DEF DeletionInv, TombsAreTheLog
        <3>5. tombs[l.event_id] \in Tombstone
            BY <3>3, <3>4 DEF TypeOK
        <3>6. IsPending(l.event_id, e) \/ Applied(l.event_id, e)
            BY <3>4, <3>5 DEF IsPending, Applied, Tombstone
        <3> QED BY <2>0, <3>3, <3>6 DEF DeletionInv, TombsAreTheLog
    <2>3. meta[e].lifecycle_status = "deleted" => life[e] = "deleted"
        BY DEF DeletionInv, DeletedHasReason
    <2> QED BY <2>1, <2>2, <2>3
<1>2. spent.rebuilds = 0 => IndexHoldsTheLiving
    BY DEF DeletionInv, IndexIsOn
<1> QED BY <1>1, <1>2 DEF DeletionHolds

\* A commit adds its line to what is committed.
LEMMA CommittedGrows ==
    ASSUME TypeOK, CommitLine
    PROVE  Committed' = Committed \cup {CurrentLine}
<1> DEFINE s == job.source
           row == [line |-> CurrentLine, outcome |-> Classify(CurrentLine)]
<1>1. s \in Sources /\ row \in Entry /\ log' = [log EXCEPT ![s] = Append(log[s], row)]
    BY CommitEffect
<1>2. row.line = CurrentLine
    OBVIOUS
<1>3. log \in [Sources -> Seq(Entry)]
    BY DEF TypeOK
<1> HIDE DEF row
<1>4. /\ log'[s] = Append(log[s], row) /\ log[s] \in Seq(Entry)
      /\ \A r \in Sources : r # s => log'[r] = log[r]
    BY <1>1, <1>3
<1>5. /\ DOMAIN log'[s] = 1 .. Len(log[s]) + 1 /\ DOMAIN log[s] = 1 .. Len(log[s])
      /\ log'[s][Len(log[s]) + 1] = row /\ Len(log[s]) \in Nat
      /\ \A i \in 1 .. Len(log[s]) : log'[s][i] = log[s][i]
    BY <1>1, <1>4
<1>6. ASSUME NEW x \in Committed' PROVE x \in Committed \cup {CurrentLine}
    <2>1. PICK r \in Sources : \E i \in DOMAIN log'[r] : x = log'[r][i].line
        BY <1>6 DEF Committed
    <2>2. PICK i \in DOMAIN log'[r] : x = log'[r][i].line
        BY <2>1
    <2>3. CASE r # s
        BY <1>4, <2>2, <2>3 DEF Committed
    <2>4. CASE r = s /\ i \in 1 .. Len(log[s])
        BY <1>1, <1>5, <2>2, <2>4 DEF Committed
    <2>5. CASE r = s /\ i = Len(log[s]) + 1
        BY <1>2, <1>5, <2>2, <2>5
    <2> QED BY <1>5, <2>3, <2>4, <2>5
<1>7. ASSUME NEW x \in Committed PROVE x \in Committed'
    <2>1. PICK r \in Sources : \E i \in DOMAIN log[r] : x = log[r][i].line
        BY <1>7 DEF Committed
    <2>2. PICK i \in DOMAIN log[r] : x = log[r][i].line
        BY <2>1
    <2>3. CASE r # s
        BY <1>4, <2>2, <2>3 DEF Committed
    <2>4. CASE r = s
        <3>1. i \in DOMAIN log'[s] /\ log'[s][i] = log[s][i]
            BY <1>5, <2>2, <2>4
        <3> QED BY <1>1, <2>2, <2>4, <3>1 DEF Committed
    <2> QED BY <2>3, <2>4
<1>8. CurrentLine \in Committed'
    <2>1. Len(log[s]) + 1 \in DOMAIN log'[s]
        BY <1>5
    <2> QED BY <1>1, <1>2, <1>5, <2>1 DEF Committed
<1> QED BY <1>6, <1>7, <1>8

\* What a line's transaction does to each row.
LEMMA ProjectEffect ==
    ASSUME TypeOK, NEW l \in Envelope, Project(l)
    PROVE  /\ Known' = PresentOf(l)
           /\ NewOf(l) # {} => meta'[l.event_id] = l
           /\ \A e \in Known : meta'[e] = meta[e]
           /\ \A e \in DeadOf(l) : life'[e] = "deleted"
           /\ \A e \in Known \ DeadOf(l) : life'[e] = life[e] \/ (life[e] = "active" /\ life'[e] = "superseded")
           /\ \A e \in NewOf(l) \ DeadOf(l) : life'[e] = l.lifecycle_status
           /\ fts5 => fts' = (fts \cup NewOf(l)) \ DeadOf(l)
<1>0. l.event_id \in Events /\ DeadOf(l) \subseteq PresentOf(l) /\ Known \subseteq Events
    BY DEF Envelope, DeadOf, Deleted, Known
<1>1. CASE Classify(l) = "new_event"
    <2>1. InsertEvent(l, DeadOf(l)) /\ NewOf(l) = {l.event_id}
        BY <1>1 DEF Project, NewOf, DeadOf, PresentOf
    <2>2. l.event_id \notin Known
        BY <1>1 DEF Classify
    <2>3. Known' = PresentOf(l) /\ meta'[l.event_id] = l /\ \A e \in Known : meta'[e] = meta[e]
        BY <1>0, <2>1, <2>2, KnownGrows DEF InsertEvent, PresentOf
    <2>4. PICK prior \in IF Prior(l) = {} THEN {NoEvent} ELSE Prior(l) :
              life' = [e \in Events |->
                         IF e \in DeadOf(l) THEN "deleted"
                         ELSE IF e = l.event_id THEN l.lifecycle_status
                         ELSE IF e = prior THEN "superseded" ELSE life[e]]
        BY <2>1 DEF InsertEvent
    <2>5. \A e \in Known : e = prior => life[e] = "active"
        BY <1>0, VocabularyAssumption DEF Prior
    <2>6. fts5 => fts' = (fts \cup NewOf(l)) \ DeadOf(l)
        BY <2>1 DEF InsertEvent
    <2>7. DeadOf(l) \subseteq Events
        BY <1>0, <2>1 DEF PresentOf
    <2> QED BY <1>0, <2>1, <2>2, <2>3, <2>4, <2>5, <2>6, <2>7
<1>2. CASE Classify(l) # "new_event"
    <2>1. OnlyDelete(DeadOf(l)) /\ NewOf(l) = {}
        BY <1>2 DEF Project, NewOf, DeadOf, PresentOf
    <2>2. meta' = meta /\ Known' = Known /\ PresentOf(l) = Known
        BY <2>1 DEF OnlyDelete, Known, PresentOf
    <2>3. \A e \in Events : life'[e] = IF e \in DeadOf(l) THEN "deleted" ELSE life[e]
        BY <2>1 DEF OnlyDelete
    <2>4. fts5 => fts' = fts \ DeadOf(l)
        BY <2>1 DEF OnlyDelete
    <2> QED BY <1>0, <2>1, <2>2, <2>3, <2>4
<1> QED BY <1>1, <1>2

\* What a line's transaction does to each tombstone.
LEMMA EntombEffect ==
    ASSUME NEW l, Project(l), NEW t \in Events
    PROVE  /\ IsDeletion(l) /\ t = l.event_id =>
                  tombs'[t] = [target_event_id |-> IF tombs[t] = NoTomb THEN l.target_event_id
                                                   ELSE tombs[t].target_event_id,
                               status |-> IF l.target_event_id \in PresentOf(l) THEN "applied" ELSE "pending"]
           /\ ~(IsDeletion(l) /\ t = l.event_id) /\ NewOf(l) # {} /\ IsPending(t, l.event_id) =>
                  tombs'[t] = [target_event_id |-> l.event_id, status |-> "applied"]
           /\ ~(IsDeletion(l) /\ t = l.event_id) /\ ~(NewOf(l) # {} /\ IsPending(t, l.event_id)) =>
                  tombs'[t] = tombs[t]
<1>1. Entomb(l, NewOf(l), PresentOf(l))
    BY DEF Project, NewOf, PresentOf
<1>2. CASE IsDeletion(l) /\ t = l.event_id
    BY <1>1, <1>2 DEF Entomb
<1>3. CASE ~(IsDeletion(l) /\ t = l.event_id) /\ NewOf(l) # {} /\ IsPending(t, l.event_id)
    BY <1>1, <1>3 DEF Entomb, IsPending
<1>4. CASE ~(IsDeletion(l) /\ t = l.event_id) /\ ~(NewOf(l) # {} /\ IsPending(t, l.event_id))
    BY <1>1, <1>4 DEF Entomb
<1> QED BY <1>2, <1>3, <1>4

\* A committed line that validates keeps tombstones, reasons and index together.
LEMMA CommitKeepsDeletion ==
    ASSUME TargetsAgree, TypeOK, TombsAreTheLog, DeletedHasReason, IndexIsOn,
           Committed \subseteq Vocabulary,
           NEW l \in Envelope, l \in Vocabulary, Project(l), Committed' = Committed \cup {l},
           fts5' = fts5, spent' = spent
    PROVE  TombsAreTheLog' /\ DeletedHasReason' /\ IndexIsOn'
<1>0. l.event_id \in Events /\ l.target_event_id \in Events \cup {NoEvent} /\ Known \subseteq Events
    BY DEF Envelope, Known
<1>1. /\ Known' = PresentOf(l)
      /\ NewOf(l) # {} => meta'[l.event_id] = l
      /\ \A e \in Known : meta'[e] = meta[e]
      /\ \A e \in DeadOf(l) : life'[e] = "deleted"
      /\ \A e \in Known \ DeadOf(l) : life'[e] = life[e] \/ (life[e] = "active" /\ life'[e] = "superseded")
      /\ \A e \in NewOf(l) \ DeadOf(l) : life'[e] = l.lifecycle_status
      /\ fts5 => fts' = (fts \cup NewOf(l)) \ DeadOf(l)
    BY ProjectEffect
<1>2. /\ NewOf(l) \subseteq {l.event_id} /\ NewOf(l) \cap Known = {}
      /\ NewOf(l) # {} => NewOf(l) = {l.event_id} /\ l.event_id \notin Known
    BY DEF NewOf, Classify
<1>3. /\ PresentOf(l) = Known \cup NewOf(l)
      /\ DeadOf(l) = {e \in PresentOf(l) : \/ e \notin Known /\ \E t \in Events : IsPending(t, e)
                                           \/ IsDeletion(l) /\ e = l.target_event_id}
    BY DEF PresentOf, DeadOf, Deleted
<1>4. IsDeletion(l) => l.target_event_id \in Events
    BY <1>0 DEF IsDeletion
<1>5. IsDeletion(l) /\ tombs[l.event_id] # NoTomb => tombs[l.event_id].target_event_id = l.target_event_id
    <2> SUFFICES ASSUME IsDeletion(l), tombs[l.event_id] # NoTomb
                 PROVE  tombs[l.event_id].target_event_id = l.target_event_id
        OBVIOUS
    <2>1. PICK m \in Committed : IsDeletion(m) /\ m.event_id = l.event_id
                                 /\ m.target_event_id = tombs[l.event_id].target_event_id
        BY <1>0 DEF TombsAreTheLog
    <2>2. m \in Vocabulary
        OBVIOUS
    <2> QED BY <2>1, <2>2 DEF TargetsAgree
<1>6. IsDeletion(l) =>
          tombs'[l.event_id] = [target_event_id |-> l.target_event_id,
                                status |-> IF l.target_event_id \in PresentOf(l) THEN "applied" ELSE "pending"]
    BY <1>0, <1>5, EntombEffect
<1>7. \A t \in Events : ~(IsDeletion(l) /\ t = l.event_id) =>
          IF NewOf(l) # {} /\ IsPending(t, l.event_id)
          THEN tombs'[t] = [target_event_id |-> l.event_id, status |-> "applied"]
          ELSE tombs'[t] = tombs[t]
    BY EntombEffect
<1> HIDE DEF NewOf, PresentOf, DeadOf
\* What is applied after the line was applied before it or is dead by it.
<1>8. ASSUME NEW t \in Events, NEW e \in Events
      PROVE  /\ IsPending(t, e)' => e \notin Known'
             /\ Applied(t, e)' => Applied(t, e) \/ e \in DeadOf(l)
             /\ Applied(t, e) => Applied(t, e)'
    <2>1. CASE IsDeletion(l) /\ t = l.event_id
        <3>1. CASE l.target_event_id \in PresentOf(l)
            <4>1. tombs'[t] = [target_event_id |-> l.target_event_id, status |-> "applied"]
                BY <1>6, <2>1, <3>1
            <4>2. ~IsPending(t, e)'
                BY <4>1 DEF IsPending
            <4>3. Applied(t, e)' => e = l.target_event_id
                BY <4>1 DEF Applied
            <4>4. Applied(t, e) => e = l.target_event_id
                BY <1>5, <2>1 DEF Applied, NoTomb
            <4> QED BY <1>3, <2>1, <3>1, <4>1, <4>2, <4>3, <4>4 DEF Applied
        <3>2. CASE l.target_event_id \notin PresentOf(l)
            <4>1. tombs'[t] = [target_event_id |-> l.target_event_id, status |-> "pending"]
                BY <1>6, <2>1, <3>2
            <4>2. ~Applied(t, e)'
                BY <4>1 DEF Applied
            <4>3. IsPending(t, e)' => e = l.target_event_id
                BY <4>1 DEF IsPending
            <4>4. Applied(t, e) => e = l.target_event_id /\ e \in Known
                BY <1>5, <2>1 DEF Applied, NoTomb, TombsAreTheLog
            <4> QED BY <1>1, <1>3, <3>2, <4>2, <4>3, <4>4
        <3> QED BY <3>1, <3>2
    <2>2. CASE ~(IsDeletion(l) /\ t = l.event_id) /\ NewOf(l) # {} /\ IsPending(t, l.event_id)
        <3>1. tombs'[t] = [target_event_id |-> l.event_id, status |-> "applied"]
            BY <1>7, <2>2
        <3>2. ~IsPending(t, e)' /\ (Applied(t, e)' => e = l.event_id)
            BY <3>1 DEF IsPending, Applied
        <3>3. ~Applied(t, e)
            BY <2>2 DEF IsPending, Applied
        <3>4. l.event_id \in DeadOf(l)
            BY <1>2, <1>3, <2>2
        <3> QED BY <3>2, <3>3, <3>4
    <2>3. CASE ~(IsDeletion(l) /\ t = l.event_id) /\ ~(NewOf(l) # {} /\ IsPending(t, l.event_id))
        <3>1. tombs'[t] = tombs[t]
            BY <1>7, <2>3
        <3>2. (IsPending(t, e)' <=> IsPending(t, e)) /\ (Applied(t, e)' <=> Applied(t, e))
            BY <3>1 DEF IsPending, Applied
        <3>3. IsPending(t, e) => e \notin Known /\ e \notin NewOf(l)
            BY <1>2, <2>3 DEF TombsAreTheLog
        <3> QED BY <1>1, <1>3, <3>2, <3>3
    <2> QED BY <2>1, <2>2, <2>3
<1>9. ASSUME NEW e \in DeadOf(l) PROVE \E t \in Events : Applied(t, e)'
    <2>1. CASE IsDeletion(l) /\ e = l.target_event_id
        <3>1. Applied(l.event_id, e)'
            BY <1>3, <1>6, <1>9, <2>1 DEF Applied
        <3> QED BY <1>0, <3>1
    <2>2. CASE ~(IsDeletion(l) /\ e = l.target_event_id)
        <3>1. e \notin Known /\ e \in NewOf(l) /\ \E t \in Events : IsPending(t, e)
            BY <1>3, <1>9, <2>2
        <3>2. PICK t \in Events : IsPending(t, e)
            BY <3>1
        <3>3. e = l.event_id /\ NewOf(l) # {}
            BY <1>2, <3>1
        <3>4. ~(IsDeletion(l) /\ t = l.event_id)
            BY <1>5, <2>2, <3>2 DEF IsPending, NoTomb
        <3>5. tombs'[t] = [target_event_id |-> l.event_id, status |-> "applied"]
            BY <1>7, <3>2, <3>3, <3>4
        <3> QED BY <3>3, <3>5 DEF Applied
    <2> QED BY <2>1, <2>2
<1>10. TombsAreTheLog'
    <2>1. ASSUME NEW t \in Events, tombs'[t] # NoTomb
          PROVE  \E m \in Committed' :
                     IsDeletion(m) /\ m.event_id = t /\ m.target_event_id = tombs'[t].target_event_id
        <3>1. CASE IsDeletion(l) /\ t = l.event_id
            BY <1>6, <3>1
        <3>2. CASE ~(IsDeletion(l) /\ t = l.event_id)
            <4>1. tombs[t] # NoTomb /\ tombs'[t].target_event_id = tombs[t].target_event_id
                BY <1>7, <2>1, <3>2 DEF IsPending, NoTomb
            <4>2. PICK m \in Committed :
                      IsDeletion(m) /\ m.event_id = t /\ m.target_event_id = tombs[t].target_event_id
                BY <4>1 DEF TombsAreTheLog
            <4> QED BY <4>1, <4>2
        <3> QED BY <3>1, <3>2
    <2>2. ASSUME NEW m \in Committed', IsDeletion(m)
          PROVE  tombs'[m.event_id] # NoTomb /\ tombs'[m.event_id].target_event_id = m.target_event_id
        <3>1. m \in Vocabulary
            OBVIOUS
        <3>2. m.event_id \in Events
            BY <2>2, <3>1, VocabularyAssumption DEF IsDeletion, Envelope
        <3>3. CASE IsDeletion(l) /\ m.event_id = l.event_id
            <4>1. m.target_event_id = l.target_event_id
                BY <2>2, <3>1, <3>3 DEF TargetsAgree
            <4> QED BY <1>6, <3>3, <4>1 DEF NoTomb
        <3>4. CASE ~(IsDeletion(l) /\ m.event_id = l.event_id)
            <4>1. m \in Committed
                BY <2>2, <3>4
            <4>2. tombs[m.event_id] # NoTomb /\ tombs[m.event_id].target_event_id = m.target_event_id
                BY <2>2, <4>1 DEF TombsAreTheLog
            <4> QED BY <1>7, <3>2, <3>4, <4>2 DEF IsPending, NoTomb
        <3> QED BY <3>3, <3>4
    <2>3. ASSUME NEW t \in Events, NEW e \in Events, Applied(t, e)'
          PROVE  e \in Known' /\ life'[e] = "deleted"
        <3>1. CASE e \in DeadOf(l)
            BY <1>1, <1>3, <3>1
        <3>2. CASE e \notin DeadOf(l)
            <4>1. e \in Known /\ life[e] = "deleted"
                BY <1>8, <2>3, <3>2 DEF TombsAreTheLog
            <4> QED BY <1>1, <1>3, <3>2, <4>1
        <3> QED BY <3>1, <3>2
    <2> QED BY <1>8, <2>1, <2>2, <2>3 DEF TombsAreTheLog
<1>11. DeletedHasReason'
    <2> SUFFICES ASSUME NEW e \in Known'
                 PROVE  /\ meta'[e].lifecycle_status = "deleted" => life'[e] = "deleted"
                        /\ life'[e] = "deleted" =>
                               meta'[e].lifecycle_status = "deleted" \/ \E t \in Events : Applied(t, e)'
        BY DEF DeletedHasReason
    <2>1. CASE e \in DeadOf(l)
        BY <1>1, <1>9, <2>1
    <2>2. CASE e \in NewOf(l) \ DeadOf(l)
        BY <1>1, <1>2, <2>2
    <2>3. CASE e \in Known \ DeadOf(l)
        <3>1. meta'[e] = meta[e] /\ (life'[e] = "deleted" <=> life[e] = "deleted")
            BY <1>1, <2>3
        <3>2. \A t \in Events : Applied(t, e) => Applied(t, e)'
            BY <1>0, <1>8, <2>3
        <3> QED BY <2>3, <3>1, <3>2 DEF DeletedHasReason
    <2> QED BY <1>1, <1>3, <2>1, <2>2, <2>3
<1>12. IndexIsOn'
    <2> SUFFICES ASSUME spent.rebuilds = 0 PROVE fts5 /\ IndexHoldsTheLiving'
        BY DEF IndexIsOn
    <2>1. fts5 /\ fts = {e \in Known : ~ \E t \in Events : Applied(t, e)}
        BY DEF IndexIsOn, IndexHoldsTheLiving, Applied
    <2>2. ASSUME NEW e \in Events
          PROVE  (\E t \in Events : Applied(t, e)') <=> (\E t \in Events : Applied(t, e)) \/ e \in DeadOf(l)
        BY <1>8, <1>9
    <2>3. fts' = (fts \cup NewOf(l)) \ DeadOf(l)
        BY <1>1, <2>1
    <2>4. \A e \in NewOf(l) : ~ \E t \in Events : Applied(t, e)
        BY <1>0, <1>2 DEF TombsAreTheLog
    <2>5. fts' = {e \in Known' : ~ \E t \in Events : Applied(t, e)'}
        BY <1>0, <1>1, <1>2, <1>3, <2>1, <2>2, <2>3, <2>4
    <2> QED BY <2>1, <2>5 DEF IndexHoldsTheLiving, Applied
<1> QED BY <1>10, <1>11, <1>12

LEMMA DeletionInit == Init => DeletionInv
<1> SUFFICES ASSUME Init PROVE DeletionInv
    OBVIOUS
<1>1. \A s \in Sources : stream[s] = <<>> /\ log[s] = <<>>
    BY DEF Init, AllSources
<1>2. Committed = {} /\ job.pc # "lines"
    BY <1>1 DEF Init, Committed, Idle
<1>3. Known = {}
    BY DEF Init, Known, AllEvents
<1>4. \A t \in Events : tombs[t] = NoTomb
    BY DEF Init, AllEvents
<1>5. LinesAreWritten
    <2>1. <<>> \in Seq(Vocabulary)
        OBVIOUS
    <2>2. \A s \in Sources : stream[s] \in Seq(Vocabulary)
        BY <1>1, <2>1
    <2> QED BY <1>2, <2>2 DEF LinesAreWritten
<1>6. TombsAreTheLog
    BY <1>2, <1>4 DEF TombsAreTheLog, IsPending, Applied, NoTomb
<1>7. DeletedHasReason /\ IndexIsOn
    BY <1>3 DEF Init, DeletedHasReason, IndexIsOn, IndexHoldsTheLiving
<1> QED BY <1>5, <1>6, <1>7 DEF DeletionInv

\* The streams hold what may be written, and a reader has what they held.
LEMMA WrittenStep ==
    ASSUME TypeOK, LinesAreWritten, [Next]_vars PROVE LinesAreWritten'
<1>1. CASE CommitLine
    <2>1. Committed' = Committed \cup {CurrentLine}
        BY <1>1, CommittedGrows
    <2>2. job.lines \in Seq(Vocabulary) /\ job.next \in 1 .. Len(job.lines)
        <3>1. AtLine
            BY <1>1 DEF CommitLine
        <3>2. job.next \in Nat \ {0}
            BY <3>1, LinesJob DEF AtLine
        <3> QED BY <3>1, <3>2 DEF AtLine, LinesAreWritten
    <2>3. CurrentLine \in Vocabulary
        BY <2>2 DEF CurrentLine
    <2>4. job'.lines = job.lines /\ stream' = stream
        BY <1>1, CommitEffect DEF CommitLine, files
    <2> QED BY <2>1, <2>2, <2>3, <2>4 DEF LinesAreWritten
<1>2. ASSUME NEW s \in Sources, Write(s) PROVE LinesAreWritten'
    <2>1. PICK l \in Vocabulary : stream' = [stream EXCEPT ![s] = Append(@, l)]
        BY <1>2 DEF Write
    <2>2. Append(stream[s], l) \in Seq(Vocabulary)
        BY DEF LinesAreWritten
    <2>3. \A r \in Sources : stream'[r] \in Seq(Vocabulary)
        BY <2>1, <2>2 DEF LinesAreWritten, TypeOK
    <2>4. job' = job /\ Committed' = Committed
        BY <1>2 DEF Write, derived, Committed
    <2> QED BY <2>3, <2>4 DEF LinesAreWritten
<1>3. ASSUME NEW s \in Sources, Rewrite(s) PROVE LinesAreWritten'
    <2>1. PICK i \in DOMAIN stream[s] :
              \/ \E l \in Vocabulary : stream' = [stream EXCEPT ![s][i] = l]
              \/ stream' = [stream EXCEPT ![s] = SubSeq(@, 1, i - 1)]
        BY <1>3 DEF Rewrite
    <2>2. stream[s] \in Seq(Vocabulary) /\ i \in 1 .. Len(stream[s])
        BY DEF LinesAreWritten
    <2>3. \A l \in Vocabulary : [stream[s] EXCEPT ![i] = l] \in Seq(Vocabulary)
        BY <2>2
    <2>4. SubSeq(stream[s], 1, i - 1) \in Seq(Vocabulary)
        BY <2>2
    <2>5. stream'[s] \in Seq(Vocabulary) /\ \A r \in Sources \ {s} : stream'[r] = stream[r]
        BY <2>1, <2>3, <2>4 DEF TypeOK
    <2>6. \A r \in Sources : stream'[r] \in Seq(Vocabulary)
        BY <2>5 DEF LinesAreWritten
    <2>7. job' = job /\ Committed' = Committed
        BY <1>3 DEF Rewrite, derived, Committed
    <2> QED BY <2>6, <2>7 DEF LinesAreWritten
<1>4. CASE Read
    <2>1. job.source \in Sources
        BY <1>4, ReadJob DEF Read
    <2>2. job'.lines = stream[job.source] /\ stream' = stream /\ Committed' = Committed
        BY <1>4 DEF Read, files, derived, Committed
    <2> QED BY <2>1, <2>2 DEF LinesAreWritten
<1>5. CASE FailLine
    <2>1. job' = Idle \/ (job.pc = "lines" /\ job'.lines = job.lines)
        <3>1. job.pc = "lines"
            BY <1>5 DEF FailLine, AtLine
        <3>2. \A h : [job EXCEPT !.next = @ + 1, !.hashed = h].lines = job.lines
            BY <3>1, LinesJob
        <3> QED BY <1>5, <3>1, <3>2 DEF FailLine
    <2>2. stream' = stream /\ Committed' = Committed
        BY <1>5 DEF FailLine, files, derived, Committed
    <2> QED BY <2>1, <2>2 DEF LinesAreWritten, Idle
<1>6. CASE DropDerived
    <2>1. Committed' = {}
        BY <1>6 DEF DropDerived, Committed, AllSources
    <2>2. stream' = stream /\ job' = job
        BY <1>6 DEF DropDerived, files
    <2> QED BY <2>1, <2>2 DEF LinesAreWritten
<1>7. ASSUME NEW s \in Sources, Begin(s) PROVE LinesAreWritten'
    <2>1. job' = job \/ job'.pc = "read"
        BY <1>7 DEF Begin
    <2>2. stream' = stream /\ Committed' = Committed
        BY <1>7 DEF Begin, files, derived, Committed
    <2> QED BY <2>1, <2>2 DEF LinesAreWritten
<1>8. CASE EndOfFile \/ Crash
    <2>1. job' = Idle /\ stream' = stream /\ Committed' = Committed
        BY <1>8 DEF EndOfFile, Crash, files, derived, Committed
    <2> QED BY <2>1 DEF LinesAreWritten, Idle
<1>9. CASE UNCHANGED vars
    BY <1>9 DEF LinesAreWritten, vars, files, derived, Committed
<1> QED BY <1>1, <1>2, <1>3, <1>4, <1>5, <1>6, <1>7, <1>8, <1>9 DEF Next, IngestStep

LEMMA DeletionStep ==
    ASSUME TargetsAgree, TypeOK, DeletionInv, [Next]_vars PROVE DeletionInv'
<1>1. LinesAreWritten'
    BY WrittenStep DEF DeletionInv
<1>2. CASE CommitLine
    <2>1. Committed' = Committed \cup {CurrentLine} /\ fts5' = fts5 /\ spent' = spent
        BY <1>2, CommittedGrows DEF CommitLine
    <2>2. CurrentLine \in Lines /\ CurrentLine \in Vocabulary
        BY <1>1, <1>2, <2>1, LineAtHand DEF CommitLine, LinesAreWritten
    <2>3. CASE CurrentLine = Garbage
        <3>1. UNCHANGED <<meta, life, successor, fts, tombs>>
            BY <1>2, <2>3 DEF CommitLine
        <3>2. ~IsDeletion(CurrentLine)
            BY <2>3 DEF IsDeletion
        <3>3. TombsAreTheLog'
            BY <2>1, <3>1, <3>2 DEF DeletionInv, TombsAreTheLog, IsPending, Applied, Known
        <3>4. DeletedHasReason' /\ IndexIsOn'
            BY <2>1, <3>1 DEF DeletionInv, DeletedHasReason, IndexIsOn, IndexHoldsTheLiving, Applied, Known
        <3> QED BY <1>1, <3>3, <3>4 DEF DeletionInv
    <2>4. CASE CurrentLine # Garbage
        <3>1. Project(CurrentLine) /\ CurrentLine \in Envelope
            BY <1>2, <2>2, <2>4 DEF CommitLine, Lines
        <3>2. TombsAreTheLog' /\ DeletedHasReason' /\ IndexIsOn'
            BY <2>1, <2>2, <3>1, CommitKeepsDeletion DEF DeletionInv, LinesAreWritten
        <3> QED BY <1>1, <3>2 DEF DeletionInv
    <2> QED BY <2>3, <2>4
<1>3. CASE DropDerived
    <2>1. Committed' = {} /\ Known' = {} /\ \A t \in Events : tombs'[t] = NoTomb
        BY <1>3 DEF DropDerived, Committed, AllSources, Known, AllEvents
    <2>2. spent'.rebuilds # 0
        <3>1. spent \in Spent
            BY DEF TypeOK, Spent
        <3>2. spent.rebuilds \in Nat /\ spent'.rebuilds = spent.rebuilds + 1
            BY <1>3, <3>1, BoundsAssumption DEF DropDerived, Spent
        <3> QED BY <3>2
    <2>3. TombsAreTheLog'
        BY <2>1 DEF TombsAreTheLog, IsPending, Applied, NoTomb
    <2>4. DeletedHasReason' /\ IndexIsOn'
        BY <2>1, <2>2 DEF DeletedHasReason, IndexIsOn
    <2> QED BY <1>1, <2>3, <2>4 DEF DeletionInv
<1>4. CASE UNCHANGED derived /\ (fts5' = fts5 \/ fts5') /\ spent'.rebuilds = spent.rebuilds
    <2>1. Committed' = Committed /\ Known' = Known
        BY <1>4 DEF derived, Committed, Known
    <2>2. TombsAreTheLog'
        BY <1>4, <2>1 DEF DeletionInv, TombsAreTheLog, IsPending, Applied, derived
    <2>3. DeletedHasReason' /\ IndexIsOn'
        BY <1>4, <2>1 DEF DeletionInv, DeletedHasReason, IndexIsOn, IndexHoldsTheLiving, Applied, derived
    <2> QED BY <1>1, <2>2, <2>3 DEF DeletionInv
<1>5. CASE ~CommitLine /\ ~DropDerived
    <2>0. spent \in Spent
        BY DEF TypeOK, Spent
    <2>1. \A n : /\ [spent EXCEPT !.faults = n].rebuilds = spent.rebuilds
                 /\ [spent EXCEPT !.rewrites = n].rebuilds = spent.rebuilds
        BY <2>0 DEF Spent
    <2>2. spent' = spent \/ (\E n : spent' = [spent EXCEPT !.faults = n] \/ spent' = [spent EXCEPT !.rewrites = n])
        BY <1>5 DEF Next, IngestStep, Write, Rewrite, Begin, Read, FailLine, EndOfFile, Crash, vars
    <2>3. spent'.rebuilds = spent.rebuilds
        <3>1. CASE spent' = spent
            BY <3>1
        <3>2. ASSUME NEW n, spent' = [spent EXCEPT !.faults = n] PROVE spent'.rebuilds = spent.rebuilds
            BY <2>1, <3>2
        <3>3. ASSUME NEW n, spent' = [spent EXCEPT !.rewrites = n] PROVE spent'.rebuilds = spent.rebuilds
            BY <2>1, <3>3
        <3> QED BY <2>2, <3>1, <3>2, <3>3
    <2>4. UNCHANGED derived /\ (fts5' = fts5 \/ fts5' = TRUE)
        BY <1>5 DEF Next, IngestStep, Write, Rewrite, Begin, Read, FailLine, EndOfFile, Crash, vars
    <2> QED BY <1>4, <2>3, <2>4
<1> QED BY <1>2, <1>3, <1>5

\* A deletion line on any stream, before or after its target, duplicate or not,
\* deletes its target and nothing else does, for all constants in which the
\* deletion lines of one event id agree.
THEOREM DeletionsHold == TargetsAgree => (Spec => []DeletionHolds)
<1> SUFFICES ASSUME TargetsAgree PROVE Spec => []DeletionHolds
    OBVIOUS
<1>1. Init => TypeOK /\ DeletionInv
    BY TypeInit, DeletionInit
<1>2. (TypeOK /\ DeletionInv) /\ [Next]_vars => (TypeOK /\ DeletionInv)'
    BY TypeStep, DeletionStep
<1>3. TypeOK /\ DeletionInv => DeletionHolds
    BY DeletionIsTheProperty
<1> QED BY <1>1, <1>2, <1>3, PTL DEF Spec
=============================================================================
