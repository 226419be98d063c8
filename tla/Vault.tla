------------------------------- MODULE Vault -------------------------------
(***************************************************************************)
(* project_to_vault of src/src/projection: a run reads one project through *)
(* nine authorized reads, renders the notes it wants, and reconciles the   *)
(* managed directory with them, led by the manifest of the run before.     *)
(* Project memory changes between reads, people edit and delete files at   *)
(* any time, a write may fail and the process may die between any two      *)
(* steps.                                                                  *)
(*                                                                         *)
(* A file is [marker, bytes]: the note id in its frontmatter, or none, and *)
(* its bytes, which are also their fingerprint.  The step that decides and *)
(* the step that replaces or removes the file are two, so that an edit may *)
(* come between.                                                           *)
(***************************************************************************)
EXTENDS VaultRender, Sequences

CONSTANTS
    Projects,
    States,         \* [Records -> the states a record may have, or NoRecord]
    Granted,        \* sets of resource types a request may read
    NoRecord, NoNote,
    MaxChanges, MaxHuman, MaxFaults, MaxRuns    \* bounds

VARIABLES
    db, granted,    \* project memory, and the types the grants allow
    file,           \* the managed tree: [paths -> files]
    manifest,       \* the entries of _meta/manifest.json
    temps,          \* paths whose temporary file was left behind
    pc, project, got,
    desired, prior, \* the notes wanted, the entries of the last manifest
    todo,           \* notes, then entries, still to be dealt with
    intent, looked, \* a decided write or removal, and the file it was decided on
    status, kept,   \* status_overrides and content_fps
    retired,        \* entries retired by this run
    reads,          \* history: what each read of the last complete rendering gave
    done,           \* history: the notes of the last run that stored its manifest
    calm,           \* history: no hand, fault or moved note so far
    used            \* bounds: changes, human acts, faults and runs so far

disk == <<file, manifest, temps>>
run == <<pc, project, got, desired, prior, todo, intent, looked, status, kept, retired>>
history == <<reads, done, calm>>
vars == <<db, granted, disk, run, history, used>>

NoIntent == [op |-> "none"]

Init ==
    /\ db \in [Records -> UNION {States[r] : r \in Records}]
    /\ \A r \in Records : db[r] \in States[r]
    /\ granted \in Granted
    /\ file = <<>> /\ manifest = {} /\ temps = {}
    /\ pc = "idle" /\ project = (CHOOSE p \in Projects : TRUE) /\ got = <<>>
    /\ desired = {} /\ prior = {} /\ todo = {} /\ intent = NoIntent /\ looked = NoIntent
    /\ status = <<>> /\ kept = <<>> /\ retired = {}
    /\ reads = <<>> /\ done = {} /\ calm = TRUE
    /\ used = [changes |-> 0, human |-> 0, faults |-> 0, runs |-> 0]

Spend(what, bound) ==
    /\ used[what] < bound
    /\ used' = [used EXCEPT ![what] = @ + 1]

With(f, k, v) == [x \in DOMAIN f \cup {k} |-> IF x = k THEN v ELSE f[x]]
Without(f, k) == [x \in DOMAIN f \ {k} |-> f[x]]

(***************************************************************************)
(* The world outside the run.  Reading looks at no file and reconciling at *)
(* no record, so a change of what the other looks at is the same before or *)
(* after it, and is taken there.                                           *)
(***************************************************************************)
Change(r) ==
    /\ pc \in {"idle", "read"}
    /\ Spend("changes", MaxChanges)
    /\ \E s \in States[r] \ {db[r]} : db' = [db EXCEPT ![r] = s]
    /\ UNCHANGED <<granted, disk, run, history>>

HumanBytes == [human |-> used.human]
IsHuman(f) == "human" \in DOMAIN f.bytes

\* A person rewrites a file, keeping its frontmatter or not, or makes one where
\* a note will be.
HumanEdit ==
    /\ pc # "read"
    /\ Spend("human", MaxHuman)
    /\ \E p \in DOMAIN file \cup {n.path : n \in desired} :
         \E m \in {NoNote} \cup (IF p \in DOMAIN file THEN {file[p].marker} ELSE {}) :
           file' = With(file, p, [marker |-> m, bytes |-> HumanBytes])
    /\ calm' = FALSE
    /\ UNCHANGED <<db, granted, manifest, temps, run, reads, done>>

HumanDelete ==
    /\ pc # "read"
    /\ Spend("human", MaxHuman)
    /\ \E p \in DOMAIN file : file' = Without(file, p)
    /\ calm' = FALSE
    /\ UNCHANGED <<db, granted, manifest, temps, run, reads, done>>

\* The manifest is derived, so an operator may remove it.
HumanDropsManifest ==
    /\ pc # "read"
    /\ Spend("human", MaxHuman)
    /\ manifest # {} /\ manifest' = {}
    /\ calm' = FALSE
    /\ UNCHANGED <<db, granted, file, temps, run, reads, done>>

(***************************************************************************)
(* Reading and rendering.                                                  *)
(***************************************************************************)
ReadOrder == << <<"home", "charter">>, <<"home", "decision">>, <<"home", "requirement">>,
                <<"home", "verification">>, <<"home", "state">>, <<"state", "state">>,
                <<"source", "decision">>, <<"source", "requirement">>, <<"source", "verification">> >>

Start ==
    /\ pc = "idle"
    /\ Spend("runs", MaxRuns)
    /\ project' \in Projects
    /\ pc' = "read" /\ got' = <<>>
    /\ UNCHANGED <<db, granted, disk, desired, prior, todo, intent, looked, status, kept, retired, history>>

Authorized(type) ==
    IF type \in granted
    THEN [allowed |-> TRUE,
          items |-> [r \in {r \in Records : TypeOf[r] = type /\ ProjectOf[r] = project
                                            /\ db[r] # NoRecord} |-> db[r]]]
    ELSE Nothing

\* Without a charter the other reads of the home note are not made.
Skipped(k) == k[1] = "home" /\ k[2] # "charter"
              /\ <<"home", "charter">> \in DOMAIN got /\ DOMAIN got[<<"home", "charter">>].items = {}
Awaited == {i \in 1..9 : ReadOrder[i] \notin DOMAIN got /\ ~Skipped(ReadOrder[i])}

Read ==
    /\ pc = "read" /\ Awaited # {}
    /\ LET k == ReadOrder[CHOOSE i \in Awaited : \A j \in Awaited : i <= j]
       IN got' = With(got, k, Authorized(k[2]))
    /\ UNCHANGED <<db, granted, disk, pc, project, desired, prior, todo, intent, looked, status, kept, retired, history, used>>

Active(m) == {e \in m : e.status # "retired"}

\* by_note_id keeps the last entry of an id, and retired entries come last.
EntriesOf(m, id) ==
    LET all == {e \in m : e.id = id}
        gone == {e \in all : e.status = "retired"}
    IN IF gone # {} THEN gone ELSE all

Moved(notes, m) == \E n \in notes, e \in Active(m) : e.id = n.id /\ e.path # n.path

Plan ==
    /\ pc = "read" /\ Awaited = {}
    /\ desired' = Kept(Rendered(project, got))
    /\ prior' = manifest
    /\ todo' = desired'
    /\ pc' = "reconcile"
    /\ status' = <<>> /\ kept' = <<>> /\ retired' = {}
    /\ reads' = got /\ got' = <<>>
    /\ calm' = (calm /\ ~Moved(desired', manifest))
    /\ UNCHANGED <<db, granted, disk, project, intent, looked, done, used>>

(***************************************************************************)
(* Ownership of the file at a path, with the manifest's word for the note: *)
(* the set of entries (at most one) that list it.                          *)
(***************************************************************************)
Marked(p, id) == p \in DOMAIN file /\ file[p].marker = id

\* Mutant: the fingerprint on disk is not compared with the recorded one.
ClassifyByMarker(id, path, listed, wanted) ==
    IF path \notin DOMAIN file THEN "missing_expected_file"
    ELSE IF ~Marked(path, id) THEN "human_owned"
    ELSE IF listed = {} THEN "unknown_ownership"
    ELSE IF wanted THEN "generated_unchanged" ELSE "stale_generated"

Classify(id, path, listed, wanted) ==
    IF path \notin DOMAIN file THEN "missing_expected_file"
    ELSE IF ~Marked(path, id) THEN "human_owned"
    ELSE IF listed = {} THEN "unknown_ownership"
    ELSE IF \E e \in listed : e.fp # file[path].bytes THEN "generated_human_modified"
    ELSE IF wanted THEN "generated_unchanged" ELSE "stale_generated"

SiblingPath(path) == <<"zero-mem-new", path[2], path[3]>>
At(p) == IF p \in DOMAIN file THEN {file[p]} ELSE {}
Write(n, p) == [op |-> "write", path |-> p, marker |-> n.id, bytes |-> n.content]

\* A decision that needs no action on disk ends the note.
Settle(item) == todo' = todo \ {item} /\ UNCHANGED <<intent, looked>>
Intend(item, i) == todo' = todo \ {item} /\ intent' = i /\ looked' = [op |-> "looked", path |-> i.path, at |-> At(i.path)]

Deciding == pc = "reconcile" /\ intent = NoIntent

\* Notes and entries are taken in the order of their paths, some fixed order.
NextIn(items) == {CHOOSE i \in items : TRUE}

Override(id, s, fp) == status' = With(status, id, s) /\ kept' = With(kept, id, fp)

\* A person changed a note of ours.  If the source changed too, the new version
\* is written beside it, unless something is there; the recorded fingerprint stays.
MeetHumanEdit(n, e) ==
    IF e.fp # n.content
    THEN /\ Override(n.id, "edit_conflict", e.fp)
         /\ IF At(SiblingPath(n.path)) = {} THEN Intend(n, Write(n, SiblingPath(n.path))) ELSE Settle(n)
    ELSE Override(n.id, "human_modified", e.fp) /\ Settle(n)

\* Otherwise: create, leave equal bytes, refuse what is not proven ours, update.
MeetOther(n, listed) ==
    /\ UNCHANGED <<status, kept>>
    /\ IF n.path \notin DOMAIN file THEN Intend(n, Write(n, n.path))
       ELSE IF file[n.path].bytes = n.content \/ listed = {} \/ ~Marked(n.path, n.id) THEN Settle(n)
       ELSE Intend(n, Write(n, n.path))

Decide ==
    /\ Deciding /\ todo # {}
    /\ \E n \in NextIn(todo) :
         LET listed == EntriesOf(prior, n.id)
         IN IF Classify(n.id, n.path, listed, TRUE) = "generated_human_modified"
            THEN MeetHumanEdit(n, CHOOSE e \in listed : TRUE)
            ELSE MeetOther(n, listed)
    /\ UNCHANGED <<db, granted, disk, pc, project, got, desired, prior, retired, history, used>>

StartRetiring ==
    /\ Deciding /\ todo = {}
    /\ pc' = "retire"
    /\ todo' = {e \in Active(prior) : e.id \notin DOMAIN status}
    /\ UNCHANGED <<db, granted, disk, project, got, desired, prior, intent, looked, status, kept, retired, history, used>>

\* Mutant: only the old file of a note that moved is removed.
UnwantedMoved(e) == \E n \in desired : n.id = e.id /\ n.path # e.path

\* A stale file is removed if its note is no longer wanted or has moved.
Unwanted(e) == \A n \in desired : n.id = e.id => n.path # e.path

\* Every entry is classified again as if it were not wanted; whatever is not a
\* stale file of ours is preserved and marked.
Retire ==
    /\ pc = "retire" /\ intent = NoIntent /\ todo # {}
    /\ \E e \in NextIn(todo) :
         LET class == Classify(e.id, e.path, {e}, FALSE)
         IN IF class # "stale_generated"
            THEN /\ status' = With(status, e.id, IF class = "unknown_ownership" THEN "edit_conflict" ELSE "human_modified")
                 /\ Settle(e)
            ELSE /\ UNCHANGED status
                 /\ IF Unwanted(e) THEN Intend(e, [op |-> "unlink", path |-> e.path, entry |-> e]) ELSE Settle(e)
    /\ UNCHANGED <<db, granted, disk, pc, project, got, desired, prior, kept, retired, history, used>>

(***************************************************************************)
(* The file operations.                                                    *)
(***************************************************************************)
Finish == intent' = NoIntent /\ looked' = NoIntent

\* os.replace puts the new bytes over whatever is at the path by now.
Replace ==
    /\ intent.op = "write" /\ intent.path \notin temps
    /\ file' = With(file, intent.path, [marker |-> intent.marker, bytes |-> intent.bytes])
    /\ Finish
    /\ UNCHANGED <<db, granted, manifest, temps, pc, project, got, desired, prior, todo, status, kept, retired, history, used>>

\* O_EXCL refuses a temporary file that is there, and the failure removes it.
ReplaceRefused ==
    /\ intent.op = "write" /\ intent.path \in temps
    /\ temps' = temps \ {intent.path}
    /\ Finish
    /\ UNCHANGED <<db, granted, file, manifest, pc, project, got, desired, prior, todo, status, kept, retired, history, used>>

Unlink ==
    /\ intent.op = "unlink"
    /\ file' = Without(file, intent.path)
    /\ retired' = IF intent.path \in DOMAIN file THEN retired \cup {[intent.entry EXCEPT !.status = "retired"]} ELSE retired
    /\ Finish
    /\ UNCHANGED <<db, granted, manifest, temps, pc, project, got, desired, prior, todo, status, kept, history, used>>

\* A write or a removal fails; the run goes on as if it had been done.
OperationFails ==
    /\ intent.op # "none"
    /\ Spend("faults", MaxFaults)
    /\ Finish /\ calm' = FALSE
    /\ UNCHANGED <<db, granted, disk, pc, project, got, desired, prior, todo, status, kept, retired, reads, done>>

Entry(n) ==
    [id |-> n.id, path |-> n.path,
     fp |-> IF n.id \in DOMAIN kept THEN kept[n.id] ELSE n.content,
     status |-> IF n.id \in DOMAIN status THEN status[n.id] ELSE "current"]

NewManifest == {Entry(n) : n \in desired} \cup retired

Stored == pc = "retire" /\ todo = {} /\ intent = NoIntent

StoreManifest ==
    /\ Stored
    /\ manifest' = NewManifest
    /\ done' = desired
    /\ pc' = "idle" /\ desired' = {} /\ prior' = {} /\ retired' = {} /\ status' = <<>> /\ kept' = <<>>
    /\ UNCHANGED <<db, granted, file, temps, project, got, todo, intent, looked, reads, calm, used>>

Stop == /\ pc' = "idle" /\ got' = <<>> /\ desired' = {} /\ prior' = {} /\ todo' = {}
        /\ Finish /\ status' = <<>> /\ kept' = <<>> /\ retired' = {}

StoreFails ==
    /\ Stored
    /\ Spend("faults", MaxFaults)
    /\ Stop /\ calm' = FALSE
    /\ UNCHANGED <<db, granted, disk, project, reads, done>>

\* Death anywhere; during a write it may leave the temporary file.
Crash ==
    /\ pc # "idle"
    /\ Spend("faults", MaxFaults)
    /\ temps' \in {temps} \cup (IF intent.op = "write" THEN {temps \cup {intent.path}} ELSE {})
    /\ Stop /\ calm' = FALSE
    /\ UNCHANGED <<db, granted, file, manifest, project, reads, done>>

Next ==
    \/ \E r \in Records : Change(r)
    \/ HumanEdit \/ HumanDelete \/ HumanDropsManifest
    \/ Start \/ Read \/ Plan \/ Decide \/ StartRetiring \/ Retire
    \/ Replace \/ ReplaceRefused \/ Unlink \/ OperationFails
    \/ StoreManifest \/ StoreFails \/ Crash

Spec == Init /\ [][Next]_vars

(***************************************************************************)
(* Properties.                                                             *)
(***************************************************************************)
TypeOK ==
    /\ \A r \in Records : db[r] \in States[r]
    /\ pc \in {"idle", "read", "reconcile", "retire"}
    /\ \A p \in DOMAIN file : IsHuman(file[p]) \/ file[p].bytes.note = file[p].marker
    /\ \A e, f \in Active(manifest) : e.id = f.id => e = f

\* The projector destroys what a person wrote only if it came between the look
\* at the file and the replacement that the look led to.
HumanBytesSurvive ==
    [][\A p \in DOMAIN file :
         IsHuman(file[p]) /\ (IF p \in DOMAIN file' THEN file'[p] # file[p] ELSE TRUE)
            => \/ used'.human > used.human
               \/ looked.path = p /\ looked.at # {file[p]}]_vars

\* As long as nobody touched the files, nothing failed and no note moved, a
\* finished run leaves exactly its notes on disk, and a manifest that says so:
\* stale files are gone, no update was taken for an edit, no sibling appeared.
SettledVault ==
    calm /\ pc = "idle" /\ used.runs > 0 =>
        /\ DOMAIN file = {n.path : n \in done}
        /\ \A n \in done : file[n.path].bytes = n.content
        /\ {<<e.id, e.path, e.fp>> : e \in Active(manifest)} = {<<n.id, n.path, n.content>> : n \in done}

LinksOf(n) ==
    IF n.id[2] = "charter"
    THEN UNION {UNION {n.content.links[s].rows[r] : r \in DOMAIN n.content.links[s].rows} :
                s \in {"decisions", "requirements", "verifications"}}
    ELSE UNION {n.content.links[r] : r \in DOMAIN n.content.links}

\* What a read of one part gave that a read of the other part gave too.
SameReads == \A t \in {"decision", "requirement", "verification"} :
    <<"home", t>> \in DOMAIN reads => reads[<<"home", t>>] = reads[<<"source", t>>]

Withheld(n) == \E m \in Rendered(project, reads) : m.path = n /\ ShowsSecret(m)

\* Every link leads to a note of the same run, unless that note was withheld
\* for a secret or, from the home note, the records changed between its reads
\* and those of the notes.
LinksResolve ==
    pc \in {"reconcile", "retire"} =>
        \A n \in desired : (n.id[2] = "charter" => SameReads) =>
            \A p \in LinksOf(n) : (\E m \in desired : m.path = p) \/ Withheld(p)

\* A record that the eligibility rules refuse is in no note: neither its text
\* nor, as a link's target, its path.
IneligibleIsNotShown ==
    pc = "reconcile" =>
        \A part \in {"home", "source"}, t \in {"decision", "requirement", "verification"} :
            <<part, t>> \in DOMAIN reads =>
                LET items == reads[<<part, t>>].items
                IN \A r \in DOMAIN items :
                    (items[r].sensitivity = "secret" \/ items[r].lifecycle \in {"raw", "observed", "candidate", "deleted"})
                    => \A n \in desired : (n.id[2] = "charter") = (part = "home") =>
                         /\ items[r].title \notin n.texts
                         /\ NotePath(NoteId(t, t, r, project), TitleOf(r, items[r])) \notin LinksOf(n)

\* A run shows what it may and leads only to what it shows: no ineligible or
\* withheld record is reachable as text, as a path or as a dead link.
NotesAreSound == LinksResolve /\ IneligibleIsNotShown
=============================================================================
