------------------------------ MODULE Capture ------------------------------
(***************************************************************************)
(* The canonical capture store, src/storage/jsonl_capture.py: several      *)
(* processes, each with its own JsonlCaptureStore and its own in-memory    *)
(* index, append events to one JSONL file under one advisory file lock.    *)
(*                                                                         *)
(* The lock makes the critical sections exclusive; the module keeps the    *)
(* steps inside one apart (refresh, admission, write, fsync) because the   *)
(* process or the machine can stop between any two of them, and because a  *)
(* write or an fsync can fail and leave the file ahead of every index.     *)
(*                                                                         *)
(* Data.  A line is a record or Malformed (bytes that do not parse); the   *)
(* byte offset _loaded_size is a number of lines; torn says whether the    *)
(* file ends in the middle of a line.  Threads of one process share its    *)
(* store under an RLock held for the whole of append, so a process stands  *)
(* for all its threads.                                                    *)
(***************************************************************************)
EXTENDS Naturals, Sequences, FiniteSets

CONSTANTS Procs,       \* processes that open a store on the shared file
          EventIds,    \* values of event_id
          Hashes,      \* values of sanitized_content_hash
          NoProc,      \* the lock is free
          NoEvent,     \* a process is not inside append
          NoAnswer,    \* the append now holding the lock has not returned
          Malformed    \* a complete line that is not a valid envelope

\* What a caller hands to append.  admissible is the outcome of
\* validate_envelope and of the secret/never_store and redaction-audit tests.
Event == [event_id : EventIds, content_hash : Hashes, admissible : BOOLEAN]

Record == [sequence : Nat, event_id : EventIds, content_hash : Hashes]

ASSUME CaptureAssumption ==
    /\ NoProc \notin Procs
    /\ NoEvent \notin Event
    /\ Malformed \notin Record

\* AppendResult.
AppendResult == [status : {"appended", "duplicate"}, reason : {"none", "event_id", "content_hash"},
                 event_id : EventIds, content_hash : Hashes, sequence : Nat]

ASSUME NoAnswer \notin AppendResult

VARIABLES
    file,      \* the complete lines of the canonical file, in order
    torn,      \* the file ends in a partial line
    synced,    \* the number of lines fsync has made durable
    lock,      \* holder of the advisory lock on <file>.lock
    pc,        \* where each process is: closed, idle, or a step of append
    request,   \* the event append was called with
    known,     \* _by_id/_by_hash: the records a process has indexed
    loaded,    \* _loaded_size: how much of the file the index covers
    nextSeq,   \* _next_sequence
    answer,    \* history: what the latest append to take the lock returned
    acked      \* history: the records of all receipts that said "appended"

fileVars == <<file, torn, synced>>
storeVars == <<known, loaded, nextSeq>>
history == <<answer, acked>>
vars == <<file, torn, synced, lock, pc, request, known, loaded, nextSeq, answer, acked>>

Steps == {"wait", "refresh", "admit", "write", "fsync"}
Locked == {"refresh", "admit", "write", "fsync"}

-----------------------------------------------------------------------------
(***************************************************************************)
(* Reading and writing lines.                                              *)
(***************************************************************************)

\* The lines after position from, up to position to.
Lines(from, to) == {file[i] : i \in (from + 1) .. to}

\* Both readers reject a partial final line and a line that does not parse.
Readable(from) == ~torn /\ Malformed \notin Lines(from, Len(file))

\* The records a reader has indexed when it returns or raises: none if the last
\* line is partial, else all those before the first line that does not parse.
Parsed(from) ==
    IF torn THEN {}
    ELSE {file[i] : i \in {j \in (from + 1) .. Len(file) : Malformed \notin Lines(from, j)}}

\* max(_next_sequence, sequence + 1) over a set of records.
SequenceAfter(next, records) ==
    CHOOSE n \in {next} \cup {r.sequence + 1 : r \in records} :
        /\ n >= next
        /\ \A r \in records : n >= r.sequence + 1

\* An O_APPEND write of one line.  After a partial line the new bytes join it,
\* and what results is one complete line that is not an envelope.
AppendLine(r) == file' = Append(file, IF torn THEN Malformed ELSE r) /\ torn' = FALSE

-----------------------------------------------------------------------------
Init ==
    /\ file = <<>> /\ torn = FALSE /\ synced = 0
    /\ lock = NoProc
    /\ pc = [p \in Procs |-> "closed"]
    /\ request = [p \in Procs |-> NoEvent]
    /\ known = [p \in Procs |-> {}]
    /\ loaded = [p \in Procs |-> 0]
    /\ nextSeq = [p \in Procs |-> 0]
    /\ answer = NoAnswer /\ acked = {}

\* A store leaves append, by return or by exception.
Leave(p) ==
    /\ pc' = [pc EXCEPT ![p] = "idle"]
    /\ request' = [request EXCEPT ![p] = NoEvent]
    /\ lock' = IF lock = p THEN NoProc ELSE lock

\* append returns an AppendResult.
Answer(p, status, reason, sequence) ==
    answer' = [status |-> status, reason |-> reason, event_id |-> request[p].event_id,
               content_hash |-> request[p].content_hash, sequence |-> sequence]

\* The constructor loads the whole file under the lock; it raises, and there is
\* no store, when the file is not readable.
Open(p) ==
    /\ pc[p] = "closed"
    /\ lock = NoProc
    /\ Readable(0)
    /\ known' = [known EXCEPT ![p] = Parsed(0)]
    /\ nextSeq' = [nextSeq EXCEPT ![p] = SequenceAfter(0, Parsed(0))]
    /\ loaded' = [loaded EXCEPT ![p] = Len(file)]
    /\ pc' = [pc EXCEPT ![p] = "idle"]
    /\ UNCHANGED <<fileVars, lock, request, history>>

Call(p, e) ==
    /\ pc[p] = "idle"
    /\ pc' = [pc EXCEPT ![p] = "wait"]
    /\ request' = [request EXCEPT ![p] = e]
    /\ UNCHANGED <<fileVars, storeVars, lock, history>>

\* Mutant: the lock is taken in shared mode.
AcquireShared(p) ==
    /\ pc[p] = "wait"
    /\ lock' = p
    /\ pc' = [pc EXCEPT ![p] = "refresh"]
    /\ answer' = NoAnswer
    /\ UNCHANGED <<fileVars, storeVars, request, acked>>

Acquire(p) ==
    /\ pc[p] = "wait"
    /\ lock = NoProc
    /\ lock' = p
    /\ pc' = [pc EXCEPT ![p] = "refresh"]
    /\ answer' = NoAnswer
    /\ UNCHANGED <<fileVars, storeVars, request, acked>>

\* The flock poll gives up after its deadline while another process holds it.
LockTimeout(p) ==
    /\ pc[p] = "wait"
    /\ lock # NoProc
    /\ Leave(p)
    /\ UNCHANGED <<fileVars, storeVars, history>>

\* _refresh.  A file shorter than the index covers is loaded anew; otherwise
\* the lines past the index are added.  An unreadable tail raises: the lines
\* before the bad one are indexed by then, but the offset has not moved.
Refresh(p) ==
    /\ pc[p] = "refresh"
    /\ LET shrunk == Len(file) < loaded[p]
           from   == IF shrunk THEN 0 ELSE loaded[p]
       IN  /\ known' = [known EXCEPT ![p] = (IF shrunk THEN {} ELSE @) \cup Parsed(from)]
           /\ nextSeq' = [nextSeq EXCEPT ![p] =
                              SequenceAfter(IF shrunk THEN 0 ELSE @, Parsed(from))]
           /\ \/ /\ Readable(from)
                 /\ loaded' = [loaded EXCEPT ![p] = Len(file)]
                 /\ pc' = [pc EXCEPT ![p] = "admit"]
                 /\ UNCHANGED <<lock, request>>
              \/ /\ ~Readable(from)
                 /\ Leave(p)
                 /\ UNCHANGED loaded
    /\ UNCHANGED <<fileVars, history>>

\* The policy tests, then the duplicate tests: event_id first, then content.
RejectByPolicy(p) ==
    /\ pc[p] = "admit"
    /\ ~request[p].admissible
    /\ Leave(p)
    /\ UNCHANGED <<fileVars, storeVars, history>>

SameId(p) == {r \in known[p] : r.event_id = request[p].event_id}
SameHash(p) == {r \in known[p] : r.content_hash = request[p].content_hash}

DuplicateEvent(p) ==
    /\ pc[p] = "admit"
    /\ request[p].admissible
    /\ \E r \in SameId(p) : Answer(p, "duplicate", "event_id", r.sequence)
    /\ Leave(p)
    /\ UNCHANGED <<fileVars, storeVars, acked>>

DuplicateContent(p) ==
    /\ pc[p] = "admit"
    /\ request[p].admissible
    /\ SameId(p) = {}
    /\ \E r \in SameHash(p) : Answer(p, "duplicate", "content_hash", r.sequence)
    /\ Leave(p)
    /\ UNCHANGED <<fileVars, storeVars, acked>>

Admit(p) ==
    /\ pc[p] = "admit"
    /\ request[p].admissible
    /\ SameId(p) = {} /\ SameHash(p) = {}
    /\ pc' = [pc EXCEPT ![p] = "write"]
    /\ UNCHANGED <<fileVars, storeVars, lock, request, history>>

NewRecord(p) == [sequence |-> nextSeq[p], event_id |-> request[p].event_id,
                 content_hash |-> request[p].content_hash]

Write(p) ==
    /\ pc[p] = "write"
    /\ AppendLine(NewRecord(p))
    /\ pc' = [pc EXCEPT ![p] = "fsync"]
    /\ UNCHANGED <<synced, storeVars, lock, request, history>>

\* Mutant: a failed write leaves the lock behind.
WriteFailsKeepsLock(p) ==
    /\ pc[p] = "write"
    /\ pc' = [pc EXCEPT ![p] = "idle"]
    /\ request' = [request EXCEPT ![p] = NoEvent]
    /\ UNCHANGED <<fileVars, lock, storeVars, history>>

\* Mutant: a failed write is cut off again together with the line before it.
WriteFailsCutsBack(p) ==
    /\ pc[p] = "write"
    /\ file' = SubSeq(file, 1, Len(file) - 1)
    /\ Leave(p)
    /\ UNCHANGED <<torn, synced, storeVars, history>>

\* write_all stops with an error, after none or some of the bytes.
WriteFails(p) ==
    /\ pc[p] = "write"
    /\ \/ torn' = TRUE
       \/ UNCHANGED torn
    /\ Leave(p)
    /\ UNCHANGED <<file, synced, storeVars, history>>

\* Mutant: the append is acknowledged without an fsync.
FsyncSkipped(p) ==
    /\ pc[p] = "fsync"
    /\ known' = [known EXCEPT ![p] = @ \cup {NewRecord(p)}]
    /\ nextSeq' = [nextSeq EXCEPT ![p] = @ + 1]
    /\ loaded' = [loaded EXCEPT ![p] = @ + 1]
    /\ Answer(p, "appended", "none", nextSeq[p])
    /\ acked' = acked \cup {NewRecord(p)}
    /\ Leave(p)
    /\ UNCHANGED fileVars

\* fsync returns: everything in the file is durable, and the index follows.
Fsync(p) ==
    /\ pc[p] = "fsync"
    /\ synced' = Len(file)
    /\ known' = [known EXCEPT ![p] = @ \cup {NewRecord(p)}]
    /\ nextSeq' = [nextSeq EXCEPT ![p] = @ + 1]
    /\ loaded' = [loaded EXCEPT ![p] = @ + 1]
    /\ Answer(p, "appended", "none", nextSeq[p])
    /\ acked' = acked \cup {NewRecord(p)}
    /\ Leave(p)
    /\ UNCHANGED <<file, torn>>

\* Mutant: a failed fsync still uses up the sequence number.
FsyncFailsAdvances(p) ==
    /\ pc[p] = "fsync"
    /\ nextSeq' = [nextSeq EXCEPT ![p] = @ + 1]
    /\ Leave(p)
    /\ UNCHANGED <<fileVars, known, loaded, history>>

\* fsync (or the close after it) raises: append_failed, the index untouched.
FsyncFails(p) ==
    /\ pc[p] = "fsync"
    /\ Leave(p)
    /\ UNCHANGED <<fileVars, storeVars, history>>

\* The process ends at any point, by close or by being killed, and the kernel
\* drops its lock.  Killed inside write_all, it may leave part of a line.
Exit(p) ==
    /\ pc[p] # "closed"
    /\ pc' = [pc EXCEPT ![p] = "closed"]
    /\ request' = [request EXCEPT ![p] = NoEvent]
    /\ lock' = IF lock = p THEN NoProc ELSE lock
    /\ known' = [known EXCEPT ![p] = {}]
    /\ loaded' = [loaded EXCEPT ![p] = 0]
    /\ nextSeq' = [nextSeq EXCEPT ![p] = 0]
    /\ \/ pc[p] = "write" /\ torn' = TRUE
       \/ UNCHANGED torn
    /\ UNCHANGED <<file, synced, history>>

\* The machine stops: every process ends, and of the lines no fsync covered
\* any number is lost, the first lost one possibly in part.
PowerLoss ==
    /\ \E n \in synced .. Len(file) :
           /\ file' = SubSeq(file, 1, n)
           /\ torn' \in IF n < Len(file) \/ torn THEN BOOLEAN ELSE {FALSE}
    /\ lock' = NoProc
    /\ pc' = [p \in Procs |-> "closed"]
    /\ request' = [p \in Procs |-> NoEvent]
    /\ known' = [p \in Procs |-> {}]
    /\ loaded' = [p \in Procs |-> 0]
    /\ nextSeq' = [p \in Procs |-> 0]
    /\ UNCHANGED <<synced, history>>

ProcessStep(p) ==
    \/ Acquire(p) \/ LockTimeout(p) \/ Refresh(p)
    \/ RejectByPolicy(p) \/ DuplicateEvent(p) \/ DuplicateContent(p) \/ Admit(p)
    \/ Write(p) \/ WriteFails(p) \/ Fsync(p) \/ FsyncFails(p)

Next ==
    \/ \E p \in Procs :
           \/ Open(p)
           \/ \E e \in Event : Call(p, e)
           \/ ProcessStep(p)
           \/ Exit(p)
    \/ PowerLoss

Spec == Init /\ [][Next]_vars

\* A process that is inside append goes on with it, unless it ends: the calls
\* it makes return or raise, and the lock poll has a deadline.
Fairness == \A p \in Procs : WF_vars(ProcessStep(p))

FairSpec == Spec /\ Fairness

-----------------------------------------------------------------------------
(***************************************************************************)
(* Properties.                                                             *)
(***************************************************************************)

TypeOK ==
    /\ file \in Seq(Record \cup {Malformed})
    /\ torn \in BOOLEAN
    /\ synced \in Nat
    /\ lock \in Procs \cup {NoProc}
    /\ pc \in [Procs -> Steps \cup {"closed", "idle"}]
    /\ request \in [Procs -> Event \cup {NoEvent}]
    /\ known \in [Procs -> SUBSET Record]
    /\ loaded \in [Procs -> Nat]
    /\ nextSeq \in [Procs -> Nat]
    /\ answer \in AppendResult \cup {NoAnswer}
    /\ acked \in SUBSET Record

\* However appends, failed writes, failed fsyncs, kills and power losses
\* interleave, the canonical file is a gapless numbered log: every complete
\* line parses, line i carries sequence i-1, and no event_id and no content
\* hash occurs twice (the duplicate tests and _next_sequence of
\* _append_locked, which trust an index other processes make stale).
LogWellFormed ==
    /\ \A i \in DOMAIN file : file[i] # Malformed /\ file[i].sequence = i - 1
    /\ \A i, j \in DOMAIN file :
           file[i].event_id = file[j].event_id \/ file[i].content_hash = file[j].content_hash
               => i = j

\* The index of an open store is the prefix of the file its offset names, and
\* the sequence it would give next is the length of that prefix: a failed
\* write or fsync, which leaves the file ahead of the index, never makes the
\* two disagree (the in-memory updates that follow the fsync).
IndexIsPrefix ==
    \A p \in Procs :
        /\ loaded[p] <= Len(file)
        /\ known[p] = Lines(0, loaded[p])
        /\ nextSeq[p] = loaded[p]

\* A record whose append was acknowledged survives every later crash, power
\* loss and torn write of any process (the fsync before the receipt).
AcknowledgedIsDurable ==
    /\ synced <= Len(file)
    /\ \A r \in acked : r.sequence < synced /\ file[r.sequence + 1] = r

\* The file, the indexes of all stores and what was acknowledged of it agree:
\* a stale index, a torn write or a crash between the two fsyncs of different
\* processes can set any of the three apart.
LogIsSound == LogWellFormed /\ IndexIsPrefix /\ AcknowledgedIsDurable

\* A receipt, while its append still has the lock's latest turn, names a line of
\* the file that has the identity it is about, whichever process wrote it.
ReceiptNamesItsRecord ==
    [][answer' \notin {answer, NoAnswer} =>
           /\ answer'.sequence < Len(file)
           /\ LET line == file[answer'.sequence + 1]
              IN  /\ line.sequence = answer'.sequence
                  /\ answer'.reason # "content_hash" => line.event_id = answer'.event_id
                  /\ answer'.reason # "event_id" => line.content_hash = answer'.content_hash]_vars

\* What AppendResult.canonical_durable says of every receipt: the append or the
\* duplicate refers to durable canonical state.  The code does not keep it: the
\* retry of an append whose fsync failed is answered as a duplicate.
EveryReceiptIsDurable ==
    [][answer' \notin {answer, NoAnswer} => answer'.sequence < synced']_vars

\* The lock on the canonical file, which every reader and every rebuild also
\* takes, does not stay with a store for ever, whatever fails inside append.
LockIsReleased == \A p \in Procs : lock = p ~> lock # p

\* The store implements the log its users rely on.
Abstract == INSTANCE CanonicalLog WITH log <- file

ImplementsCanonicalLog == Abstract!Spec
=============================================================================
